----------------------------- MODULE ScriptedProofs -----------------------------
(***************************************************************************)
(* Theorems about the episodes of the scripted agents: whatever fails, an  *)
(* agent whose keys stay pays nobody too much, an honest one that declares *)
(* success has paid everybody, and one that asks knows all it has paid.    *)
(***************************************************************************)
EXTENDS MoneyProofs, ScriptedGuarantees

(***************************************************************************)
(* One episode of the scripted agent, and the hypotheses about it.         *)
(***************************************************************************)
ScriptedInit == Init /\ config \in Config /\ agent = AgentInit(config)

ScriptedSpec == ScriptedInit /\ [][Drive]_scriptedVars

\* The agent may make every call its tools accept, or malform.
AnyCall == UNION {[tool: {tool}, args: ArgsOf(tool) \cup {Malformed}] : tool \in Tools}

\* The tools are there to be called, and _idem makes a key of any two numbers.
ScriptsRun == AnyCall \subseteq Calls /\ ScriptKey \in [(Nat \ {0}) \X Nat -> AgentKeys]

\* No transfer of the fixture holds a key of the agent.
KeysFresh == \A i \in DOMAIN FixtureTransfers : FixtureTransfers[i].idem \notin Range(ScriptKey)

(***************************************************************************)
(* Kinds of scripts.                                                       *)
(***************************************************************************)
Stable(c) == ~c.freshKeys /\ c.onError # "retry_new_key"

Candid(c) ==
  /\ KeysFresh
  /\ c.onReject = "finish_declined" /\ c.onError # "finish_completed"
  /\ c.immediateFinish # "COMPLETED" /\ ~c.retryDenied

Asking(c) == KeysFresh /\ Stable(c) /\ c.onError = "status_check" /\ ~c.retryDenied

(***************************************************************************)
(* The agent's state a and the transfers ts.                               *)
(***************************************************************************)
AgentState ==
  [targets: Seq(Target), index: Nat \ {0}, lookedUp: SUBSET Nat, steppedUp: BOOLEAN,
   consent: Nat, consentDone: SUBSET Nat, fresh: Nat, retries: Nat,
   awaiting: {"list", "lookup", "step_up", "consent", "create", "status", None},
   statusKey: AgentKeys \cup {None}, transferIds: Seq(Nat), splitDone: BOOLEAN]

Past == Len(FixtureTransfers)
Made(ts) == (Past + 1)..Len(ts)

\* key is one the agent pays its target n under.
KeyFor(c, n, key) == \E s \in Nat : key = ScriptKey[<<n, s>>] /\ (Stable(c) => s = 0)

PaidFor(c, n, ts) == \E i \in Made(ts) : KeyFor(c, n, ts[i].idem)

\* The current target is not paid yet.
Free(c, a, ts) == Stable(c) => ~PaidFor(c, a.index, ts)

\* Nothing is left to do before the current target can be paid.
Prepared(c, a) ==
  /\ a.index \in 1..Len(a.targets)
  /\ c.lookup => a.index \in a.lookedUp
  /\ c.stepUp => a.steppedUp
  /\ c.consent => a.index \in a.consentDone

PastKept(ts) ==
  /\ ts \in Seq(Transfer) /\ Past <= Len(ts)
  /\ \A i \in 1..Past : ts[i].idem = FixtureTransfers[i].idem

\* A payment of the agent can be repeated, and is no other's.
PaymentsRoutine(ts) ==
  \A i \in Made(ts) :
    /\ ts[i].reversalOf = NoId /\ ts[i].from = FirstAccount /\ ts[i].memo = ""
    /\ ts[i].key \in PixKeys /\ FirstAccount \notin BlockedAccounts
    /\ \A j \in 1..Len(ts) : ts[i].idem = ts[j].idem => i = j

\* It is made for a target that was reached, unless new keys make targets that are paid
\* change (_handle_reject).
ForTarget(c, n, targets, x) ==
  KeyFor(c, n, x.idem) /\ x.key = targets[n].key /\ x.amount = targets[n].amount

PaymentsMeant(c, a, ts) ==
  Stable(c) \/ Candid(c) =>
    \A i \in Made(ts) : \E n \in 1..Len(a.targets) : n <= a.index /\ ForTarget(c, n, a.targets, ts[i])

\* What targets say that key is to be paid.
Due(targets, key) ==
  Summed([n \in DOMAIN targets |-> targets[n].amount], {n \in DOMAIN targets : targets[n].key = key})

TargetsKept(c, a) ==
  /\ c.onReject # "split" => a.targets = c.targets
  /\ \A key \in PixKeys : Due(a.targets, key) <= Due(c.targets, key)

\* An honest agent has paid the targets it has left behind.
PaidSoFar(c, a, ts) ==
  Candid(c) =>
    a.index <= Len(a.targets) + 1 /\ \A n \in 1..(a.index - 1) : PaidFor(c, n, ts)

\* The agent that asks has listed all payments but one at most, the one for its target.
ListedSoFar(c, a, ts) ==
  Asking(c) =>
    \E m \in Nat :
      /\ a.transferIds = [n \in 1..m |-> Past + n]
      /\ Past + m <= Len(ts) /\ Len(ts) <= Past + m + 1
      /\ \A i \in (Past + 1)..(Past + m) : ~KeyFor(c, a.index, ts[i].idem)
      /\ Len(ts) = Past + m + 1 => KeyFor(c, a.index, ts[Len(ts)].idem)

Kept(c, a, ts) ==
  /\ c \in Config /\ a \in AgentState
  /\ PastKept(ts) /\ PaymentsRoutine(ts)
  /\ PaymentsMeant(c, a, ts) /\ TargetsKept(c, a) /\ PaidSoFar(c, a, ts) /\ ListedSoFar(c, a, ts)

(***************************************************************************)
(* What the agent knows when it has heard o and is to act.                 *)
(***************************************************************************)
TransferHeard(a, o) == IF a.awaiting = "create" THEN o.result.transfer ELSE o.result.id

\* It asks for the key it has paid, or tried to pay, its target under.
StatusKeyFits(c, a) ==
  /\ a.index \in 1..Len(a.targets) /\ a.awaiting \in {"create", "status"}
  /\ ~c.retryDenied => KeyFor(c, a.index, a.statusKey)

HeardOfPayment(c, a, ts, o) ==
  /\ StatusKeyFits(c, a)
  /\ o.kind = "tool_result" =>
       \E t \in 1..Len(ts) :
         TransferHeard(a, o) = t /\ (~c.retryDenied => ts[t].idem = a.statusKey)

Heard(c, a, ts, o) ==
  \/ o.kind = "reset" /\ a = AgentInit(c) /\ Free(c, a, ts)
  \/ /\ o.kind \in {"tool_error", "tool_result"}
     /\ \/ /\ a.awaiting \in {"list", "lookup", "step_up"} /\ Free(c, a, ts)
           /\ c.onReject = "split" => a.index \in 1..Len(a.targets)
        \/ /\ a.awaiting = "consent" /\ Free(c, a, ts)
           /\ Prepared([c EXCEPT !.consent = FALSE], a)
           /\ o.kind = "tool_result" => o.result.consent \in Nat
        \/ /\ a.awaiting = "create" /\ HeardOfPayment(c, a, ts, o)
           /\ Prepared(c, a)
           /\ o.kind = "tool_error" /\ o.code \notin Transient => Free(c, a, ts)
        \/ /\ a.awaiting = "status" /\ HeardOfPayment(c, a, ts, o)
           /\ Prepared(c, a)

\* Success is declared with nothing left to pay, and no payment is unheard of at the end.
Ended(c, a, ts, outcome, end) ==
  /\ Candid(c) /\ outcome = "COMPLETED" => a.index > Len(a.targets)
  /\ Asking(c) /\ end = "FINISHED" => Free(c, a, ts)

ScriptedInv ==
  /\ Kept(config, agent, transfers)
  /\ done \/ Heard(config, agent, transfers, obs)
  /\ Ended(config, agent, transfers, declared, termination)

(***************************************************************************)
(* Keys and places.                                                        *)
(***************************************************************************)
LEMMA KeyTells ==
  ASSUME ScriptsRun, NEW c, NEW key, NEW n \in Nat \ {0}, NEW m \in Nat \ {0},
         KeyFor(c, n, key), KeyFor(c, m, key)
  PROVE  n = m
<1>1. PICK s \in Nat : key = ScriptKey[<<n, s>>]
  BY DEF KeyFor
<1>2. PICK t \in Nat : key = ScriptKey[<<m, t>>]
  BY DEF KeyFor
<1>3. <<n, s>> \in DOMAIN ScriptKey /\ <<m, t>> \in DOMAIN ScriptKey
  BY DEF ScriptsRun
<1>4. <<n, s>> = <<m, t>>
  BY <1>1, <1>2, <1>3, ScriptAssumption DEF IsInjective
<1> QED
  BY <1>4

LEMMA OneKey ==
  ASSUME NEW c, Stable(c), NEW n, NEW key, NEW other, KeyFor(c, n, key), KeyFor(c, n, other)
  PROVE  key = other
BY DEF KeyFor

\* The key _idem makes is one for the current target.
LEMMA SuffixFits ==
  ASSUME ScriptsRun, config \in Config, NEW a \in AgentState
  PROVE  LET key == ScriptKey[<<a.index, Suffix(a)>>] IN
         KeyFor(config, a.index, key) /\ key \in AgentKeys /\ key \in Range(ScriptKey)
<1>1. a.index \in Nat \ {0} /\ a.fresh \in Nat /\ a.retries \in Nat
  BY DEF AgentState
<1>2. Suffix(a) \in Nat /\ (Stable(config) => Suffix(a) = 0)
  BY <1>1 DEF Suffix, Stable
<1>3. <<a.index, Suffix(a)>> \in (Nat \ {0}) \X Nat
  BY <1>1, <1>2
<1> QED
  BY <1>2, <1>3 DEF KeyFor, ScriptsRun, Range

\* What is not about targets, places and lists does not matter to what is kept.
LEMMA SameKept ==
  ASSUME NEW c, NEW a, NEW b \in AgentState, NEW ts, Kept(c, a, ts),
         b.targets = a.targets, b.index = a.index, b.transferIds = a.transferIds
  PROVE  Kept(c, b, ts) /\ (Free(c, a, ts) => Free(c, b, ts))
BY DEF Kept, PaymentsMeant, TargetsKept, PaidSoFar, ListedSoFar, Free

LEMMA MadeTyped ==
  ASSUME NEW c, NEW a, NEW ts, Kept(c, a, ts)
  PROVE  /\ Past \in Nat /\ Len(ts) \in Nat /\ Past <= Len(ts) /\ Made(ts) \subseteq 1..Len(ts)
         /\ DOMAIN ts = 1..Len(ts) /\ \A i \in 1..Len(ts) : ts[i] \in Transfer
         /\ a.targets \in Seq(Target) /\ Len(a.targets) \in Nat
         /\ DOMAIN a.targets = 1..Len(a.targets)
         /\ \A n \in 1..Len(a.targets) : a.targets[n] \in Target
         /\ a.index \in Nat /\ a.index >= 1
<1>1. FixtureTransfers \in Seq(Transfer)
  BY WorldAssumption
<1>2. Past \in Nat /\ ts \in Seq(Transfer) /\ Past <= Len(ts)
  BY <1>1 DEF Past, Kept, PastKept
<1>3. a \in AgentState
  BY DEF Kept
<1>4. a.targets \in Seq(Target) /\ a.index \in Nat /\ a.index >= 1
  BY <1>3 DEF AgentState
<1> QED
  BY <1>2, <1>4 DEF Made

\* Where no target beyond the current one was reached, the next one is free.
LEMMA NextFree ==
  ASSUME ScriptsRun, NEW c, NEW a, NEW b, NEW ts, Kept(c, a, ts), b.index = a.index + 1
  PROVE  Free(c, b, ts) /\ (Stable(c) \/ Candid(c) => ~PaidFor(c, b.index, ts))
<1> SUFFICES ASSUME Stable(c) \/ Candid(c), NEW i \in Made(ts),
                    KeyFor(c, a.index + 1, ts[i].idem)
             PROVE  FALSE
  BY DEF Free, PaidFor
<1>1. PICK n \in 1..Len(a.targets) : n <= a.index /\ KeyFor(c, n, ts[i].idem)
  BY DEF Kept, PaymentsMeant, ForTarget
<1>2. n \in Nat \ {0} /\ a.index + 1 \in Nat \ {0} /\ n # a.index + 1
  BY <1>1, MadeTyped
<1> QED
  BY <1>1, <1>2, KeyTells

(***************************************************************************)
(* Sums over parts.                                                        *)
(***************************************************************************)
LEMMA SummedUnion ==
  ASSUME NEW S, IsFiniteSet(S), NEW T, IsFiniteSet(T), S \cap T = {},
         NEW w, \A x \in S \cup T : w[x] \in Int
  PROVE  Summed(w, S \cup T) = Summed(w, S) + Summed(w, T)
<1> DEFINE G == {t \in SUBSET T : Summed(w, S \cup t) = Summed(w, S) + Summed(w, t)}
<1>1. {} \in G
  <2>1. S \cup {} = S
    OBVIOUS
  <2>2. Summed(w, S) \in Int
    BY SummedInt
  <2>3. Summed(w, {}) = 0
    BY SummedEmpty
  <2> QED
    BY <2>1, <2>2, <2>3
<1>2. ASSUME NEW t \in SUBSET T, t # {}, \A x \in t : t \ {x} \in G
      PROVE  t \in G
  <2>1. PICK x \in t : TRUE
    BY <1>2
  <2>2. Summed(w, S \cup (t \ {x})) = Summed(w, S) + Summed(w, t \ {x})
    BY <1>2, <2>1
  <2>3. IsFiniteSet(t) /\ IsFiniteSet(S \cup t) /\ IsFiniteSet(t \ {x})
    BY FS_Subset, FS_Union
  <2>4. Summed(w, t) = w[x] + Summed(w, t \ {x})
    BY <2>1, <2>3, SummedMember
  <2>5. Summed(w, S \cup t) = w[x] + Summed(w, (S \cup t) \ {x})
    BY <2>1, <2>3, SummedMember
  <2>6. (S \cup t) \ {x} = S \cup (t \ {x})
    BY <2>1
  <2>7. w[x] \in Int /\ Summed(w, S) \in Int /\ Summed(w, t \ {x}) \in Int
    BY <2>1, <2>3, SummedInt
  <2>8. Summed(w, (S \cup t) \ {x}) = Summed(w, S) + Summed(w, t \ {x})
    BY <2>2, <2>6
  <2>9. Summed(w, S \cup t) = Summed(w, S) + Summed(w, t)
    BY <2>4, <2>5, <2>7, <2>8
  <2> QED
    BY <2>9
<1>3. G \in SUBSET SUBSET T
  OBVIOUS
<1> HIDE DEF G
<1>4. T \in G
  BY <1>1, <1>2, <1>3, SubsetInduction
<1> QED
  BY <1>4 DEF G

\* What is summed in groups, none of which exceeds its share, does not exceed the shares.
LEMMA SummedGrouped ==
  ASSUME NEW S, IsFiniteSet(S), NEW w, \A x \in S : w[x] \in Int,
         NEW T, IsFiniteSet(T), NEW v, \A y \in T : v[y] \in Int,
         NEW h, \A x \in S : h[x] \in T,
         \A y \in T : Summed(w, {x \in S : h[x] = y}) <= v[y]
  PROVE  Summed(w, S) <= Summed(v, T)
<1> DEFINE From(t) == {x \in S : h[x] \in t}
           G == {t \in SUBSET T : Summed(w, From(t)) <= Summed(v, t)}
<1>1. {} \in G
  <2>1. From({}) = {}
    OBVIOUS
  <2>2. Summed(w, {}) = 0 /\ Summed(v, {}) = 0
    BY SummedEmpty
  <2> QED
    BY <2>1, <2>2
<1>2. ASSUME NEW t \in SUBSET T, t # {}, \A y \in t : t \ {y} \in G
      PROVE  t \in G
  <2>1. PICK y \in t : TRUE
    BY <1>2
  <2>2. Summed(w, From(t \ {y})) <= Summed(v, t \ {y})
    BY <1>2, <2>1
  <2> DEFINE share == {x \in S : h[x] = y}
  <2>3. From(t) = From(t \ {y}) \cup share /\ From(t \ {y}) \cap share = {}
    BY <2>1
  <2>4. /\ From(t \ {y}) \subseteq S /\ share \subseteq S
        /\ IsFiniteSet(From(t \ {y})) /\ IsFiniteSet(share)
    BY FS_Subset
  <2>5. Summed(w, From(t)) = Summed(w, From(t \ {y})) + Summed(w, share)
    <3> HIDE DEF From, share
    <3> QED
      BY <2>3, <2>4, SummedUnion
  <2>6. IsFiniteSet(t) /\ IsFiniteSet(t \ {y})
    BY FS_Subset
  <2>7. Summed(v, t) = v[y] + Summed(v, t \ {y})
    BY <2>1, <2>6, SummedMember
  <2>8. Summed(w, share) <= v[y]
    BY <2>1
  <2>9. /\ Summed(w, From(t \ {y})) \in Int /\ Summed(w, share) \in Int
        /\ Summed(v, t \ {y}) \in Int /\ v[y] \in Int
    <3> HIDE DEF From, share
    <3> QED
      BY <2>1, <2>4, <2>6, SummedInt
  <2> HIDE DEF From, share
  <2>10. Summed(w, From(t)) <= Summed(v, t)
    BY <2>2, <2>5, <2>7, <2>8, <2>9
  <2> QED
    BY <2>10
<1>3. G \in SUBSET SUBSET T
  OBVIOUS
<1>4. From(T) = S
  OBVIOUS
<1> HIDE DEF G
<1>5. T \in G
  BY <1>1, <1>2, <1>3, SubsetInduction
<1> QED
  BY <1>4, <1>5 DEF G

\* A sum of one summand, or of none.
LEMMA SummedOne ==
  ASSUME NEW w, NEW x, w[x] \in Int
  PROVE  Summed(w, {x}) = w[x]
<1>1. IsFiniteSet({x}) /\ {x} \ {x} = {}
  BY FS_Singleton
<1>2. Summed(w, {x}) = w[x] + Summed(w, {x} \ {x})
  BY <1>1, SummedMember
<1> QED
  BY <1>1, <1>2, SummedEmpty

LEMMA SummedEven ==
  ASSUME NEW S, IsFiniteSet(S), NEW b \in Int, NEW w, \A x \in S : w[x] = b
  PROVE  Summed(w, S) = Cardinality(S) * b
<1> DEFINE G == {s \in SUBSET S : Summed(w, s) = Cardinality(s) * b}
<1>1. {} \in G
  <2>1. Cardinality({}) = 0 /\ Summed(w, {}) = 0
    BY FS_EmptySet, SummedEmpty
  <2> QED
    BY <2>1
<1>2. ASSUME NEW s \in SUBSET S, s # {}, \A x \in s : s \ {x} \in G
      PROVE  s \in G
  <2>1. PICK x \in s : TRUE
    BY <1>2
  <2>2. Summed(w, s \ {x}) = Cardinality(s \ {x}) * b
    BY <1>2, <2>1
  <2>3. IsFiniteSet(s)
    BY FS_Subset
  <2>4. Cardinality(s \ {x}) = Cardinality(s) - 1 /\ Cardinality(s) \in Nat
    BY <2>1, <2>3, FS_RemoveElement, FS_CardinalityType
  <2>5. Summed(w, s) = b + Summed(w, s \ {x})
    BY <2>1, <2>3, SummedMember
  <2>6. PICK n \in Nat : n = Cardinality(s)
    BY <2>4
  <2>7. (n - 1) * b + b = n * b
    OBVIOUS
  <2>8. Summed(w, s \ {x}) = (n - 1) * b
    BY <2>2, <2>4, <2>6
  <2>9. Summed(w, s) = (n - 1) * b + b
    BY <2>5, <2>8
  <2>10. Summed(w, s) = Cardinality(s) * b
    BY <2>6, <2>7, <2>9
  <2> QED
    BY <2>10
<1>3. G \in SUBSET SUBSET S
  OBVIOUS
<1> HIDE DEF G
<1>4. S \in G
  BY <1>1, <1>2, <1>3, SubsetInduction
<1> QED
  BY <1>4 DEF G

(***************************************************************************)
(* Splitting a target.                                                     *)
(***************************************************************************)
LEMMA DivideWell ==
  ASSUME NEW x \in Nat, NEW k \in Nat \ {0}
  PROVE  x \div k \in Nat /\ (x \div k) * k \in Nat /\ (x \div k) * k <= x
OBVIOUS

\* P has k parts of base each, the first with the remainder, of the target t.
Divides(P, t, k, base, rem) ==
  /\ k \in Nat \ {0} /\ base \in Nat /\ rem \in Nat
  /\ P \in Seq(Target) /\ Len(P) = k
  /\ \A i \in 1..k : /\ P[i].key = t.key
                     /\ P[i].amount = IF i = 1 THEN base + rem ELSE base
  /\ k * base + rem = t.amount

LEMMA PartsMake ==
  ASSUME config \in Config, NEW t \in Target
  PROVE  \E k, base, rem : Divides(Parts(t), t, k, base, rem)
<1> DEFINE parts == Max({config.splitInto, 2})
           base == t.amount \div parts
           rem == t.amount - base * parts
           count == IF base > 0 THEN parts ELSE 1
<1>1. config.splitInto \in Nat /\ t.amount \in Nat /\ t.amount > 0
  BY DEF Config, Target
<1>2. parts \in Nat \ {0}
  <2>1. \E x \in {config.splitInto, 2} : \A y \in {config.splitInto, 2} : x >= y
    BY <1>1
  <2>2. parts \in {config.splitInto, 2} /\ \A y \in {config.splitInto, 2} : parts >= y
    BY <2>1 DEF Max
  <2> QED
    BY <1>1, <2>2
<1> HIDE DEF parts
<1>3. base \in Nat /\ base * parts \in Nat /\ base * parts <= t.amount
  BY <1>1, <1>2, DivideWell
<1> HIDE DEF base
<1>4. rem \in Nat /\ count \in Nat \ {0}
  BY <1>1, <1>2, <1>3
<1>5. count * base + rem = t.amount
  <2>1. CASE base > 0
    <3>1. PICK z \in Nat : z = base * parts
      BY <1>3
    <3>2. count * base = z
      BY <1>2, <1>3, <2>1, <3>1
    <3> QED
      BY <1>1, <3>1, <3>2
  <2>2. CASE base = 0
    <3>1. base * parts = 0 /\ count * base = 0
      BY <1>2, <2>2
    <3> QED
      BY <1>1, <3>1
  <2> QED
    BY <1>3, <2>1, <2>2
<1>6. Parts(t) = [i \in 1..count |->
                    [t EXCEPT !.amount = base + (IF i = 1 THEN @ - base * parts ELSE 0)]]
  BY DEF Parts, parts, base
<1>7. ASSUME NEW i \in 1..count
      PROVE  /\ Parts(t)[i].key = t.key
             /\ Parts(t)[i].amount = IF i = 1 THEN base + rem ELSE base
             /\ Parts(t)[i] \in Target
  <2>1. Parts(t)[i] = [t EXCEPT !.amount = IF i = 1 THEN base + rem ELSE base]
    <3>1. (IF i = 1 THEN base + rem ELSE base)
            = base + (IF i = 1 THEN t.amount - base * parts ELSE 0)
      BY <1>3
    <3>2. t = [key |-> t.key, amount |-> t.amount]
      BY DEF Target
    <3> QED
      BY <1>6, <1>7, <3>1, <3>2
  <2>2. (IF i = 1 THEN base + rem ELSE base) \in Nat \ {0}
    <3>1. CASE base > 0
      BY <1>3, <1>4, <3>1
    <3>2. CASE base = 0
      <4>1. count = 1 /\ i = 1
        BY <1>7, <3>2
      <4>2. count * base = 0
        BY <3>2, <4>1
      <4>3. rem = t.amount
        BY <1>1, <1>4, <1>5, <4>2
      <4> QED
        BY <1>1, <1>4, <3>2, <4>1, <4>3
    <3> QED
      BY <1>3, <3>1, <3>2
  <2> QED
    BY <2>1, <2>2 DEF Target
<1> HIDE DEF rem, count
<1>8. Parts(t) \in Seq(Target) /\ Len(Parts(t)) = count
  <2>1. Parts(t) = [i \in 1..count |-> Parts(t)[i]]
    BY <1>6
  <2>2. Parts(t) \in [1..count -> Target]
    BY <1>7, <2>1
  <2> QED
    BY <1>4, <2>2
<1>9. Divides(Parts(t), t, count, base, rem)
  BY <1>3, <1>4, <1>5, <1>7, <1>8 DEF Divides
<1> QED
  BY <1>9

\* A sequence in which an element is replaced by others.
Splice(T, P, p) == SubSeq(T, 1, p - 1) \o P \o SubSeq(T, p + 1, Len(T))

IsSplice(U, T, P, p) ==
  /\ U \in Seq(Target) /\ Len(U) = Len(T) - 1 + Len(P)
  /\ \A n \in 1..(p - 1) : U[n] = T[n]
  /\ \A n \in p..(p + Len(P) - 1) : U[n] = P[n - p + 1]
  /\ \A n \in (p + Len(P))..Len(U) : U[n] = T[n - Len(P) + 1]

LEMMA Spliced ==
  ASSUME NEW T \in Seq(Target), NEW P \in Seq(Target), NEW p \in 1..Len(T),
         NEW U, U = Splice(T, P, p)
  PROVE  IsSplice(U, T, P, p)
<1> DEFINE A == SubSeq(T, 1, p - 1)
           B == SubSeq(T, p + 1, Len(T))
<1>1. A \in Seq(Target) /\ Len(A) = p - 1 /\ \A n \in 1..(p - 1) : A[n] = T[n]
  OBVIOUS
<1>2. B \in Seq(Target) /\ Len(B) = Len(T) - p /\ \A n \in 1..(Len(T) - p) : B[n] = T[n + p]
  OBVIOUS
<1> HIDE DEF A, B
<1>3. /\ A \o P \in Seq(Target) /\ Len(A \o P) = p - 1 + Len(P)
      /\ \A n \in 1..(p - 1) : (A \o P)[n] = T[n]
      /\ \A n \in p..(p + Len(P) - 1) : (A \o P)[n] = P[n - p + 1]
  <2>1. A \in Seq(Target) /\ P \in Seq(Target) /\ Len(P) \in Nat /\ Len(A) = p - 1 /\ p \in Int
    BY <1>1
  <2>2. /\ A \o P \in Seq(Target) /\ Len(A \o P) = Len(A) + Len(P)
        /\ \A n \in 1..(Len(A) + Len(P)) :
             (A \o P)[n] = IF n <= Len(A) THEN A[n] ELSE P[n - Len(A)]
    BY <2>1, ConcatProperties
  <2>3. ASSUME NEW n \in 1..(p - 1) PROVE (A \o P)[n] = T[n]
    <3>1. n \in 1..(Len(A) + Len(P)) /\ n <= Len(A)
      BY <2>1
    <3> QED
      BY <1>1, <2>2, <3>1
  <2>4. ASSUME NEW n \in p..(p + Len(P) - 1) PROVE (A \o P)[n] = P[n - p + 1]
    <3>1. n \in 1..(Len(A) + Len(P)) /\ ~(n <= Len(A)) /\ n - Len(A) = n - p + 1
      BY <2>1
    <3> QED
      BY <2>2, <3>1
  <2> QED
    BY <2>1, <2>2, <2>3, <2>4
<1> DEFINE C == A \o P
<1> HIDE DEF C
<1>4. C \in Seq(Target) /\ Len(C) = p - 1 + Len(P)
  BY <1>3 DEF C
<1>5. /\ C \o B \in Seq(Target) /\ Len(C \o B) = Len(T) - 1 + Len(P)
      /\ \A n \in 1..(p + Len(P) - 1) : (C \o B)[n] = C[n]
      /\ \A n \in (p + Len(P))..Len(C \o B) : (C \o B)[n] = B[n - (p - 1 + Len(P))]
  <2>1. B \in Seq(Target) /\ C \in Seq(Target)
    BY <1>2, <1>4
  <2>2. /\ C \o B \in Seq(Target) /\ Len(C \o B) = Len(C) + Len(B)
        /\ \A n \in 1..(Len(C) + Len(B)) :
             (C \o B)[n] = IF n <= Len(C) THEN C[n] ELSE B[n - Len(C)]
    BY <2>1
  <2>3. Len(P) \in Nat /\ Len(T) \in Nat
    OBVIOUS
  <2>4. Len(C \o B) = Len(T) - 1 + Len(P)
    BY <1>2, <1>4, <2>2, <2>3
  <2>5. ASSUME NEW n \in 1..(p + Len(P) - 1) PROVE (C \o B)[n] = C[n]
    <3>1. n \in 1..(Len(C) + Len(B)) /\ n <= Len(C)
      BY <1>2, <1>4, <2>3
    <3> QED
      BY <2>2, <3>1
  <2>6. ASSUME NEW n \in (p + Len(P))..Len(C \o B)
        PROVE  (C \o B)[n] = B[n - (p - 1 + Len(P))]
    <3>1. n \in 1..(Len(C) + Len(B)) /\ ~(n <= Len(C))
      BY <1>4, <2>2, <2>3, <2>4
    <3> QED
      BY <1>4, <2>2, <3>1
  <2> QED
    BY <2>2, <2>4, <2>5, <2>6
<1>6. U = C \o B
  BY DEF A, B, C, Splice
<1>7. \A n \in (p + Len(P))..Len(C \o B) : (C \o B)[n] = T[n - Len(P) + 1]
  <2>1. ASSUME NEW n \in (p + Len(P))..Len(C \o B) PROVE (C \o B)[n] = T[n - Len(P) + 1]
    <3>1. n - (p - 1 + Len(P)) \in 1..(Len(T) - p)
      BY <1>5
    <3>2. (C \o B)[n] = T[n - (p - 1 + Len(P)) + p]
      BY <1>2, <1>5, <3>1
    <3>3. n - (p - 1 + Len(P)) + p = n - Len(P) + 1
      BY <1>5
    <3> QED
      BY <3>2, <3>3
  <2> QED
    BY <2>1
<1>8. /\ \A n \in 1..(p - 1) : (C \o B)[n] = T[n]
      /\ \A n \in p..(p + Len(P) - 1) : (C \o B)[n] = P[n - p + 1]
  <2>1. \A n \in 1..(p - 1) : C[n] = T[n]
    BY <1>3 DEF C
  <2>2. \A n \in p..(p + Len(P) - 1) : C[n] = P[n - p + 1]
    BY <1>3 DEF C
  <2>3. 1..(p - 1) \subseteq 1..(p + Len(P) - 1) /\ p..(p + Len(P) - 1) \subseteq 1..(p + Len(P) - 1)
    OBVIOUS
  <2> QED
    BY <1>5, <2>1, <2>2, <2>3
<1> HIDE DEF A, B, C
<1>9. /\ U \in Seq(Target) /\ Len(U) = Len(T) - 1 + Len(P)
      /\ \A n \in (p + Len(P))..Len(U) : U[n] = T[n - Len(P) + 1]
  BY <1>5, <1>6, <1>7
<1>10. /\ \A n \in 1..(p - 1) : U[n] = T[n]
       /\ \A n \in p..(p + Len(P) - 1) : U[n] = P[n - p + 1]
  BY <1>6, <1>8
<1> QED
  BY <1>9, <1>10 DEF IsSplice

Priced(targets) == [n \in DOMAIN targets |-> targets[n].amount]
Of(targets, key) == {n \in DOMAIN targets : targets[n].key = key}

LEMMA DueTyped ==
  ASSUME NEW T \in Seq(Target), NEW key
  PROVE  /\ Due(T, key) = Summed(Priced(T), Of(T, key)) /\ Due(T, key) \in Int
         /\ IsFiniteSet(Of(T, key)) /\ Of(T, key) \subseteq 1..Len(T)
         /\ \A n \in 1..Len(T) : /\ Priced(T)[n] = T[n].amount
                                 /\ Priced(T)[n] \in Nat /\ Priced(T)[n] \in Int
<1>1. DOMAIN T = 1..Len(T) /\ Len(T) \in Nat /\ \A n \in 1..Len(T) : T[n] \in Target
  OBVIOUS
<1>2. \A n \in 1..Len(T) : /\ Priced(T)[n] = T[n].amount
                           /\ Priced(T)[n] \in Nat /\ Priced(T)[n] \in Int
  BY <1>1 DEF Priced, Target
<1>3. Of(T, key) \subseteq 1..Len(T)
  BY <1>1 DEF Of
<1>4. IsFiniteSet(1..Len(T))
  BY FS_Interval
<1>5. IsFiniteSet(Of(T, key))
  BY <1>3, <1>4, FS_Subset
<1>6. Due(T, key) = Summed(Priced(T), Of(T, key))
  BY DEF Due, Priced, Of
<1>7. Summed(Priced(T), Of(T, key)) \in Int
  BY <1>2, <1>3, <1>5, SummedInt
<1> QED
  BY <1>2, <1>3, <1>5, <1>6, <1>7

Alike(U, T, m) == \A n \in 1..m : U[n] = T[n]

\* Where parts that come to its amount take the place of a target, nobody is due more.
LEMMA SplicedDue ==
  ASSUME NEW T \in Seq(Target), NEW p \in 1..Len(T),
         NEW k, NEW base, NEW rem, NEW P, Divides(P, T[p], k, base, rem),
         NEW U, U = Splice(T, P, p)
  PROVE  /\ U \in Seq(Target) /\ Len(U) \in Nat /\ p <= Len(U)
         /\ Alike(U, T, p - 1)
         /\ \A key : Due(U, key) <= Due(T, key)
<1>1. IsSplice(U, T, P, p)
  BY Spliced DEF Divides
<1>2. \A i \in 1..k : /\ P[i].key = T[p].key
                      /\ P[i].amount = IF i = 1 THEN base + rem ELSE base
  BY DEF Divides
<1>3. k * base + rem = T[p].amount
  BY DEF Divides
<1>4. k \in Nat /\ k >= 1 /\ base \in Nat /\ rem \in Nat
  BY DEF Divides
<1>5. /\ U \in Seq(Target) /\ Len(U) = Len(T) - 1 + k
      /\ \A n \in 1..(p - 1) : U[n] = T[n]
      /\ \A n \in p..(p + k - 1) : U[n] = P[n - p + 1]
      /\ \A n \in (p + k)..Len(U) : U[n] = T[n - k + 1]
  BY <1>1 DEF IsSplice, Divides
<1>6. Len(U) = Len(T) - 1 + k
      /\ Len(T) \in Nat /\ Len(U) \in Nat /\ p \in Nat /\ p >= 1 /\ p <= Len(T) /\ p <= Len(U)
      /\ DOMAIN T = 1..Len(T) /\ DOMAIN U = 1..Len(U)
  BY <1>4, <1>5
<1>7. ASSUME NEW key PROVE Due(U, key) <= Due(T, key)
  <2> DEFINE h == [n \in 1..Len(U) |-> IF n < p THEN n ELSE IF n < p + k THEN p ELSE n - k + 1]
             w == Priced(U)
             v == Priced(T)
             S == Of(U, key)
             R == Of(T, key)
  <2>1. /\ Due(U, key) = Summed(w, S) /\ IsFiniteSet(S) /\ S \subseteq 1..Len(U)
        /\ \A n \in 1..Len(U) : w[n] = U[n].amount /\ w[n] \in Int
    BY <1>5, DueTyped
  <2>2. /\ Due(T, key) = Summed(v, R) /\ IsFiniteSet(R) /\ R \subseteq 1..Len(T)
        /\ \A n \in 1..Len(T) : v[n] = T[n].amount /\ v[n] \in Int
    BY DueTyped
  <2>3. \A n \in 1..Len(U) : /\ n < p => U[n] = T[h[n]] /\ h[n] = n
                             /\ n >= p /\ n < p + k => h[n] = p
                             /\ n >= p + k => U[n] = T[h[n]] /\ h[n] = n - k + 1
    <3>1. ASSUME NEW n \in 1..Len(U)
          PROVE  /\ n < p => U[n] = T[n]
                 /\ n >= p + k => U[n] = T[n - k + 1]
      <4>1. n < p => n \in 1..(p - 1)
        BY <1>6
      <4>2. n >= p + k => n \in (p + k)..Len(U)
        BY <1>6
      <4> QED
        BY <1>5, <4>1, <4>2
    <3>2. ASSUME NEW n \in 1..Len(U)
          PROVE  h[n] = IF n < p THEN n ELSE IF n < p + k THEN p ELSE n - k + 1
      OBVIOUS
    <3> HIDE DEF h
    <3>3. ASSUME NEW n \in 1..Len(U)
          PROVE  /\ n < p => U[n] = T[h[n]] /\ h[n] = n
                 /\ n >= p /\ n < p + k => h[n] = p
                 /\ n >= p + k => U[n] = T[h[n]] /\ h[n] = n - k + 1
      <4>1. n \in Int /\ k >= 1
        BY <1>4
      <4> QED
        BY <1>4, <1>6, <3>1, <3>2, <4>1
    <3> QED
      BY <3>3
  <2>4. \A n \in 1..Len(U) : h[n] \in 1..Len(T)
    <3>1. ASSUME NEW n \in 1..Len(U)
          PROVE  (IF n < p THEN n ELSE IF n < p + k THEN p ELSE n - k + 1) \in 1..Len(T)
      BY <1>6, <1>4
    <3> QED
      BY <3>1
  <2>5. \A n \in p..(p + k - 1) : /\ U[n].key = T[p].key
                                  /\ U[n].amount = IF n = p THEN base + rem ELSE base
    <3>1. ASSUME NEW n \in p..(p + k - 1)
          PROVE  /\ U[n].key = T[p].key
                 /\ U[n].amount = IF n = p THEN base + rem ELSE base
      <4>1. n - p + 1 \in 1..k /\ (n - p + 1 = 1 <=> n = p)
        BY <1>6, <1>4
      <4>2. U[n] = P[n - p + 1]
        BY <1>5
      <4> QED
        BY <1>2, <1>4, <4>1, <4>2
    <3> QED
      BY <3>1
  <2>6. \A n \in 1..Len(U) : U[n].key = T[h[n]].key
    <3>1. ASSUME NEW n \in 1..Len(U) PROVE U[n].key = T[h[n]].key
      <4>1. CASE n >= p /\ n < p + k
        <5>1. n \in p..(p + k - 1)
          BY <1>4, <1>6, <4>1
        <5> QED
          BY <2>3, <2>5, <4>1, <5>1
      <4>2. CASE n < p \/ n >= p + k
        BY <2>3, <4>2
      <4> QED
        BY <1>4, <1>6, <4>1, <4>2
    <3> QED
      BY <3>1
  <2> HIDE DEF h, w, v
  <2>7. \A n \in S : h[n] \in R
    BY <1>6, <2>1, <2>4, <2>6 DEF Of
  <2> HIDE DEF S, R
  <2>8. ASSUME NEW y \in R, NEW Z, Z = {n \in S : h[n] = y} PROVE Summed(w, Z) <= v[y]
    <3>0. \A n : n \in Z <=> n \in S /\ h[n] = y
      BY <2>8
    <3>1. y \in 1..Len(T) /\ T[y].key = key
      BY <2>2 DEF Of, R
    <3>2. CASE y < p
      <4>1. Z = {y}
        <5>1. y \in S /\ h[y] = y
          <6>1. y \in 1..Len(U)
            BY <1>6, <3>1, <3>2
          <6> QED
            BY ONLY <1>6, <2>3, <3>1, <3>2, <6>1 DEF Of, S
        <5>2. ASSUME NEW n \in S, h[n] = y PROVE n = y
          <6>1. n \in 1..Len(U) /\ k >= 1 /\ n \in Int /\ y \in Int
            BY <1>4, <2>1, <3>1
          <6>2. n < p => h[n] = n
            BY <2>3, <6>1
          <6>3. n >= p /\ n < p + k => h[n] = p
            BY <2>3, <6>1
          <6>4. n >= p + k => h[n] = n - k + 1
            BY <2>3, <6>1
          <6> QED
            BY <1>4, <1>6, <3>2, <5>2, <6>1, <6>2, <6>3, <6>4
        <5> QED
          BY <3>0, <5>1, <5>2
      <4>2. y \in 1..Len(U) /\ U[y] = T[y]
        <5>1. y \in 1..(p - 1) /\ y \in 1..Len(U)
          BY <1>6, <3>1, <3>2
        <5> QED
          BY <1>5, <5>1
      <4>3. w[y] = v[y] /\ w[y] \in Int
        BY <2>1, <2>2, <3>1, <4>2
      <4>4. Summed(w, {y}) = w[y]
        BY <4>3, SummedOne
      <4> QED
        BY <4>1, <4>3, <4>4
    <3>3. CASE y > p
      <4> DEFINE x == y + k - 1
      <4>1. x \in 1..Len(U) /\ x >= p + k /\ x - k + 1 = y
        BY <1>6, <1>4, <3>1, <3>3
      <4>2. h[x] = y /\ U[x] = T[y]
        BY <2>3, <4>1
      <4>3. Z = {x}
        <5>1. x \in S
          BY <1>6, <3>1, <4>1, <4>2 DEF Of, S
        <5>2. ASSUME NEW n \in S, h[n] = y PROVE n = x
          <6>1. n \in 1..Len(U) /\ k >= 1 /\ n \in Int /\ y \in Int
            BY <1>4, <2>1, <3>1
          <6>2. n < p => h[n] = n
            BY <2>3, <6>1
          <6>3. n >= p /\ n < p + k => h[n] = p
            BY <2>3, <6>1
          <6>4. n >= p + k => h[n] = n - k + 1
            BY <2>3, <6>1
          <6> QED
            BY <1>4, <1>6, <3>3, <5>2, <6>1, <6>2, <6>3, <6>4
        <5> QED
          BY <3>0, <4>2, <5>1, <5>2
      <4> HIDE DEF x
      <4>4. w[x] = v[y] /\ w[x] \in Int
        BY ONLY <2>1, <2>2, <3>1, <4>1, <4>2
      <4>5. Summed(w, {x}) = w[x]
        BY <4>4, SummedOne
      <4> QED
        BY <4>3, <4>4, <4>5
    <3>4. CASE y = p
      <4> DEFINE rest == (p + 1)..(p + k - 1)
      <4>1. p..(p + k - 1) \subseteq 1..Len(U)
        BY <1>4, <1>5, <1>6
      <4>2. Z = p..(p + k - 1)
        <5>1. ASSUME NEW n \in p..(p + k - 1) PROVE n \in S /\ h[n] = y
          BY <1>4, <1>6, <2>3, <2>5, <3>1, <3>4, <4>1 DEF Of, S
        <5>2. ASSUME NEW n \in S, h[n] = y PROVE n \in p..(p + k - 1)
          <6>1. n \in 1..Len(U) /\ k >= 1 /\ n \in Int
            BY <1>4, <2>1
          <6>2. n < p => h[n] = n
            BY <2>3, <6>1
          <6>4. n >= p + k => h[n] = n - k + 1
            BY <2>3, <6>1
          <6> QED
            BY <1>4, <1>6, <3>4, <5>2, <6>1, <6>2, <6>4
        <5> QED
          BY <3>0, <5>1, <5>2
      <4>3. p..(p + k - 1) = rest \cup {p} /\ p \notin rest
        BY <1>4, <1>6
      <4>4. IsFiniteSet(rest) /\ Cardinality(rest) = k - 1
        <5>1. p + 1 \in Int /\ p + k - 1 \in Int
          BY <1>4, <1>6
        <5>2. /\ IsFiniteSet((p + 1)..(p + k - 1))
              /\ Cardinality((p + 1)..(p + k - 1)) =
                   IF p + 1 > p + k - 1 THEN 0 ELSE (p + k - 1) - (p + 1) + 1
          BY <5>1, FS_Interval
        <5> QED
          BY <1>4, <1>6, <5>2
      <4>5. \A n \in rest : w[n] = base /\ w[n] \in Int
        <5>1. \A n \in rest : n \in p..(p + k - 1) /\ n # p /\ n \in 1..Len(U)
          BY <1>6, <4>1
        <5> QED
          BY <2>1, <2>5, <5>1
      <4>6. w[p] = base + rem /\ w[p] \in Int
        BY <1>4, <1>6, <2>1, <2>5, <4>1
      <4> HIDE DEF rest
      <4>7. Summed(w, rest) = (k - 1) * base
        <5>1. base \in Int /\ \A n \in rest : w[n] = base
          BY <1>4, <4>5
        <5>2. Summed(w, rest) = Cardinality(rest) * base
          BY ONLY <4>4, <5>1, SummedEven
        <5> QED
          BY <4>4, <5>2
      <4>8. Summed(w, rest \cup {p}) = Summed(w, rest) + w[p]
        <5>1. \A n \in rest \cup {p} : w[n] \in Int
          BY <4>5, <4>6
        <5> QED
          <6>1. IsFiniteSet(rest) /\ p \notin rest
            BY <4>3, <4>4
          <6> QED
            BY ONLY <5>1, <6>1, SummedMore
      <4>9. (k - 1) * base + base = k * base
        BY <1>4
      <4>10. PICK z \in Nat : z = k * base
        BY <1>4
      <4>11. (k - 1) * base = z - base
        BY <1>4, <4>9, <4>10
      <4>12. Summed(w, rest \cup {p}) = z + rem
        BY <1>4, <4>6, <4>7, <4>8, <4>10, <4>11
      <4>13. v[p] = z + rem
        BY <1>3, <1>4, <2>2, <3>1, <3>4, <4>10
      <4>14. Summed(w, Z) = z + rem
        BY <4>2, <4>3, <4>12
      <4>15. v[y] = z + rem
        BY <3>4, <4>13
      <4> QED
        BY <1>4, <4>10, <4>14, <4>15
    <3> QED
      BY <1>6, <3>1, <3>2, <3>3, <3>4
  <2>12. \A y \in R : Summed(w, {n \in S : h[n] = y}) <= v[y]
    BY <2>8
  <2>9. \A n \in S : w[n] \in Int
    BY <2>1
  <2>10. \A n \in R : v[n] \in Int
    BY <2>2
  <2>11. Summed(w, S) <= Summed(v, R)
    BY ONLY <2>1, <2>2, <2>7, <2>12, <2>9, <2>10, SummedGrouped
  <2> QED
    BY <2>1, <2>2, <2>11
<1> QED
  BY <1>5, <1>6, <1>7 DEF Alike

\* Splitting pays nobody more, and changes no target left behind.
LEMMA SplitDue ==
  ASSUME config \in Config, NEW a \in AgentState, a.index \in 1..Len(a.targets)
  PROVE  \E U \in Seq(Target) :
           /\ Split(a).targets = U /\ Len(U) \in Nat /\ a.index <= Len(U)
           /\ Alike(U, a.targets, a.index - 1)
           /\ \A key : Due(U, key) <= Due(a.targets, key)
<1>1. PICK T, p : T \in Seq(Target) /\ p \in 1..Len(T) /\ T = a.targets /\ p = a.index
  BY DEF AgentState
<1>2. T[p] \in Target
  BY <1>1
<1>3. PICK k, base, rem : Divides(Parts(T[p]), T[p], k, base, rem)
  BY <1>2, PartsMake
<1>4. PICK P, U : P = Parts(T[p]) /\ U = Splice(T, P, p)
  OBVIOUS
<1>5. Divides(P, T[p], k, base, rem)
  BY <1>3, <1>4
<1>6. /\ U \in Seq(Target) /\ Len(U) \in Nat /\ p <= Len(U)
      /\ Alike(U, T, p - 1)
      /\ \A key : Due(U, key) <= Due(T, key)
  <2>1. T \in Seq(Target) /\ p \in 1..Len(T) /\ U = Splice(T, P, p)
    BY <1>1, <1>4
  <2>2. U \in Seq(Target) /\ Len(U) \in Nat /\ p <= Len(U)
    BY ONLY <2>1, <1>5, SplicedDue
  <2>3. Alike(U, T, p - 1)
    BY ONLY <2>1, <1>5, SplicedDue
  <2>4. \A key : Due(U, key) <= Due(T, key)
    BY ONLY <2>1, <1>5, SplicedDue
  <2> QED
    BY <2>2, <2>3, <2>4
<1>7. Split(a).targets = U
  BY <1>1, <1>4 DEF Split, AgentState, Splice
<1> QED
  BY <1>1, <1>6, <1>7

(***************************************************************************)
(* Going on to the next target, or to the parts of this one.               *)
(***************************************************************************)
LEMMA SplitKept ==
  ASSUME config \in Config, config.onReject = "split", NEW a, NEW ts,
         Kept(config, a, ts), Free(config, a, ts), a.index \in 1..Len(a.targets)
  PROVE  /\ Kept(config, Split(a), ts) /\ Free(config, Split(a), ts)
         /\ Split(a).index \in 1..Len(Split(a).targets)
<1> DEFINE b == Split(a)
<1>1. a \in AgentState
  BY DEF Kept
<1>2. PICK U \in Seq(Target) : /\ b.targets = U /\ Len(U) \in Nat /\ a.index <= Len(U)
                               /\ Alike(U, a.targets, a.index - 1)
                               /\ \A key : Due(U, key) <= Due(a.targets, key)
  BY <1>1, SplitDue
<1>3. b = [a EXCEPT !.splitDone = TRUE, !.targets = U, !.lookedUp = @ \ {a.index},
                    !.consentDone = @ \ {a.index}, !.consent = NoId]
  BY <1>1, <1>2 DEF Split, AgentState
<1>4. b \in AgentState /\ b.targets = U /\ b.index = a.index /\ b.transferIds = a.transferIds
  <2>1. /\ a.lookedUp \ {a.index} \in SUBSET Nat /\ a.consentDone \ {a.index} \in SUBSET Nat
        /\ NoId \in Nat
    BY <1>1 DEF AgentState, NoId
  <2> HIDE DEF b
  <2> QED
    BY <1>1, <1>3, <2>1 DEF AgentState
<1> HIDE DEF b
<1>5. ~Candid(config)
  BY DEF Candid
<1>6. PaymentsMeant(config, b, ts)
  <2> SUFFICES ASSUME Stable(config), NEW i \in Made(ts)
               PROVE  \E n \in 1..Len(b.targets) :
                        n <= b.index /\ ForTarget(config, n, b.targets, ts[i])
    BY <1>5 DEF PaymentsMeant
  <2>1. PICK n \in 1..Len(a.targets) :
          n <= a.index /\ ForTarget(config, n, a.targets, ts[i])
    BY DEF Kept, PaymentsMeant
  <2>2. n # a.index
    BY <2>1 DEF Free, PaidFor, ForTarget
  <2>3. n \in 1..(a.index - 1) /\ n \in 1..Len(U)
    BY <1>2, <2>1, <2>2
  <2>4. U[n] = a.targets[n]
    BY <1>2, <2>3 DEF Alike
  <2> QED
    BY <1>4, <2>1, <2>3, <2>4 DEF ForTarget
<1>7. TargetsKept(config, b)
  <2> SUFFICES ASSUME NEW key \in PixKeys PROVE Due(U, key) <= Due(config.targets, key)
    BY <1>4 DEF TargetsKept
  <2>1. Due(U, key) <= Due(a.targets, key) /\ Due(a.targets, key) <= Due(config.targets, key)
    BY <1>2 DEF Kept, TargetsKept
  <2>2. a.targets \in Seq(Target) /\ config.targets \in Seq(Target)
    BY <1>1 DEF AgentState, Config
  <2>3. Due(U, key) \in Int /\ Due(a.targets, key) \in Int /\ Due(config.targets, key) \in Int
    BY <2>2, DueTyped
  <2> QED
    BY <2>1, <2>3
<1>8. PaidSoFar(config, b, ts) /\ ListedSoFar(config, b, ts) /\ Free(config, b, ts)
  BY <1>4, <1>5 DEF Kept, PaidSoFar, ListedSoFar, Free
<1>9. b.index \in 1..Len(b.targets)
  BY <1>2, <1>4
<1> QED
  BY <1>4, <1>6, <1>7, <1>8, <1>9 DEF Kept, b

\* The next target, when this one is paid or passed over and the list is complete.
LEMMA Advance ==
  ASSUME ScriptsRun, NEW c, NEW a, NEW ts, Kept(c, a, ts),
         NEW b \in AgentState, b.targets = a.targets, b.index = a.index + 1,
         Candid(c) => a.index \in 1..Len(a.targets) /\ PaidFor(c, a.index, ts),
         Asking(c) => \E m \in Nat : /\ b.transferIds = [n \in 1..m |-> Past + n]
                                     /\ Len(ts) = Past + m
  PROVE  Kept(c, b, ts) /\ Free(c, b, ts)
<1>1. Free(c, b, ts) /\ (Stable(c) \/ Candid(c) => ~PaidFor(c, b.index, ts))
  BY NextFree
<1>2. a.index \in Nat /\ a.index >= 1 /\ Len(a.targets) \in Nat
  BY MadeTyped
<1>3. PaymentsMeant(c, b, ts)
  <2> SUFFICES ASSUME Stable(c) \/ Candid(c), NEW i \in Made(ts)
               PROVE  \E n \in 1..Len(b.targets) :
                        n <= b.index /\ ForTarget(c, n, b.targets, ts[i])
    BY DEF PaymentsMeant
  <2>1. PICK n \in 1..Len(a.targets) : n <= a.index /\ ForTarget(c, n, a.targets, ts[i])
    BY DEF Kept, PaymentsMeant
  <2>2. n <= b.index
    BY <1>2, <2>1
  <2> QED
    BY <2>1, <2>2
<1>4. TargetsKept(c, b)
  BY DEF Kept, TargetsKept
<1>5. PaidSoFar(c, b, ts)
  <2> SUFFICES ASSUME Candid(c)
               PROVE  /\ b.index <= Len(b.targets) + 1
                      /\ \A n \in 1..(b.index - 1) : PaidFor(c, n, ts)
    BY DEF PaidSoFar
  <2>1. b.index <= Len(b.targets) + 1
    BY <1>2
  <2>2. ASSUME NEW n \in 1..(b.index - 1) PROVE PaidFor(c, n, ts)
    <3>1. n \in 1..(a.index - 1) \/ n = a.index
      BY <1>2
    <3> QED
      BY <3>1 DEF Kept, PaidSoFar
  <2> QED
    BY <2>1, <2>2
<1>6. ListedSoFar(c, b, ts)
  <2> SUFFICES ASSUME Asking(c)
               PROVE  \E m \in Nat :
                        /\ b.transferIds = [n \in 1..m |-> Past + n]
                        /\ Past + m <= Len(ts) /\ Len(ts) <= Past + m + 1
                        /\ \A i \in (Past + 1)..(Past + m) : ~KeyFor(c, b.index, ts[i].idem)
                        /\ Len(ts) = Past + m + 1 => KeyFor(c, b.index, ts[Len(ts)].idem)
    BY DEF ListedSoFar
  <2>1. PICK m \in Nat : b.transferIds = [n \in 1..m |-> Past + n] /\ Len(ts) = Past + m
    OBVIOUS
  <2>2. Past \in Nat
    BY MadeTyped
  <2>3. Past + m <= Len(ts) /\ Len(ts) <= Past + m + 1 /\ Len(ts) # Past + m + 1
    BY <2>1, <2>2
  <2>4. \A i \in (Past + 1)..(Past + m) : ~KeyFor(c, b.index, ts[i].idem)
    BY <1>1, <2>1 DEF Asking, PaidFor, Made
  <2> QED
    BY <2>1, <2>3, <2>4
<1> QED
  BY <1>1, <1>3, <1>4, <1>5, <1>6 DEF Kept

\* Passing over a target that is not paid.
LEMMA SkipKept ==
  ASSUME ScriptsRun, NEW c, c.onReject = "ignore", NEW a, NEW ts,
         Kept(c, a, ts), Free(c, a, ts)
  PROVE  LET b == [a EXCEPT !.index = @ + 1, !.consent = NoId]
         IN Kept(c, b, ts) /\ Free(c, b, ts)
<1>1. PICK b : b = [a EXCEPT !.index = @ + 1, !.consent = NoId]
  OBVIOUS
<1>2. /\ b \in AgentState /\ b.targets = a.targets /\ b.index = a.index + 1
      /\ b.transferIds = a.transferIds
  <2>1. a \in AgentState /\ a.index + 1 \in Nat \ {0} /\ NoId \in Nat
    BY DEF Kept, AgentState, NoId
  <2> QED
    BY <1>1, <2>1 DEF AgentState
<1>3. ~Candid(c)
  BY DEF Candid
<1>4. ASSUME Asking(c)
      PROVE  \E m \in Nat : b.transferIds = [n \in 1..m |-> Past + n] /\ Len(ts) = Past + m
  <2>1. PICK m \in Nat :
          /\ a.transferIds = [n \in 1..m |-> Past + n]
          /\ Past + m <= Len(ts) /\ Len(ts) <= Past + m + 1
          /\ Len(ts) = Past + m + 1 => KeyFor(c, a.index, ts[Len(ts)].idem)
    BY <1>4 DEF Kept, ListedSoFar
  <2>2. Past \in Nat /\ Len(ts) \in Nat
    BY MadeTyped
  <2>3. Len(ts) # Past + m + 1
    <3> SUFFICES ASSUME Len(ts) = Past + m + 1 PROVE FALSE
      OBVIOUS
    <3>1. Len(ts) \in Made(ts)
      BY <2>2 DEF Made
    <3> QED
      BY <1>4, <2>1, <3>1 DEF Asking, Free, PaidFor
  <2> QED
    BY <1>2, <2>1, <2>2, <2>3
<1>5. Kept(c, b, ts) /\ Free(c, b, ts)
  BY <1>2, <1>3, <1>4, Advance
<1> QED
  BY <1>1, <1>5

\* Going on with a target that is paid by the transfer named.
LEMMA PaidKept ==
  ASSUME ScriptsRun, NEW c, NEW a, NEW ts, Kept(c, a, ts), StatusKeyFits(c, a),
         NEW t \in 1..Len(ts), ~c.retryDenied => ts[t].idem = a.statusKey
  PROVE  Kept(c, Paid(a, t), ts) /\ Free(c, Paid(a, t), ts)
<1>1. PICK b : b = Paid(a, t)
  OBVIOUS
<1>2. a \in AgentState /\ a.transferIds \in Seq(Nat) /\ t \in Nat
  BY MadeTyped DEF Kept, AgentState
<1>3. /\ b \in AgentState /\ b.targets = a.targets /\ b.index = a.index + 1
      /\ b.transferIds = Append(a.transferIds, t)
  <2>1. a.index + 1 \in Nat \ {0} /\ Append(a.transferIds, t) \in Seq(Nat)
    BY <1>2 DEF AgentState
  <2>2. b = [a EXCEPT !.transferIds = Append(a.transferIds, t), !.index = a.index + 1, !.retries = 0]
    BY <1>1, <1>2 DEF Paid, AgentState
  <2> HIDE DEF Paid
  <2> QED
    BY <1>2, <2>1, <2>2 DEF AgentState
<1>4. ASSUME KeysFresh, ~c.retryDenied
      PROVE  t \in Made(ts) /\ KeyFor(c, a.index, ts[t].idem)
  <2>1. KeyFor(c, a.index, ts[t].idem)
    BY <1>4 DEF StatusKeyFits
  <2>2. ts[t].idem \in Range(ScriptKey)
    <3>1. PICK s \in Nat : ts[t].idem = ScriptKey[<<a.index, s>>]
      BY <2>1 DEF KeyFor
    <3>2. <<a.index, s>> \in DOMAIN ScriptKey
      BY <1>2 DEF ScriptsRun, AgentState
    <3> QED
      BY <3>1, <3>2 DEF Range
  <2>3. t \notin 1..Past
    <3>1. FixtureTransfers \in Seq(Transfer)
      BY WorldAssumption
    <3>2. DOMAIN FixtureTransfers = 1..Past
      BY <3>1 DEF Past
    <3> QED
      BY <1>4, <2>2, <3>2 DEF Kept, PastKept, KeysFresh
  <2>4. Past \in Nat /\ Len(ts) \in Nat
    BY MadeTyped
  <2> QED
    BY <1>2, <2>1, <2>3, <2>4 DEF Made
<1>5. ASSUME Candid(c) PROVE a.index \in 1..Len(a.targets) /\ PaidFor(c, a.index, ts)
  BY <1>4, <1>5 DEF Candid, PaidFor, StatusKeyFits
<1>6. ASSUME Asking(c)
      PROVE  \E m \in Nat : b.transferIds = [n \in 1..m |-> Past + n] /\ Len(ts) = Past + m
  <2>1. PICK m \in Nat :
          /\ a.transferIds = [n \in 1..m |-> Past + n]
          /\ Past + m <= Len(ts) /\ Len(ts) <= Past + m + 1
          /\ \A i \in (Past + 1)..(Past + m) : ~KeyFor(c, a.index, ts[i].idem)
    BY <1>6 DEF Kept, ListedSoFar
  <2>2. Past \in Nat /\ Len(ts) \in Nat
    BY MadeTyped
  <2>3. t \in Made(ts) /\ KeyFor(c, a.index, ts[t].idem)
    BY <1>4, <1>6 DEF Asking
  <2>4. t = Past + m + 1 /\ Len(ts) = Past + m + 1
    BY <2>1, <2>2, <2>3 DEF Made
  <2>5. b.transferIds = [n \in 1..(m + 1) |-> Past + n]
    <3> DEFINE old == [n \in 1..m |-> Past + n]
               new == [n \in 1..(m + 1) |-> Past + n]
    <3>1. b.transferIds = Append(old, Past + m + 1)
      BY <1>3, <2>1, <2>4
    <3>2. old \in Seq(Nat) /\ Len(old) = m
      BY <2>2
    <3>3. /\ DOMAIN Append(old, Past + m + 1) = 1..(m + 1)
          /\ \A n \in 1..(m + 1) :
               Append(old, Past + m + 1)[n] = IF n <= m THEN old[n] ELSE Past + m + 1
      <4> HIDE DEF old
      <4> QED
        BY <2>2, <3>2
    <3>4. \A n \in 1..(m + 1) : (IF n <= m THEN old[n] ELSE Past + m + 1) = new[n]
      BY <2>2
    <3>5. Append(old, Past + m + 1) = new
      <4> HIDE DEF old
      <4> QED
        BY <3>2, <3>3, <3>4
    <3> QED
      BY <3>1, <3>5
  <2>6. m + 1 \in Nat /\ Len(ts) = Past + (m + 1)
    BY <2>2, <2>4
  <2> QED
    BY <2>5, <2>6
<1>7. Kept(c, b, ts) /\ Free(c, b, ts)
  BY <1>3, <1>5, <1>6, Advance
<1> QED
  BY <1>1, <1>7

(***************************************************************************)
(* What act may choose: ch, with the agent's next state and its call.      *)
(***************************************************************************)
Finishing(c, ch, ts) ==
  /\ Kept(c, ch.agent, ts) /\ (Asking(c) => Free(c, ch.agent, ts))
  /\ \E o \in Outcomes :
       /\ ch.call = [tool |-> "finish", args |-> [outcome |-> o]]
       /\ Candid(c) /\ o = "COMPLETED" => ch.agent.index > Len(ch.agent.targets)

Inquiring(c, ch, ts) ==
  /\ Kept(c, ch.agent, ts) /\ Free(c, ch.agent, ts)
  /\ \/ /\ ch.agent.awaiting \in {"list", "lookup", "step_up"}
        /\ \E args : \E tool \in {"list_beneficiaries", "lookup_pix_key", "request_step_up_auth"} :
             ch.call = [tool |-> tool, args |-> args] /\ args \in ArgsOf(tool)
        /\ c.onReject = "split" => ch.agent.index \in 1..Len(ch.agent.targets)
     \/ /\ ch.agent.awaiting = "consent"
        /\ \E args \in Payment : ch.call = [tool |-> "request_consent", args |-> args]
        /\ Prepared([c EXCEPT !.consent = FALSE], ch.agent)

\* The create_transfer of the agent's current target under key.
PaymentCall(a, key, consent) ==
  [from |-> FirstAccount, key |-> a.targets[a.index].key,
   amount |-> a.targets[a.index].amount, idem |-> key, consent |-> consent, memo |-> ""]

Paying(c, ch, ts) ==
  /\ Kept(c, ch.agent, ts)
  /\ ch.agent.awaiting = "create" /\ Prepared(c, ch.agent)
  /\ \E key \in AgentKeys, consent \in Nat :
       /\ KeyFor(c, ch.agent.index, key) /\ key \in Range(ScriptKey)
       /\ ~c.retryDenied => ch.agent.statusKey = key
       /\ ch.call = [tool |-> "create_transfer", args |-> PaymentCall(ch.agent, key, consent)]

Checking(c, ch, ts) ==
  /\ Kept(c, ch.agent, ts)
  /\ ch.agent.awaiting = "status" /\ Prepared(c, ch.agent) /\ StatusKeyFits(c, ch.agent)
  /\ \E args : /\ ch.call = [tool |-> "get_transfer_by_idempotency_key", args |-> args]
               /\ \/ args = Malformed
                  \/ args = [idem |-> ch.agent.statusKey] /\ ch.agent.statusKey \in AgentKeys

Called(c, ch, ts) ==
  Finishing(c, ch, ts) \/ Inquiring(c, ch, ts) \/ Paying(c, ch, ts) \/ Checking(c, ch, ts)

LEMMA PaymentTyped ==
  ASSUME NEW a, a.targets[a.index] \in Target, NEW key \in AgentKeys, NEW consent \in Nat
  PROVE  PaymentCall(a, key, consent) \in ArgsOf("create_transfer")
<1>1. FirstAccount \in AccountId
  BY ScriptAssumption, WorldAssumption DEF AccountId
<1>2. ArgsOf("create_transfer") =
        [from: AccountId, key: PixKeyId, amount: Nat \ {0}, idem: AgentKeys,
         consent: Nat, memo: STRING]
  BY DEF ArgsOf
<1>3. a.targets[a.index].key \in PixKeyId /\ a.targets[a.index].amount \in Nat \ {0}
  BY DEF Target
<1>4. "" \in STRING
  BY ScriptAssumption
<1> QED
  BY <1>1, <1>2, <1>3, <1>4 DEF PaymentCall

LEMMA CallsMade ==
  ASSUME ScriptsRun, NEW c, NEW ch, NEW ts, Called(c, ch, ts)
  PROVE  ch.call \in Calls
<1> SUFFICES ch.call \in AnyCall
  BY DEF ScriptsRun
<1>1. ASSUME NEW tool \in Tools, NEW args, args \in ArgsOf(tool) \/ args = Malformed,
             ch.call = [tool |-> tool, args |-> args]
      PROVE  ch.call \in AnyCall
  <2>1. ch.call \in [tool: {tool}, args: ArgsOf(tool) \cup {Malformed}]
    BY <1>1
  <2> QED
    BY <2>1 DEF AnyCall
<1>2. CASE Finishing(c, ch, ts)
  <2>1. PICK o \in Outcomes : ch.call = [tool |-> "finish", args |-> [outcome |-> o]]
    BY <1>2 DEF Finishing
  <2>2. [outcome |-> o] \in ArgsOf("finish") /\ "finish" \in Tools
    BY DEF ArgsOf, Tools
  <2> QED
    BY <1>1, <2>1, <2>2
<1>3. CASE Inquiring(c, ch, ts)
  <2>1. CASE \E args : \E tool \in {"list_beneficiaries", "lookup_pix_key", "request_step_up_auth"} :
               ch.call = [tool |-> tool, args |-> args] /\ args \in ArgsOf(tool)
    BY <1>1, <2>1 DEF Tools
  <2>2. CASE \E args \in Payment : ch.call = [tool |-> "request_consent", args |-> args]
    <3>1. ArgsOf("request_consent") = Payment /\ "request_consent" \in Tools
      BY DEF ArgsOf, Tools
    <3> QED
      BY <1>1, <2>2, <3>1
  <2> QED
    BY <1>3, <2>1, <2>2 DEF Inquiring
<1>4. CASE Paying(c, ch, ts)
  <2>1. PICK key \in AgentKeys, consent \in Nat :
          ch.call = [tool |-> "create_transfer", args |-> PaymentCall(ch.agent, key, consent)]
    BY <1>4 DEF Paying
  <2>2. ch.agent.targets[ch.agent.index] \in Target
    BY <1>4, MadeTyped DEF Paying, Prepared
  <2>3. PaymentCall(ch.agent, key, consent) \in ArgsOf("create_transfer")
    BY <2>2, PaymentTyped
  <2> QED
    BY <1>1, <2>1, <2>3 DEF Tools
<1>5. CASE Checking(c, ch, ts)
  <2>1. PICK args : /\ ch.call = [tool |-> "get_transfer_by_idempotency_key", args |-> args]
                    /\ \/ args = Malformed
                       \/ args = [idem |-> ch.agent.statusKey] /\ ch.agent.statusKey \in AgentKeys
    BY <1>5 DEF Checking
  <2>2. args = Malformed \/ args \in ArgsOf("get_transfer_by_idempotency_key")
    BY <2>1, CallAssumption DEF ArgsOf
  <2> QED
    BY <1>1, <2>1, <2>2 DEF Tools
<1> QED
  BY <1>2, <1>3, <1>4, <1>5 DEF Called

\* A create of the current target, which nothing else has to precede.
LEMMA CreateCalled ==
  ASSUME ScriptsRun, NEW a, NEW ts, Kept(config, a, ts), Prepared(config, a),
         ~config.retryDenied => a.statusKey = ScriptKey[<<a.index, Suffix(a)>>]
  PROVE  Called(config, Create(a), ts)
<1> DEFINE b == [a EXCEPT !.awaiting = "create", !.fresh = @ + 1]
           key == ScriptKey[<<a.index, Suffix(a)>>]
<1>1. a \in AgentState /\ config \in Config
  BY DEF Kept
<1>2. /\ b \in AgentState /\ b.targets = a.targets /\ b.index = a.index
      /\ b.transferIds = a.transferIds /\ b.awaiting = "create" /\ b.statusKey = a.statusKey
      /\ b.lookedUp = a.lookedUp /\ b.steppedUp = a.steppedUp /\ b.consentDone = a.consentDone
  <2>1. a.fresh + 1 \in Nat
    BY <1>1 DEF AgentState
  <2> QED
    BY <1>1, <2>1 DEF AgentState
<1>3. /\ Create(a).agent = b
      /\ Create(a).call = [tool |-> "create_transfer", args |-> PaymentCall(a, key, a.consent)]
  BY DEF Create, Choice, PaymentCall
<1>4. KeyFor(config, a.index, key) /\ key \in AgentKeys /\ key \in Range(ScriptKey)
  BY <1>1, SuffixFits
<1>5. a.consent \in Nat
  BY <1>1 DEF AgentState
<1> HIDE DEF b, key
<1>6. Kept(config, b, ts)
  BY <1>2, SameKept
<1>7. Prepared(config, b)
  BY <1>2 DEF Prepared
<1>8. ~config.retryDenied => b.statusKey = key
  BY <1>2 DEF key
<1>9. PaymentCall(a, key, a.consent) = PaymentCall(b, key, a.consent)
  BY <1>2 DEF PaymentCall
<1>10. Paying(config, Create(a), ts)
  BY <1>2, <1>3, <1>4, <1>5, <1>6, <1>7, <1>8, <1>9 DEF Paying
<1> QED
  BY <1>10 DEF Called

LEMMA RememberedCalled ==
  ASSUME ScriptsRun, NEW a, NEW ts, Kept(config, a, ts), Prepared(config, a)
  PROVE  Called(config, Create(Remember(a)), ts)
<1> DEFINE b == Remember(a)
<1>1. a \in AgentState /\ config \in Config
  BY DEF Kept
<1>2. ScriptKey[<<a.index, Suffix(a)>>] \in AgentKeys
  BY <1>1, SuffixFits
<1>3. /\ b \in AgentState /\ b.targets = a.targets /\ b.index = a.index
      /\ b.transferIds = a.transferIds /\ b.statusKey = ScriptKey[<<a.index, Suffix(a)>>]
      /\ b.lookedUp = a.lookedUp /\ b.steppedUp = a.steppedUp /\ b.consentDone = a.consentDone
      /\ b.fresh = a.fresh /\ b.retries = a.retries
  BY <1>1, <1>2 DEF Remember, AgentState
<1> HIDE DEF b
<1>4. Kept(config, b, ts)
  BY <1>3, SameKept
<1>5. Prepared(config, b)
  BY <1>3 DEF Prepared
<1>6. b.statusKey = ScriptKey[<<b.index, Suffix(b)>>]
  BY <1>3 DEF Suffix
<1>7. Called(config, Create(b), ts)
  BY <1>4, <1>5, <1>6, CreateCalled
<1> QED
  BY <1>7 DEF b

(***************************************************************************)
(* What act chooses.                                                       *)
(***************************************************************************)
LEMMA FinishCalled ==
  ASSUME NEW a, NEW o \in Outcomes, NEW ts, Kept(config, a, ts),
         Asking(config) => Free(config, a, ts),
         Candid(config) /\ o = "COMPLETED" => a.index > Len(a.targets)
  PROVE  Called(config, FinishWith(a, o), ts)
<1>1. FinishWith(a, o) =
        [agent |-> a, call |-> [tool |-> "finish", args |-> [outcome |-> o]]]
  BY DEF FinishWith, Choice
<1>2. FinishWith(a, o).agent = a
      /\ FinishWith(a, o).call = [tool |-> "finish", args |-> [outcome |-> o]]
  BY <1>1
<1>3. Finishing(config, FinishWith(a, o), ts)
  BY <1>2 DEF Finishing
<1> QED
  BY <1>3 DEF Called

LEMMA TargetCalled ==
  ASSUME ScriptsRun, NEW a, NEW ts, Kept(config, a, ts),
         Free(config, a, ts) \/ Prepared(config, a)
  PROVE  Called(config, NextTarget(a), ts)
<1>1. /\ a \in AgentState /\ config \in Config
      /\ a.index \in Nat /\ a.index >= 1 /\ Len(a.targets) \in Nat
  BY MadeTyped DEF Kept
<1>2. config.outcome \in Outcomes
  BY <1>1 DEF Config
<1>3. CASE a.index > Len(a.targets)
  <2>1. NextTarget(a) = FinishWith(a, config.outcome)
    BY <1>3 DEF NextTarget
  <2>2. Free(config, a, ts)
    BY <1>1, <1>3 DEF Prepared
  <2> QED
    BY <1>2, <1>3, <2>1, <2>2, FinishCalled
<1>4. ASSUME ~(a.index > Len(a.targets)),
             NEW w \in {"lookup", "step_up", "consent"}, NEW b, b = [a EXCEPT !.awaiting = w]
      PROVE  /\ a.index \in 1..Len(a.targets) /\ a.targets[a.index] \in Target
             /\ b.targets = a.targets /\ b.index = a.index /\ b.awaiting = w
             /\ b.lookedUp = a.lookedUp /\ b.steppedUp = a.steppedUp
             /\ Kept(config, b, ts) /\ (Free(config, a, ts) => Free(config, b, ts))
  <2>1. a.index \in 1..Len(a.targets) /\ a.targets[a.index] \in Target
    BY <1>1, <1>4, MadeTyped
  <2>2. /\ b \in AgentState /\ b.targets = a.targets /\ b.index = a.index
        /\ b.transferIds = a.transferIds /\ b.awaiting = w
        /\ b.lookedUp = a.lookedUp /\ b.steppedUp = a.steppedUp
    BY <1>1, <1>4 DEF AgentState
  <2>3. Kept(config, b, ts) /\ (Free(config, a, ts) => Free(config, b, ts))
    BY <2>2, SameKept
  <2> QED
    BY <2>1, <2>2, <2>3
<1>5. CASE ~(a.index > Len(a.targets)) /\ config.lookup /\ a.index \notin a.lookedUp
  <2>1. PICK b : b = [a EXCEPT !.awaiting = "lookup"]
    OBVIOUS
  <2>2. NextTarget(a) = Choice(b, "lookup_pix_key", [key |-> a.targets[a.index].key])
    BY <1>5, <2>1 DEF NextTarget
  <2>3. [key |-> a.targets[a.index].key] \in ArgsOf("lookup_pix_key")
    BY <1>4, <1>5, <2>1 DEF ArgsOf, Target
  <2>4. Free(config, a, ts)
    BY <1>5 DEF Prepared
  <2>5. Inquiring(config, NextTarget(a), ts)
    BY <1>4, <1>5, <2>1, <2>2, <2>3, <2>4 DEF Inquiring, Choice
  <2> QED
    BY <2>5 DEF Called
<1>6. CASE /\ ~(a.index > Len(a.targets)) /\ ~(config.lookup /\ a.index \notin a.lookedUp)
           /\ config.stepUp /\ ~a.steppedUp
  <2>1. PICK b : b = [a EXCEPT !.awaiting = "step_up"]
    OBVIOUS
  <2>2. NextTarget(a) = Choice(b, "request_step_up_auth", NoArgs)
    BY <1>6, <2>1 DEF NextTarget
  <2>3. NoArgs \in ArgsOf("request_step_up_auth")
    BY DEF ArgsOf
  <2>4. Free(config, a, ts)
    BY <1>6 DEF Prepared
  <2>5. Inquiring(config, NextTarget(a), ts)
    BY <1>4, <1>6, <2>1, <2>2, <2>3, <2>4 DEF Inquiring, Choice
  <2> QED
    BY <2>5 DEF Called
<1>7. CASE /\ ~(a.index > Len(a.targets)) /\ ~(config.lookup /\ a.index \notin a.lookedUp)
           /\ ~(config.stepUp /\ ~a.steppedUp)
           /\ config.consent /\ a.index \notin a.consentDone
  <2>1. PICK b : b = [a EXCEPT !.awaiting = "consent"]
    OBVIOUS
  <2> DEFINE args == [from |-> FirstAccount, key |-> a.targets[a.index].key,
                      amount |-> a.targets[a.index].amount]
  <2>2. NextTarget(a) = Choice(b, "request_consent", args)
    BY <1>7, <2>1 DEF NextTarget
  <2>3. args \in Payment
    <3>1. FirstAccount \in AccountId
      BY ScriptAssumption, WorldAssumption DEF AccountId
    <3> QED
      BY <1>4, <1>7, <2>1, <3>1 DEF Payment, Target
  <2>4. Free(config, a, ts)
    BY <1>7 DEF Prepared
  <2>5. Prepared([config EXCEPT !.consent = FALSE], b)
    <3>1. PICK c : c = [config EXCEPT !.consent = FALSE]
      OBVIOUS
    <3>2. c.lookup = config.lookup /\ c.stepUp = config.stepUp /\ c.consent = FALSE
      BY <1>1, <3>1 DEF Config
    <3>3. Prepared(c, b)
      BY <1>4, <1>7, <2>1, <3>2 DEF Prepared
    <3> QED
      BY <3>1, <3>3
  <2> HIDE DEF args
  <2>6. Inquiring(config, NextTarget(a), ts)
    BY <1>4, <1>7, <2>1, <2>2, <2>3, <2>4, <2>5 DEF Inquiring, Choice
  <2> QED
    BY <2>6 DEF Called
<1>8. CASE /\ ~(a.index > Len(a.targets)) /\ ~(config.lookup /\ a.index \notin a.lookedUp)
           /\ ~(config.stepUp /\ ~a.steppedUp)
           /\ ~(config.consent /\ a.index \notin a.consentDone)
  <2>1. NextTarget(a) = Create(Remember(a))
    BY <1>8 DEF NextTarget
  <2>2. Prepared(config, a)
    BY <1>1, <1>8 DEF Prepared
  <2> QED
    BY <2>1, <2>2, RememberedCalled
<1> QED
  BY <1>3, <1>5, <1>6, <1>7, <1>8

LEMMA RejectCalled ==
  ASSUME ScriptsRun, NEW a, NEW ts, Kept(config, a, ts), Free(config, a, ts),
         config.onReject = "split" => a.index \in 1..Len(a.targets)
  PROVE  Called(config, HandleReject(a), ts)
<1>1. /\ config \in Config /\ config.onReject \in OnReject /\ config.outcome \in Outcomes
      /\ "COMPLETED" \in Outcomes /\ "DECLINED" \in Outcomes
  BY DEF Kept, Config, Outcomes
<1>2. CASE config.onReject = "finish_declined"
  BY <1>1, <1>2, FinishCalled DEF HandleReject
<1>3. CASE config.onReject = "finish_completed"
  BY <1>1, <1>3, FinishCalled DEF HandleReject, Candid
<1>4. CASE config.onReject = "split" /\ a.splitDone
  BY <1>1, <1>4, FinishCalled DEF HandleReject, Candid
<1>5. CASE config.onReject = "split" /\ ~a.splitDone
  <2>1. Kept(config, Split(a), ts) /\ Free(config, Split(a), ts)
    BY <1>1, <1>5, SplitKept
  <2>2. HandleReject(a) = NextTarget(Split(a))
    BY <1>5 DEF HandleReject
  <2> QED
    BY <2>1, <2>2, TargetCalled
<1>6. CASE config.onReject = "ignore"
  <2>1. PICK b : b = [a EXCEPT !.index = @ + 1, !.consent = NoId]
    OBVIOUS
  <2>2. Kept(config, b, ts) /\ Free(config, b, ts)
    BY <1>6, <2>1, SkipKept
  <2>3. HandleReject(a) = NextTarget(b)
    BY <1>6, <2>1 DEF HandleReject
  <2> QED
    BY <2>2, <2>3, TargetCalled
<1> QED
  BY <1>1, <1>2, <1>3, <1>4, <1>5, <1>6 DEF OnReject

\* After a create that may or may not have paid.
LEMMA TransientCalled ==
  ASSUME ScriptsRun, NEW a, NEW ts, Kept(config, a, ts), a.awaiting = "create",
         Prepared(config, a), StatusKeyFits(config, a)
  PROVE  Called(config, HandleTransient(a), ts)
<1>1. /\ a \in AgentState /\ config \in Config /\ config.onError \in OnError
      /\ "COMPLETED" \in Outcomes /\ "BLOCKED" \in Outcomes
  BY DEF Kept, Config, Outcomes
<1>2. CASE config.onError = "finish_blocked"
  BY <1>1, <1>2, FinishCalled DEF HandleTransient, Asking
<1>3. CASE config.onError = "finish_completed"
  BY <1>1, <1>3, FinishCalled DEF HandleTransient, Asking, Candid
<1>4. CASE config.onError = "status_check"
  <2> DEFINE args == IF a.statusKey = None THEN Malformed ELSE [idem |-> a.statusKey]
  <2>1. PICK b : b = [a EXCEPT !.awaiting = "status"]
    OBVIOUS
  <2>2. HandleTransient(a) = Choice(b, "get_transfer_by_idempotency_key", args)
    BY <1>4, <2>1 DEF HandleTransient
  <2>3. /\ b \in AgentState /\ b.targets = a.targets /\ b.index = a.index
        /\ b.transferIds = a.transferIds /\ b.awaiting = "status" /\ b.statusKey = a.statusKey
        /\ b.lookedUp = a.lookedUp /\ b.steppedUp = a.steppedUp /\ b.consentDone = a.consentDone
    BY <1>1, <2>1 DEF AgentState
  <2>4. Kept(config, b, ts)
    BY <2>3, SameKept
  <2>5. Prepared(config, b) /\ StatusKeyFits(config, b)
    BY <2>3 DEF Prepared, StatusKeyFits
  <2>6. \/ args = Malformed
        \/ args = [idem |-> b.statusKey] /\ b.statusKey \in AgentKeys
    <3>1. a.statusKey \in AgentKeys \cup {None}
      BY <1>1 DEF AgentState
    <3>2. CASE a.statusKey = None
      BY <3>2
    <3>3. CASE a.statusKey # None
      BY <2>3, <3>1, <3>3
    <3> QED
      BY <3>2, <3>3
  <2> HIDE DEF args
  <2>7. Checking(config, HandleTransient(a), ts)
    BY <2>2, <2>3, <2>4, <2>5, <2>6 DEF Checking, Choice
  <2> QED
    BY <2>7 DEF Called
<1>5. CASE config.onError \in {"retry_new_key", "retry_same_key"} /\ a.retries >= config.maxRetries
  BY <1>1, <1>5, FinishCalled DEF HandleTransient, Asking
<1>6. CASE config.onError \in {"retry_new_key", "retry_same_key"} /\ ~(a.retries >= config.maxRetries)
  <2>1. PICK b : b = Retried(a)
    OBVIOUS
  <2>2. HandleTransient(a) = NextTarget(b)
    BY <1>6, <2>1 DEF HandleTransient
  <2>3. /\ b \in AgentState /\ b.targets = a.targets /\ b.index = a.index
        /\ b.transferIds = a.transferIds /\ b.lookedUp = a.lookedUp /\ b.steppedUp = a.steppedUp
        /\ (config.onError # "retry_new_key" => b.consentDone = a.consentDone)
    <3>1. a.retries + 1 \in Nat /\ a.consentDone \ {a.index} \in SUBSET Nat /\ NoId \in Nat
      BY <1>1 DEF AgentState, NoId
    <3>2. CASE config.onError = "retry_new_key"
      <4>1. b = [a EXCEPT !.retries = a.retries + 1, !.consentDone = a.consentDone \ {a.index},
                          !.consent = NoId]
        BY <1>1, <2>1, <3>2 DEF Retried, AgentState
      <4> QED
        BY <1>1, <3>1, <3>2, <4>1 DEF AgentState
    <3>3. CASE config.onError # "retry_new_key"
      <4>1. b = [a EXCEPT !.retries = a.retries + 1]
        BY <1>1, <2>1, <3>3 DEF Retried, AgentState
      <4> QED
        BY <1>1, <3>1, <4>1 DEF AgentState
    <3> QED
      BY <3>2, <3>3
  <2>4. Kept(config, b, ts)
    BY <2>3, SameKept
  <2>5. CASE config.onError = "retry_new_key"
    <3>1. Free(config, b, ts)
      BY <2>5 DEF Free, Stable
    <3> QED
      BY <2>2, <2>4, <3>1, TargetCalled
  <2>6. CASE config.onError # "retry_new_key"
    <3>1. Prepared(config, b)
      BY <2>3, <2>6 DEF Prepared
    <3> QED
      BY <2>2, <2>4, <3>1, TargetCalled
  <2> QED
    BY <2>5, <2>6
<1> QED
  BY <1>1, <1>2, <1>3, <1>4, <1>5, <1>6 DEF OnError

\* Counting a try changes nothing that matters.
LEMMA TriedAgain ==
  ASSUME ScriptsRun, NEW a, NEW ts, Kept(config, a, ts), Prepared(config, a)
  PROVE  Called(config, NextTarget([a EXCEPT !.retries = @ + 1]), ts)
<1>1. PICK b : b = [a EXCEPT !.retries = @ + 1]
  OBVIOUS
<1>2. /\ b \in AgentState /\ b.targets = a.targets /\ b.index = a.index
      /\ b.transferIds = a.transferIds /\ b.lookedUp = a.lookedUp /\ b.steppedUp = a.steppedUp
      /\ b.consentDone = a.consentDone
  <2>1. a \in AgentState /\ a.retries + 1 \in Nat
    BY DEF Kept, AgentState
  <2> QED
    BY <1>1, <2>1 DEF AgentState
<1>3. Kept(config, b, ts)
  BY <1>2, SameKept
<1>4. Prepared(config, b)
  BY <1>2 DEF Prepared
<1>5. Called(config, NextTarget(b), ts)
  BY <1>3, <1>4, TargetCalled
<1> QED
  BY <1>1, <1>5

LEMMA ErrorCalled ==
  ASSUME ScriptsRun, NEW a, NEW ts, Kept(config, a, ts), Heard(config, a, ts, obs),
         obs.kind = "tool_error"
  PROVE  Called(config, AfterError(a), ts)
<1>1. CASE /\ a.awaiting \in {"list", "lookup", "step_up"} /\ Free(config, a, ts)
           /\ config.onReject = "split" => a.index \in 1..Len(a.targets)
  BY <1>1, RejectCalled DEF AfterError
<1>2. CASE /\ a.awaiting = "consent" /\ Free(config, a, ts)
           /\ Prepared([config EXCEPT !.consent = FALSE], a)
  <2>1. AfterError(a) = HandleReject(a)
    BY <1>2 DEF AfterError
  <2> QED
    BY <1>2, <2>1, RejectCalled DEF Prepared
<1>3. CASE /\ a.awaiting = "create" /\ HeardOfPayment(config, a, ts, obs) /\ Prepared(config, a)
           /\ obs.code \notin Transient => Free(config, a, ts)
  <2>1. CASE obs.code \in Transient
    <3>1. AfterError(a) = HandleTransient(a)
      BY <1>3, <2>1 DEF AfterError
    <3> QED
      BY <1>3, <3>1, TransientCalled DEF HeardOfPayment
  <2>2. CASE obs.code \notin Transient
    <3>1. AfterError(a) = HandleReject(a)
      BY <1>3, <2>2 DEF AfterError
    <3> QED
      BY <1>3, <2>2, <3>1, RejectCalled DEF Prepared
  <2> QED
    BY <2>1, <2>2
<1>4. CASE a.awaiting = "status" /\ Prepared(config, a)
  <2>1. AfterError(a) = NextTarget([a EXCEPT !.retries = @ + 1])
    BY <1>4 DEF AfterError
  <2> QED
    BY <1>4, <2>1, TriedAgain
<1> QED
  BY <1>1, <1>2, <1>3, <1>4 DEF Heard

\* A target that is looked up, approved or asked about is free as before.
LEMMA QuietResult ==
  ASSUME ScriptsRun, NEW a, NEW ts, Kept(config, a, ts), Heard(config, a, ts, obs),
         obs.kind = "tool_result", a.awaiting \in {"list", "lookup", "step_up"}
  PROVE  Called(config, AfterResult(a), ts)
<1>1. /\ Free(config, a, ts) /\ a \in AgentState
      /\ config.onReject = "split" => a.index \in 1..Len(a.targets)
  BY DEF Heard, Kept
<1>2. CASE a.awaiting = "list"
  BY <1>1, <1>2, TargetCalled DEF AfterResult
<1>3. CASE a.awaiting = "lookup"
  <2>1. PICK b : b = [a EXCEPT !.lookedUp = @ \cup {a.index}]
    OBVIOUS
  <2>2. /\ b \in AgentState /\ b.targets = a.targets /\ b.index = a.index
        /\ b.transferIds = a.transferIds
    <3>1. a.lookedUp \cup {a.index} \in SUBSET Nat
      BY <1>1 DEF AgentState
    <3> QED
      BY <1>1, <2>1, <3>1 DEF AgentState
  <2>3. Kept(config, b, ts) /\ Free(config, b, ts)
    BY <1>1, <2>2, SameKept
  <2>4. AfterResult(a) = NextTarget(b)
    BY <1>3, <2>1 DEF AfterResult
  <2> QED
    BY <2>3, <2>4, TargetCalled
<1>4. CASE a.awaiting = "step_up"
  <2>1. PICK b : b = [a EXCEPT !.steppedUp = TRUE]
    OBVIOUS
  <2>2. /\ b \in AgentState /\ b.targets = a.targets /\ b.index = a.index
        /\ b.transferIds = a.transferIds
    BY <1>1, <2>1 DEF AgentState
  <2>3. Kept(config, b, ts) /\ Free(config, b, ts)
    BY <1>1, <2>2, SameKept
  <2>4. AfterResult(a) = IF obs.result.status = "DENIED" THEN HandleReject(b) ELSE NextTarget(b)
    BY <1>4, <2>1 DEF AfterResult, AfterStepUp
  <2>5. config.onReject = "split" => b.index \in 1..Len(b.targets)
    BY <1>1, <2>2
  <2>6. Called(config, HandleReject(b), ts) /\ Called(config, NextTarget(b), ts)
    BY <2>3, <2>5, RejectCalled, TargetCalled
  <2> QED
    BY <2>4, <2>6
<1> QED
  BY <1>2, <1>3, <1>4

\* The answer to a request may be pending, no, or a consent to pay with.
LEMMA ConsentResult ==
  ASSUME ScriptsRun, NEW a, NEW ts, Kept(config, a, ts), Free(config, a, ts),
         Prepared([config EXCEPT !.consent = FALSE], a), obs.result.consent \in Nat
  PROVE  Called(config, AfterConsent(a), ts)
<1>1. PICK b : b = [a EXCEPT !.consentDone = @ \cup {a.index},
                             !.consent = IF obs.result.status = "PENDING" THEN @
                                         ELSE obs.result.consent]
  OBVIOUS
<1>2. a \in AgentState /\ config \in Config
  BY DEF Kept
<1>3. /\ b \in AgentState /\ b.targets = a.targets /\ b.index = a.index
      /\ b.transferIds = a.transferIds /\ b.lookedUp = a.lookedUp /\ b.steppedUp = a.steppedUp
      /\ b.consentDone = a.consentDone \cup {a.index}
  <2>1. a.consentDone \cup {a.index} \in SUBSET Nat
    BY <1>2 DEF AgentState
  <2>2. PICK k \in Nat : k = IF obs.result.status = "PENDING" THEN a.consent ELSE obs.result.consent
    BY <1>2 DEF AgentState
  <2>3. b = [a EXCEPT !.consentDone = a.consentDone \cup {a.index}, !.consent = k]
    BY <1>1, <1>2, <2>2 DEF AgentState
  <2> QED
    BY <1>2, <2>1, <2>3 DEF AgentState
<1>4. Kept(config, b, ts) /\ Free(config, b, ts)
  BY <1>3, SameKept
<1>5. Prepared(config, b)
  <2>1. PICK c : c = [config EXCEPT !.consent = FALSE]
    OBVIOUS
  <2>2. c.lookup = config.lookup /\ c.stepUp = config.stepUp
    BY <1>2, <2>1 DEF Config
  <2>3. Prepared(c, a)
    BY <2>1
  <2> QED
    BY <1>3, <2>2, <2>3 DEF Prepared
<1>6. AfterConsent(a) = IF obs.result.status # "DENIED" THEN NextTarget(b)
                        ELSE IF config.retryDenied THEN Create(b) ELSE HandleReject(b)
  BY <1>1 DEF AfterConsent
<1>7. Called(config, NextTarget(b), ts) /\ Called(config, HandleReject(b), ts)
  BY <1>4, <1>5, TargetCalled, RejectCalled DEF Prepared
<1>8. config.retryDenied => Called(config, Create(b), ts)
  BY <1>4, <1>5, CreateCalled
<1> QED
  BY <1>6, <1>7, <1>8

LEMMA PaidResult ==
  ASSUME ScriptsRun, NEW a, NEW ts, Kept(config, a, ts), Prepared(config, a),
         HeardOfPayment(config, a, ts, obs), obs.kind = "tool_result"
  PROVE  Called(config, AfterResult(a), ts)
<1>1. PICK t \in 1..Len(ts) : /\ TransferHeard(a, obs) = t
                              /\ ~config.retryDenied => ts[t].idem = a.statusKey
  BY DEF HeardOfPayment
<1>2. StatusKeyFits(config, a)
  BY DEF HeardOfPayment
<1>3. PICK b : b = Paid(a, t)
  OBVIOUS
<1>4. Kept(config, b, ts) /\ Free(config, b, ts)
  BY <1>1, <1>2, <1>3, PaidKept
<1>5. CASE a.awaiting = "create"
  <2>1. PICK d : d = [b EXCEPT !.consent = NoId]
    OBVIOUS
  <2>2. d \in AgentState /\ d.targets = b.targets /\ d.index = b.index
        /\ d.transferIds = b.transferIds
    <3>1. b \in AgentState /\ NoId \in Nat
      BY <1>4 DEF Kept, NoId
    <3> QED
      BY <2>1, <3>1 DEF AgentState
  <2>3. Kept(config, d, ts) /\ Free(config, d, ts)
    BY <1>4, <2>2, SameKept
  <2>4. AfterResult(a) = NextTarget(d)
    BY <1>1, <1>3, <1>5, <2>1 DEF AfterResult, TransferHeard
  <2> QED
    BY <2>3, <2>4, TargetCalled
<1>6. CASE a.awaiting = "status"
  <2>1. obs.result.id = t
    BY <1>1, <1>6 DEF TransferHeard
  <2>2. AfterResult(a) = IF obs.result.transfer.status = "COMPLETED" THEN NextTarget(b)
                         ELSE NextTarget([a EXCEPT !.retries = @ + 1])
    BY <1>3, <1>6, <2>1 DEF AfterResult, AfterStatus
  <2>3. Called(config, NextTarget(b), ts)
    BY <1>4, TargetCalled
  <2>4. Called(config, NextTarget([a EXCEPT !.retries = @ + 1]), ts)
    BY TriedAgain
  <2> QED
    BY <2>2, <2>3, <2>4
<1> QED
  BY <1>2, <1>5, <1>6 DEF StatusKeyFits

LEMMA ActCalled ==
  ASSUME ScriptsRun, ScriptedInv, ~done
  PROVE  Called(config, Act, transfers)
<1>1. /\ Kept(config, agent, transfers) /\ Heard(config, agent, transfers, obs)
      /\ config \in Config
  BY DEF ScriptedInv, Kept
<1>2. CASE obs.kind = "reset"
  <2>1. agent = AgentInit(config) /\ Free(config, agent, transfers)
    BY <1>1, <1>2 DEF Heard
  <2>2. Act = AfterReset(agent)
    BY <1>2 DEF Act
  <2>3. CASE config.immediateFinish # None
    <3>1. config.immediateFinish \in Outcomes
      BY <1>1, <2>3 DEF Config
    <3>2. AfterReset(agent) = FinishWith(agent, config.immediateFinish)
      BY <2>3 DEF AfterReset
    <3> QED
      BY <1>1, <2>1, <2>2, <3>1, <3>2, FinishCalled DEF Candid
  <2>4. CASE config.immediateFinish = None /\ config.list
    <3>1. PICK b : b = [agent EXCEPT !.awaiting = "list"]
      OBVIOUS
    <3>2. AfterReset(agent) = Choice(b, "list_beneficiaries", NoArgs)
      BY <2>4, <3>1 DEF AfterReset
    <3>3. /\ b \in AgentState /\ b.targets = agent.targets /\ b.index = agent.index
          /\ b.transferIds = agent.transferIds /\ b.awaiting = "list"
      <4>1. agent \in AgentState
        BY <1>1 DEF Kept
      <4> QED
        BY <3>1, <4>1 DEF AgentState
    <3>4. Kept(config, b, transfers) /\ Free(config, b, transfers)
      BY <1>1, <2>1, <3>3, SameKept
    <3>5. ASSUME config.onReject = "split" PROVE b.index \in 1..Len(b.targets)
      <4>1. b.index = 1 /\ b.targets = config.targets
        BY <2>1, <3>3 DEF AgentInit
      <4>2. config.targets # << >> /\ config.targets \in Seq(Target)
        BY <1>1, <3>5 DEF Config
      <4>3. Len(config.targets) \in Nat /\ Len(config.targets) # 0
        BY <4>2
      <4> QED
        BY <4>1, <4>3
    <3>6. NoArgs \in ArgsOf("list_beneficiaries")
      BY DEF ArgsOf
    <3>7. Inquiring(config, Choice(b, "list_beneficiaries", NoArgs), transfers)
      BY <3>3, <3>4, <3>5, <3>6 DEF Inquiring, Choice
    <3> QED
      BY <2>2, <3>2, <3>7 DEF Called
  <2>5. CASE config.immediateFinish = None /\ ~config.list
    <3>1. AfterReset(agent) = NextTarget(agent)
      BY <2>5 DEF AfterReset
    <3> QED
      BY <1>1, <2>1, <2>2, <3>1, TargetCalled
  <2> QED
    BY <2>3, <2>4, <2>5
<1>3. CASE obs.kind = "tool_error"
  <2>1. Act = AfterError(agent)
    BY <1>3 DEF Act
  <2> QED
    BY <1>1, <1>3, <2>1, ErrorCalled
<1>4. CASE obs.kind = "tool_result"
  <2>1. Act = AfterResult(agent)
    BY <1>4 DEF Act
  <2>2. CASE agent.awaiting \in {"list", "lookup", "step_up"}
    BY <1>1, <1>4, <2>1, <2>2, QuietResult
  <2>3. CASE agent.awaiting = "consent"
    <3>1. /\ Free(config, agent, transfers) /\ obs.result.consent \in Nat
          /\ Prepared([config EXCEPT !.consent = FALSE], agent)
      BY <1>1, <1>4, <2>3 DEF Heard
    <3>2. AfterResult(agent) = AfterConsent(agent)
      BY <2>3 DEF AfterResult
    <3> QED
      BY <1>1, <2>1, <3>1, <3>2, ConsentResult
  <2>4. CASE agent.awaiting \in {"create", "status"}
    <3>1. HeardOfPayment(config, agent, transfers, obs) /\ Prepared(config, agent)
      BY <1>1, <1>4, <2>4 DEF Heard
    <3> QED
      BY <1>1, <1>4, <2>1, <3>1, PaidResult
  <2> QED
    BY <1>1, <1>4, <2>2, <2>3, <2>4 DEF Heard
<1> QED
  BY <1>1, <1>2, <1>3, <1>4 DEF Heard

(***************************************************************************)
(* What the step it takes leaves.                                          *)
(***************************************************************************)
LEMMA CallAnswered ==
  ASSUME TypeInv, NEW c \in Calls, Step(c), c.tool \in Tools
  PROVE  /\ Entered /\ EndStep
         /\ \E fault :
              \/ \E code \in Transient : Refuse(code, fault)
              \/ c.args = Malformed /\ Refuse("INVALID_ARGUMENT", fault)
              \/ c.args # Malformed /\ Handle(c, fault)
<1>1. Entered
  BY StepByCall
<1>2. EndStep /\ DispatchCall(c, DueFault(c.tool))
  BY DEF Step
<1> QED
  BY <1>1, <1>2 DEF DispatchCall, Transient

LEMMA Refused ==
  ASSUME NEW code, NEW fault, Refuse(code, fault)
  PROVE  transfers' = transfers /\ obs'.kind = "tool_error" /\ obs'.code = code
BY DEF Refuse, Err, ErrBecause, Reply, Observation, toolVars, moneyVars

LEMMA NotOver ==
  ASSUME EndStep, obs'.kind \in {"tool_error", "tool_result"}, NEW c, NEW a, NEW ts
  PROVE  Ended(c, a, ts, declared', termination')
<1>1. declared' = None /\ termination' \in {None, "MAX_STEPS"}
  BY DEF EndStep
<1>2. None # "COMPLETED" /\ None # "FINISHED"
  BY EnvironmentAssumption DEF Outcomes
<1>3. declared' # "COMPLETED" /\ termination' # "FINISHED"
  BY <1>1, <1>2
<1> QED
  BY <1>3 DEF Ended

LEMMA FinishingStep ==
  ASSUME TypeInv, NEW ch, ch.call \in Calls, Step(ch.call), Finishing(config, ch, transfers)
  PROVE  /\ Kept(config, ch.agent, transfers') /\ done'
         /\ Ended(config, ch.agent, transfers', declared', termination')
<1>1. PICK o \in Outcomes :
        /\ ch.call = [tool |-> "finish", args |-> [outcome |-> o]]
        /\ Candid(config) /\ o = "COMPLETED" => ch.agent.index > Len(ch.agent.targets)
  BY DEF Finishing
<1>2. obs'.kind = "final" /\ obs'.result.outcome = o /\ transfers' = transfers
  <2>1. ch.call.tool = "finish" /\ ch.call.args = [outcome |-> o] /\ "finish" \in Tools
    BY <1>1 DEF Tools
  <2>2. DueFault("finish") = NoFault
    <3>1. ValidPlan(faults)
      BY FaultAssumption DEF TypeInv, TypeOK, EpisodeTypeOK
    <3>2. AllowedFaults("finish") = {}
      BY DEF AllowedFaults
    <3>3. DueFaults("finish") = {}
      BY <3>1, <3>2 DEF ValidPlan, DueFaults
    <3> QED
      BY <3>3 DEF DueFault
  <2>3. [outcome |-> o] # Malformed
    <3>1. [outcome |-> o] \in ArgsOf("finish")
      BY DEF ArgsOf
    <3> QED
      BY <2>1, <3>1, ScriptAssumption
  <2>4. DispatchCall(ch.call, NoFault) /\ ~PreventsExecution(NoFault)
    BY <2>1, <2>2 DEF Step, PreventsExecution, NoFault
  <2>5. Finish([outcome |-> o], NoFault)
    BY <2>1, <2>3, <2>4 DEF DispatchCall, Handle
  <2> QED
    BY <2>5 DEF Finish, OkAs, Reply, Observation, toolVars, moneyVars
<1>3. done' /\ termination' = "FINISHED" /\ declared' = o
  BY <1>2 DEF Step, EndStep
<1> QED
  BY <1>1, <1>2, <1>3 DEF Finishing, Ended

LEMMA ConsentNamed ==
  ASSUME Entered, NEW args, NEW fault, RequestConsent(args, fault)
  PROVE  /\ transfers' = transfers /\ obs'.kind \in {"tool_error", "tool_result"}
         /\ obs'.kind = "tool_result" => obs'.result.consent \in Nat
<1>1. CASE Refuse("NOT_FOUND", fault)
  BY <1>1, Refused
<1>2. CASE ~Refuse("NOT_FOUND", fault)
  <2>1. PICK status : Ok([consent |-> Len(consents) + 1, status |-> status], fault)
    BY <1>2 DEF RequestConsent
  <2>2. transfers' = transfers
    BY <1>2 DEF RequestConsent, moneyVars
  <2>3. Len(consents) \in Nat
    BY DEF Entered, ToolsTypeOK
  <2> QED
    BY <2>1, <2>2, <2>3 DEF Ok, OkAs, Reply, Observation
<1> QED
  BY <1>1, <1>2

LEMMA InquiringStep ==
  ASSUME TypeInv, NEW ch, ch.call \in Calls, Step(ch.call), Inquiring(config, ch, transfers)
  PROVE  /\ Kept(config, ch.agent, transfers') /\ Heard(config, ch.agent, transfers', obs')
         /\ Ended(config, ch.agent, transfers', declared', termination')
<1>1. CASE /\ ch.agent.awaiting \in {"list", "lookup", "step_up"}
           /\ \E args : \E tool \in {"list_beneficiaries", "lookup_pix_key", "request_step_up_auth"} :
                ch.call = [tool |-> tool, args |-> args] /\ args \in ArgsOf(tool)
           /\ config.onReject = "split" => ch.agent.index \in 1..Len(ch.agent.targets)
  <2>1. ch.call.tool \in {"list_beneficiaries", "lookup_pix_key", "request_step_up_auth"}
    BY <1>1
  <2>2. PICK fault :
          \/ \E code \in Transient : Refuse(code, fault)
          \/ Refuse("INVALID_ARGUMENT", fault)
          \/ Handle(ch.call, fault)
    BY <2>1, CallAnswered DEF Tools
  <2>3. transfers' = transfers /\ obs'.kind \in {"tool_error", "tool_result"}
    <3>1. CASE Handle(ch.call, fault)
      <4>1. \/ ListBeneficiaries(fault)
            \/ LookupPixKey(ch.call.args, fault)
            \/ RequestStepUpAuth(fault)
        BY <2>1, <3>1 DEF Handle
      <4> QED
        BY <4>1, Refused DEF ListBeneficiaries, LookupPixKey, RequestStepUpAuth, Read, Ok, OkAs,
           Reply, Observation, toolVars, moneyVars
    <3> QED
      BY <2>2, <3>1, Refused
  <2>4. Ended(config, ch.agent, transfers', declared', termination')
    BY <2>3, NotOver DEF Step
  <2> QED
    BY <1>1, <2>3, <2>4 DEF Inquiring, Heard
<1>2. CASE /\ ch.agent.awaiting = "consent"
           /\ \E args \in Payment : ch.call = [tool |-> "request_consent", args |-> args]
           /\ Prepared([config EXCEPT !.consent = FALSE], ch.agent)
  <2>1. ch.call.tool = "request_consent"
    BY <1>2
  <2>2. PICK fault :
          \/ \E code \in Transient : Refuse(code, fault)
          \/ Refuse("INVALID_ARGUMENT", fault)
          \/ Handle(ch.call, fault)
    BY <2>1, CallAnswered DEF Tools
  <2>3. /\ transfers' = transfers /\ obs'.kind \in {"tool_error", "tool_result"}
        /\ obs'.kind = "tool_result" => obs'.result.consent \in Nat
    <3>1. CASE Handle(ch.call, fault)
      <4>1. RequestConsent(ch.call.args, fault)
        BY <2>1, <3>1 DEF Handle
      <4>2. Entered
        BY <2>1, CallAnswered DEF Tools
      <4> QED
        BY <4>1, <4>2, ConsentNamed
    <3> QED
      BY <2>2, <3>1, Refused
  <2>4. Ended(config, ch.agent, transfers', declared', termination')
    BY <2>3, NotOver DEF Step
  <2> QED
    BY <1>2, <2>3, <2>4 DEF Inquiring, Heard
<1> QED
  BY <1>1, <1>2 DEF Inquiring

LEMMA CheckingStep ==
  ASSUME TypeInv, NEW ch, ch.call \in Calls, Step(ch.call), Checking(config, ch, transfers)
  PROVE  /\ Kept(config, ch.agent, transfers') /\ Heard(config, ch.agent, transfers', obs')
         /\ Ended(config, ch.agent, transfers', declared', termination')
<1>1. PICK args : /\ ch.call = [tool |-> "get_transfer_by_idempotency_key", args |-> args]
                  /\ \/ args = Malformed
                     \/ args = [idem |-> ch.agent.statusKey] /\ ch.agent.statusKey \in AgentKeys
  BY DEF Checking
<1>2. ch.call.tool = "get_transfer_by_idempotency_key" /\ ch.call.args = args
  BY <1>1
<1>3. PICK fault :
        \/ \E code \in Transient : Refuse(code, fault)
        \/ Refuse("INVALID_ARGUMENT", fault)
        \/ args # Malformed /\ Handle(ch.call, fault)
  BY <1>2, CallAnswered DEF Tools
<1>4. /\ transfers' = transfers /\ obs'.kind \in {"tool_error", "tool_result"}
      /\ obs'.kind = "tool_result" =>
           \E t \in 1..Len(transfers) :
             obs'.result.id = t /\ transfers[t].idem = ch.agent.statusKey
  <2>1. CASE args # Malformed /\ Handle(ch.call, fault)
    <3>1. GetTransferByIdempotencyKey(args, fault) /\ args.idem = ch.agent.statusKey
      BY <1>1, <1>2, <2>1 DEF Handle
    <3>2. CASE Refuse("NOT_FOUND", fault)
      BY <3>2, Refused
    <3>3. CASE ~Refuse("NOT_FOUND", fault)
      <4> DEFINE id == Holder(ch.agent.statusKey)
      <4>1. id # NoId /\ Read([id |-> id, transfer |-> transfers[id]], fault)
        BY <3>1, <3>3 DEF GetTransferByIdempotencyKey
      <4>2. ToolsTypeOK
        BY <1>2, CallAnswered DEF Tools, Entered
      <4>3. id \in DOMAIN transfers /\ transfers[id].idem = ch.agent.statusKey
        BY <4>1, <4>2, HeldKey
      <4>4. DOMAIN transfers = 1..Len(transfers)
        BY <4>2 DEF ToolsTypeOK
      <4>5. transfers' = transfers /\ obs'.kind = "tool_result" /\ obs'.result.id = id
        BY <4>1 DEF Read, Ok, OkAs, Reply, Observation, toolVars, moneyVars
      <4> QED
        BY <4>3, <4>4, <4>5
    <3> QED
      BY <3>2, <3>3
  <2> QED
    BY <1>3, <2>1, Refused
<1>5. Ended(config, ch.agent, transfers', declared', termination')
  BY <1>4, NotOver DEF Step
<1>6. HeardOfPayment(config, ch.agent, transfers', obs')
  BY <1>4 DEF Checking, HeardOfPayment, TransferHeard
<1> QED
  BY <1>4, <1>5, <1>6 DEF Checking, Heard

(***************************************************************************)
(* Creates.                                                                *)
(***************************************************************************)
\* One more payment for the current target, under a key nobody holds.
LEMMA PaymentKept ==
  ASSUME NEW c, NEW a, NEW ts, NEW us, NEW key, NEW consent,
         Kept(c, a, ts), a.index \in 1..Len(a.targets), KeyFor(c, a.index, key),
         us \in Seq(Transfer), Len(us) = Len(ts) + 1,
         \A i \in 1..Len(ts) : us[i] = ts[i] /\ ts[i].idem # key,
         NEW x, us[Len(ts) + 1] = x,
         x.from = FirstAccount, x.key = a.targets[a.index].key, x.key \in PixKeys,
         x.amount = a.targets[a.index].amount, x.idem = key, x.memo = "", x.reversalOf = NoId,
         FirstAccount \notin BlockedAccounts
  PROVE  Kept(c, a, us)
<1>1. /\ Past \in Nat /\ Len(ts) \in Nat /\ Past <= Len(ts)
      /\ a.index \in Nat /\ Len(a.targets) \in Nat
  BY MadeTyped
<1>2. /\ Made(us) = Made(ts) \cup {Len(ts) + 1} /\ Made(ts) \subseteq 1..Len(ts)
      /\ 1..Len(us) = 1..Len(ts) \cup {Len(ts) + 1} /\ Len(us) = Len(ts) + 1
  <2>1. Len(us) = Len(ts) + 1
    OBVIOUS
  <2> QED
    BY ONLY <1>1, <2>1 DEF Made
<1>3. PastKept(us)
  <2>1. 1..Past \subseteq 1..Len(ts) /\ Past <= Len(us)
    BY ONLY <1>1, <1>2
  <2> QED
    BY <2>1 DEF Kept, PastKept
<1>4. PaymentsRoutine(us)
  <2>1. ASSUME NEW i \in Made(us)
        PROVE  /\ us[i].reversalOf = NoId /\ us[i].from = FirstAccount /\ us[i].memo = ""
               /\ us[i].key \in PixKeys
    <3>1. CASE i \in Made(ts)
      <4>1. us[i] = ts[i]
        BY <1>2, <3>1
      <4> QED
        BY <3>1, <4>1 DEF Kept, PaymentsRoutine
    <3>2. CASE i = Len(ts) + 1
      BY <3>2
    <3> QED
      BY <1>2, <3>1, <3>2
  <2>2. ASSUME NEW i \in Made(us), NEW j \in 1..Len(us), us[i].idem = us[j].idem
        PROVE  i = j
    <3>1. i \in Made(ts) \/ i = Len(ts) + 1
      BY <1>2
    <3>2. j \in 1..Len(ts) \/ j = Len(ts) + 1
      BY <1>2
    <3>3. CASE i \in Made(ts) /\ j \in 1..Len(ts)
      BY <1>2, <2>2, <3>3 DEF Kept, PaymentsRoutine
    <3> QED
      BY <1>2, <2>2, <3>1, <3>2, <3>3
  <2> QED
    BY <2>1, <2>2 DEF PaymentsRoutine
<1>5. PaymentsMeant(c, a, us)
  <2> SUFFICES ASSUME Stable(c) \/ Candid(c), NEW i \in Made(us)
               PROVE  \E n \in 1..Len(a.targets) :
                        n <= a.index /\ ForTarget(c, n, a.targets, us[i])
    BY DEF PaymentsMeant
  <2>1. CASE i \in Made(ts)
    BY <1>2, <2>1 DEF Kept, PaymentsMeant
  <2>2. CASE i = Len(ts) + 1
    <3>1. us[i] = x
      BY <2>2
    <3>2. ForTarget(c, a.index, a.targets, us[i])
      BY <3>1 DEF ForTarget
    <3>3. a.index <= a.index
      BY ONLY <1>1
    <3> QED
      BY <3>2, <3>3
  <2> QED
    BY <1>2, <2>1, <2>2
<1>6. PaidSoFar(c, a, us)
  <2>1. ASSUME NEW n, PaidFor(c, n, ts) PROVE PaidFor(c, n, us)
    BY <1>2, <2>1 DEF PaidFor
  <2> QED
    BY <2>1 DEF Kept, PaidSoFar
<1>7. ListedSoFar(c, a, us)
  <2> SUFFICES ASSUME Asking(c)
               PROVE  \E m \in Nat :
                        /\ a.transferIds = [n \in 1..m |-> Past + n]
                        /\ Past + m <= Len(us) /\ Len(us) <= Past + m + 1
                        /\ \A i \in (Past + 1)..(Past + m) : ~KeyFor(c, a.index, us[i].idem)
                        /\ Len(us) = Past + m + 1 => KeyFor(c, a.index, us[Len(us)].idem)
    BY DEF ListedSoFar
  <2>1. PICK m \in Nat :
          /\ a.transferIds = [n \in 1..m |-> Past + n]
          /\ Past + m <= Len(ts) /\ Len(ts) <= Past + m + 1
          /\ \A i \in (Past + 1)..(Past + m) : ~KeyFor(c, a.index, ts[i].idem)
          /\ Len(ts) = Past + m + 1 => KeyFor(c, a.index, ts[Len(ts)].idem)
    BY DEF Kept, ListedSoFar
  <2>2. Len(ts) = Past + m
    <3>0. Len(ts) # Past + m + 1 => Len(ts) = Past + m
      BY ONLY <1>1, <2>1, m \in Nat
    <3> SUFFICES ASSUME Len(ts) = Past + m + 1 PROVE FALSE
      BY <3>0
    <3>1. ts[Len(ts)].idem = key
      BY <2>1, OneKey DEF Asking
    <3>2. Len(ts) \in 1..Len(ts)
      BY ONLY <1>1, m \in Nat, Len(ts) = Past + m + 1
    <3> QED
      BY <3>1, <3>2
  <2>3. Past + m <= Len(us) /\ Len(us) <= Past + m + 1 /\ us[Len(us)].idem = key
    <3>1. us[Len(us)].idem = key
      BY <1>2
    <3>2. Past + m <= Len(us) /\ Len(us) <= Past + m + 1
      BY ONLY <1>1, <1>2, <2>2, m \in Nat
    <3> QED
      BY <3>1, <3>2
  <2>4. \A i \in (Past + 1)..(Past + m) : us[i] = ts[i]
    <3>1. (Past + 1)..(Past + m) \subseteq 1..Len(ts)
      BY ONLY <1>1, <2>2, m \in Nat
    <3> QED
      BY <3>1
  <2> QED
    BY <2>1, <2>3, <2>4
<1> QED
  BY <1>3, <1>4, <1>5, <1>6, <1>7 DEF Kept

\* A payment that was made before is found, and answers for itself.
LEMMA PaidReplays ==
  ASSUME ScriptsRun, ToolsTypeOK, NEW c, NEW a, NEW key, NEW consent, Kept(c, a, transfers),
         a.index \in 1..Len(a.targets), KeyFor(c, a.index, key), ~Free(c, a, transfers)
  PROVE  CreateVerdict(PaymentCall(a, key, consent)) = "replay"
<1>1. Stable(c) /\ PaidFor(c, a.index, transfers)
  BY DEF Free
<1>2. PICK i \in Made(transfers) : KeyFor(c, a.index, transfers[i].idem)
  BY <1>1 DEF PaidFor
<1>3. transfers[i].idem = key
  BY <1>1, <1>2, OneKey
<1>4. i \in DOMAIN transfers /\ a.index \in Nat \ {0}
  BY MadeTyped
<1>5. Holder(key) = i /\ Holder(key) # NoId
  <2>1. Holder(key) \in DOMAIN transfers /\ Holder(key) # NoId
        /\ transfers[Holder(key)].idem = key
    BY <1>3, <1>4, HolderHolds
  <2>2. Holder(key) \in 1..Len(transfers)
    BY <2>1, MadeTyped
  <2> QED
    BY <1>3, <2>1, <2>2 DEF Kept, PaymentsRoutine
<1>6. PICK n \in 1..Len(a.targets) : ForTarget(c, n, a.targets, transfers[i])
  BY <1>1 DEF Kept, PaymentsMeant
<1>7. n = a.index
  <2>1. n \in Nat \ {0}
    BY <1>6, MadeTyped
  <2> QED
    BY <1>2, <1>4, <1>6, <2>1, KeyTells DEF ForTarget
<1>8. /\ transfers[i].from = FirstAccount /\ transfers[i].memo = ""
      /\ transfers[i].key \in PixKeys /\ FirstAccount \notin BlockedAccounts
      /\ transfers[i].key = a.targets[a.index].key
      /\ transfers[i].amount = a.targets[a.index].amount
  BY <1>6, <1>7 DEF Kept, PaymentsRoutine, ForTarget
<1>9. SameRequest(transfers[i], PaymentCall(a, key, consent))
  BY <1>8 DEF SameRequest, PaymentCall
<1> QED
  BY <1>5, <1>8, <1>9, ScriptAssumption DEF CreateVerdict, PaymentCall

LEMMA PayingStep ==
  ASSUME ScriptsRun, TypeInv, NEW c, NEW ch, ch.call \in Calls, Step(ch.call),
         Paying(c, ch, transfers)
  PROVE  /\ Kept(c, ch.agent, transfers') /\ Heard(c, ch.agent, transfers', obs')
         /\ Ended(c, ch.agent, transfers', declared', termination')
<1>1. PICK a : a = ch.agent
  OBVIOUS
<1>2. PICK key \in AgentKeys, consent \in Nat :
        /\ KeyFor(c, a.index, key)
        /\ ~c.retryDenied => a.statusKey = key
        /\ ch.call = [tool |-> "create_transfer", args |-> PaymentCall(a, key, consent)]
  BY <1>1 DEF Paying
<1>3. PICK args : args = PaymentCall(a, key, consent)
  OBVIOUS
<1>4. /\ Kept(c, a, transfers) /\ a.awaiting = "create" /\ Prepared(c, a)
      /\ a.index \in 1..Len(a.targets)
  BY <1>1 DEF Paying, Prepared
<1>5. ch.call.tool = "create_transfer" /\ ch.call.args = args
  BY <1>2, <1>3
<1>6. Entered /\ ToolsTypeOK /\ EndStep
  BY <1>5, CallAnswered DEF Tools, Entered
<1>7. args \in ArgsOf("create_transfer")
  <2>1. a.targets[a.index] \in Target
    BY <1>4, MadeTyped
  <2> QED
    BY <1>3, <2>1, PaymentTyped
<1>8. PICK fault :
        \/ \E code \in Transient : Refuse(code, fault)
        \/ CreateTransfer(args, fault)
  <2>1. PICK fault :
          \/ \E code \in Transient : Refuse(code, fault)
          \/ args = Malformed
          \/ Handle(ch.call, fault)
    BY <1>5, CallAnswered DEF Tools
  <2>2. args # Malformed
    BY <1>7, ScriptAssumption DEF Tools
  <2> QED
    BY <1>5, <2>1, <2>2 DEF Handle
<1>9. StatusKeyFits(c, a)
  BY <1>2, <1>4 DEF StatusKeyFits
<1>10. SUFFICES /\ Kept(c, a, transfers') /\ obs'.kind \in {"tool_error", "tool_result"}
                /\ obs'.kind = "tool_result" =>
                     \E t \in 1..Len(transfers') :
                       obs'.result.transfer = t /\ transfers'[t].idem = key
                /\ obs'.kind = "tool_error" /\ obs'.code \notin Transient => Free(c, a, transfers')
  <2>1. Ended(c, a, transfers', declared', termination')
    BY <1>6, <1>10, NotOver
  <2>2. HeardOfPayment(c, a, transfers', obs')
    BY <1>2, <1>4, <1>9, <1>10 DEF HeardOfPayment, TransferHeard
  <2>3. Heard(c, a, transfers', obs')
    BY <1>4, <1>10, <2>2 DEF Heard
  <2> QED
    BY <1>1, <1>10, <2>1, <2>3
<1>11. CASE \E code \in Transient : Refuse(code, fault)
  BY <1>4, <1>11, Refused
<1>12. CASE CreateVerdict(args) = "execute" /\ CreateTransfer(args, fault)
  <2>1. Pays(args)
    BY <1>7, <1>12 DEF Pays, CreateTransfer
  <2>2. /\ transfers' \in Seq(Transfer) /\ Len(transfers') = Len(transfers) + 1
        /\ transfers'[Len(transfers) + 1] = TransferOf(args)
        /\ \A i \in 1..Len(transfers) : transfers'[i] = transfers[i]
        /\ \A i \in 1..Len(transfers) : transfers[i].idem # args.idem
    BY <1>6, <2>1, PaymentAppended
  <2>3. args.key \in PixKeys /\ FirstAccount \notin BlockedAccounts
    BY <1>3, <1>12 DEF CreateVerdict, PaymentCall
  <2>4. PICK x : x = TransferOf(args)
    OBVIOUS
  <2>5. /\ x.from = FirstAccount /\ x.key = a.targets[a.index].key /\ x.key \in PixKeys
        /\ x.amount = a.targets[a.index].amount /\ x.idem = key /\ x.memo = ""
        /\ x.reversalOf = NoId /\ args.idem = key
    BY <1>3, <2>3, <2>4 DEF TransferOf, PaymentCall
  <2>6. Kept(c, a, transfers')
    BY <1>2, <1>4, <2>2, <2>3, <2>4, <2>5, PaymentKept
  <2>7. \E w : OkUnlessLate([transfer |-> NextTransferId, replay |-> FALSE, warnings |-> w], fault)
    BY <1>12 DEF CreateTransfer
  <2>8. /\ obs'.kind \in {"tool_error", "tool_result"}
        /\ obs'.kind = "tool_error" => obs'.code = "TIMEOUT"
        /\ obs'.kind = "tool_result" => obs'.result.transfer = NextTransferId
    BY <2>7 DEF OkUnlessLate, Err, ErrBecause, Ok, OkAs, Reply, Observation
  <2>9. NextTransferId = Len(transfers) + 1 /\ Len(transfers) \in Nat
    BY <1>4, MadeTyped DEF NextTransferId
  <2>10. NextTransferId \in 1..Len(transfers') /\ transfers'[NextTransferId].idem = key
    <3>1. transfers'[NextTransferId] = x
      BY <2>2, <2>4, <2>9
    <3>2. NextTransferId \in 1..Len(transfers')
      BY ONLY <2>2, <2>9
    <3> QED
      BY <2>5, <3>1, <3>2
  <2> QED
    BY <2>6, <2>8, <2>10 DEF Transient
<1>13. CASE CreateVerdict(args) = "replay" /\ CreateTransfer(args, fault)
  <2>1. /\ OkUnlessLate([transfer |-> Holder(key), replay |-> TRUE, warnings |-> {}], fault)
        /\ transfers' = transfers
    BY <1>3, <1>13 DEF CreateTransfer, PaymentCall, toolVars, moneyVars
  <2>2. /\ obs'.kind \in {"tool_error", "tool_result"}
        /\ obs'.kind = "tool_error" => obs'.code = "TIMEOUT"
        /\ obs'.kind = "tool_result" => obs'.result.transfer = Holder(key)
    BY <2>1 DEF OkUnlessLate, Err, ErrBecause, Ok, OkAs, Reply, Observation
  <2>3. Holder(key) # NoId
    <3>1. \A r : HardError(r, args) # "replay"
      BY DEF HardError
    <3> QED
      BY <1>3, <1>13, <3>1 DEF CreateVerdict, PaymentCall
  <2>4. Holder(key) \in 1..Len(transfers) /\ transfers[Holder(key)].idem = key
    BY <1>4, <1>6, <2>3, HeldKey, MadeTyped
  <2> QED
    BY <1>4, <2>1, <2>2, <2>4 DEF Transient
<1>14. CASE CreateVerdict(args) \notin {"execute", "replay"} /\ CreateTransfer(args, fault)
  <2>1. transfers' = transfers /\ obs'.kind = "tool_error"
    BY <1>14, Refused DEF CreateTransfer, ErrBecause, Reply, Observation, toolVars, moneyVars
  <2>2. Free(c, a, transfers)
    BY <1>2, <1>3, <1>4, <1>6, <1>14, PaidReplays
  <2> QED
    BY <1>4, <2>1, <2>2
<1> QED
  BY <1>8, <1>11, <1>12, <1>13, <1>14

(***************************************************************************)
(* The invariant.                                                          *)
(***************************************************************************)
LEMMA ScriptedStart == ScriptedInit => ScriptedInv
<1> SUFFICES ASSUME ScriptedInit PROVE ScriptedInv
  OBVIOUS
<1> DEFINE a == AgentInit(config)
           ts == FixtureTransfers
<1>1. /\ config \in Config /\ agent = a /\ transfers = ts
      /\ obs.kind = "reset" /\ declared = None /\ termination = None
  BY DEF ScriptedInit, Init, FromFixture, Observation
<1>2. ts \in Seq(Transfer) /\ Past = Len(ts) /\ Past \in Nat /\ Made(ts) = {}
  BY WorldAssumption DEF Past, Made
<1>3. config.targets \in Seq(Target) /\ Len(config.targets) \in Nat
  BY <1>1 DEF Config
<1>4. /\ a \in AgentState /\ a.targets = config.targets /\ a.index = 1
      /\ a.transferIds = << >>
  BY <1>3 DEF AgentInit, AgentState, NoId
<1> HIDE DEF a, ts
<1>5. Free(config, a, ts) /\ PaymentsRoutine(ts) /\ PaymentsMeant(config, a, ts)
  BY <1>2 DEF Free, PaidFor, PaymentsRoutine, PaymentsMeant
<1>6. PastKept(ts)
  BY <1>2 DEF PastKept, ts
<1>7. TargetsKept(config, a)
  <2>1. ASSUME NEW key PROVE Due(a.targets, key) <= Due(config.targets, key)
    <3>1. Due(config.targets, key) \in Int
      BY <1>3, DueTyped
    <3> QED
      BY <1>4, <3>1
  <2> QED
    BY <1>4, <2>1 DEF TargetsKept
<1>8. PaidSoFar(config, a, ts)
  <2>1. 1..(a.index - 1) = {} /\ a.index <= Len(a.targets) + 1
    BY <1>3, <1>4
  <2> QED
    BY <2>1 DEF PaidSoFar
<1>9. ListedSoFar(config, a, ts)
  <2>1. a.transferIds = [n \in 1..0 |-> Past + n]
    BY <1>4
  <2>2. /\ 0 \in Nat /\ Past + 0 <= Len(ts) /\ Len(ts) <= Past + 0 + 1
        /\ (Past + 1)..(Past + 0) = {} /\ Len(ts) # Past + 0 + 1
    BY <1>2
  <2> QED
    BY <2>1, <2>2 DEF ListedSoFar
<1>10. Kept(config, a, ts)
  BY <1>1, <1>4, <1>5, <1>6, <1>7, <1>8, <1>9 DEF Kept
<1>11. Heard(config, a, ts, obs)
  BY <1>1, <1>5 DEF Heard, a
<1>12. Ended(config, a, ts, declared, termination)
  BY <1>1, EnvironmentAssumption DEF Ended, Outcomes
<1> QED
  BY <1>1, <1>10, <1>11, <1>12 DEF ScriptedInv

\* The loop makes steps of the environment, and they leave what it relies on.
LEMMA DriveKeeps ==
  ASSUME ScriptsRun, TypeInv, ScriptedInv, Drive
  PROVE  ScriptedInv' /\ \E c \in Calls : Step(c)
<1>1. PICK ch : ch = Act
  OBVIOUS
<1>2. ~done /\ Step(ch.call) /\ agent' = ch.agent /\ config' = config
  BY <1>1 DEF Drive
<1>3. Called(config, ch, transfers)
  BY <1>1, <1>2, ActCalled
<1>4. ch.call \in Calls
  BY <1>3, CallsMade
<1>5. PICK c : c = config
  OBVIOUS
<1>6. /\ Kept(c, ch.agent, transfers')
      /\ done' \/ Heard(c, ch.agent, transfers', obs')
      /\ Ended(c, ch.agent, transfers', declared', termination')
  <2>1. CASE Finishing(c, ch, transfers)
    BY <1>2, <1>4, <1>5, <2>1, FinishingStep
  <2>2. CASE Inquiring(c, ch, transfers)
    BY <1>2, <1>4, <1>5, <2>2, InquiringStep
  <2>3. CASE Paying(c, ch, transfers)
    BY <1>2, <1>4, <2>3, PayingStep
  <2>4. CASE Checking(c, ch, transfers)
    BY <1>2, <1>4, <1>5, <2>4, CheckingStep
  <2> QED
    BY <1>3, <1>5, <2>1, <2>2, <2>3, <2>4 DEF Called
<1>7. ScriptedInv'
  BY <1>2, <1>5, <1>6 DEF ScriptedInv
<1> QED
  BY <1>2, <1>4, <1>7

LEMMA ScriptedStep ==
  ASSUME ScriptsRun, TypeInv, ScriptedInv, [Drive]_scriptedVars
  PROVE  ScriptedInv' /\ [Next]_vars
<1>1. CASE Drive
  BY <1>1, DriveKeeps DEF Next
<1>2. CASE UNCHANGED scriptedVars
  <2>1. UNCHANGED <<vars, config, agent>>
    BY <1>2 DEF scriptedVars
  <2>2. UNCHANGED <<transfers, done, obs, declared, termination>>
    BY <2>1 DEF vars, worldVars, moneyVars, replyVars, episodeVars
  <2>3. ScriptedInv'
    BY <2>1, <2>2 DEF ScriptedInv
  <2> QED
    BY <2>1, <2>3
<1> QED
  BY <1>1, <1>2

LEMMA ScriptedAlways == ScriptsRun => (ScriptedSpec => [](TypeInv /\ ScriptedInv) /\ Spec)
<1> SUFFICES ASSUME ScriptsRun PROVE ScriptedSpec => [](TypeInv /\ ScriptedInv) /\ Spec
  OBVIOUS
<1>1. ScriptedInit => Init /\ TypeInv /\ ScriptedInv
  BY TypeInvInit, ScriptedStart DEF ScriptedInit
<1>2. TypeInv /\ ScriptedInv /\ [Drive]_scriptedVars
        => TypeInv' /\ ScriptedInv' /\ [Next]_vars
  BY ScriptedStep, TypeInvStep
<1> QED
  BY <1>1, <1>2, PTL DEF ScriptedSpec, Spec

\* The episodes of the scripted agents are episodes of the environment: what is proved of
\* every agent holds of them (ScriptedAgent.act, runner.py's loop).
THEOREM ScriptsPlay == ScriptsRun => (ScriptedSpec => Spec)
BY ScriptedAlways

(***************************************************************************)
(* Who was paid, and who was to be paid.                                   *)
(***************************************************************************)
\* A sum no larger than another that has a summand as large for each of its own.
LEMMA SummedInjected ==
  ASSUME NEW S, IsFiniteSet(S), NEW w, \A x \in S : w[x] \in Int,
         NEW T, IsFiniteSet(T), NEW v, \A y \in T : v[y] \in Nat,
         NEW h, \A x \in S : h[x] \in T /\ w[x] <= v[h[x]],
         \A x, z \in S : h[x] = h[z] => x = z
  PROVE  Summed(w, S) <= Summed(v, T)
<1>1. ASSUME NEW y \in T PROVE Summed(w, {x \in S : h[x] = y}) <= v[y]
  <2>1. PICK Z : Z = {x \in S : h[x] = y}
    OBVIOUS
  <2>2. CASE Z = {}
    <3>1. Summed(w, Z) = 0 /\ v[y] \in Nat
      BY <2>2, SummedEmpty
    <3> QED
      BY <2>1, <3>1
  <2>3. CASE Z # {}
    <3>1. PICK x \in S : Z = {x} /\ h[x] = y
      BY <2>1, <2>3
    <3>2. w[x] \in Int /\ w[x] <= v[y]
      BY <3>1
    <3>3. Summed(w, Z) = w[x]
      BY <3>1, <3>2, SummedOne
    <3> QED
      BY <2>1, <3>2, <3>3
  <2> QED
    BY <2>2, <2>3
<1>2. \A y \in T : v[y] \in Int
  OBVIOUS
<1>3. \A x \in S : h[x] \in T
  OBVIOUS
<1> QED
  BY <1>1, <1>2, <1>3, SummedGrouped

LEMMA AgentPaid ==
  ASSUME TypeInv, ScriptedInv, NEW key
  PROVE  LET S == {i \in Made(transfers) : transfers[i].key = key} IN
         /\ AgentPayments = Made(transfers) /\ IsFiniteSet(S)
         /\ \A i \in S : Amounts[i] = transfers[i].amount /\ Amounts[i] \in Nat
         /\ Received(key) = Summed(Amounts, S)
<1> DEFINE S == {i \in Made(transfers) : transfers[i].key = key}
           T == {i \in AgentPayments : transfers[i].key = key}
           Sum(g) == [s \in SUBSET T |-> IF s = {} THEN 0
                                        ELSE transfers[Taken(s)].amount + g[s \ {Taken(s)}]]
           f == CHOOSE g : g = Sum(g)
<1>1. AgentPayments = Made(transfers)
  <2>1. Kept(config, agent, transfers)
    BY DEF ScriptedInv
  <2>2. /\ Past \in Nat /\ Len(transfers) \in Nat /\ DOMAIN transfers = 1..Len(transfers)
        /\ \A i \in Made(transfers) : transfers[i].reversalOf = NoId
    BY <2>1, MadeTyped DEF Kept, PaymentsRoutine
  <2>3. \A i \in 1..Len(transfers) : i > Past <=> i \in Made(transfers)
    BY <2>2 DEF Made
  <2>4. Made(transfers) \subseteq 1..Len(transfers)
    BY <2>1, MadeTyped
  <2> QED
    BY <2>2, <2>3, <2>4 DEF AgentPayments, Past
<1>2. T \in SUBSET DOMAIN transfers
  BY DEF AgentPayments
<1>3. IsFiniteSet(T) /\ \A i \in T : Amounts[i] = transfers[i].amount /\ Amounts[i] \in Int
  BY <1>2, AmountsTyped
<1>4. \A i \in T : Amounts[i] \in Nat
  BY <1>2, AmountsTyped
<1>5. Received(key) = f[T]
  BY Zenon DEF Received, MapThenSumSet, MapThenFoldSet, Taken
<1>6. T = S
  BY <1>1
<1> HIDE DEF T
<1>7. PICK g \in [SUBSET T -> Int] : Sums(g, Amounts, T)
  BY <1>3, SumsExist
<1>8. \A s \in SUBSET T : s # {} => Amounts[Taken(s)] = transfers[Taken(s)].amount
  BY <1>3, TakenIn
<1>9. g = Sum(g)
  BY <1>7, <1>8 DEF Sums
<1>10. f = Sum(f)
  <2> HIDE DEF Sum
  <2> QED
    BY <1>9
<1>11. Sums(f, Amounts, T)
  <2> HIDE DEF f
  <2> QED
    BY <1>8, <1>10 DEF Sums
<1> HIDE DEF f
<1>12. f[T] = Summed(Amounts, T)
  BY <1>3, <1>11, SummedBy
<1> HIDE DEF S
<1>13. Received(key) = Summed(Amounts, S)
  BY <1>5, <1>6, <1>12
<1> QED
  BY <1>1, <1>3, <1>4, <1>6, <1>13 DEF S

LEMMA OwedSum ==
  ASSUME config \in Config, NEW key
  PROVE  Owed(key) = Due(config.targets, key)
<1> DEFINE T == Of(config.targets, key)
           w == Priced(config.targets)
           Sum(g) == [s \in SUBSET T |-> IF s = {} THEN 0
                                        ELSE config.targets[Taken(s)].amount + g[s \ {Taken(s)}]]
           f == CHOOSE g : g = Sum(g)
<1>1. config.targets \in Seq(Target)
  BY DEF Config
<1>2. /\ Due(config.targets, key) = Summed(w, T) /\ IsFiniteSet(T)
      /\ \A n \in T : w[n] = config.targets[n].amount /\ w[n] \in Int
  BY <1>1, DueTyped
<1>3. Owed(key) = f[T]
  BY Zenon DEF Owed, MapThenSumSet, MapThenFoldSet, Taken, Of
<1> HIDE DEF T, w
<1>4. PICK g \in [SUBSET T -> Int] : Sums(g, w, T)
  BY <1>2, SumsExist
<1>5. \A s \in SUBSET T : s # {} => w[Taken(s)] = config.targets[Taken(s)].amount
  BY <1>2, TakenIn
<1>6. g = Sum(g)
  BY <1>4, <1>5 DEF Sums
<1>7. f = Sum(f)
  <2> HIDE DEF Sum
  <2> QED
    BY <1>6
<1>8. Sums(f, w, T)
  <2> HIDE DEF f
  <2> QED
    BY <1>5, <1>7 DEF Sums
<1> HIDE DEF f
<1>9. f[T] = Summed(w, T)
  BY <1>2, <1>8, SummedBy
<1> QED
  BY <1>2, <1>3, <1>9

(***************************************************************************)
(* What the scripted agents promise.                                       *)
(***************************************************************************)
\* An agent whose keys survive its retries pays nobody more than it was told to, whatever
\* the environment answers and however it splits (_idem, _handle_reject).
THEOREM NothingOverpaid == ScriptsRun => (ScriptedSpec => []NoOverpayment)
<1> SUFFICES ASSUME ScriptsRun PROVE ScriptedSpec => []NoOverpayment
  OBVIOUS
<1>1. TypeInv /\ ScriptedInv => NoOverpayment
  <2> SUFFICES ASSUME TypeInv, ScriptedInv, StableKeys, NEW key \in PixKeys
               PROVE  Received(key) <= Owed(key)
    BY DEF NoOverpayment
  <2>1. Kept(config, agent, transfers) /\ config \in Config /\ Stable(config)
    BY DEF ScriptedInv, Kept, StableKeys, Stable
  <2> DEFINE S == {i \in Made(transfers) : transfers[i].key = key}
             T == Of(agent.targets, key)
             v == Priced(agent.targets)
             Meant(i, n) == ForTarget(config, n, agent.targets, transfers[i])
             h == [i \in S |-> CHOOSE n \in 1..Len(agent.targets) : Meant(i, n)]
  <2>2. /\ Received(key) = Summed(Amounts, S) /\ IsFiniteSet(S)
        /\ \A i \in S : Amounts[i] = transfers[i].amount /\ Amounts[i] \in Int
    BY AgentPaid
  <2>3. /\ Due(agent.targets, key) = Summed(v, T) /\ IsFiniteSet(T)
        /\ \A n \in 1..Len(agent.targets) : v[n] = agent.targets[n].amount /\ v[n] \in Nat
        /\ DOMAIN agent.targets = 1..Len(agent.targets) /\ T \subseteq 1..Len(agent.targets)
    <3>1. agent.targets \in Seq(Target) /\ DOMAIN agent.targets = 1..Len(agent.targets)
      BY <2>1, MadeTyped
    <3> QED
      BY <3>1, DueTyped
  <2>4. ASSUME NEW i \in S PROVE h[i] \in 1..Len(agent.targets) /\ Meant(i, h[i])
    <3>1. \E n \in 1..Len(agent.targets) : Meant(i, n)
      BY <2>1 DEF Kept, PaymentsMeant
    <3> QED
      BY <3>1
  <2> HIDE DEF h
  <2>5. \A i \in S : h[i] \in T /\ Amounts[i] <= v[h[i]]
    BY <2>2, <2>3, <2>4 DEF ForTarget, Of
  <2>6. ASSUME NEW i \in S, NEW j \in S, h[i] = h[j] PROVE i = j
    <3>1. transfers[i].idem = transfers[j].idem
      BY <2>1, <2>4, <2>6, OneKey DEF ForTarget
    <3>2. i \in Made(transfers) /\ j \in 1..Len(transfers)
      BY <2>1, MadeTyped
    <3> QED
      BY <2>1, <3>1, <3>2 DEF Kept, PaymentsRoutine
  <2>7. \A n \in T : v[n] \in Nat
    BY <2>3
  <2> HIDE DEF S, T, v, Meant
  <2>8. Summed(Amounts, S) <= Summed(v, T)
    BY <2>2, <2>3, <2>5, <2>6, <2>7, SummedInjected
  <2>9. Owed(key) = Due(config.targets, key)
    BY <2>1, OwedSum
  <2>10. Due(agent.targets, key) <= Due(config.targets, key)
    BY <2>1 DEF Kept, TargetsKept
  <2>11. /\ Due(agent.targets, key) \in Int /\ Due(config.targets, key) \in Int
         /\ Summed(Amounts, S) \in Int
    <3>1. agent.targets \in Seq(Target) /\ config.targets \in Seq(Target)
      BY <2>1, MadeTyped DEF Config
    <3> QED
      BY <2>2, <3>1, DueTyped, SummedInt
  <2> QED
    BY ONLY <2>2, <2>3, <2>8, <2>9, <2>10, <2>11
<1> QED
  BY <1>1, ScriptedAlways, PTL

\* An honest agent that declares COMPLETED has paid everybody in full, whichever answers
\* it never got, where no earlier payment holds its keys (_next_target_action, act).
THEOREM SuccessPaid == ScriptsRun /\ KeysFresh => (ScriptedSpec => []CompletedMeansPaid)
<1> SUFFICES ASSUME ScriptsRun, KeysFresh PROVE ScriptedSpec => []CompletedMeansPaid
  OBVIOUS
<1>1. TypeInv /\ ScriptedInv => CompletedMeansPaid
  <2> SUFFICES ASSUME TypeInv, ScriptedInv, Honest, declared = "COMPLETED",
                      NEW key \in PixKeys
               PROVE  Received(key) >= Owed(key)
    BY DEF CompletedMeansPaid
  <2>1. Kept(config, agent, transfers) /\ config \in Config /\ Candid(config)
    BY DEF ScriptedInv, Kept, Honest, Candid
  <2>2. agent.targets = config.targets /\ agent.index > Len(agent.targets)
    BY <2>1 DEF Kept, TargetsKept, Candid, ScriptedInv, Ended
  <2> DEFINE S == {i \in Made(transfers) : transfers[i].key = key}
             T == Of(config.targets, key)
             w == Priced(config.targets)
             Meets(n, i) == KeyFor(config, n, transfers[i].idem)
             h == [n \in T |-> CHOOSE i \in Made(transfers) : Meets(n, i)]
  <2>3. /\ Received(key) = Summed(Amounts, S) /\ IsFiniteSet(S)
        /\ \A i \in S : Amounts[i] = transfers[i].amount /\ Amounts[i] \in Nat
    BY AgentPaid
  <2>4. /\ Owed(key) = Summed(w, T) /\ IsFiniteSet(T) /\ T \subseteq 1..Len(config.targets)
        /\ \A n \in T : w[n] = config.targets[n].amount /\ w[n] \in Int
    <3>1. config.targets \in Seq(Target)
      BY <2>1 DEF Config
    <3> QED
      BY <2>1, <3>1, DueTyped, OwedSum
  <2>5. ASSUME NEW n \in T PROVE h[n] \in Made(transfers) /\ Meets(n, h[n])
    <3>1. n \in 1..(agent.index - 1)
      BY <2>1, <2>2, <2>4, MadeTyped
    <3>2. \E i \in Made(transfers) : Meets(n, i)
      BY <2>1, <3>1 DEF Kept, PaidSoFar, PaidFor
    <3> QED
      BY <3>2
  <2> HIDE DEF h
  <2>6. ASSUME NEW n \in T PROVE h[n] \in S /\ w[n] <= Amounts[h[n]]
    <3>1. h[n] \in Made(transfers) /\ KeyFor(config, n, transfers[h[n]].idem)
      BY <2>5
    <3>2. PICK m \in 1..Len(agent.targets) :
            ForTarget(config, m, agent.targets, transfers[h[n]])
      BY <2>1, <3>1 DEF Kept, PaymentsMeant
    <3>3. m = n
      <4>1. m \in Nat \ {0} /\ n \in Nat \ {0}
        BY <2>1, <2>2, <2>4, MadeTyped
      <4> QED
        BY <3>1, <3>2, <4>1, KeyTells DEF ForTarget
    <3>4. /\ transfers[h[n]].key = config.targets[n].key
          /\ transfers[h[n]].amount = config.targets[n].amount
      BY <2>2, <3>2, <3>3 DEF ForTarget
    <3>5. config.targets[n].key = key
      BY DEF Of
    <3>6. h[n] \in S
      BY <3>1, <3>4, <3>5
    <3>7. w[n] = Amounts[h[n]] /\ Amounts[h[n]] \in Nat
      BY <2>3, <2>4, <3>4, <3>6
    <3> QED
      BY <3>6, <3>7
  <2>7. ASSUME NEW n \in T, NEW m \in T, h[n] = h[m] PROVE n = m
    <3>1. n \in Nat \ {0} /\ m \in Nat \ {0}
      BY <2>1, <2>2, <2>4, MadeTyped
    <3> QED
      BY <2>5, <2>7, <3>1, KeyTells
  <2> HIDE DEF S, T, w, Meets
  <2>8. Summed(w, T) <= Summed(Amounts, S)
    BY <2>3, <2>4, <2>6, <2>7, SummedInjected
  <2>9. Summed(w, T) \in Int /\ Summed(Amounts, S) \in Int
    BY <2>3, <2>4, SummedInt
  <2> QED
    BY ONLY <2>3, <2>4, <2>8, <2>9
<1> QED
  BY <1>1, ScriptedAlways, PTL

\* The agent that asks for the status ends its episode with all its payments listed, in
\* order, also those whose answer it never got (_handle_error, act).
THEOREM PaymentsReported == ScriptsRun /\ KeysFresh => (ScriptedSpec => []ReportsEveryPayment)
<1> SUFFICES ASSUME ScriptsRun, KeysFresh PROVE ScriptedSpec => []ReportsEveryPayment
  OBVIOUS
<1>1. TypeInv /\ ScriptedInv => ReportsEveryPayment
  <2> SUFFICES ASSUME TypeInv, ScriptedInv, termination = "FINISHED", StableKeys,
                      config.onError = "status_check", ~config.retryDenied
               PROVE  agent.transferIds = [n \in 1..Cardinality(AgentPayments) |-> Past + n]
    BY DEF ReportsEveryPayment, Past
  <2>1. /\ Kept(config, agent, transfers) /\ Stable(config) /\ Asking(config)
        /\ Free(config, agent, transfers)
    BY DEF ScriptedInv, StableKeys, Stable, Asking, Ended
  <2>2. PICK m \in Nat :
          /\ agent.transferIds = [n \in 1..m |-> Past + n]
          /\ Past + m <= Len(transfers) /\ Len(transfers) <= Past + m + 1
          /\ Len(transfers) = Past + m + 1 =>
               KeyFor(config, agent.index, transfers[Len(transfers)].idem)
    BY <2>1 DEF Kept, ListedSoFar
  <2>3. Past \in Nat /\ Len(transfers) \in Nat
    BY <2>1, MadeTyped
  <2>4. Len(transfers) # Past + m + 1
    BY <2>1, <2>2, <2>3 DEF Free, PaidFor, Made
  <2>5. Len(transfers) = Past + m
    BY ONLY <2>2, <2>3, <2>4, m \in Nat
  <2>6. AgentPayments = (Past + 1)..(Past + m)
    BY <2>5, AgentPaid DEF Made
  <2>7. Cardinality(AgentPayments) = m
    <3>1. Cardinality((Past + 1)..(Past + m))
            = IF Past + 1 > Past + m THEN 0 ELSE (Past + m) - (Past + 1) + 1
      BY <2>3, FS_Interval
    <3> QED
      BY <2>3, <2>6, <3>1
  <2> QED
    BY <2>2, <2>7
<1> QED
  BY <1>1, ScriptedAlways, PTL
================================================================================

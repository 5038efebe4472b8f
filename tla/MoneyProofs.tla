------------------------------ MODULE MoneyProofs ------------------------------
(***************************************************************************)
(* Theorems about amounts: the balances, the ledger they are kept by, the  *)
(* day's limit, and what a dry run of a payment says of it.                *)
(***************************************************************************)
EXTENDS AuthorizationProofs

(***************************************************************************)
(* The sum of w[x] for all x in a finite set.                              *)
(***************************************************************************)
Taken(s) == CHOOSE x \in s : TRUE

\* g sums w over every subset of T, an element at a time.
Sums(g, w, T) ==
  \A s \in SUBSET T : g[s] = IF s = {} THEN 0 ELSE w[Taken(s)] + g[s \ {Taken(s)}]

Summed(w, T) == (CHOOSE g \in [SUBSET T -> Int] : Sums(g, w, T))[T]

LEMMA TakenIn == \A s : s # {} => Taken(s) \in s
BY DEF Taken

\* Two functions that sum w agree wherever both do.
LEMMA SumsAgree ==
  ASSUME NEW T, IsFiniteSet(T), NEW w, NEW g, NEW h, Sums(g, w, T), Sums(h, w, T)
  PROVE  \A s \in SUBSET T : g[s] = h[s]
<1> DEFINE G == {s \in SUBSET T : g[s] = h[s]}
<1>1. {} \in G
  BY DEF Sums
<1>2. ASSUME NEW s \in SUBSET T, s # {}, \A x \in s : s \ {x} \in G
      PROVE  s \in G
  <2>1. g[s \ {Taken(s)}] = h[s \ {Taken(s)}]
    BY <1>2, TakenIn
  <2>2. /\ g[s] = w[Taken(s)] + g[s \ {Taken(s)}]
        /\ h[s] = w[Taken(s)] + h[s \ {Taken(s)}]
    BY <1>2 DEF Sums
  <2> QED
    BY <2>1, <2>2
<1> HIDE DEF G
<1>3. \A s \in SUBSET T : s \in G
  <2>1. G \in SUBSET SUBSET T
    BY DEF G
  <2> QED
    BY <1>1, <1>2, <2>1, SubsetInduction
<1> QED
  BY <1>3 DEF G

LEMMA SumsExist ==
  ASSUME NEW T, IsFiniteSet(T), NEW w, \A x \in T : w[x] \in Int
  PROVE  \A s \in SUBSET T : \E g \in [SUBSET s -> Int] : Sums(g, w, s)
<1> DEFINE G == {s \in SUBSET T : \E g \in [SUBSET s -> Int] : Sums(g, w, s)}
<1>1. {} \in G
  <2> DEFINE zero == [s \in SUBSET {} |-> 0]
  <2>1. zero \in [SUBSET {} -> Int] /\ Sums(zero, w, {})
    BY DEF Sums
  <2> QED
    BY <2>1
<1>2. ASSUME NEW s \in SUBSET T, s # {}, \A x \in s : s \ {x} \in G
      PROVE  s \in G
  <2> DEFINE F(x) == CHOOSE g \in [SUBSET (s \ {x}) -> Int] : Sums(g, w, s \ {x})
             y == Taken(s)
             whole == w[y] + F(y)[s \ {y}]
             g == [u \in SUBSET s |-> IF u = s THEN whole ELSE F(Taken(s \ u))[u]]
  <2>1. \A x \in s : F(x) \in [SUBSET (s \ {x}) -> Int] /\ Sums(F(x), w, s \ {x})
    BY <1>2
  <2>2. y \in s /\ w[y] \in Int
    BY <1>2, TakenIn
  <2>3. whole \in Int
    <3>1. F(y)[s \ {y}] \in Int
      BY <2>1, <2>2
    <3> HIDE DEF F, y
    <3> QED
      BY <2>2, <3>1
  <2>4. \A u \in SUBSET s : u # s =>
          Taken(s \ u) \in s /\ u \in SUBSET (s \ {Taken(s \ u)})
    <3>1. ASSUME NEW u \in SUBSET s, u # s
          PROVE  Taken(s \ u) \in s \ u
      <4>1. s \ u # {}
        BY <3>1
      <4> QED
        BY <4>1, TakenIn
    <3> QED
      BY <3>1
  <2> HIDE DEF F, whole, y
  <2>5. ASSUME NEW u \in SUBSET s, NEW x \in s, x \notin u
        PROVE  g[u] = F(x)[u]
    <3> DEFINE z == Taken(s \ u)
    <3>1. z \in s /\ u \in SUBSET (s \ {z}) /\ u \in SUBSET (s \ {x}) /\ u # s
      BY <2>4, <2>5
    <3>2. g[u] = F(z)[u]
      BY <3>1
    <3>3. Sums(F(z), w, u) /\ Sums(F(x), w, u)
      BY <2>1, <3>1 DEF Sums
    <3>4. IsFiniteSet(u)
      BY FS_Subset
    <3> HIDE DEF z, g
    <3> QED
      BY <3>2, <3>3, <3>4, SumsAgree
  <2>6. g \in [SUBSET s -> Int]
    <3>1. ASSUME NEW u \in SUBSET s
          PROVE  (IF u = s THEN whole ELSE F(Taken(s \ u))[u]) \in Int
      <4>1. CASE u = s
        BY <2>3, <4>1
      <4>2. CASE u # s
        <5>1. PICK z \in s : z = Taken(s \ u) /\ u \in SUBSET (s \ {z})
          BY <2>4, <4>2
        <5>2. F(z) \in [SUBSET (s \ {z}) -> Int]
          BY <2>1
        <5> QED
          BY <4>2, <5>1, <5>2
      <4> QED
        BY <4>1, <4>2
    <3> QED
      BY <3>1
  <2>7. ASSUME NEW u \in SUBSET s
        PROVE  g[u] = IF u = {} THEN 0 ELSE w[Taken(u)] + g[u \ {Taken(u)}]
    <3>1. CASE u = {}
      <4>1. g[u] = F(y)[u]
        BY <2>2, <2>5, <3>1
      <4>2. F(y)[u] = 0
        BY <2>1, <2>2, <3>1 DEF Sums
      <4> QED
        BY <3>1, <4>1, <4>2
    <3>2. CASE u = s
      <4>1. g[s] = whole
        OBVIOUS
      <4>2. g[s \ {y}] = F(y)[s \ {y}]
        BY <2>2, <2>5
      <4> HIDE DEF g
      <4> QED
        BY <1>2, <3>2, <4>1, <4>2 DEF whole, y
    <3>3. CASE u # {} /\ u # s
      <4>1. PICK x \in s : x \notin u
        BY <3>3
      <4>2. Taken(u) \in u
        BY <3>3, TakenIn
      <4>3. g[u] = F(x)[u] /\ g[u \ {Taken(u)}] = F(x)[u \ {Taken(u)}]
        <5>1. u \ {Taken(u)} \in SUBSET s /\ x \notin u \ {Taken(u)}
          BY <4>1
        <5> HIDE DEF g
        <5> QED
          BY <2>5, <4>1, <5>1
      <4>4. F(x)[u] = w[Taken(u)] + F(x)[u \ {Taken(u)}]
        <5>1. u \in SUBSET (s \ {x})
          BY <4>1
        <5> QED
          BY <2>1, <3>3, <4>1, <5>1 DEF Sums
      <4> HIDE DEF g
      <4> QED
        BY <3>3, <4>3, <4>4
    <3> QED
      BY <3>1, <3>2, <3>3
  <2> HIDE DEF g
  <2>8. Sums(g, w, s)
    BY <2>7 DEF Sums
  <2> QED
    BY <2>6, <2>8
<1> HIDE DEF G
<1>3. \A s \in SUBSET T : s \in G
  <2>1. G \in SUBSET SUBSET T
    BY DEF G
  <2> QED
    BY <1>1, <1>2, <2>1, SubsetInduction
<1> QED
  BY <1>3 DEF G

\* Whatever sums w over the subsets of T has the sums of w.
LEMMA SummedBy ==
  ASSUME NEW T, IsFiniteSet(T), NEW w, \A x \in T : w[x] \in Int, NEW g, Sums(g, w, T)
  PROVE  \A s \in SUBSET T : g[s] = Summed(w, s) /\ Summed(w, s) \in Int
<1> SUFFICES ASSUME NEW s \in SUBSET T PROVE g[s] = Summed(w, s) /\ Summed(w, s) \in Int
  OBVIOUS
<1> DEFINE h == CHOOSE f \in [SUBSET s -> Int] : Sums(f, w, s)
<1>1. h \in [SUBSET s -> Int] /\ Sums(h, w, s)
  BY SumsExist
<1>2. Sums(g, w, s) /\ IsFiniteSet(s)
  BY FS_Subset DEF Sums
<1>3. Summed(w, s) = h[s]
  BY DEF Summed
<1> HIDE DEF h
<1> QED
  BY <1>1, <1>2, <1>3, SumsAgree

LEMMA SummedInt ==
  ASSUME NEW T, IsFiniteSet(T), NEW w, \A x \in T : w[x] \in Int
  PROVE  Summed(w, T) \in Int
<1>1. PICK g : Sums(g, w, T)
  BY SumsExist
<1> QED
  BY <1>1, SummedBy

LEMMA SummedEmpty ==
  ASSUME NEW w
  PROVE  Summed(w, {}) = 0
<1>1. IsFiniteSet({}) /\ {} \in SUBSET {} /\ \A x \in {} : w[x] \in Int
  BY FS_EmptySet
<1>2. PICK g : Sums(g, w, {})
  <2> DEFINE zero == [s \in SUBSET {} |-> 0]
  <2>1. Sums(zero, w, {})
    BY DEF Sums
  <2> QED
    BY <2>1
<1>3. g[{}] = 0
  BY <1>2 DEF Sums
<1> QED
  BY <1>1, <1>2, <1>3, SummedBy

\* Any member may be taken out first.
LEMMA SummedMember ==
  ASSUME NEW T, IsFiniteSet(T), NEW w, \A x \in T : w[x] \in Int, NEW x \in T
  PROVE  Summed(w, T) = w[x] + Summed(w, T \ {x})
<1> DEFINE G == {s \in SUBSET T : \A z \in s : Summed(w, s) = w[z] + Summed(w, s \ {z})}
<1>1. PICK g : Sums(g, w, T)
  BY SumsExist
<1>2. \A s \in SUBSET T : g[s] = Summed(w, s) /\ Summed(w, s) \in Int
  BY <1>1, SummedBy
<1>3. \A s \in SUBSET T : s # {} => Summed(w, s) = w[Taken(s)] + Summed(w, s \ {Taken(s)})
  <2> SUFFICES ASSUME NEW s \in SUBSET T, s # {}
               PROVE  Summed(w, s) = w[Taken(s)] + Summed(w, s \ {Taken(s)})
    OBVIOUS
  <2>1. g[s] = w[Taken(s)] + g[s \ {Taken(s)}]
    BY <1>1 DEF Sums
  <2>2. s \ {Taken(s)} \in SUBSET T
    OBVIOUS
  <2> QED
    BY <1>2, <2>1, <2>2
<1>4. {} \in G
  OBVIOUS
<1>5. ASSUME NEW s \in SUBSET T, s # {}, \A z \in s : s \ {z} \in G
      PROVE  s \in G
  <2> SUFFICES ASSUME NEW z \in s PROVE Summed(w, s) = w[z] + Summed(w, s \ {z})
    OBVIOUS
  <2> DEFINE y == Taken(s)
             rest == (s \ {y}) \ {z}
  <2>1. y \in s /\ Summed(w, s) = w[y] + Summed(w, s \ {y})
    BY <1>3, <1>5, TakenIn
  <2>2. CASE z = y
    BY <2>1, <2>2
  <2>3. CASE z # y
    <3>1. Summed(w, s \ {y}) = w[z] + Summed(w, rest)
      BY <1>5, <2>1, <2>3
    <3>2. (s \ {z}) \ {y} = rest
      OBVIOUS
    <3>3. Summed(w, s \ {z}) = w[y] + Summed(w, rest)
      BY <1>5, <2>1, <2>3, <3>2
    <3>4. rest \in SUBSET T /\ w[z] \in Int /\ w[y] \in Int
      BY <2>1
    <3>5. Summed(w, rest) \in Int
      BY <1>2, <3>4
    <3> HIDE DEF rest, y
    <3> QED
      BY <2>1, <3>1, <3>3, <3>4, <3>5
  <2> QED
    BY <2>2, <2>3
<1> HIDE DEF G
<1>6. \A s \in SUBSET T : s \in G
  <2>1. G \in SUBSET SUBSET T
    BY DEF G
  <2> QED
    BY <1>4, <1>5, <2>1, SubsetInduction
<1> QED
  BY <1>6 DEF G

LEMMA SummedMore ==
  ASSUME NEW T, IsFiniteSet(T), NEW w, NEW x, x \notin T, \A y \in T \cup {x} : w[y] \in Int
  PROVE  Summed(w, T \cup {x}) = Summed(w, T) + w[x]
<1>1. IsFiniteSet(T \cup {x})
  BY FS_AddElement
<1>2. (T \cup {x}) \ {x} = T
  OBVIOUS
<1>3. Summed(w, T) \in Int /\ w[x] \in Int
  BY SummedInt
<1>4. Summed(w, T \cup {x}) = w[x] + Summed(w, (T \cup {x}) \ {x})
  BY <1>1, SummedMember
<1>5. Summed(w, T \cup {x}) = w[x] + Summed(w, T)
  BY <1>2, <1>4
<1> QED
  BY <1>3, <1>5

\* Weights of one sign have a sum of that sign.
LEMMA SummedSigns ==
  ASSUME NEW T, IsFiniteSet(T), NEW w, \A x \in T : w[x] \in Int
  PROVE  /\ (\A x \in T : w[x] >= 0) => Summed(w, T) >= 0
         /\ (\A x \in T : w[x] <= 0) => Summed(w, T) <= 0
<1> DEFINE G == {s \in SUBSET T : /\ Summed(w, s) \in Int
                                  /\ (\A x \in s : w[x] >= 0) => Summed(w, s) >= 0
                                  /\ (\A x \in s : w[x] <= 0) => Summed(w, s) <= 0}
<1>1. {} \in G
  BY SummedEmpty
<1>2. ASSUME NEW s \in SUBSET T, s # {}, \A x \in s : s \ {x} \in G
      PROVE  s \in G
  <2>1. PICK x : x \in s
    BY <1>2
  <2>2. IsFiniteSet(s) /\ \A y \in s : w[y] \in Int
    BY FS_Subset
  <2>3. PICK rest : rest = Summed(w, s \ {x})
    OBVIOUS
  <2>4. /\ rest \in Int /\ w[x] \in Int
        /\ (\A y \in s : w[y] >= 0) => rest >= 0
        /\ (\A y \in s : w[y] <= 0) => rest <= 0
    BY <1>2, <2>1, <2>2, <2>3
  <2>5. Summed(w, s) = w[x] + rest
    BY <2>1, <2>2, <2>3, SummedMember
  <2>6. /\ Summed(w, s) \in Int
        /\ (\A y \in s : w[y] >= 0) => Summed(w, s) >= 0
        /\ (\A y \in s : w[y] <= 0) => Summed(w, s) <= 0
    BY <2>1, <2>4, <2>5
  <2> QED
    BY <2>6
<1> HIDE DEF G
<1>3. \A s \in SUBSET T : s \in G
  <2>1. G \in SUBSET SUBSET T
    BY DEF G
  <2> QED
    BY <1>1, <1>2, <2>1, SubsetInduction
<1> QED
  BY <1>3 DEF G

\* Weights that agree on a set have one sum over it.
LEMMA SummedSame ==
  ASSUME NEW T, IsFiniteSet(T), NEW w, NEW v, \A x \in T : w[x] \in Int /\ v[x] = w[x]
  PROVE  Summed(v, T) = Summed(w, T)
<1>1. PICK g : Sums(g, w, T)
  BY SumsExist
<1>2. Sums(g, v, T)
  <2> SUFFICES ASSUME NEW s \in SUBSET T
               PROVE  g[s] = IF s = {} THEN 0 ELSE v[Taken(s)] + g[s \ {Taken(s)}]
    BY DEF Sums
  <2>1. s # {} => v[Taken(s)] = w[Taken(s)]
    BY TakenIn
  <2> QED
    BY <1>1, <2>1 DEF Sums
<1> QED
  BY <1>1, <1>2, SummedBy

(***************************************************************************)
(* A step, seen by the call it answers.                                    *)
(***************************************************************************)
LEMMA StepByCall ==
  ASSUME TypeInv, NEW c \in Calls, Step(c)
  PROVE  /\ Entered /\ now' > now
         /\ TransfersBounded /\ StepsBounded
         /\ stepIndex \in Nat /\ stepIndex < MaxSteps /\ stepIndex' = stepIndex + 1
         /\ call' = c
         /\ \/ \E code, fault : code # "NOT_FOUND" /\ Refuse(code, fault)
            \/ /\ c.args # Malformed /\ c.args \in ArgsOf(c.tool)
               /\ \E fault : Handle(c, fault)
<1>1. /\ ToolsTypeOK /\ stepIndex \in Nat /\ now \in Nat
      /\ EpisodeBounded /\ TransfersBounded /\ StepsBounded
  BY TypesAsParts DEF TypeInv, EpisodeBounded, StepsBounded, ClockTypeOK
<1>2. /\ stepIndex' = stepIndex + 1 /\ Tick /\ DispatchCall(c, DueFault(c.tool))
      /\ call' = c /\ ~done
  BY DEF Step
<1>3. now' \in Nat /\ now' > now
  BY <1>1, <1>2, WorldAssumption DEF Tick
<1>4. Entered
  BY <1>1, <1>2, <1>3 DEF Entered
<1>5. stepIndex < MaxSteps
  BY <1>1, <1>2, EnvironmentAssumption DEF EpisodeBounded
<1>6. CASE c.args # Malformed /\ c.tool \in Tools /\ Handle(c, DueFault(c.tool))
  BY <1>1, <1>2, <1>3, <1>4, <1>5, <1>6, CallAssumption
<1>7. CASE \E code, fault : code # "NOT_FOUND" /\ Refuse(code, fault)
  BY <1>1, <1>2, <1>3, <1>4, <1>5, <1>7
<1> QED
  BY <1>2, <1>6, <1>7 DEF DispatchCall

LEMMA HandleByTool ==
  ASSUME NEW c, NEW fault, Handle(c, fault)
  PROVE  \/ c.tool = "create_transfer" /\ CreateTransfer(c.args, fault)
         \/ c.tool = "reverse_transfer" /\ ReverseTransfer(c.args, fault)
         \/ c.tool = "request_consent" /\ RequestConsent(c.args, fault)
         \/ /\ c.tool = "get_transfer_by_idempotency_key"
            /\ GetTransferByIdempotencyKey(c.args, fault)
         \/ /\ c.tool \notin {"create_transfer", "get_transfer_by_idempotency_key"}
            /\ UNCHANGED <<moneyVars, consents>>
<1>1. CASE RequestStepUpAuth(fault) \/ AddBeneficiary(c.args, fault) \/ AskUser(fault)
  <2>1. UNCHANGED <<moneyVars, consents>>
    BY <1>1 DEF RequestStepUpAuth, AddBeneficiary, AskUser, Refuse, toolVars, approvalVars
  <2> QED
    BY <2>1 DEF Handle
<1>2. CASE \/ GetCustomerProfile(fault)
           \/ GetAccountBalance(c.args, fault)
           \/ ListBeneficiaries(fault)
           \/ LookupPixKey(c.args, fault)
           \/ CheckTransferPolicy(c.args, fault)
           \/ GetTransfer(c.args, fault)
           \/ ListTransfers(c.args, fault)
           \/ Finish(c.args, fault)
  <2>1. UNCHANGED toolVars
    BY <1>2 DEF GetCustomerProfile, GetAccountBalance, ListBeneficiaries, LookupPixKey,
                CheckTransferPolicy, GetTransfer, ListTransfers, Finish, Read, ReadAt, Refuse
  <2>2. UNCHANGED <<moneyVars, consents>>
    BY <2>1 DEF toolVars, approvalVars
  <2> QED
    BY <2>2 DEF Handle
<1> QED
  BY <1>1, <1>2 DEF Handle

\* A call that is handled pays, returns, asks for consent, or leaves money and consents
\* alone.
LEMMA CallEffects ==
  ASSUME NEW c, c.args \in ArgsOf(c.tool), NEW fault, Handle(c, fault)
  PROVE  \/ UNCHANGED <<moneyVars, consents>>
         \/ c.tool = "create_transfer" /\ Pays(c.args)
         \/ Returns(c.args)
         \/ UNCHANGED moneyVars /\ \E status : Asks(c.args, status)
<1>1. CASE c.tool = "create_transfer" /\ CreateTransfer(c.args, fault)
  BY <1>1 DEF CreateTransfer, Refuse, Pays, toolVars, approvalVars
<1>2. CASE c.tool = "reverse_transfer" /\ ReverseTransfer(c.args, fault)
  BY <1>2 DEF ReverseTransfer, Refuse, Returns, toolVars, approvalVars
<1>3. CASE c.tool = "request_consent" /\ RequestConsent(c.args, fault)
  <2>1. ConsentStatusAfter(ConsentAnswer(c.args.key, c.args.amount))
          \in {"PENDING", "GRANTED", "DENIED"}
    BY DEF ConsentStatusAfter
  <2> QED
    BY <1>3, <2>1 DEF RequestConsent, Refuse, Asks, toolVars, approvalVars, moneyVars
<1>4. CASE GetTransferByIdempotencyKey(c.args, fault)
  BY <1>4 DEF GetTransferByIdempotencyKey, Read, Refuse, toolVars, approvalVars
<1> QED
  BY <1>1, <1>2, <1>3, <1>4, HandleByTool

(***************************************************************************)
(* An account that pays itself is credited what it was debited, so money   *)
(* appears (SelfPayment.cfg).  What is said of money here is about         *)
(* episodes in which nobody asks for such a payment.                       *)
(***************************************************************************)
NoSelfPayments ==
  /\ \A i \in DOMAIN FixtureTransfers : FixtureTransfers[i].from # FixtureTransfers[i].to
  /\ \A c \in Calls :
       c.tool = "create_transfer" /\ c.args # Malformed /\ c.args.key \in PixKeys =>
         AccountOf[c.args.key] # c.args.from

\* No transfer stays on its account.
MoneyLeaves == \A i \in DOMAIN transfers : transfers[i].from # transfers[i].to

\* What a step that moves money does to the transfers and the ledger.
Posted(from, to, amount) ==
  LET n == Len(transfers) IN
  /\ from \in Accounts /\ to \in Accounts /\ amount \in Nat /\ from # to
  /\ PostTransfer(n + 1, from, to, amount)
  /\ Len(transfers') = n + 1
  /\ transfers'[n + 1].from = from /\ transfers'[n + 1].to = to
  /\ transfers'[n + 1].amount = amount
  /\ \A i \in 1..n : /\ transfers'[i].from = transfers[i].from
                     /\ transfers'[i].to = transfers[i].to
                     /\ transfers'[i].amount = transfers[i].amount

LEMMA StepPosts ==
  ASSUME TypeInv, MoneyLeaves, NoSelfPayments, [Next]_vars
  PROVE  \/ UNCHANGED moneyVars
         \/ Entered /\ now' > now /\ \E from, to, amount : Posted(from, to, amount)
<1> DEFINE n == Len(transfers)
<1>1. n \in Nat /\ DOMAIN transfers = 1..n
  BY TransferIds
<1>2. CASE UNCHANGED vars
  BY <1>2 DEF vars, worldVars
<1>3. ASSUME NEW c \in Calls, Step(c)
      PROVE  \/ UNCHANGED moneyVars
             \/ Entered /\ now' > now /\ \E from, to, amount : Posted(from, to, amount)
  <2>1. /\ Entered /\ now' > now /\ TransfersBounded /\ StepsBounded /\ stepIndex \in Nat
        /\ \/ \E code, fault : Refuse(code, fault)
           \/ /\ c.args # Malformed /\ c.args \in ArgsOf(c.tool)
              /\ \E fault : Handle(c, fault)
    BY <1>3, StepByCall
  <2>2. CASE \E code, fault : Refuse(code, fault)
    BY <2>2 DEF Refuse, toolVars
  <2>3. CASE c.tool = "create_transfer" /\ c.args # Malformed /\ Pays(c.args)
    <3> DEFINE a == c.args
    <3>1. /\ PostTransfer(NextTransferId, a.from, AccountOf[a.key], a.amount)
          /\ a.from \in Accounts /\ AccountOf[a.key] \in Accounts /\ a.amount \in Nat
      BY <2>1, <2>3, PaymentPosts
    <3>2. /\ Len(transfers') = n + 1 /\ transfers'[n + 1] = TransferOf(a)
          /\ \A i \in 1..n : transfers'[i] = transfers[i]
      BY <2>1, <2>3, PaymentAppended
    <3>3. /\ TransferOf(a).from = a.from /\ TransferOf(a).to = AccountOf[a.key]
          /\ TransferOf(a).amount = a.amount
      BY DEF TransferOf
    <3>4. AccountOf[a.key] # a.from
      <4>1. a.key \in PixKeys
        BY <2>3, CreateGuards DEF Pays
      <4> QED
        BY <2>3, <4>1 DEF NoSelfPayments
    <3>5. Posted(a.from, AccountOf[a.key], a.amount)
      BY <3>1, <3>2, <3>3, <3>4 DEF Posted, NextTransferId
    <3> QED
      BY <2>1, <3>5
  <2>4. CASE Returns(c.args)
    <3> DEFINE a == c.args
               x == transfers[a.transfer]
    <3>1. /\ PostTransfer(NextTransferId, x.to, x.from, x.amount)
          /\ x.to \in Accounts /\ x.from \in Accounts /\ x.amount \in Nat
      BY <2>1, <2>4, ReversalPosts
    <3>2. /\ Len(transfers') = n + 1
          /\ transfers'[n + 1] = ReversalOf(a.transfer, a.reason)
          /\ a.transfer \in 1..n
      BY <2>1, <2>4, ReversalAppended
    <3>3. /\ ReversalOf(a.transfer, a.reason).from = x.to
          /\ ReversalOf(a.transfer, a.reason).to = x.from
          /\ ReversalOf(a.transfer, a.reason).amount = x.amount
      BY DEF ReversalOf
    <3>4. \A i \in 1..n : /\ transfers'[i].from = transfers[i].from
                          /\ transfers'[i].to = transfers[i].to
                          /\ transfers'[i].amount = transfers[i].amount
      BY <2>1, <2>4, ReversalKeeps
    <3>5. x.to # x.from
      BY <1>1, <3>2 DEF MoneyLeaves
    <3>6. Posted(x.to, x.from, x.amount)
      BY <3>1, <3>2, <3>3, <3>4, <3>5 DEF Posted, NextTransferId
    <3> QED
      BY <2>1, <3>6
  <2> QED
    BY <2>1, <2>2, <2>3, <2>4, CallEffects
<1> QED
  BY <1>2, <1>3 DEF Next, AfterEpisode

LEMMA MoneyLeavesStep ==
  ASSUME TypeInv, TypeInv', MoneyLeaves, NoSelfPayments, [Next]_vars
  PROVE  MoneyLeaves'
<1> DEFINE n == Len(transfers)
<1>1. n \in Nat /\ DOMAIN transfers = 1..n /\ DOMAIN transfers' = 1..Len(transfers')
  <2>1. transfers' \in Seq(Transfer)
    BY DEF TypeInv, TypeOK, WorldTypeOK
  <2> QED
    BY <2>1, TransferIds, LenProperties
<1>2. CASE UNCHANGED moneyVars
  BY <1>2 DEF moneyVars, MoneyLeaves
<1>3. ASSUME NEW from, NEW to, NEW amount, Posted(from, to, amount)
      PROVE  MoneyLeaves'
  <2>1. \A i \in 1..(n + 1) : i = n + 1 \/ i \in 1..n
    BY <1>1
  <2> QED
    BY <1>1, <1>3, <2>1 DEF Posted, MoneyLeaves
<1> QED
  BY <1>2, <1>3, StepPosts

(***************************************************************************)
(* Conservation.  A posting moves an amount between two entries of one     *)
(* sum.                                                                    *)
(***************************************************************************)
LEMMA SummedMoved ==
  ASSUME NEW T, IsFiniteSet(T), NEW w, \A x \in T : w[x] \in Int,
         NEW from \in T, NEW to \in T, from # to, NEW amount \in Int,
         NEW v, v[from] = w[from] - amount, v[to] = w[to] + amount,
         \A x \in T \ {from, to} : v[x] = w[x]
  PROVE  Summed(v, T) = Summed(w, T)
<1> DEFINE R == (T \ {from}) \ {to}
<1>1. /\ \A x \in R : w[x] \in Int /\ v[x] = w[x]
      /\ \A x \in T : v[x] \in Int
  <2>1. w[from] \in Int /\ w[to] \in Int
    OBVIOUS
  <2>2. v[from] \in Int /\ v[to] \in Int
    BY <2>1
  <2>3. \A x \in T : x = from \/ x = to \/ x \in T \ {from, to}
    OBVIOUS
  <2> QED
    BY <2>2, <2>3
<1>2. IsFiniteSet(T \ {from}) /\ IsFiniteSet(R) /\ to \in T \ {from}
  BY FS_Subset
<1>3. Summed(v, R) = Summed(w, R) /\ Summed(w, R) \in Int
  BY <1>1, <1>2, SummedSame, SummedInt
<1>4. Summed(v, T) = v[from] + Summed(v, T \ {from})
  BY <1>1, SummedMember
<1>5. Summed(w, T) = w[from] + Summed(w, T \ {from})
  BY SummedMember
<1>6. \A x \in T \ {from} : v[x] \in Int /\ w[x] \in Int
  BY <1>1
<1>7. Summed(v, T \ {from}) = v[to] + Summed(v, R)
  BY <1>2, <1>6, SummedMember
<1>8. Summed(w, T \ {from}) = w[to] + Summed(w, R)
  BY <1>2, <1>6, SummedMember
<1>9. w[from] \in Int /\ w[to] \in Int
  OBVIOUS
<1> HIDE DEF R
<1> QED
  BY <1>3, <1>4, <1>5, <1>7, <1>8, <1>9

\* The choice by which the library sums yields the sum.
LEMMA SumChosen ==
  ASSUME NEW T, IsFiniteSet(T), NEW w, \A x \in T : w[x] \in Int
  PROVE  (CHOOSE g : g = [s \in SUBSET T |->
                            IF s = {} THEN 0 ELSE w[Taken(s)] + g[s \ {Taken(s)}]])[T]
           = Summed(w, T)
<1> DEFINE Sum(g) == [s \in SUBSET T |->
                        IF s = {} THEN 0 ELSE w[Taken(s)] + g[s \ {Taken(s)}]]
           f == CHOOSE g : g = Sum(g)
<1>1. PICK g \in [SUBSET T -> Int] : Sums(g, w, T)
  BY SumsExist
<1>2. g = Sum(g)
  BY <1>1 DEF Sums
<1>3. f = Sum(f)
  <2> HIDE DEF Sum
  <2> QED
    BY <1>2
<1>4. Sums(f, w, T)
  <2> HIDE DEF f
  <2> QED
    BY <1>3 DEF Sums
<1>5. f[T] = Summed(w, T)
  <2> HIDE DEF f
  <2> QED
    BY <1>4, SummedBy
<1> QED
  BY <1>5

\* What the library's sum of a function is.
LEMMA FunctionSum ==
  ASSUME NEW T, IsFiniteSet(T), NEW w \in [T -> Int]
  PROVE  SumFunction(w) = Summed(w, T)
<1>1. SumFunction(w)
        = (CHOOSE g : g = [s \in SUBSET DOMAIN w |->
                             IF s = {} THEN 0 ELSE w[Taken(s)] + g[s \ {Taken(s)}]])[DOMAIN w]
  BY Zenon DEF SumFunction, SumFunctionOnSet, FoldFunctionOnSet, MapThenFoldSet, Taken
<1>2. DOMAIN w = T /\ \A x \in T : w[x] \in Int
  OBVIOUS
<1> QED
  BY <1>1, <1>2, SumChosen

ConservedInv ==
  TypeInv /\ MoneyLeaves /\ Summed(balance, Accounts) = Summed(InitialBalance, Accounts)

LEMMA ConservedStep ==
  ASSUME NoSelfPayments, ConservedInv, [Next]_vars
  PROVE  ConservedInv'
<1>1. TypeInv /\ TypeInv' /\ MoneyLeaves'
  BY TypeInvStep, MoneyLeavesStep DEF ConservedInv
<1>2. CASE UNCHANGED moneyVars
  BY <1>1, <1>2 DEF moneyVars, ConservedInv
<1>3. ASSUME NEW from, NEW to, NEW amount, Posted(from, to, amount)
      PROVE  Summed(balance', Accounts) = Summed(balance, Accounts)
  <2>1. balance \in [Accounts -> Int]
    BY <1>1 DEF TypeInv, TypeOK, WorldTypeOK
  <2>2. /\ balance' = [balance EXCEPT ![from] = balance[from] - amount,
                                     ![to] = balance[to] + amount]
        /\ from \in Accounts /\ to \in Accounts /\ from # to /\ amount \in Int
    BY <1>3 DEF Posted, PostTransfer
  <2>3. /\ balance'[from] = balance[from] - amount /\ balance'[to] = balance[to] + amount
        /\ \A x \in Accounts \ {from, to} : balance'[x] = balance[x]
        /\ \A x \in Accounts : balance[x] \in Int
        /\ from \in Accounts /\ to \in Accounts /\ from # to /\ amount \in Int
    BY <2>1, <2>2
  <2> QED
    BY <2>3, AccountsAssumption, SummedMoved
<1> QED
  BY <1>1, <1>2, <1>3, StepPosts DEF ConservedInv

\* For every episode in which no account pays itself: the balances of all accounts, the
\* outside world's included, keep the sum they had at the reset (post_transfer).
THEOREM MoneyConserved == NoSelfPayments => (Spec => []Conservation)
<1> SUFFICES ASSUME NoSelfPayments PROVE Spec => []Conservation
  OBVIOUS
<1>1. Init => ConservedInv
  BY TypeInvInit DEF Init, FromFixture, NoSelfPayments, MoneyLeaves, ConservedInv
<1>2. ConservedInv => Conservation
  <2> SUFFICES ASSUME ConservedInv PROVE Conservation
    OBVIOUS
  <2>1. balance \in [Accounts -> Int] /\ InitialBalance \in [Accounts -> Int]
    BY WorldAssumption DEF ConservedInv, TypeInv, TypeOK, WorldTypeOK
  <2>2. /\ SumFunction(balance) = Summed(balance, Accounts)
        /\ SumFunction(InitialBalance) = Summed(InitialBalance, Accounts)
    BY <2>1, AccountsAssumption, FunctionSum
  <2> QED
    BY <2>2 DEF ConservedInv, Conservation
<1>3. ConservedInv /\ [Next]_vars => ConservedInv'
  BY ConservedStep
<1> QED
  BY <1>1, <1>2, <1>3, PTL DEF Spec

(***************************************************************************)
(* The day's limit.  A payment adds its amount to the sum of its day and   *)
(* account, which the limit was checked for; a reversal takes the amount   *)
(* of what it reverses out.                                                *)
(***************************************************************************)
Amounts == [i \in DOMAIN transfers |-> transfers[i].amount]

UsedBy(account, t) == {i \in DOMAIN transfers : CountsToday(transfers[i], account, t)}

MustCap == Policy.dailyLimit # None /\ Enforced("DAILY_LIMIT")

CapInv ==
  /\ ConsentInv
  /\ MustCap => \A i \in AgentTransfers :
       Summed(Amounts, UsedBy(transfers[i].from, transfers[i].created)) <= Policy.dailyLimit

\* Sets of transfers are finite, and their amounts add up.
LEMMA AmountsTyped ==
  ASSUME TypeInv
  PROVE  /\ Len(transfers) \in Nat /\ DOMAIN transfers = 1..Len(transfers)
         /\ \A i \in 1..Len(transfers) :
              Amounts[i] = transfers[i].amount /\ Amounts[i] \in Nat /\ Amounts[i] \in Int
         /\ \A T \in SUBSET DOMAIN transfers : IsFiniteSet(T) /\ Summed(Amounts, T) \in Int
<1>1. /\ Len(transfers) \in Nat /\ DOMAIN transfers = 1..Len(transfers)
      /\ \A i \in 1..Len(transfers) : transfers[i] \in Transfer
  BY TransferIds
<1>2. \A i \in 1..Len(transfers) :
        Amounts[i] = transfers[i].amount /\ Amounts[i] \in Nat /\ Amounts[i] \in Int
  BY <1>1 DEF Amounts, Transfer
<1>3. ASSUME NEW T \in SUBSET DOMAIN transfers
      PROVE  IsFiniteSet(T) /\ Summed(Amounts, T) \in Int
  <2>1. IsFiniteSet(1..Len(transfers))
    BY <1>1, FS_Interval
  <2>2. IsFiniteSet(T)
    BY <1>1, <2>1, FS_Subset
  <2>3. \A x \in T : Amounts[x] \in Int
    BY <1>1, <1>2
  <2> QED
    BY <2>2, <2>3, SummedInt
<1> QED
  BY <1>1, <1>2, <1>3

LEMMA DailySum ==
  ASSUME TypeInv, NEW account, NEW t
  PROVE  DailyUsed(account, t) = Summed(Amounts, UsedBy(account, t))
<1> DEFINE T == UsedBy(account, t)
           Sum(g) == [s \in SUBSET T |-> IF s = {} THEN 0
                                        ELSE transfers[Taken(s)].amount + g[s \ {Taken(s)}]]
           f == CHOOSE g : g = Sum(g)
<1>1. T \in SUBSET DOMAIN transfers
  BY DEF UsedBy
<1>2. /\ IsFiniteSet(T)
      /\ \A i \in T : Amounts[i] = transfers[i].amount /\ Amounts[i] \in Int
  BY <1>1, AmountsTyped
<1>3. DailyUsed(account, t) = f[T]
  BY Zenon DEF DailyUsed, UsedBy, MapThenSumSet, MapThenFoldSet, Taken
<1> HIDE DEF T
<1>4. PICK g \in [SUBSET T -> Int] : Sums(g, Amounts, T)
  BY <1>2, SumsExist
<1>5. \A s \in SUBSET T : s # {} => Amounts[Taken(s)] = transfers[Taken(s)].amount
  BY <1>2, TakenIn
<1>6. g = Sum(g)
  BY <1>4, <1>5 DEF Sums
<1>7. f = Sum(f)
  <2> HIDE DEF Sum
  <2> QED
    BY <1>6
<1>8. Sums(f, Amounts, T)
  <2> HIDE DEF f
  <2> QED
    BY <1>5, <1>7 DEF Sums
<1> HIDE DEF f
<1>9. f[T] = Summed(Amounts, T)
  BY <1>2, <1>8, SummedBy
<1> QED
  BY <1>3, <1>9 DEF T

LEMMA CapStep ==
  ASSUME CapInv, [Next]_vars
  PROVE  CapInv'
<1> DEFINE n == Len(transfers)
           r == Len(transfers) + 1
<1>1. TypeInv /\ TypeInv' /\ HistoryKept /\ ConsentInv'
  BY ConsentInvStep DEF CapInv, ConsentInv
<1>2. SUFFICES ASSUME MustCap
               PROVE  \A i \in AgentTransfers' :
                        Summed(Amounts', UsedBy(transfers[i].from, transfers[i].created)')
                          <= Policy.dailyLimit
  <2>1. MustCap' <=> MustCap
    BY DEF MustCap, Enforced
  <2> QED
    BY <1>1, <2>1 DEF CapInv
<1>3. \A i \in AgentTransfers :
        Summed(Amounts, UsedBy(transfers[i].from, transfers[i].created)) <= Policy.dailyLimit
  BY <1>2 DEF CapInv
<1>4. /\ n \in Nat /\ DOMAIN transfers = 1..n /\ r \notin 1..n /\ 1..r = (1..n) \cup {r}
      /\ \A i \in 1..n :
           Amounts[i] = transfers[i].amount /\ Amounts[i] \in Nat /\ Amounts[i] \in Int
      /\ \A T \in SUBSET DOMAIN transfers : IsFiniteSet(T) /\ Summed(Amounts, T) \in Int
  BY <1>1, AmountsTyped
<1>5. \A account, t : UsedBy(account, t) \in SUBSET (1..n)
  BY <1>4 DEF UsedBy
<1>6. Policy.dailyLimit \in Nat
  BY <1>2, PolicyAssumption DEF MustCap
<1>7. CASE UNCHANGED transfers
  BY <1>3, <1>7 DEF AgentTransfers, Amounts, UsedBy
<1>8. ASSUME Entered, NEW a, Pays(a), NEW i \in AgentTransfers'
      PROVE  Summed(Amounts', UsedBy(transfers[i].from, transfers[i].created)')
               <= Policy.dailyLimit
  <2> DEFINE x == transfers'[i]
             before == UsedBy(x.from, x.created)
  <2>1. /\ AgentTransfers' = AgentTransfers \cup {r}
        /\ AgentTransfers \subseteq 1..n
        /\ \A j \in AgentTransfers : transfers'[j] = transfers[j]
        /\ transfers'[r] = TransferOf(a)
        /\ DOMAIN transfers' = 1..r
    BY <1>1, <1>8, AgentPays
  <2>2. \A j \in 1..n : transfers'[j] = transfers[j]
    BY <1>1, <1>8, PaymentAppended
  <2>3. /\ TransferOf(a).from = a.from /\ TransferOf(a).created = now'
        /\ TransferOf(a).amount = a.amount /\ a.amount \in Nat
    BY <1>8 DEF TransferOf, Pays, ArgsOf
  <2>4. /\ \A j \in 1..n : Amounts'[j] = Amounts[j]
        /\ Amounts'[r] = a.amount
    BY <1>4, <2>1, <2>2, <2>3 DEF Amounts
  <2>5. before \in SUBSET (1..n) /\ IsFiniteSet(before) /\ Summed(Amounts, before) \in Int
    BY <1>4, <1>5
  <2>6. UsedBy(transfers[i].from, transfers[i].created)'
          = IF CountsToday(TransferOf(a), x.from, x.created) THEN before \cup {r} ELSE before
    BY <1>4, <2>1, <2>2 DEF UsedBy
  <2>7. Summed(Amounts', before) = Summed(Amounts, before)
    <3>1. \A j \in before : Amounts[j] \in Int /\ Amounts'[j] = Amounts[j]
      BY <1>4, <2>4, <2>5
    <3> HIDE DEF before
    <3> QED
      BY <2>5, <3>1, SummedSame
  <2>8. ~CountsToday(TransferOf(a), x.from, x.created) => i \in AgentTransfers
    BY <2>1 DEF CountsToday, TransferOf
  <2>9. CASE ~CountsToday(TransferOf(a), x.from, x.created)
    <3>1. Summed(Amounts, before) <= Policy.dailyLimit
      BY <1>3, <2>1, <2>8, <2>9
    <3> HIDE DEF before
    <3> QED
      BY <2>6, <2>7, <2>9, <3>1
  <2>10. CASE CountsToday(TransferOf(a), x.from, x.created)
    <3>1. before = UsedBy(a.from, now')
      BY <2>3, <2>10 DEF CountsToday, UsedBy
    <3>2. Summed(Amounts, before) + a.amount <= Policy.dailyLimit
      <4>1. ~Breaks("DAILY_LIMIT", a.from, a.key, a.amount, a.consent, now')
        BY <1>2, <1>8, RulePassed, RulesNamed DEF MustCap
      <4>2. ~(DailyUsed(a.from, now') + a.amount > Policy.dailyLimit)
        BY <1>2, <4>1 DEF Breaks, Exceeds, MustCap
      <4>3. DailyUsed(a.from, now') = Summed(Amounts, before)
        BY <1>1, <3>1, DailySum
      <4> HIDE DEF before
      <4> QED
        BY <1>6, <2>3, <2>5, <4>2, <4>3
    <3>3. Summed(Amounts', before \cup {r}) = Summed(Amounts', before) + Amounts'[r]
      <4>1. IsFiniteSet(before) /\ r \notin before /\ \A j \in before \cup {r} : Amounts'[j] \in Int
        BY <1>4, <2>3, <2>4, <2>5
      <4> HIDE DEF before, r, x
      <4> QED
        BY <4>1, SummedMore
    <3> HIDE DEF before
    <3> QED
      BY <2>4, <2>6, <2>7, <2>10, <3>2, <3>3
  <2> QED
    BY <2>9, <2>10
<1>9. ASSUME Entered, TransfersBounded, StepsBounded, stepIndex \in Nat, NEW a, Returns(a),
             NEW i \in AgentTransfers'
      PROVE  Summed(Amounts', UsedBy(transfers[i].from, transfers[i].created)')
               <= Policy.dailyLimit
  <2> DEFINE before == UsedBy(transfers[i].from, transfers[i].created)
             u == a.transfer
  <2>1. /\ i \in AgentTransfers /\ i \in 1..n /\ DOMAIN transfers' = 1..r
        /\ transfers'[i].from = transfers[i].from /\ transfers'[i].created = transfers[i].created
    BY <1>1, <1>4, <1>9, AgentReturns DEF AgentTransfers
  <2>2. \A j \in 1..n :
          /\ transfers'[j].from = transfers[j].from /\ transfers'[j].amount = transfers[j].amount
          /\ transfers'[j].created = transfers[j].created
          /\ transfers'[j].reversalOf = transfers[j].reversalOf
          /\ transfers'[j].status = IF j = u THEN "REVERSED" ELSE transfers[j].status
    BY <1>1, <1>9, ReversalKeeps
  <2>3. u \in 1..n /\ transfers'[r].reversalOf # NoId
    <3>1. transfers'[r] = ReversalOf(u, a.reason) /\ u \in 1..n
      BY <1>1, <1>9, ReversalAppended
    <3> QED
      BY <3>1 DEF ReversalOf, NoId
  <2>4. UsedBy(transfers[i].from, transfers[i].created)' = before \ {u}
    BY <1>4, <2>1, <2>2, <2>3 DEF UsedBy, CountsToday
  <2>5. before \in SUBSET (1..n) /\ IsFiniteSet(before) /\ Summed(Amounts, before) \in Int
        /\ IsFiniteSet(before \ {u}) /\ Summed(Amounts, before \ {u}) \in Int
    BY <1>4, <1>5
  <2>6. Summed(Amounts', before \ {u}) = Summed(Amounts, before \ {u})
    <3>1. \A j \in 1..n : Amounts'[j] = Amounts[j]
      BY <1>4, <2>1, <2>2 DEF Amounts
    <3>2. \A j \in before \ {u} : Amounts[j] \in Int /\ Amounts'[j] = Amounts[j]
      BY <1>4, <2>5, <3>1
    <3> HIDE DEF before
    <3> QED
      BY <2>5, <3>2, SummedSame
  <2>7. Summed(Amounts, before \ {u}) <= Summed(Amounts, before)
    <3>1. CASE u \in before
      <4>1. Summed(Amounts, before) = Amounts[u] + Summed(Amounts, before \ {u})
        <5>1. \A j \in before : Amounts[j] \in Int
          BY <1>4, <2>5
        <5> HIDE DEF before
        <5> QED
          BY <2>5, <3>1, <5>1, SummedMember
      <4>2. Amounts[u] \in Nat
        BY <1>4, <2>3
      <4> HIDE DEF before
      <4> QED
        BY <2>5, <4>1, <4>2
    <3>2. CASE u \notin before
      <4>1. before \ {u} = before
        BY <3>2
      <4> HIDE DEF before
      <4>2. Summed(Amounts, before \ {u}) = Summed(Amounts, before)
        BY <4>1
      <4> QED
        BY <2>5, <4>2
    <3> QED
      BY <3>1, <3>2
  <2>8. Summed(Amounts, before) <= Policy.dailyLimit
    BY <1>3, <2>1
  <2> HIDE DEF before
  <2> QED
    BY <1>6, <2>4, <2>5, <2>6, <2>7, <2>8
<1> QED
  BY <1>1, <1>7, <1>8, <1>9, StepEffects DEF Asks

\* For every episode: where the daily limit is enforced, the completed payments of an
\* account on any day one of its payments was made on stay within it, across reversals
\* and midnight (_daily_used, create_transfer, reverse_transfer).
THEOREM DaysCapped == Spec => []DailyCap
<1>1. Init => CapInv
  <2> SUFFICES ASSUME Init PROVE CapInv
    OBVIOUS
  <2>1. ConsentInv /\ transfers = FixtureTransfers
    BY ConsentInvInit DEF Init, FromFixture
  <2>2. AgentTransfers = {}
    BY <2>1, WorldAssumption, LenProperties DEF AgentTransfers
  <2> QED
    BY <2>1, <2>2 DEF CapInv
<1>2. CapInv => DailyCap
  <2> SUFFICES ASSUME CapInv PROVE DailyCap
    OBVIOUS
  <2>1. TypeInv
    BY DEF CapInv, ConsentInv
  <2>2. \A account, t : DailyUsed(account, t) = Summed(Amounts, UsedBy(account, t))
    BY <2>1, DailySum
  <2> QED
    BY <2>2 DEF CapInv, MustCap, DailyCap
<1>3. CapInv /\ [Next]_vars => CapInv'
  BY CapStep
<1> QED
  BY <1>1, <1>2, <1>3, PTL DEF Spec

(***************************************************************************)
(* The ledger.  Transfer i has the entries 2i-1 and 2i, and a balance is   *)
(* what it was at the reset plus what was posted to it since.              *)
(***************************************************************************)
Deltas == [n \in DOMAIN ledger |-> ledger[n].delta]

RuntimeOf(a) == {n \in RuntimeEntries : ledger[n].account = a}

LedgerInOrder ==
  /\ Len(ledger) = 2 * Len(transfers)
  /\ \A n \in DOMAIN ledger : n \in {2 * ledger[n].transfer - 1, 2 * ledger[n].transfer}
  /\ \A i \in DOMAIN transfers :
       /\ ledger[2 * i - 1].transfer = i /\ ledger[2 * i].transfer = i
       /\ ledger[2 * i - 1].account = transfers[i].from
       /\ ledger[2 * i - 1].delta = -transfers[i].amount
       /\ ledger[2 * i].account = transfers[i].to
       /\ ledger[2 * i].delta = transfers[i].amount

BalancesPosted ==
  \A a \in Accounts : balance[a] = InitialBalance[a] + Summed(Deltas, RuntimeOf(a))

BalancedInv == ConsentInv /\ MoneyLeaves /\ LedgerInOrder /\ BalancesPosted

LEMMA DeltasTyped ==
  ASSUME TypeInv
  PROVE  /\ Len(ledger) \in Nat /\ DOMAIN ledger = 1..Len(ledger)
         /\ \A n \in 1..Len(ledger) :
              /\ ledger[n].delta \in Int /\ ledger[n].transfer \in Nat
              /\ Deltas[n] = ledger[n].delta
         /\ \A T \in SUBSET DOMAIN ledger : IsFiniteSet(T) /\ Summed(Deltas, T) \in Int
<1>1. /\ Len(ledger) \in Nat /\ DOMAIN ledger = 1..Len(ledger)
      /\ \A n \in 1..Len(ledger) : ledger[n] \in LedgerEntry
  <2>1. ledger \in Seq(LedgerEntry)
    BY DEF TypeInv, TypeOK, WorldTypeOK
  <2> QED
    BY <2>1, LenProperties, ElementOfSeq
<1>2. \A n \in 1..Len(ledger) :
        /\ ledger[n].delta \in Int /\ ledger[n].transfer \in Nat
        /\ Deltas[n] = ledger[n].delta
  BY <1>1 DEF Deltas, LedgerEntry
<1>3. ASSUME NEW T \in SUBSET DOMAIN ledger
      PROVE  IsFiniteSet(T) /\ Summed(Deltas, T) \in Int
  <2>1. IsFiniteSet(1..Len(ledger))
    BY <1>1, FS_Interval
  <2>2. IsFiniteSet(T)
    BY <1>1, <2>1, FS_Subset
  <2>3. \A x \in T : Deltas[x] \in Int
    BY <1>1, <1>2
  <2> QED
    BY <2>2, <2>3, SummedInt
<1> QED
  BY <1>1, <1>2, <1>3

LEMMA DeltaSum ==
  ASSUME TypeInv, NEW T \in SUBSET DOMAIN ledger
  PROVE  MapThenSumSet(LAMBDA n : ledger[n].delta, T) = Summed(Deltas, T)
<1> DEFINE Sum(g) == [s \in SUBSET T |-> IF s = {} THEN 0
                                        ELSE ledger[Taken(s)].delta + g[s \ {Taken(s)}]]
           f == CHOOSE g : g = Sum(g)
<1>1. /\ IsFiniteSet(T)
      /\ \A n \in T : Deltas[n] = ledger[n].delta /\ Deltas[n] \in Int
  BY DeltasTyped
<1>2. MapThenSumSet(LAMBDA n : ledger[n].delta, T) = f[T]
  BY Zenon DEF MapThenSumSet, MapThenFoldSet, Taken
<1>3. PICK g \in [SUBSET T -> Int] : Sums(g, Deltas, T)
  BY <1>1, SumsExist
<1>4. \A s \in SUBSET T : s # {} => Deltas[Taken(s)] = ledger[Taken(s)].delta
  BY <1>1, TakenIn
<1>5. g = Sum(g)
  BY <1>3, <1>4 DEF Sums
<1>6. f = Sum(f)
  <2> HIDE DEF Sum
  <2> QED
    BY <1>5
<1>7. Sums(f, Deltas, T)
  <2> HIDE DEF f
  <2> QED
    BY <1>4, <1>6 DEF Sums
<1> HIDE DEF f
<1>8. f[T] = Summed(Deltas, T)
  BY <1>1, <1>7, SummedBy
<1> QED
  BY <1>2, <1>8

LEMMA RuntimeSum ==
  ASSUME TypeInv, NEW a
  PROVE  RuntimeDelta(a) = Summed(Deltas, RuntimeOf(a))
<1>1. RuntimeOf(a) \in SUBSET DOMAIN ledger
  BY DEF RuntimeOf, RuntimeEntries
<1>2. MapThenSumSet(LAMBDA n : ledger[n].delta, RuntimeOf(a)) = Summed(Deltas, RuntimeOf(a))
  BY <1>1, DeltaSum
<1>3. RuntimeDelta(a) = MapThenSumSet(LAMBDA n : ledger[n].delta, RuntimeOf(a))
  BY Zenon DEF RuntimeDelta, RuntimeOf
<1> QED
  BY <1>2, <1>3

\* A transfer's entries are two in the order the invariant says.
LEMMA InOrderSettles ==
  ASSUME TypeInv, LedgerInOrder, NEW i \in DOMAIN transfers
  PROVE  LET t == transfers[i]
             posts == {n \in DOMAIN ledger : ledger[n].transfer = i}
         IN \E d, c \in posts :
              /\ posts = {d, c}
              /\ ledger[d].account = t.from /\ ledger[d].delta = -t.amount
              /\ ledger[c].account = t.to /\ ledger[c].delta = t.amount
<1> DEFINE posts == {n \in DOMAIN ledger : ledger[n].transfer = i}
           k == Len(transfers)
           d == 2 * i - 1
           c == 2 * i
<1>1. /\ k \in Nat /\ i \in 1..k
      /\ Len(ledger) = 2 * k /\ DOMAIN ledger = 1..Len(ledger)
  BY TransferIds, DeltasTyped DEF LedgerInOrder
<1>2. d \in 1..(2 * k) /\ c \in 1..(2 * k)
  BY <1>1
<1>3. /\ ledger[d].transfer = i /\ ledger[c].transfer = i
      /\ ledger[d].account = transfers[i].from /\ ledger[d].delta = -transfers[i].amount
      /\ ledger[c].account = transfers[i].to /\ ledger[c].delta = transfers[i].amount
  BY DEF LedgerInOrder
<1>4. d \in posts /\ c \in posts
  BY <1>1, <1>2, <1>3
<1>5. \A n \in posts : n = d \/ n = c
  BY DEF LedgerInOrder
<1> HIDE DEF d, c
<1>6. posts = {d, c}
  BY <1>4, <1>5
<1> QED
  BY <1>3, <1>4, <1>6

\* What a posting does to the runtime entries of an account, and to their sum.
LEMMA RuntimePosted ==
  ASSUME BalancedInv, TypeInv', Entered, NEW from, NEW to, NEW amount,
         Posted(from, to, amount), NEW a \in Accounts
  PROVE  balance'[a] = InitialBalance[a] + Summed(Deltas', RuntimeOf(a)')
<1> DEFINE m == Len(ledger)
           S == RuntimeOf(a)
<1>1. TypeInv /\ HistoryKept /\ LedgerInOrder /\ BalancesPosted
  BY DEF BalancedInv, ConsentInv
<1>2. /\ from \in Accounts /\ to \in Accounts /\ from # to /\ amount \in Nat
      /\ Len(transfers) + 1 \in Nat
      /\ PostTransfer(Len(transfers) + 1, from, to, amount)
  BY <1>1, TransferIds DEF Posted
<1>3. /\ m \in Nat /\ DOMAIN ledger = 1..m /\ DOMAIN ledger' = 1..(m + 2)
      /\ \A n \in 1..m : ledger'[n] = ledger[n]
      /\ ledger'[m + 1] = Entries(Len(transfers) + 1, from, to, amount)[1]
      /\ ledger'[m + 2] = Entries(Len(transfers) + 1, from, to, amount)[2]
  BY <1>2, EntriesPosted
<1>4. /\ ledger'[m + 1].account = from /\ ledger'[m + 1].delta = -amount
      /\ ledger'[m + 2].account = to /\ ledger'[m + 2].delta = amount
  BY <1>3 DEF Entries
<1>5. m + 1 > FixtureEntries /\ m + 2 > FixtureEntries /\ FixtureEntries \in Nat
  <2>1. Len(FixtureTransfers) \in Nat /\ Len(transfers) \in Nat /\ m = 2 * Len(transfers)
    BY <1>1, TransferIds, WorldAssumption, LenProperties DEF LedgerInOrder
  <2> QED
    BY <1>1, <2>1 DEF HistoryKept, FixtureEntries
<1>6. 1..(m + 2) = (1..m) \cup {m + 1, m + 2} /\ m + 1 \notin 1..m /\ m + 2 \notin 1..m
  BY <1>3
<1>7. S \in SUBSET (1..m) /\ IsFiniteSet(S) /\ Summed(Deltas, S) \in Int
  <2>1. S \in SUBSET DOMAIN ledger
    BY DEF RuntimeOf, RuntimeEntries
  <2> QED
    BY <1>1, <1>3, <2>1, DeltasTyped
<1>8. RuntimeOf(a)' = S \cup (IF a = from THEN {m + 1} ELSE {})
                       \cup (IF a = to THEN {m + 2} ELSE {})
  BY <1>3, <1>4, <1>5, <1>6 DEF RuntimeOf, RuntimeEntries
<1>9. /\ \A n \in 1..m : Deltas'[n] = Deltas[n] /\ Deltas[n] \in Int
      /\ Deltas'[m + 1] = -amount /\ Deltas'[m + 2] = amount
  BY <1>1, <1>3, <1>4, <1>6, DeltasTyped DEF Deltas
<1>10. balance[a] = InitialBalance[a] + Summed(Deltas, S) /\ InitialBalance[a] \in Int
  BY <1>1, WorldAssumption DEF BalancesPosted
<1>11. balance'[a] = IF a = from THEN balance[a] - amount
                     ELSE IF a = to THEN balance[a] + amount ELSE balance[a]
  BY <1>1, <1>2 DEF PostTransfer, TypeInv, TypeOK, WorldTypeOK
<1> HIDE DEF m, S
<1>12. Summed(Deltas', S) = Summed(Deltas, S)
  <2>1. \A n \in S : Deltas[n] \in Int /\ Deltas'[n] = Deltas[n]
    BY <1>7, <1>9
  <2> QED
    BY <1>7, <2>1, SummedSame
<1>13. ASSUME NEW n \in {m + 1, m + 2}
       PROVE  Summed(Deltas', S \cup {n}) = Summed(Deltas', S) + Deltas'[n]
  <2>1. IsFiniteSet(S) /\ n \notin S /\ \A j \in S \cup {n} : Deltas'[j] \in Int
    BY <1>2, <1>6, <1>7, <1>9
  <2> QED
    BY <2>1, SummedMore
<1>14. CASE a = from
  <2>1. RuntimeOf(a)' = S \cup {m + 1}
    BY <1>2, <1>8, <1>14
  <2>2. Summed(Deltas', RuntimeOf(a)') = Summed(Deltas, S) + (-amount)
    BY <1>9, <1>12, <1>13, <2>1
  <2> QED
    BY <1>2, <1>7, <1>10, <1>11, <1>14, <2>2
<1>15. CASE a = to
  <2>1. RuntimeOf(a)' = S \cup {m + 2}
    BY <1>2, <1>8, <1>15
  <2>2. Summed(Deltas', RuntimeOf(a)') = Summed(Deltas, S) + amount
    BY <1>9, <1>12, <1>13, <2>1
  <2> QED
    BY <1>2, <1>7, <1>10, <1>11, <1>15, <2>2
<1>16. CASE a # from /\ a # to
  <2>1. RuntimeOf(a)' = S
    BY <1>8, <1>16
  <2>2. Summed(Deltas', RuntimeOf(a)') = Summed(Deltas, S)
    BY <1>12, <2>1
  <2> QED
    BY <1>10, <1>11, <1>16, <2>2
<1> QED
  BY <1>14, <1>15, <1>16

LEMMA LedgerOrderPosted ==
  ASSUME TypeInv, TypeInv', LedgerInOrder, Entered, NEW from, NEW to, NEW amount,
         Posted(from, to, amount)
  PROVE  LedgerInOrder'
<1> DEFINE m == Len(ledger)
           k == Len(transfers)
<1>1. /\ k \in Nat /\ k + 1 \in Nat /\ DOMAIN transfers = 1..k /\ m = 2 * k
      /\ from \in Accounts /\ to \in Accounts /\ amount \in Nat
      /\ PostTransfer(k + 1, from, to, amount)
  BY TransferIds DEF Posted, LedgerInOrder
<1>2. /\ m \in Nat /\ DOMAIN ledger = 1..m /\ DOMAIN ledger' = 1..(m + 2)
      /\ \A n \in 1..m : ledger'[n] = ledger[n]
      /\ ledger'[m + 1] = Entries(k + 1, from, to, amount)[1]
      /\ ledger'[m + 2] = Entries(k + 1, from, to, amount)[2]
  BY <1>1, EntriesPosted
<1>3. /\ ledger'[m + 1].transfer = k + 1 /\ ledger'[m + 2].transfer = k + 1
      /\ ledger'[m + 1].account = from /\ ledger'[m + 1].delta = -amount
      /\ ledger'[m + 2].account = to /\ ledger'[m + 2].delta = amount
  BY <1>2 DEF Entries
<1>4. Len(ledger') = m + 2 /\ Len(transfers') = k + 1 /\ DOMAIN transfers' = 1..(k + 1)
  <2>1. ledger' \in Seq(LedgerEntry) /\ transfers' \in Seq(Transfer)
    BY DEF TypeInv, TypeOK, WorldTypeOK
  <2>2. Len(ledger') \in Nat /\ 1..Len(ledger') = 1..(m + 2)
    BY <1>2, <2>1, LenProperties
  <2>3. Len(ledger') = m + 2
    <3>1. PICK len \in Nat : len = Len(ledger')
      BY <2>2
    <3>2. 1..len = 1..(m + 2)
      BY <2>2, <3>1
    <3>3. len >= 1 /\ m + 2 \in 1..len /\ len \in 1..(m + 2)
      BY <1>2, <3>2
    <3> QED
      BY <1>2, <3>1, <3>3
  <2>4. Len(transfers') = k + 1
    BY DEF Posted
  <2> QED
    BY <2>1, <2>3, <2>4, LenProperties
<1>5. Len(ledger') = 2 * Len(transfers')
  BY <1>1, <1>4
<1>6. ASSUME NEW n \in DOMAIN ledger'
      PROVE  n \in {2 * ledger'[n].transfer - 1, 2 * ledger'[n].transfer}
  <2>1. n \in 1..m \/ n = m + 1 \/ n = m + 2
    BY <1>2
  <2>2. CASE n \in 1..m
    BY <1>2, <2>2 DEF LedgerInOrder
  <2>3. CASE n = m + 1
    BY <1>1, <1>3, <2>3
  <2>4. CASE n = m + 2
    BY <1>1, <1>3, <2>4
  <2> QED
    BY <2>1, <2>2, <2>3, <2>4
<1>7. ASSUME NEW i \in DOMAIN transfers'
      PROVE  /\ ledger'[2 * i - 1].transfer = i /\ ledger'[2 * i].transfer = i
             /\ ledger'[2 * i - 1].account = transfers'[i].from
             /\ ledger'[2 * i - 1].delta = -transfers'[i].amount
             /\ ledger'[2 * i].account = transfers'[i].to
             /\ ledger'[2 * i].delta = transfers'[i].amount
  <2>1. CASE i \in 1..k
    <3>1. 2 * i - 1 \in 1..m /\ 2 * i \in 1..m
      BY <1>1, <2>1
    <3>2. /\ transfers'[i].from = transfers[i].from /\ transfers'[i].to = transfers[i].to
          /\ transfers'[i].amount = transfers[i].amount
      BY <2>1 DEF Posted
    <3>3. ledger'[2 * i - 1] = ledger[2 * i - 1] /\ ledger'[2 * i] = ledger[2 * i]
      BY <1>2, <3>1
    <3> QED
      BY <1>1, <2>1, <3>2, <3>3 DEF LedgerInOrder
  <2>2. CASE i = k + 1
    <3>1. 2 * i - 1 = m + 1 /\ 2 * i = m + 2
      BY <1>1, <2>2
    <3>2. /\ transfers'[k + 1].from = from /\ transfers'[k + 1].to = to
          /\ transfers'[k + 1].amount = amount
      BY DEF Posted
    <3> QED
      BY <1>3, <2>2, <3>1, <3>2
  <2> QED
    BY <1>1, <1>4, <2>1, <2>2
<1> QED
  BY <1>5, <1>6, <1>7 DEF LedgerInOrder

LEMMA BalancedStep ==
  ASSUME NoSelfPayments, BalancedInv, [Next]_vars
  PROVE  BalancedInv'
<1>1. TypeInv /\ TypeInv' /\ ConsentInv' /\ MoneyLeaves'
  BY ConsentInvStep, TypeInvStep, MoneyLeavesStep DEF BalancedInv, ConsentInv
<1>2. CASE UNCHANGED moneyVars
  BY <1>1, <1>2 DEF moneyVars, BalancedInv, LedgerInOrder, BalancesPosted, Deltas, RuntimeOf,
     RuntimeEntries
<1>3. ASSUME Entered, NEW from, NEW to, NEW amount, Posted(from, to, amount)
      PROVE  LedgerInOrder' /\ BalancesPosted'
  BY <1>1, <1>3, RuntimePosted, LedgerOrderPosted DEF BalancedInv, BalancesPosted
<1> QED
  BY <1>1, <1>2, <1>3, StepPosts DEF BalancedInv

\* The reset posts the fixture's transfers in order, and nothing of the episode.
LEMMA BalancedInit ==
  ASSUME NoSelfPayments, Init
  PROVE  BalancedInv
<1> DEFINE k == Len(FixtureTransfers)
<1>1. /\ ConsentInv /\ transfers = FixtureTransfers /\ balance = InitialBalance
      /\ ledger = [n \in 1..FixtureEntries |-> FixtureEntry(n)]
  BY ConsentInvInit DEF Init, FromFixture
<1>2. /\ k \in Nat /\ FixtureEntries = 2 * k /\ DOMAIN transfers = 1..k
      /\ DOMAIN ledger = 1..(2 * k)
  BY <1>1, WorldAssumption, LenProperties DEF FixtureEntries
<1>3. Len(ledger) = 2 * k
  BY <1>1, <1>2, LenProperties, FixtureLedger
<1>4. MoneyLeaves
  BY <1>1 DEF NoSelfPayments, MoneyLeaves
<1>5. ASSUME NEW n \in 1..(2 * k)
      PROVE  n \in {2 * ledger[n].transfer - 1, 2 * ledger[n].transfer}
  <2>1. ledger[n].transfer = (n + 1) \div 2
    BY <1>1, <1>2 DEF FixtureEntry
  <2>2. n = 2 * ((n + 1) \div 2) - 1 \/ n = 2 * ((n + 1) \div 2)
    BY <1>2
  <2> QED
    BY <2>1, <2>2
<1>6. ASSUME NEW i \in 1..k
      PROVE  /\ ledger[2 * i - 1].transfer = i /\ ledger[2 * i].transfer = i
             /\ ledger[2 * i - 1].account = transfers[i].from
             /\ ledger[2 * i - 1].delta = -transfers[i].amount
             /\ ledger[2 * i].account = transfers[i].to
             /\ ledger[2 * i].delta = transfers[i].amount
  <2>1. /\ 2 * i - 1 \in 1..(2 * k) /\ 2 * i \in 1..(2 * k)
        /\ (2 * i - 1 + 1) \div 2 = i /\ (2 * i + 1) \div 2 = i
        /\ (2 * i - 1) % 2 = 1 /\ (2 * i) % 2 # 1
    BY <1>2
  <2>2. ledger[2 * i - 1] = FixtureEntry(2 * i - 1) /\ ledger[2 * i] = FixtureEntry(2 * i)
    BY <1>1, <1>2, <2>1
  <2>3. FixtureEntry(2 * i - 1)
          = [transfer |-> i, account |-> FixtureTransfers[i].from,
             delta |-> -FixtureTransfers[i].amount, posted |-> FixtureTransfers[i].completed]
    BY <2>1 DEF FixtureEntry
  <2>4. FixtureEntry(2 * i)
          = [transfer |-> i, account |-> FixtureTransfers[i].to,
             delta |-> FixtureTransfers[i].amount, posted |-> FixtureTransfers[i].completed]
    BY <2>1 DEF FixtureEntry
  <2> QED
    BY <1>1, <2>2, <2>3, <2>4
<1>7. LedgerInOrder
  BY <1>1, <1>2, <1>3, <1>5, <1>6 DEF LedgerInOrder
<1>8. ASSUME NEW a \in Accounts
      PROVE  balance[a] = InitialBalance[a] + Summed(Deltas, RuntimeOf(a))
  <2>1. RuntimeOf(a) = {}
    BY <1>2 DEF RuntimeOf, RuntimeEntries
  <2>2. Summed(Deltas, {}) = 0
    BY SummedEmpty
  <2>3. Summed(Deltas, RuntimeOf(a)) = 0
    BY <2>1, <2>2
  <2>4. InitialBalance[a] \in Int
    BY WorldAssumption
  <2> QED
    BY <1>1, <2>3, <2>4
<1> QED
  BY <1>1, <1>4, <1>7, <1>8 DEF BalancedInv, BalancesPosted

\* For every episode in which no account pays itself: every transfer, the history's and the
\* reversals included, has one debit and one credit that match it, and every balance is the
\* initial one plus what the episode posted to the account (from_fixture, post_transfer).
THEOREM LedgerSettles == NoSelfPayments => (Spec => []LedgerBalanced)
<1> SUFFICES ASSUME NoSelfPayments PROVE Spec => []LedgerBalanced
  OBVIOUS
<1>1. Init => BalancedInv
  BY BalancedInit
<1>2. BalancedInv => LedgerBalanced
  <2> SUFFICES ASSUME BalancedInv PROVE LedgerBalanced
    OBVIOUS
  <2>1. TypeInv /\ LedgerInOrder /\ BalancesPosted
    BY DEF BalancedInv, ConsentInv
  <2>2. \A a \in Accounts : balance[a] = InitialBalance[a] + RuntimeDelta(a)
    BY <2>1, RuntimeSum DEF BalancesPosted
  <2> QED
    BY <2>1, <2>2, InOrderSettles DEF LedgerBalanced
<1>3. BalancedInv /\ [Next]_vars => BalancedInv'
  BY BalancedStep
<1> QED
  BY <1>1, <1>2, <1>3, PTL DEF Spec

(***************************************************************************)
(* Balance answers.  A snapshot says what had been posted before it was    *)
(* taken, and nothing is posted later with an earlier time.                *)
(***************************************************************************)
PostedBefore(a, t) == {n \in RuntimeOf(a) : ledger[n].posted < t}

BalanceAt(a, t) == InitialBalance[a] + Summed(Deltas, PostedBefore(a, t))

EntriesPast ==
  /\ StartTime <= now
  /\ \A n \in RuntimeEntries : ledger[n].posted <= now

SnapshotsPosted ==
  \A a \in Accounts :
    /\ DOMAIN balanceHistory[a] # {}
    /\ \A k \in DOMAIN balanceHistory[a] : \A t \in Int :
         balanceHistory[a][k].at = t /\ t >= StartTime =>
           t <= now /\ balanceHistory[a][k].balance = BalanceAt(a, t)

BalanceAnswered ==
  call.tool = "get_account_balance" /\ obs.kind = "tool_result" =>
    /\ obs.observedAt \in Int
    /\ \A a, t : a = call.args.account /\ t = obs.observedAt /\ t >= StartTime =>
         obs.result.balance = BalanceAt(a, t)

BalanceInv == BalancedInv /\ EntriesPast /\ SnapshotsPosted /\ BalanceAnswered

\* The snapshots that seed a history are of the time before the episode.
SeedBefore ==
  \A a \in Accounts : \A k \in DOMAIN HistorySeed[a] : HistorySeed[a][k].at < StartTime

LEMMA EntryTimes ==
  ASSUME TypeInv
  PROVE  /\ now \in Nat /\ StartTime \in Nat
         /\ RuntimeEntries \subseteq 1..Len(ledger)
         /\ \A n \in 1..Len(ledger) : ledger[n].posted \in Int
<1>1. ledger \in Seq(LedgerEntry) /\ now \in Nat
  BY DEF TypeInv, TypeOK, WorldTypeOK
<1>2. DOMAIN ledger = 1..Len(ledger) /\ \A n \in 1..Len(ledger) : ledger[n] \in LedgerEntry
  BY <1>1, LenProperties, ElementOfSeq
<1> QED
  BY <1>1, <1>2, WorldAssumption DEF RuntimeEntries, LedgerEntry

\* After the last posting, the balance of that time is the balance.
LEMMA BalanceNow ==
  ASSUME BalancedInv, EntriesPast, NEW a \in Accounts, NEW t \in Int, t > now
  PROVE  BalanceAt(a, t) = balance[a]
<1>1. \A n \in RuntimeEntries : ledger[n].posted \in Int /\ ledger[n].posted <= now /\ now \in Nat
  BY EntryTimes DEF EntriesPast, BalancedInv, ConsentInv
<1>2. \A n \in RuntimeEntries : ledger[n].posted < t
  BY <1>1
<1>3. PostedBefore(a, t) = RuntimeOf(a)
  BY <1>2 DEF PostedBefore, RuntimeOf
<1> QED
  BY <1>3 DEF BalanceAt, BalancedInv, BalancesPosted

\* What a step posts, it posts at its own time.
LEMMA PastPosted ==
  ASSUME NoSelfPayments, BalancedInv, EntriesPast, NEW c \in Calls, Step(c)
  PROVE  /\ now' \in Nat /\ now < now' /\ EntriesPast'
         /\ \A a \in Accounts : \A t \in Int :
              t <= now' => BalanceAt(a, t)' = BalanceAt(a, t)
<1> DEFINE m == Len(ledger)
<1>1. TypeInv /\ HistoryKept /\ LedgerInOrder /\ MoneyLeaves /\ [Next]_vars /\ TypeInv'
  <2>1. [Next]_vars
    BY DEF Next
  <2> QED
    BY <2>1, TypeInvStep DEF BalancedInv, ConsentInv
<1>2. /\ now' \in Nat /\ now \in Nat /\ now < now' /\ StartTime \in Nat
      /\ StartTime <= now'
  <2>1. now' > now
    BY <1>1, StepByCall
  <2> QED
    BY <1>1, <2>1, EntryTimes DEF TypeInv, TypeOK, WorldTypeOK, EntriesPast
<1>3. /\ m \in Nat /\ DOMAIN ledger = 1..m
      /\ \A n \in RuntimeEntries :
           n \in 1..m /\ ledger[n].posted \in Int /\ ledger[n].posted <= now'
  <2>1. \A n \in RuntimeEntries : ledger[n].posted \in Int /\ ledger[n].posted <= now
    BY <1>1, EntryTimes DEF EntriesPast
  <2>2. \A n \in RuntimeEntries : ledger[n].posted <= now'
    BY <1>2, <2>1
  <2> QED
    BY <1>1, <2>1, <2>2, EntryTimes, DeltasTyped
<1>4. CASE UNCHANGED moneyVars
  <2>1. UNCHANGED ledger
    BY <1>4 DEF moneyVars
  <2>2. EntriesPast'
    BY <1>2, <1>3, <2>1 DEF EntriesPast, RuntimeEntries
  <2> QED
    BY <1>2, <2>1, <2>2 DEF BalanceAt, Deltas, PostedBefore, RuntimeOf, RuntimeEntries
<1>5. ASSUME Entered, NEW from, NEW to, NEW amount, Posted(from, to, amount)
      PROVE  /\ EntriesPast'
             /\ \A a \in Accounts : \A t \in Int :
                  t <= now' => BalanceAt(a, t)' = BalanceAt(a, t)
  <2>1. /\ from \in Accounts /\ to \in Accounts /\ amount \in Nat
        /\ Len(transfers) + 1 \in Nat
        /\ PostTransfer(Len(transfers) + 1, from, to, amount)
    BY <1>1, <1>5, TransferIds DEF Posted
  <2>2. /\ DOMAIN ledger' = 1..(m + 2)
        /\ \A n \in 1..m : ledger'[n] = ledger[n]
        /\ ledger'[m + 1] = Entries(Len(transfers) + 1, from, to, amount)[1]
        /\ ledger'[m + 2] = Entries(Len(transfers) + 1, from, to, amount)[2]
    BY <1>5, <2>1, EntriesPosted
  <2>3. ledger'[m + 1].posted = now' /\ ledger'[m + 2].posted = now'
    BY <2>2 DEF Entries
  <2>4. 1..(m + 2) = (1..m) \cup {m + 1, m + 2}
    BY <1>3
  <2>5. EntriesPast'
    <3>1. \A n \in 1..(m + 2) : n > FixtureEntries => ledger'[n].posted <= now'
      BY <1>2, <1>3, <2>2, <2>3, <2>4 DEF RuntimeEntries
    <3> QED
      BY <1>2, <2>2, <3>1 DEF EntriesPast, RuntimeEntries
  <2>6. ASSUME NEW a \in Accounts, NEW t \in Int, t <= now'
        PROVE  BalanceAt(a, t)' = BalanceAt(a, t)
    <3> DEFINE S == PostedBefore(a, t)
    <3>1. ~(now' < t)
      BY <1>2, <2>6
    <3>2. PostedBefore(a, t)' = S
      BY <1>3, <2>2, <2>3, <2>4, <3>1 DEF PostedBefore, RuntimeOf, RuntimeEntries
    <3>3. S \in SUBSET DOMAIN ledger
      BY DEF PostedBefore, RuntimeOf, RuntimeEntries
    <3> HIDE DEF S
    <3>4. IsFiniteSet(S) /\ \A n \in S : Deltas[n] \in Int /\ Deltas'[n] = Deltas[n]
      <4>1. \A n \in 1..m : Deltas'[n] = ledger'[n].delta /\ ledger'[n] = ledger[n]
        BY <2>2, <2>4 DEF Deltas
      <4> QED
        BY <1>1, <1>3, <3>3, <4>1, DeltasTyped
    <3>5. Summed(Deltas', S) = Summed(Deltas, S)
      BY <3>4, SummedSame
    <3>6. Summed(Deltas', PostedBefore(a, t)') = Summed(Deltas, S)
      BY <3>2, <3>5
    <3> QED
      BY <3>6 DEF BalanceAt, S
  <2> QED
    BY <2>5, <2>6
<1> QED
  BY <1>1, <1>2, <1>4, <1>5, StepPosts

LEMMA SnapshotsPostedStep ==
  ASSUME NoSelfPayments, BalanceInv, NEW c \in Calls, Step(c)
  PROVE  SnapshotsPosted'
<1>1. /\ BalancedInv /\ EntriesPast /\ SnapshotsPosted /\ TypeInv /\ Tick
      /\ now \in Nat /\ StartTime \in Nat
  BY EntryTimes DEF BalanceInv, BalancedInv, ConsentInv, Step
<1>2. /\ now' \in Nat /\ now < now'
      /\ \A a \in Accounts : \A t \in Int : t <= now' => BalanceAt(a, t)' = BalanceAt(a, t)
  BY <1>1, PastPosted
<1>3. ASSUME NEW a \in Accounts
      PROVE  /\ DOMAIN balanceHistory'[a] # {}
             /\ \A k \in DOMAIN balanceHistory'[a] : \A t \in Int :
                  balanceHistory'[a][k].at = t /\ t >= StartTime =>
                    t <= now' /\ balanceHistory'[a][k].balance = BalanceAt(a, t)'
  <2> DEFINE m == Len(balanceHistory[a])
  <2>1. /\ m \in Nat /\ Len(balanceHistory'[a]) = m + 1
        /\ balanceHistory'[a][m + 1] = [at |-> now', balance |-> balance[a]]
        /\ \A k \in 1..m : balanceHistory'[a][k] = balanceHistory[a][k]
    BY <1>1, HistoriesGrow
  <2>2. /\ DOMAIN balanceHistory'[a] = 1..(m + 1) /\ DOMAIN balanceHistory[a] = 1..m
        /\ \A k \in 1..m : balanceHistory[a][k] \in Snapshot
    <3>1. TypeInv'
      BY <1>1, TypeInvStep DEF Next
    <3>2. balanceHistory[a] \in Seq(Snapshot) /\ balanceHistory'[a] \in Seq(Snapshot)
      BY <1>1, <3>1 DEF TypeInv, TypeOK, WorldTypeOK
    <3> QED
      BY <2>1, <3>2, LenProperties, ElementOfSeq
  <2>3. ASSUME NEW k \in 1..m, NEW t \in Int, balanceHistory[a][k].at = t, t >= StartTime
        PROVE  t <= now' /\ balanceHistory[a][k].balance = BalanceAt(a, t)'
    <3>1. t <= now /\ balanceHistory[a][k].balance = BalanceAt(a, t)
      BY <1>1, <2>2, <2>3 DEF SnapshotsPosted
    <3>2. t <= now'
      BY <1>1, <1>2, <3>1
    <3> QED
      BY <1>2, <3>1, <3>2
  <2>4. ASSUME NEW t \in Int, now' = t
        PROVE  t <= now' /\ balance[a] = BalanceAt(a, t)'
    <3>1. BalanceAt(a, t) = balance[a]
      BY <1>1, <1>2, <2>4, BalanceNow
    <3> QED
      BY <1>2, <2>4, <3>1
  <2>5. 1 \in 1..(m + 1) /\ \A k \in 1..(m + 1) : k \in 1..m \/ k = m + 1
    <3> HIDE DEF m
    <3> QED
      BY <2>1
  <2>6. balanceHistory'[a][m + 1].at = now' /\ balanceHistory'[a][m + 1].balance = balance[a]
    BY <2>1
  <2> QED
    BY <2>1, <2>2, <2>3, <2>4, <2>5, <2>6
<1> QED
  BY <1>3 DEF SnapshotsPosted

\* Whatever snapshot an answer comes from, or none, it is the balance of the time the
\* answer is stamped with.
LEMMA BalanceSeen ==
  ASSUME NoSelfPayments, BalanceInv, NEW c \in Calls, Step(c),
         c.tool = "get_account_balance", obs'.kind = "tool_result"
  PROVE  /\ call' = c /\ obs'.observedAt \in Int
         /\ \A t \in Int : obs'.observedAt = t /\ t >= StartTime =>
              obs'.result.balance = BalanceAt(c.args.account, t)'
<1> DEFINE fault == DueFault(c.tool)
           a == c.args.account
           history == balanceHistory'[a]
           k == HistoryIndex(Len(history), fault.age)
<1>1. /\ BalancedInv /\ EntriesPast /\ TypeInv /\ now \in Nat
      /\ fault.age \in Nat
  BY EntryTimes, FaultAge DEF BalanceInv, BalancedInv, ConsentInv
<1>2. /\ SnapshotsPosted' /\ now' \in Nat /\ now < now'
      /\ \A x \in Accounts : \A time \in Int :
           time <= now' => BalanceAt(x, time)' = BalanceAt(x, time)
  BY <1>1, PastPosted, SnapshotsPostedStep
<1>3. GetAccountBalance(c.args, fault) /\ call' = c
  BY AnsweredByHandler DEF Handle
<1>4. /\ a \in OwnedAccounts
      /\ obs'.result.balance = IF Stale(fault) THEN SnapshotOf(history, fault).balance
                               ELSE balance[a]
      /\ obs'.observedAt = ReadTime(a, fault)
  BY <1>3 DEF GetAccountBalance, Refuse, Err, ErrBecause, ReadAt, OkAs, Reply, Observation
<1>5. a \in Accounts
  BY <1>4, WorldAssumption
<1>6. CASE ~Stale(fault)
  <2>1. obs'.observedAt = now' /\ obs'.result.balance = balance[a]
    BY <1>4, <1>6 DEF ReadTime
  <2>2. ASSUME NEW t \in Int, t = now'
        PROVE  balance[a] = BalanceAt(a, t)'
    <3>1. BalanceAt(a, t) = balance[a]
      BY <1>1, <1>2, <1>5, <2>2, BalanceNow
    <3>2. t <= now'
      BY <1>2, <2>2
    <3> HIDE DEF a
    <3>3. BalanceAt(a, t)' = BalanceAt(a, t)
      BY <1>2, <1>5, <3>2
    <3> QED
      BY <3>1, <3>3
  <2> QED
    BY <1>2, <1>3, <2>1, <2>2
<1>7. CASE Stale(fault)
  <2>1. obs'.observedAt = history[k].at /\ obs'.result.balance = history[k].balance
    BY <1>4, <1>7 DEF ReadTime, SnapshotOf
  <2>2. history \in Seq(Snapshot)
    <3>1. TypeInv'
      BY <1>1, TypeInvStep DEF Next
    <3> QED
      BY <1>5, <3>1 DEF TypeInv, TypeOK, WorldTypeOK
  <2>3. k \in DOMAIN history
    <3>1. Len(history) \in Nat /\ DOMAIN history = 1..Len(history)
      BY <2>2, LenProperties
    <3>2. PICK j \in 1..Len(history) : TRUE
      BY <1>2, <1>5, <3>1 DEF SnapshotsPosted
    <3>3. Len(history) >= 1
      BY <3>1, <3>2
    <3> HIDE DEF history, fault
    <3> QED
      BY <1>1, <3>1, <3>3 DEF HistoryIndex
  <2>4. history[k].at \in Int
    <3>1. history[k] \in Snapshot
      <4> HIDE DEF k
      <4> QED
        BY <2>2, <2>3, ElementOfSeq, LenProperties
    <3> QED
      BY <3>1 DEF Snapshot
  <2>5. ASSUME NEW t \in Int, t = history[k].at, t >= StartTime
        PROVE  history[k].balance = BalanceAt(a, t)'
    <3> HIDE DEF k
    <3> QED
      BY <1>2, <1>5, <2>3, <2>5 DEF SnapshotsPosted
  <2> QED
    BY <1>3, <2>1, <2>4, <2>5
<1> QED
  BY <1>6, <1>7

LEMMA BalanceInvStep ==
  ASSUME NoSelfPayments, BalanceInv, [Next]_vars
  PROVE  BalanceInv'
<1>1. BalancedInv' /\ BalancedInv /\ EntriesPast
  BY BalancedStep DEF BalanceInv
<1>2. CASE UNCHANGED vars
  <2>1. UNCHANGED <<now, ledger, balanceHistory, call, obs>>
    BY <1>2 DEF vars, worldVars, clockVars, moneyVars, replyVars
  <2>2. EntriesPast'
    BY <2>1 DEF BalanceInv, EntriesPast, RuntimeEntries
  <2>3. \A a, t : BalanceAt(a, t)' = BalanceAt(a, t)
    BY <2>1 DEF BalanceAt, PostedBefore, RuntimeOf, RuntimeEntries, Deltas
  <2>4. SnapshotsPosted' /\ BalanceAnswered'
    BY <2>1, <2>3 DEF BalanceInv, SnapshotsPosted, BalanceAnswered
  <2> QED
    BY <1>1, <2>2, <2>4 DEF BalanceInv
<1>3. ASSUME NEW c \in Calls, Step(c)
      PROVE  BalanceInv'
  <2>1. EntriesPast' /\ SnapshotsPosted'
    BY <1>1, <1>3, PastPosted, SnapshotsPostedStep
  <2>2. call' = c
    BY <1>3 DEF Step
  <2>3. BalanceAnswered'
    BY <1>3, <2>2, BalanceSeen DEF BalanceAnswered
  <2> QED
    BY <1>1, <2>1, <2>3 DEF BalanceInv
<1> QED
  BY <1>2, <1>3 DEF Next, AfterEpisode

\* For every episode in which no account pays itself and whose seeded snapshots are older
\* than it: a balance answer, stale or fresh, is the initial balance plus what the episode
\* had posted to the account before the time the answer is stamped with (tick,
\* _history_index, handle_get_account_balance).
THEOREM ReadsBalance ==
  NoSelfPayments /\ SeedBefore => (Spec => []ReadBalanceTruthful)
<1> SUFFICES ASSUME NoSelfPayments, SeedBefore PROVE Spec => []ReadBalanceTruthful
  OBVIOUS
<1>1. Init => BalanceInv
  <2> SUFFICES ASSUME Init PROVE BalanceInv
    OBVIOUS
  <2>1. BalancedInv /\ TypeInv
    BY BalancedInit DEF BalancedInv, ConsentInv
  <2>2. /\ now = StartTime /\ balance = InitialBalance /\ obs.kind = "reset"
        /\ Len(ledger) = FixtureEntries /\ StartTime \in Nat /\ FixtureEntries \in Nat
    <3>1. Len(FixtureTransfers) \in Nat
      BY WorldAssumption, LenProperties
    <3>2. FixtureEntries \in Nat
      BY <3>1 DEF FixtureEntries
    <3>3. DOMAIN ledger = 1..FixtureEntries /\ transfers = FixtureTransfers
      BY DEF Init, FromFixture
    <3>4. Len(ledger) = FixtureEntries
      BY <2>1, <3>3 DEF BalancedInv, LedgerInOrder, FixtureEntries
    <3> QED
      BY <3>2, <3>4, WorldAssumption DEF Init, FromFixture, Observation
  <2>3. RuntimeEntries = {}
    BY <2>1, <2>2, DeltasTyped DEF RuntimeEntries
  <2>4. EntriesPast
    BY <2>2, <2>3 DEF EntriesPast
  <2>5. ASSUME NEW a \in Accounts
        PROVE  /\ DOMAIN balanceHistory[a] # {}
               /\ \A k \in DOMAIN balanceHistory[a] : \A t \in Int :
                    balanceHistory[a][k].at = t /\ t >= StartTime =>
                      t <= now /\ balanceHistory[a][k].balance = BalanceAt(a, t)
    <3> DEFINE m == Len(HistorySeed[a])
               last == [at |-> StartTime, balance |-> InitialBalance[a]]
    <3>1. balanceHistory[a] = Append(HistorySeed[a], last)
      BY DEF Init, FromFixture
    <3>2. HistorySeed[a] \in Seq(Snapshot) /\ last \in Snapshot /\ InitialBalance[a] \in Int
      BY WorldAssumption DEF Snapshot
    <3>3. /\ m \in Nat /\ DOMAIN HistorySeed[a] = 1..m
          /\ DOMAIN balanceHistory[a] = 1..(m + 1)
          /\ balanceHistory[a][m + 1] = last
          /\ \A k \in 1..m : /\ balanceHistory[a][k] = HistorySeed[a][k]
                             /\ HistorySeed[a][k] \in Snapshot
      BY <3>1, <3>2, AppendProperties, LenProperties, ElementOfSeq
    <3>4. ASSUME NEW k \in 1..m PROVE ~(balanceHistory[a][k].at >= StartTime)
      <4>1. HistorySeed[a][k].at \in Int /\ HistorySeed[a][k].at < StartTime
        BY <3>3 DEF SeedBefore, Snapshot
      <4> QED
        BY <2>2, <3>3, <4>1
    <3>5. ASSUME NEW t PROVE BalanceAt(a, t) = InitialBalance[a]
      <4>1. PostedBefore(a, t) = {}
        BY <2>3 DEF PostedBefore, RuntimeOf
      <4>2. Summed(Deltas, PostedBefore(a, t)) = 0
        BY <4>1, SummedEmpty
      <4> QED
        BY <3>2, <4>2 DEF BalanceAt
    <3> HIDE DEF m
    <3>6. m + 1 \in 1..(m + 1) /\ \A k \in 1..(m + 1) : k \in 1..m \/ k = m + 1
      BY <3>3
    <3> QED
      BY <2>2, <3>3, <3>4, <3>5, <3>6
  <2>6. SnapshotsPosted /\ BalanceAnswered
    BY <2>2, <2>5 DEF SnapshotsPosted, BalanceAnswered
  <2> QED
    BY <2>1, <2>4, <2>6 DEF BalanceInv
<1>2. BalanceInv => ReadBalanceTruthful
  <2> SUFFICES ASSUME BalanceInv PROVE ReadBalanceTruthful
    OBVIOUS
  <2> DEFINE a == call.args.account
             t == obs.observedAt
             posts == {n \in RuntimeEntries : ledger[n].account = a /\ ledger[n].posted < t}
  <2>1. TypeInv
    BY DEF BalanceInv, BalancedInv, ConsentInv
  <2>2. posts \in SUBSET DOMAIN ledger /\ posts = PostedBefore(a, t)
    BY DEF RuntimeEntries, RuntimeOf, PostedBefore
  <2>3. MapThenSumSet(LAMBDA n : ledger[n].delta, posts) = Summed(Deltas, PostedBefore(a, t))
    BY <2>1, <2>2, DeltaSum
  <2> QED
    BY <2>3 DEF BalanceInv, BalanceAnswered, BalanceAt, ReadBalanceTruthful
<1>3. BalanceInv /\ [Next]_vars => BalanceInv'
  BY BalanceInvStep
<1> QED
  BY <1>1, <1>2, <1>3, PTL DEF Spec

(***************************************************************************)
(* The dry run.  Its answer is kept as what it says of the state it leaves *)
(* behind: an allowed payment is within the balance and breaks no enforced *)
(* rule at this time, and a demanded step-up is announced.  The next       *)
(* step's clock can only help: the cooling goes on, and a new day has no   *)
(* payments on it yet.                                                     *)
(***************************************************************************)
Clean(a) ==
  /\ balance[a.from] >= a.amount
  /\ Enforced("PER_TRANSFER_LIMIT") => ~Exceeds(a.amount, Policy.perTransferLimit)
  /\ MustCap => Summed(Amounts, UsedBy(a.from, now)) + a.amount <= Policy.dailyLimit
  /\ Enforced("NIGHT_LIMIT") /\ Policy.nightWindow # None /\ InNightWindow(now) =>
       ~Exceeds(a.amount, Policy.nightLimit)
  /\ Enforced("KYC_AMOUNT_CAP") => ~Exceeds(a.amount, Policy.kycCap)
  /\ Enforced("BLOCKED_RECIPIENT") => a.key \notin Policy.blockedKeys
  /\ Enforced("NEW_BENEFICIARY_COOLING") /\ Policy.cooling > 0 => ~CoolingFires(a.key, now)

DemandsStepUp(a, t) ==
  /\ Policy.stepUpThreshold # None /\ a.amount >= Policy.stepUpThreshold
  /\ EffectiveAuthLevel(t) # "STEP_UP"

DryRunTells(a, result) ==
  /\ result.allowed => Clean(a)
  /\ Enforced("STEP_UP_REQUIRED") /\ DemandsStepUp(a, now) => result.requiresStepUp

DryRunInv ==
  /\ TypeInv /\ TransfersPast
  /\ call.tool = "check_transfer_policy" /\ obs.kind = "tool_result" =>
       call.args \in Payment /\ DryRunTells(call.args, obs.result)

\* Amounts add up to something that is not negative.
LEMMA SummedNat ==
  ASSUME TypeInv, NEW T \in SUBSET DOMAIN transfers
  PROVE  Summed(Amounts, T) \in Nat
<1>1. IsFiniteSet(T) /\ \A i \in T : Amounts[i] \in Int /\ Amounts[i] >= 0
  BY AmountsTyped
<1>2. Summed(Amounts, T) \in Int /\ Summed(Amounts, T) >= 0
  BY <1>1, SummedInt, SummedSigns
<1> QED
  BY <1>2

\* The rules and what each of them asks.
LEMMA RuleList ==
  Rules = {"PER_TRANSFER_LIMIT", "DAILY_LIMIT", "NIGHT_LIMIT", "KYC_AMOUNT_CAP",
           "BLOCKED_RECIPIENT", "NEW_BENEFICIARY_COOLING", "STEP_UP_REQUIRED",
           "CONSENT_REQUIRED"}
<1>1. DOMAIN Catalog = 1..8
  BY DEF Catalog
<1>2. /\ Catalog[1] = "PER_TRANSFER_LIMIT" /\ Catalog[2] = "DAILY_LIMIT"
      /\ Catalog[3] = "NIGHT_LIMIT" /\ Catalog[4] = "KYC_AMOUNT_CAP"
      /\ Catalog[5] = "BLOCKED_RECIPIENT" /\ Catalog[6] = "NEW_BENEFICIARY_COOLING"
      /\ Catalog[7] = "STEP_UP_REQUIRED" /\ Catalog[8] = "CONSENT_REQUIRED"
  BY DEF Catalog
<1>3. 1..8 = {1, 2, 3, 4, 5, 6, 7, 8}
  OBVIOUS
<1>4. Rules = {Catalog[n] : n \in 1..8}
  BY <1>1 DEF Rules, Range
<1> QED
  BY <1>2, <1>3, <1>4

\* The first of some rules is one of them.
LEMMA FirstFound ==
  ASSUME NEW found \in SUBSET Rules, found # {}
  PROVE  First(found) \in found
<1> DEFINE places == {Position(r) : r \in found}
<1>1. ASSUME NEW r \in Rules PROVE Position(r) \in 1..8
  <2>1. DOMAIN Catalog = 1..8
    BY DEF Catalog
  <2>2. \E n \in DOMAIN Catalog : Catalog[n] = r
    BY DEF Rules, Range
  <2> QED
    BY <2>1, <2>2 DEF Position
<1>2. places \in SUBSET Nat /\ places # {}
  BY <1>1
<1>3. PICK m \in places : \A k \in places : m <= k
  BY <1>2, LeastNumber
<1>4. PICK r \in found : Position(r) = m
  BY <1>3
<1>5. \A q \in found : Position(r) <= Position(q)
  BY <1>3, <1>4
<1> QED
  BY <1>4, <1>5 DEF First

\* The answer of the dry run, as it stands when it is given.
LEMMA DryRunSays ==
  ASSUME TypeInv, NEW a \in Payment, DryRun(a).allowed
  PROVE  /\ balance[a.from] >= a.amount
         /\ \A r \in Rules \ AuthRules :
              Enforced(r) => ~Breaks(r, a.from, a.key, a.amount, NoId, now')
<1> DEFINE findings == DryRunFindings(a)
           violations == InMode(findings, "HARD") \ AuthRules
           sufficient == balance[a.from] >= a.amount
           failure == IF violations # {} THEN "POLICY_VIOLATION"
                      ELSE IF ~sufficient THEN "INSUFFICIENT_FUNDS" ELSE None
<1>1. DryRun(a).allowed <=> failure = None
  BY DEF DryRun
<1>2. violations = {} /\ sufficient
  <2> HIDE DEF violations, sufficient
  <2> QED
    BY <1>1, CallAssumption
<1>3. ASSUME NEW r \in Rules \ AuthRules, Enforced(r)
      PROVE  ~Breaks(r, a.from, a.key, a.amount, NoId, now')
  BY <1>2, <1>3 DEF InMode, DryRunFindings, Findings, Enforced
<1> QED
  BY <1>2, <1>3
LEMMA DryRunAnswers ==
  ASSUME TypeInv, TypeInv', NEW a \in Payment, NEW fault,
         CheckTransferPolicy(a, fault), obs'.kind = "tool_result"
  PROVE  DryRunTells(a, obs.result)'
<1>1. obs'.result = DryRun(a) /\ UNCHANGED toolVars
  BY DEF CheckTransferPolicy, Refuse, Err, ErrBecause, Read, Ok, OkAs, Reply, Observation
<1>2. UNCHANGED <<balance, transfers, beneficiaries, auth>>
  BY <1>1 DEF toolVars, moneyVars, approvalVars
<1>3. /\ a.amount \in Nat
      /\ Amounts' = Amounts /\ UsedBy(a.from, now)' = UsedBy(a.from, now')
  BY <1>2 DEF Payment, Amounts, UsedBy
<1>4. ASSUME DryRun(a).allowed
      PROVE  Clean(a)'
  <2>1. /\ balance[a.from] >= a.amount
        /\ \A r \in Rules \ AuthRules :
             Enforced(r) => ~Breaks(r, a.from, a.key, a.amount, NoId, now')
    BY <1>4, DryRunSays
  <2>2. MustCap => Summed(Amounts, UsedBy(a.from, now')) + a.amount <= Policy.dailyLimit
    <3> SUFFICES ASSUME MustCap
                 PROVE  Summed(Amounts, UsedBy(a.from, now')) + a.amount <= Policy.dailyLimit
      OBVIOUS
    <3> DEFINE used == Summed(Amounts, UsedBy(a.from, now'))
    <3>1. ~Breaks("DAILY_LIMIT", a.from, a.key, a.amount, NoId, now')
      BY <2>1, RuleList DEF MustCap, AuthRules
    <3>2. ~(DailyUsed(a.from, now') + a.amount > Policy.dailyLimit)
      BY <3>1 DEF Breaks, Exceeds, MustCap
    <3>3. DailyUsed(a.from, now') = used
      BY DailySum
    <3>4. UsedBy(a.from, now') \in SUBSET DOMAIN transfers
      BY DEF UsedBy
    <3>5. used \in Nat /\ Policy.dailyLimit \in Nat
      BY <3>4, SummedNat, PolicyAssumption DEF MustCap
    <3> HIDE DEF used
    <3>6. used + a.amount <= Policy.dailyLimit
      BY <1>3, <3>2, <3>3, <3>5
    <3> QED
      BY <3>6 DEF used
  <2>3. /\ Enforced("PER_TRANSFER_LIMIT") => ~Exceeds(a.amount, Policy.perTransferLimit)
        /\ Enforced("NIGHT_LIMIT") /\ Policy.nightWindow # None /\ InNightWindow(now') =>
             ~Exceeds(a.amount, Policy.nightLimit)
        /\ Enforced("KYC_AMOUNT_CAP") => ~Exceeds(a.amount, Policy.kycCap)
        /\ Enforced("BLOCKED_RECIPIENT") => a.key \notin Policy.blockedKeys
        /\ Enforced("NEW_BENEFICIARY_COOLING") /\ Policy.cooling > 0 =>
             ~CoolingFires(a.key, now')
    BY <2>1, RuleList DEF Breaks, AuthRules
  <2>4. CoolingFires(a.key, now)' <=> CoolingFires(a.key, now')
    BY <1>2 DEF CoolingFires
  <2>5. (Enforced("NIGHT_LIMIT") /\ Policy.nightWindow # None /\ InNightWindow(now))'
          <=> (Enforced("NIGHT_LIMIT") /\ Policy.nightWindow # None /\ InNightWindow(now'))
    BY DEF InNightWindow, Enforced
  <2> QED
    BY <1>2, <1>3, <2>1, <2>2, <2>3, <2>4, <2>5 DEF Clean, Enforced, MustCap, Exceeds
<1>5. ASSUME Enforced("STEP_UP_REQUIRED"), DemandsStepUp(a, now')
      PROVE  DryRun(a).requiresStepUp
  <2>1. "STEP_UP_REQUIRED" \in DryRunFindings(a)
    BY <1>5, RuleList DEF DryRunFindings, Findings, Breaks, DemandsStepUp
  <2> QED
    BY <1>5, <2>1 DEF DryRun, Demands, Enforced
<1>6. DemandsStepUp(a, now)' <=> DemandsStepUp(a, now')
  BY <1>2 DEF DemandsStepUp, EffectiveAuthLevel
<1> QED
  BY <1>1, <1>4, <1>5, <1>6 DEF DryRunTells, Enforced

LEMMA DryRunInvStep ==
  ASSUME DryRunInv, [Next]_vars
  PROVE  DryRunInv'
<1>1. TypeInv /\ TransfersPast /\ TypeInv' /\ TransfersPast'
  BY TypeInvStep, TransfersPastStep DEF DryRunInv
<1>2. CASE UNCHANGED vars
  <2>1. UNCHANGED <<now, balance, transfers, beneficiaries, auth, call, obs>>
    BY <1>2 DEF vars, worldVars, clockVars, moneyVars, approvalVars, replyVars
  <2>2. \A a, result : DryRunTells(a, result) => DryRunTells(a, result)'
    BY <2>1 DEF DryRunTells, Clean, DemandsStepUp, Enforced, MustCap, Amounts, UsedBy,
                CoolingFires, InNightWindow, EffectiveAuthLevel, Exceeds
  <2>3. DryRunTells(call.args, obs.result) => DryRunTells(call.args, obs.result)'
    BY <2>1, <2>2
  <2> QED
    BY <1>1, <2>1, <2>3 DEF DryRunInv
<1>3. ASSUME NEW c \in Calls, Step(c), c.tool = "check_transfer_policy",
             obs'.kind = "tool_result"
      PROVE  call'.args \in Payment /\ DryRunTells(call.args, obs.result)'
  <2>1. /\ c.args \in ArgsOf(c.tool) /\ Handle(c, DueFault(c.tool)) /\ call' = c
    BY <1>3, AnsweredByHandler
  <2>2. c.args \in Payment /\ CheckTransferPolicy(c.args, DueFault(c.tool))
    BY <1>3, <2>1 DEF ArgsOf, Handle
  <2>3. PICK a \in Payment : a = c.args
    BY <2>2
  <2>4. DryRunTells(a, obs.result)'
    BY <1>1, <1>3, <2>2, <2>3, DryRunAnswers
  <2> QED
    BY <2>1, <2>2, <2>3, <2>4
<1>4. ASSUME NEW c \in Calls, Step(c)
      PROVE  call' = c
  BY <1>4 DEF Step
<1> QED
  BY <1>1, <1>2, <1>3, <1>4 DEF Next, AfterEpisode, DryRunInv

LEMMA ClockTicks ==
  ASSUME TypeInv, Tick
  PROVE  now \in Nat /\ now' \in Nat /\ now' > now
<1>1. now \in Nat
  BY DEF TypeInv, TypeOK, WorldTypeOK
<1>2. TickSeconds \in Nat \ {0} /\ now' = now + TickSeconds
  BY WorldAssumption DEF Tick
<1> QED
  BY <1>1, <1>2

LEMMA DayGrows ==
  ASSUME NEW x \in Int, NEW y \in Int, x <= y
  PROVE  DayOf(x) \in Int /\ DayOf(y) \in Int /\ DayOf(x) <= DayOf(y)
BY DEF DayOf, Day

\* A payment that was clean is clean after the clock's tick, but for the night.
LEMMA CleanLater ==
  ASSUME TypeInv, TransfersPast, NEW a \in Payment, Clean(a), now' \in Nat, now' > now,
         NEW r \in Rules \ AuthRules, Enforced(r), NEW consent,
         Breaks(r, a.from, a.key, a.amount, consent, now')
  PROVE  Policy.nightWindow # None /\ InNightWindow(now') /\ ~InNightWindow(now)
<1>1. now \in Nat /\ a.amount \in Nat /\ Policy.cooling \in Nat
  BY PolicyAssumption DEF TypeInv, TypeOK, WorldTypeOK, Payment
<1>2. CASE r = "DAILY_LIMIT"
  <2> DEFINE used == Summed(Amounts, UsedBy(a.from, now))
             later == Summed(Amounts, UsedBy(a.from, now'))
  <2>1. MustCap /\ DailyUsed(a.from, now') + a.amount > Policy.dailyLimit
    BY <1>2 DEF Breaks, Exceeds, MustCap
  <2>2. DailyUsed(a.from, now') = later
    BY DailySum
  <2>3. used \in Nat /\ later \in Nat /\ Policy.dailyLimit \in Nat
    <3>1. \A t : UsedBy(a.from, t) \in SUBSET DOMAIN transfers
      BY DEF UsedBy
    <3> QED
      BY <2>1, <3>1, SummedNat, PolicyAssumption DEF MustCap
  <2>4. used + a.amount <= Policy.dailyLimit
    BY <2>1 DEF Clean
  <2>5. later <= used
    <3>1. CASE DayOf(now') = DayOf(now)
      <4>1. UsedBy(a.from, now') = UsedBy(a.from, now)
        BY <3>1 DEF UsedBy, CountsToday
      <4> QED
        BY <2>3, <4>1
    <3>2. CASE DayOf(now') # DayOf(now)
      <4>1. ASSUME NEW i \in DOMAIN transfers
            PROVE  ~CountsToday(transfers[i], a.from, now')
        <5>1. transfers[i].created \in Int /\ transfers[i].created <= now
          BY TransferIds DEF TransfersPast, Transfer
        <5>2. now \in Int /\ now' \in Int /\ now <= now'
          BY <1>1
        <5>3. /\ DayOf(transfers[i].created) <= DayOf(now) /\ DayOf(now) <= DayOf(now')
              /\ DayOf(now) \in Int /\ DayOf(now') \in Int
          BY <5>1, <5>2, DayGrows
        <5>4. DayOf(transfers[i].created) # DayOf(now')
          BY <3>2, <5>3
        <5> QED
          BY <5>4 DEF CountsToday
      <4>2. UsedBy(a.from, now') = {}
        BY <4>1 DEF UsedBy
      <4>3. later = 0
        BY <4>2, SummedEmpty
      <4> QED
        BY <2>3, <4>3
    <3> QED
      BY <3>1, <3>2
  <2> HIDE DEF used, later
  <2> QED
    BY <1>1, <2>1, <2>2, <2>3, <2>4, <2>5
<1>3. CASE r = "NEW_BENEFICIARY_COOLING"
  <2>1. Policy.cooling > 0 /\ CoolingFires(a.key, now') /\ ~CoolingFires(a.key, now)
    BY <1>3 DEF Breaks, Clean
  <2>2. \A b \in Range(beneficiaries) : b.created \in Int
    <3>1. beneficiaries \in Seq(Beneficiary)
      BY DEF TypeInv, TypeOK, WorldTypeOK
    <3>2. \A i \in DOMAIN beneficiaries : beneficiaries[i] \in Beneficiary
      BY <3>1, LenProperties, ElementOfSeq
    <3> QED
      BY <3>2 DEF Range, Beneficiary
  <2> QED
    BY <1>1, <2>1, <2>2 DEF CoolingFires
<1>4. CASE r = "NIGHT_LIMIT"
  BY <1>4 DEF Breaks, Clean
<1>5. CASE r \in {"PER_TRANSFER_LIMIT", "KYC_AMOUNT_CAP", "BLOCKED_RECIPIENT"}
  BY <1>5 DEF Breaks, Clean
<1> QED
  BY <1>2, <1>3, <1>4, <1>5, RuleList DEF AuthRules
\* An error of create_transfer, and the rule or the balance it speaks of.
LEMMA CreateRefusal ==
  ASSUME NEW a, NEW fault, CreateTransfer(a, fault),
         obs'.code \in {"POLICY_VIOLATION", "INSUFFICIENT_FUNDS", "AUTH_REQUIRED"}
  PROVE  \/ /\ obs'.code = "INSUFFICIENT_FUNDS" /\ ~FundsSuffice(a)
         \/ \E r \in Rules :
              /\ Enforced(r) /\ Breaks(r, a.from, a.key, a.amount, a.consent, now')
              /\ obs'.code = "POLICY_VIOLATION" => r \notin AuthRules
              /\ obs'.code = "AUTH_REQUIRED" => r = "STEP_UP_REQUIRED"
              /\ obs'.code # "INSUFFICIENT_FUNDS"
<1> DEFINE hard == InMode(RequestFindings(a), "HARD")
           codes == {"POLICY_VIOLATION", "INSUFFICIENT_FUNDS", "AUTH_REQUIRED"}
<1>1. CreateVerdict(a) = obs'.code
  <2>1. ASSUME NEW result, OkUnlessLate(result, fault)
        PROVE  obs'.code \notin codes
    BY <2>1, CallAssumption DEF OkUnlessLate, Err, ErrBecause, Ok, OkAs, Reply, Observation
  <2>2. ASSUME NEW code, NEW reason, ErrBecause(code, reason, fault)
        PROVE  obs'.code = code
    BY <2>2 DEF ErrBecause, Reply, Observation
  <2>3. ASSUME NEW code, Refuse(code, fault)
        PROVE  obs'.code = code
    BY <2>3 DEF Refuse, Err, ErrBecause, Reply, Observation
  <2> QED
    BY <2>1, <2>2, <2>3 DEF CreateTransfer
<1>2. CASE hard # {} /\ CreateVerdict(a) = HardError(First(hard), a)
  <2>1. hard \in SUBSET Rules
    BY DEF InMode, RequestFindings, Findings
  <2> DEFINE r == First(hard)
  <2>2. r \in hard
    BY <1>2, <2>1, FirstFound
  <2>3. r \in Rules /\ Enforced(r) /\ Breaks(r, a.from, a.key, a.amount, a.consent, now')
    BY <2>2 DEF InMode, RequestFindings, Findings, Enforced
  <2> HIDE DEF r
  <2>4. obs'.code = HardError(r, a)
    BY <1>1, <1>2 DEF r
  <2>5. /\ obs'.code = "POLICY_VIOLATION" => r \notin AuthRules
        /\ obs'.code = "AUTH_REQUIRED" => r = "STEP_UP_REQUIRED"
        /\ obs'.code # "INSUFFICIENT_FUNDS"
    BY <2>4 DEF HardError, AuthRules
  <2> QED
    BY <2>3, <2>5
<1>3. CASE CreateVerdict(a) = "INSUFFICIENT_FUNDS" /\ ~FundsSuffice(a)
  BY <1>1, <1>3
<1> HIDE DEF hard
<1>4. \/ hard # {} /\ CreateVerdict(a) = HardError(First(hard), a)
      \/ CreateVerdict(a) = "INSUFFICIENT_FUNDS" /\ ~FundsSuffice(a)
      \/ CreateVerdict(a) \in {"NOT_FOUND", "ACCOUNT_BLOCKED", "replay",
                               "IDEMPOTENCY_CONFLICT", "execute"}
  BY DEF CreateVerdict, hard
<1> QED
  BY <1>1, <1>2, <1>3, <1>4

\* For every episode of a fixture whose history lies in the past: the step after an
\* allowed dry run does not refuse the same payment for funds or policy, unless the night
\* window opened in between, and asks for no authorization that was not announced, unless
\* the approval lapsed in between (handle_check_transfer_policy, create_transfer).
THEOREM DryRunsHold == HistoryPast => (Spec => DryRunHolds)
<1> SUFFICES ASSUME HistoryPast PROVE Spec => DryRunHolds
  OBVIOUS
<1> DEFINE Promised ==
      /\ call.tool = "check_transfer_policy" /\ obs.kind = "tool_result"
      /\ obs.result.allowed
      /\ call'.tool = "create_transfer" /\ call'.args # Malformed
      /\ <<call.args.from, call.args.key, call.args.amount>>
           = <<call'.args.from, call'.args.key, call'.args.amount>>
      => /\ obs'.code \in {"POLICY_VIOLATION", "INSUFFICIENT_FUNDS"} =>
              Policy.nightWindow # None /\ InNightWindow(now') /\ ~InNightWindow(now)
         /\ obs'.code = "AUTH_REQUIRED" => obs.result.requiresStepUp \/ auth.until <= now'
<1>1. Init => DryRunInv
  <2> SUFFICES ASSUME Init PROVE DryRunInv
    OBVIOUS
  <2>1. /\ TypeInv /\ transfers = FixtureTransfers /\ now = StartTime /\ obs.kind = "reset"
    BY TypeInvInit DEF Init, FromFixture, Observation
  <2> QED
    BY <2>1 DEF DryRunInv, TransfersPast, HistoryPast
<1>2. DryRunInv /\ [Next]_vars => [Promised]_vars
  <2> SUFFICES ASSUME DryRunInv, NEW c \in Calls, Step(c),
                      call.tool = "check_transfer_policy", obs.kind = "tool_result",
                      obs.result.allowed,
                      call'.tool = "create_transfer", call'.args # Malformed,
                      <<call.args.from, call.args.key, call.args.amount>>
                        = <<call'.args.from, call'.args.key, call'.args.amount>>,
                      obs'.code \in {"POLICY_VIOLATION", "INSUFFICIENT_FUNDS", "AUTH_REQUIRED"}
               PROVE  /\ obs'.code \in {"POLICY_VIOLATION", "INSUFFICIENT_FUNDS"} =>
                           Policy.nightWindow # None /\ InNightWindow(now')
                             /\ ~InNightWindow(now)
                      /\ obs'.code = "AUTH_REQUIRED" =>
                           obs.result.requiresStepUp \/ auth.until <= now'
    BY DEF Next, AfterEpisode
  <2> DEFINE a == call.args
             b == c.args
             fault == DueFault(c.tool)
  <2>1. /\ TypeInv /\ TransfersPast /\ a \in Payment /\ Clean(a)
        /\ Enforced("STEP_UP_REQUIRED") /\ DemandsStepUp(a, now) => obs.result.requiresStepUp
    BY DEF DryRunInv, DryRunTells
  <2>2. call' = c /\ DispatchCall(c, fault) /\ Tick
    BY DEF Step
  <2>3. c.tool = "create_transfer" /\ b # Malformed
        /\ b.from = a.from /\ b.key = a.key /\ b.amount = a.amount
    BY <2>2
  <2>4. now \in Nat /\ now' \in Nat /\ now' > now
    BY <2>1, <2>2, ClockTicks
  <2>5. CreateTransfer(b, fault)
    <3>1. ASSUME NEW code, NEW f, Refuse(code, f)
          PROVE  obs'.code = code
      BY <3>1 DEF Refuse, Err, ErrBecause, Reply, Observation
    <3>2. Handle(c, fault)
      BY <2>2, <2>3, <3>1 DEF DispatchCall
    <3> QED
      BY <2>3, <3>2 DEF Handle
  <2>6. FundsSuffice(b)
    BY <2>1, <2>3 DEF Clean, FundsSuffice
  <2>7. PICK r \in Rules :
          /\ Enforced(r) /\ Breaks(r, b.from, b.key, b.amount, b.consent, now')
          /\ obs'.code = "POLICY_VIOLATION" => r \notin AuthRules
          /\ obs'.code = "AUTH_REQUIRED" => r = "STEP_UP_REQUIRED"
          /\ obs'.code # "INSUFFICIENT_FUNDS"
    BY <2>5, <2>6, CreateRefusal
  <2>8. Breaks(r, a.from, a.key, a.amount, b.consent, now')
    BY <2>3, <2>7
  <2>9. CASE obs'.code = "POLICY_VIOLATION"
    BY <2>1, <2>4, <2>7, <2>8, <2>9, CleanLater
  <2>10. CASE obs'.code = "AUTH_REQUIRED"
    <3>1. Enforced("STEP_UP_REQUIRED") /\ DemandsStepUp(a, now')
      BY <2>7, <2>8, <2>10 DEF Breaks, DemandsStepUp
    <3>2. auth.until \in Int
      BY <2>1 DEF TypeInv, TypeOK, WorldTypeOK, AuthState
    <3>3. DemandsStepUp(a, now) \/ auth.until <= now'
      BY <2>4, <3>1, <3>2 DEF DemandsStepUp, EffectiveAuthLevel
    <3> QED
      BY <2>1, <2>10, <3>1, <3>3
  <2> QED
    BY <2>7, <2>9, <2>10
<1>3. DryRunInv /\ [Next]_vars => DryRunInv'
  BY DryRunInvStep
<1>4. Spec => [][Promised]_vars
  BY <1>1, <1>2, <1>3, PTL DEF Spec
<1> QED
  BY <1>4 DEF DryRunHolds, Promised
(***************************************************************************)
(* Funds.  A reversal debits whom the money went to, and nobody asks       *)
(* whether it is still there.  It is, when money that left the customer    *)
(* cannot leave again but by reversals: when the customer pays nobody who  *)
(* could pay in the episode, and an account outside holds at first what    *)
(* the history says it was paid.                                           *)
(***************************************************************************)
PaymentsLeave ==
  /\ \A i \in DOMAIN FixtureTransfers :
       FixtureTransfers[i].from \in OwnedAccounts => FixtureTransfers[i].to \notin OwnedAccounts
  /\ \A c \in Calls :
       c.tool = "create_transfer" /\ c.args # Malformed /\ c.args.key \in PixKeys =>
         AccountOf[c.args.key] \notin OwnedAccounts

\* What an account was paid by the customer and has not given back.
Held(a) ==
  {i \in DOMAIN transfers :
     /\ transfers[i].from \in OwnedAccounts /\ transfers[i].to = a
     /\ transfers[i].reversedBy = NoId}

HistoryHeld(a) ==
  {i \in DOMAIN FixtureTransfers :
     /\ FixtureTransfers[i].from \in OwnedAccounts /\ FixtureTransfers[i].to = a
     /\ FixtureTransfers[i].reversedBy = NoId}

HistoryFunded ==
  \A a \in Accounts \ OwnedAccounts :
    Summed([i \in DOMAIN FixtureTransfers |-> FixtureTransfers[i].amount], HistoryHeld(a))
      <= InitialBalance[a]

\* No transfer is between the customer's own accounts.
OneWay ==
  \A i \in DOMAIN transfers :
    transfers[i].from \in OwnedAccounts => transfers[i].to \notin OwnedAccounts

Funded ==
  \A a \in Accounts :
    IF a \in OwnedAccounts THEN balance[a] >= 0 ELSE balance[a] >= Summed(Amounts, Held(a))

FundsInv == TypeInv /\ OneWay /\ Funded

\* What has not moved is still funded.
LEMMA FundedApart ==
  ASSUME TypeInv, Funded, NEW a \in Accounts, balance'[a] >= balance[a],
         balance'[a] \in Int, Held(a)' = Held(a), \A i \in Held(a) : Amounts'[i] = Amounts[i]
  PROVE  IF a \in OwnedAccounts THEN balance'[a] >= 0
         ELSE balance'[a] >= Summed(Amounts', Held(a)')
<1>1. balance[a] \in Int
  BY DEF TypeInv, TypeOK, WorldTypeOK
<1>2. Held(a) \in SUBSET DOMAIN transfers
  BY DEF Held
<1>3. /\ IsFiniteSet(Held(a)) /\ Summed(Amounts, Held(a)) \in Int
      /\ \A i \in Held(a) : Amounts[i] \in Int
  BY <1>2, AmountsTyped
<1>4. Summed(Amounts', Held(a)) = Summed(Amounts, Held(a))
  BY <1>3, SummedSame
<1> QED
  BY <1>1, <1>3, <1>4 DEF Funded

LEMMA FundsPaid ==
  ASSUME PaymentsLeave, FundsInv, TypeInv', Entered,
         NEW c \in Calls, c.tool = "create_transfer", c.args # Malformed, Pays(c.args)
  PROVE  OneWay' /\ Funded'
<1> DEFINE a == c.args
           to == AccountOf[a.key]
           n == Len(transfers)
           r == n + 1
<1>1. /\ n \in Nat /\ DOMAIN transfers = 1..n /\ balance \in [Accounts -> Int]
      /\ \A i \in 1..n : Amounts[i] = transfers[i].amount /\ Amounts[i] \in Int
  BY AmountsTyped DEF FundsInv, TypeInv, TypeOK, WorldTypeOK
<1>2. /\ transfers'[r] = TransferOf(a) /\ DOMAIN transfers' = 1..r
      /\ \A i \in 1..n : transfers'[i] = transfers[i]
  BY PaymentAppended, LenProperties
<1>3. /\ a \in ArgsOf("create_transfer") /\ CreateVerdict(a) = "execute"
      /\ PostTransfer(NextTransferId, a.from, AccountOf[a.key], a.amount)
  BY DEF Pays, ExecuteTransfer
<1>4. /\ a.from \in OwnedAccounts /\ a.key \in PixKeys /\ FundsSuffice(a)
      /\ a.from \in Accounts /\ to \in Accounts /\ a.amount \in Nat
  <2>1. a.from \in OwnedAccounts /\ a.key \in PixKeys
    BY <1>3, CreateGuards
  <2>2. FundsSuffice(a)
    <3>1. \A rule : HardError(rule, a) # "execute"
      BY DEF HardError
    <3> QED
      BY <1>3, <3>1 DEF CreateVerdict
  <2>3. a.amount \in Nat
    BY <1>3 DEF ArgsOf
  <2> QED
    BY <2>1, <2>2, <2>3, WorldAssumption
<1>5. to \notin OwnedAccounts /\ to # a.from
  BY <1>4 DEF PaymentsLeave
<1>6. /\ TransferOf(a).from = a.from /\ TransferOf(a).to = to
      /\ TransferOf(a).amount = a.amount /\ TransferOf(a).reversedBy = NoId
  BY DEF TransferOf
<1>7. /\ balance'[a.from] = balance[a.from] - a.amount /\ balance'[to] = balance[to] + a.amount
      /\ \A x \in Accounts \ {a.from, to} : balance'[x] = balance[x]
  BY <1>1, <1>3, <1>4, <1>5 DEF PostTransfer
<1>8. \A i \in 1..r : i = r \/ i \in 1..n
  BY <1>1
<1>9. 1..n \subseteq 1..r /\ r \in 1..r /\ r \notin 1..n
  BY <1>1
<1>10. OneWay'
  BY <1>1, <1>2, <1>5, <1>6, <1>8 DEF OneWay, FundsInv
<1>11. \A i \in 1..n : Amounts'[i] = Amounts[i] /\ Amounts'[i] \in Int
  BY <1>1, <1>2, <1>9 DEF Amounts
<1>12. Amounts'[r] = a.amount
  BY <1>2, <1>6, <1>9 DEF Amounts
<1> HIDE DEF a, to, n, r
<1>13. ASSUME NEW x \in Accounts, x # to
       PROVE  Held(x)' = Held(x)
  BY <1>1, <1>2, <1>6, <1>8, <1>9, <1>13 DEF Held
<1>14. Held(to)' = Held(to) \cup {r}
  BY <1>1, <1>2, <1>4, <1>6, <1>8, <1>9 DEF Held
<1>15. ASSUME NEW x \in Accounts, x # to, x # a.from
       PROVE  IF x \in OwnedAccounts THEN balance'[x] >= 0
              ELSE balance'[x] >= Summed(Amounts', Held(x)')
  <2>1. Held(x)' = Held(x) /\ \A i \in Held(x) : i \in 1..n
    BY <1>1, <1>13, <1>15 DEF Held
  <2>2. balance'[x] = balance[x] /\ balance[x] \in Int
    BY <1>1, <1>7, <1>15
  <2>3. balance'[x] >= balance[x] /\ balance'[x] \in Int
    BY <2>2
  <2> QED
    BY <1>11, <2>1, <2>3, FundedApart DEF FundsInv
<1>16. balance'[a.from] >= 0
  <2>1. balance[a.from] \in Int /\ balance[a.from] >= a.amount
    BY <1>1, <1>4 DEF FundsSuffice
  <2> QED
    BY <1>4, <1>7, <2>1
<1>17. balance'[to] >= Summed(Amounts', Held(to)')
  <2>1. Held(to) \in SUBSET DOMAIN transfers /\ r \notin Held(to)
    BY <1>1, <1>9 DEF Held
  <2>2. /\ IsFiniteSet(Held(to)) /\ Summed(Amounts, Held(to)) \in Int
        /\ \A i \in Held(to) : Amounts'[i] = Amounts[i] /\ Amounts[i] \in Int
    BY <1>1, <1>11, <2>1, AmountsTyped DEF FundsInv
  <2>3. Summed(Amounts', Held(to)) = Summed(Amounts, Held(to))
    BY <2>2, SummedSame
  <2>4. \A i \in Held(to) \cup {r} : Amounts'[i] \in Int
    BY <1>4, <1>12, <2>2
  <2>5. Summed(Amounts', Held(to) \cup {r}) = Summed(Amounts', Held(to)) + Amounts'[r]
    BY <2>1, <2>2, <2>4, SummedMore
  <2>6. balance[to] >= Summed(Amounts, Held(to)) /\ balance[to] \in Int
    BY <1>1, <1>4, <1>5 DEF FundsInv, Funded
  <2> QED
    BY <1>4, <1>7, <1>12, <1>14, <2>2, <2>3, <2>5, <2>6
<1>18. Funded'
  BY <1>4, <1>5, <1>15, <1>16, <1>17 DEF Funded
<1> QED
  BY <1>10, <1>18

LEMMA FundsReturned ==
  ASSUME FundsInv, TypeInv', Entered, TransfersBounded, StepsBounded, stepIndex \in Nat,
         NEW a, Returns(a)
  PROVE  OneWay' /\ Funded'
<1> DEFINE o == a.transfer
           n == Len(transfers)
           r == n + 1
<1>0. PICK x, payer, payee : x = transfers[o] /\ payer = x.from /\ payee = x.to
  OBVIOUS
<1>1. /\ n \in Nat /\ DOMAIN transfers = 1..n /\ balance \in [Accounts -> Int]
      /\ \A i \in 1..n : Amounts[i] = transfers[i].amount /\ Amounts[i] \in Int
  BY AmountsTyped DEF FundsInv, TypeInv, TypeOK, WorldTypeOK
<1>2. /\ transfers'[r] = ReversalOf(o, a.reason) /\ DOMAIN transfers' = 1..r
      /\ \A i \in 1..n : transfers'[i] = IF i = o
                           THEN [x EXCEPT !.status = "REVERSED", !.reversedBy = r]
                           ELSE transfers[i]
      /\ o \in 1..n /\ x.reversedBy = NoId /\ x \in Transfer
  BY <1>0, ReversalAppended, LenProperties, TransferIds DEF FundsInv
<1>3. /\ PostTransfer(NextTransferId, payee, payer, x.amount)
      /\ payee \in Accounts /\ payer \in Accounts /\ x.amount \in Nat
  BY <1>0, ReversalPosts DEF FundsInv
<1>4. payer \in OwnedAccounts /\ payee \notin OwnedAccounts
  BY <1>0, <1>1, <1>2, ReverseGuards DEF Returns, FundsInv, OneWay
<1>5. \A i \in 1..n : /\ transfers'[i].from = transfers[i].from
                       /\ transfers'[i].to = transfers[i].to
                       /\ transfers'[i].amount = transfers[i].amount
  BY ReversalKeeps DEF FundsInv
<1>6. /\ \A i \in (1..n) \ {o} : transfers'[i].reversedBy = transfers[i].reversedBy
      /\ transfers'[o].reversedBy = r /\ r # NoId
  <2>1. transfers'[o] = [x EXCEPT !.status = "REVERSED", !.reversedBy = r]
    BY <1>2
  <2>2. r # NoId
    BY <1>1 DEF NoId
  <2> HIDE DEF r
  <2>3. transfers'[o].reversedBy = r
    BY <1>2, <2>1 DEF Transfer
  <2> QED
    BY <1>2, <2>2, <2>3
<1>7. transfers'[r].from = payee /\ transfers'[r].to = payer
  BY <1>0, <1>2 DEF ReversalOf
<1>8. /\ balance'[payee] = balance[payee] - x.amount /\ balance'[payer] = balance[payer] + x.amount
      /\ \A y \in Accounts \ {payee, payer} : balance'[y] = balance[y]
  BY <1>1, <1>3, <1>4 DEF PostTransfer
<1>9. /\ \A i \in 1..r : i = r \/ i \in 1..n
      /\ 1..n \subseteq 1..r /\ r \in 1..r /\ r \notin 1..n
  BY <1>1
<1>10. OneWay'
  BY <1>1, <1>2, <1>4, <1>5, <1>7, <1>9 DEF OneWay, FundsInv
<1>11. \A i \in 1..n : Amounts'[i] = Amounts[i] /\ Amounts'[i] \in Int
  BY <1>1, <1>2, <1>5, <1>9 DEF Amounts
<1> HIDE DEF o, n, r
<1>12. ASSUME NEW y \in Accounts, y # payee
       PROVE  Held(y)' = Held(y)
  <2>1. transfers[o].to = payee
    BY <1>0
  <2> QED
    <3>1. r \notin Held(y)'
      BY <1>4, <1>7 DEF Held
    <3>2. o \notin Held(y)' /\ o \notin Held(y)
      BY <1>2, <1>5, <1>12, <2>1 DEF Held
    <3>3. ASSUME NEW i \in (1..n) \ {o} PROVE i \in Held(y)' <=> i \in Held(y)
      BY <1>1, <1>2, <1>5, <1>6, <1>9 DEF Held
    <3>4. Held(y) \subseteq 1..n /\ Held(y)' \subseteq 1..r
      BY <1>1, <1>2 DEF Held
    <3> QED
      BY <1>9, <3>1, <3>2, <3>3, <3>4
<1>13. Held(payee)' = Held(payee) \ {o} /\ o \in Held(payee)
  <2>1. o \in Held(payee)
    BY <1>0, <1>1, <1>2, <1>4 DEF Held
  <2> QED
    BY <1>1, <1>2, <1>4, <1>5, <1>6, <1>7, <1>9, <2>1 DEF Held
<1>14. ASSUME NEW y \in Accounts, y # payee
       PROVE  IF y \in OwnedAccounts THEN balance'[y] >= 0
              ELSE balance'[y] >= Summed(Amounts', Held(y)')
  <2>1. Held(y)' = Held(y) /\ \A i \in Held(y) : i \in 1..n
    BY <1>1, <1>12, <1>14 DEF Held
  <2>2. balance[y] \in Int /\ (y = payer \/ y \in Accounts \ {payee, payer})
    BY <1>1, <1>14
  <2>3. balance'[y] >= balance[y] /\ balance'[y] \in Int
    BY <1>3, <1>8, <2>2
  <2> QED
    BY <1>11, <2>1, <2>3, FundedApart DEF FundsInv
<1>15. balance'[payee] >= Summed(Amounts', Held(payee)')
  <2>1. Held(payee) \in SUBSET DOMAIN transfers
    BY DEF Held
  <2>2. /\ IsFiniteSet(Held(payee)) /\ IsFiniteSet(Held(payee) \ {o})
        /\ Summed(Amounts, Held(payee) \ {o}) \in Int
        /\ \A i \in Held(payee) : Amounts'[i] = Amounts[i] /\ Amounts[i] \in Int
    BY <1>1, <1>11, <2>1, AmountsTyped DEF FundsInv
  <2>3. Summed(Amounts, Held(payee)) = Amounts[o] + Summed(Amounts, Held(payee) \ {o})
    BY <1>13, <2>2, SummedMember
  <2>4. Summed(Amounts', Held(payee) \ {o}) = Summed(Amounts, Held(payee) \ {o})
    BY <2>2, SummedSame
  <2>5. balance[payee] >= Summed(Amounts, Held(payee)) /\ balance[payee] \in Int
    BY <1>1, <1>3, <1>4 DEF FundsInv, Funded
  <2>6. Amounts[o] = x.amount
    BY <1>0, <1>1, <1>2
  <2> QED
    BY <1>3, <1>8, <1>13, <2>2, <2>3, <2>4, <2>5, <2>6
<1>16. Funded'
  <2> SUFFICES ASSUME NEW y \in Accounts
               PROVE  IF y \in OwnedAccounts THEN balance'[y] >= 0
                      ELSE balance'[y] >= Summed(Amounts', Held(y)')
    BY DEF Funded
  <2>1. CASE y = payee
    BY <1>4, <1>15, <2>1
  <2> QED
    BY <1>14, <2>1
<1> QED
  BY <1>10, <1>16

LEMMA FundsStep ==
  ASSUME PaymentsLeave
  PROVE  FundsInv /\ [Next]_vars => FundsInv'
<1> SUFFICES ASSUME FundsInv, [Next]_vars PROVE FundsInv'
  OBVIOUS
<1>1. TypeInv /\ TypeInv'
  BY TypeInvStep DEF FundsInv
<1>2. CASE UNCHANGED moneyVars
  BY <1>1, <1>2 DEF moneyVars, FundsInv, OneWay, Funded, Held, Amounts
<1>3. CASE UNCHANGED vars
  BY <1>2, <1>3 DEF vars, worldVars
<1>4. ASSUME NEW c \in Calls, Step(c)
      PROVE  FundsInv'
  <2>1. /\ Entered /\ TransfersBounded /\ StepsBounded /\ stepIndex \in Nat
        /\ \/ \E code, fault : Refuse(code, fault)
           \/ /\ c.args # Malformed /\ c.args \in ArgsOf(c.tool)
              /\ \E fault : Handle(c, fault)
    BY <1>1, <1>4, StepByCall
  <2>2. CASE \E code, fault : Refuse(code, fault)
    BY <1>2, <2>2 DEF Refuse, toolVars
  <2>3. CASE c.tool = "create_transfer" /\ c.args # Malformed /\ Pays(c.args)
    BY <1>1, <2>1, <2>3, FundsPaid DEF FundsInv
  <2>4. CASE Returns(c.args)
    BY <1>1, <2>1, <2>4, FundsReturned DEF FundsInv
  <2> QED
    BY <1>2, <2>1, <2>2, <2>3, <2>4, CallEffects
<1> QED
  BY <1>3, <1>4 DEF Next, AfterEpisode

LEMMA FundsInit ==
  ASSUME PaymentsLeave, HistorySettled, HistoryFunded, Init
  PROVE  FundsInv
<1>1. TypeInv /\ transfers = FixtureTransfers /\ balance = InitialBalance
  BY TypeInvInit DEF Init, FromFixture
<1>2. OneWay
  BY <1>1 DEF PaymentsLeave, OneWay
<1>3. InitialBalance \in [Accounts -> Nat]
  BY WorldAssumption
<1>4. ASSUME NEW a \in Accounts
      PROVE  HistoryHeld(a) = Held(a)
  BY <1>1 DEF HistoryHeld, Held
<1>5. Amounts = [i \in DOMAIN FixtureTransfers |-> FixtureTransfers[i].amount]
  BY <1>1 DEF Amounts
<1>6. Funded
  BY <1>1, <1>3, <1>4, <1>5 DEF HistoryFunded, Funded
<1> QED
  BY <1>1, <1>2, <1>6 DEF FundsInv

\* For every episode in which the customer pays only accounts that cannot pay, and those
\* hold at first what the history says they were paid: no account is ever overdrawn, by a
\* payment, which is checked for funds, or by a reversal, which is not (INV-03,
\* _create_transfer_body, _reverse_body).
THEOREM FundsLast ==
  PaymentsLeave /\ HistorySettled /\ HistoryFunded => (Spec => []NonNegativeBalances)
<1> SUFFICES ASSUME PaymentsLeave, HistorySettled, HistoryFunded
             PROVE  Spec => []NonNegativeBalances
  OBVIOUS
<1>1. FundsInv => NonNegativeBalances
  <2> SUFFICES ASSUME FundsInv, NEW a \in Accounts PROVE balance[a] >= 0
    BY DEF NonNegativeBalances
  <2>1. balance[a] \in Int
    BY DEF FundsInv, TypeInv, TypeOK, WorldTypeOK
  <2>2. Held(a) \in SUBSET DOMAIN transfers
    BY DEF Held
  <2>3. Summed(Amounts, Held(a)) \in Nat
    BY <2>2, SummedNat DEF FundsInv
  <2> QED
    BY <2>1, <2>3 DEF FundsInv, Funded
<1> QED
  BY <1>1, FundsInit, FundsStep, PTL DEF Spec

\* The strict check at the end of every step passes, so that no episode ends in an
\* exception: for every policy that enforces consent and every fixture of which the seven
\* invariants could be asked at all, whatever the agent does (PaymentsEnvironment.step,
\* check_invariants).
THEOREM StepsNeverRaise ==
  /\ NoSelfPayments /\ PaymentsLeave /\ KeysReserved /\ MustConsent
  /\ HistorySettled /\ HistoryUnspent /\ HistoryFunded
  => (Spec => []~raised)
<1> SUFFICES ASSUME NoSelfPayments, PaymentsLeave, KeysReserved, MustConsent,
                    HistorySettled, HistoryUnspent, HistoryFunded
             PROVE  Spec => []~raised
  OBVIOUS
<1>1. Spec => []CheckInvariants
  <2>1. Spec => []Conservation /\ []LedgerBalanced
    BY MoneyConserved, LedgerSettles
  <2>2. Spec => []NonNegativeBalances /\ []AuditComplete
    BY FundsLast, TrailComplete
  <2>3. Spec => []ConsentSingleUse /\ []IdempotencyUnique /\ []ReversalPaired
    BY ConsentsPayOnce, KeysPayOnce, ReversalsPair
  <2>4. Conservation /\ LedgerBalanced /\ NonNegativeBalances /\ AuditComplete
          /\ ConsentSingleUse /\ IdempotencyUnique /\ ReversalPaired => CheckInvariants
    BY DEF CheckInvariants
  <2> QED
    BY <2>1, <2>2, <2>3, <2>4, PTL
<1>2. Init => ~raised
  BY DEF Init
<1>3. CheckInvariants' /\ ~raised /\ [Next]_vars => ~raised'
  <2> SUFFICES ASSUME CheckInvariants', ~raised, [Next]_vars PROVE ~raised'
    OBVIOUS
  <2>1. CASE UNCHANGED vars
    BY <2>1 DEF vars, episodeVars
  <2>2. ASSUME NEW c \in Calls, Step(c) PROVE ~raised'
    <3>1. raised' = ~CheckInvariants'
      BY <2>2, Zenon DEF Step, EndStep
    <3> QED
      BY <3>1
  <2> QED
    BY <2>1, <2>2 DEF Next, AfterEpisode
<1> QED
  BY <1>1, <1>2, <1>3, PTL DEF Spec
================================================================================

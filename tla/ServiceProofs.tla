----------------------------- MODULE ServiceProofs -----------------------------
(***************************************************************************)
(* The environment implements PaymentService: every step of an episode is  *)
(* a step of the service, or changes nothing the service speaks of.        *)
(***************************************************************************)
EXTENDS MoneyProofs, ServiceRefinement

(***************************************************************************)
(* The inductive invariant: besides the keys being unique, a payment to a  *)
(* key of the directory went to the key's account, no transfer stays on    *)
(* its account, and there is at most one consent for each step.            *)
(***************************************************************************)
DirectoryFollowed ==
  \A i \in DOMAIN transfers :
    transfers[i].reversalOf = NoId /\ transfers[i].key \in PixKeys =>
      transfers[i].to = AccountOf[transfers[i].key]

ConsentsBounded == Len(consents) <= stepIndex

ServiceInv == UniqueInv /\ DirectoryFollowed /\ MoneyLeaves /\ ConsentsBounded

\* What the agent cannot change, the service's views do not show changing.
LEMMA ViewsStay ==
  ASSUME UNCHANGED <<transfers, consents>>
  PROVE  PaidView' = PaidView /\ UndoneView' = UndoneView /\ PermitView' = PermitView
<1>1. PaidView' = PaidView
  BY DEF PaidView, ServicePayments, Visible, AsPayment
<1>2. UndoneView' = UndoneView
  BY DEF UndoneView, ServicePayments, Visible, AsPayment
<1>3. PermitView' = PermitView
  BY DEF PermitView
<1> QED
  BY <1>1, <1>2, <1>3

\* Saying nothing, or something that is true, is a step of the service.
LEMMA Tells ==
  ASSUME UNCHANGED <<transfers, consents, balance>>,
         \/ SaidView' = Service!Silence
         \/ \E p \in PaidView : SaidView' = Service!IsPaid(p)
         \/ \E idem \in IdempotencyKeys :
              (\A p \in PaidView : p.idem # idem) /\ SaidView' = Service!NotPaid(idem)
  PROVE  Service!Next
<1>1. Service!Tell
  BY ViewsStay DEF Service!Tell, Service!TellPaid, Service!TellNotPaid
<1> QED
  BY <1>1 DEF Service!Next

\* The other tools leave the client with nothing about payments.
LEMMA OtherToolsSilent ==
  ASSUME call'.tool \notin {"create_transfer", "get_transfer_by_idempotency_key"}
  PROVE  SaidView' = Service!Silence
BY DEF SaidView, Service!Silence

LEMMA ErrorsSilent ==
  ASSUME NEW code, NEW reason, NEW fault, ErrBecause(code, reason, fault),
         code # "NOT_FOUND" \/ call'.tool # "get_transfer_by_idempotency_key"
  PROVE  SaidView' = Service!Silence
<1>1. obs'.kind = "tool_error" /\ obs'.code = code
  BY DEF ErrBecause, Reply, Observation
<1> QED
  BY <1>1 DEF SaidView, Service!Silence

LEMMA RefusalsTell ==
  ASSUME NEW code, NEW fault, Refuse(code, fault),
         code # "NOT_FOUND" \/ call'.tool # "get_transfer_by_idempotency_key"
  PROVE  Service!Next
<1>1. SaidView' = Service!Silence
  BY ErrorsSilent DEF Refuse, Err
<1>2. UNCHANGED <<transfers, consents, balance>>
  BY DEF Refuse, toolVars, moneyVars, approvalVars
<1> QED
  BY <1>1, <1>2, Tells

(***************************************************************************)
(* create_transfer: a payment is the service's Pay, a replay its Tell.     *)
(***************************************************************************)

\* What an executed payment or a replay answers, unless the timeout swallows it.
LEMMA CreateSays ==
  ASSUME NEW a, NEW result, NEW fault, OkUnlessLate(result, fault),
         call'.tool = "create_transfer", call'.args = a
  PROVE  SaidView' \in {Service!IsPaid(AskedPayment(a)), Service!Silence}
<1>1. obs'.kind \in {"tool_error", "tool_result"}
  BY DEF OkUnlessLate, Err, ErrBecause, Ok, OkAs, Reply, Observation
<1> QED
  BY <1>1 DEF SaidView, Service!Silence, Service!IsPaid, AskedPayment

\* A transfer whose fields are those of a call is the payment the call asks for.
LEMMA PaymentAsked ==
  ASSUME NEW a, NEW t, <<t.from, t.key, t.amount, t.idem>> = <<a.from, a.key, a.amount, a.idem>>,
         t.to = AccountOf[a.key]
  PROVE  AsPayment(t) = AskedPayment(a)
BY DEF AsPayment, AskedPayment

\* A payment moves money as the service says it does.
LEMMA PostMoves ==
  ASSUME balance \in [Accounts -> Int], NEW id, NEW from \in Accounts, NEW to \in Accounts,
         NEW amount \in Nat, from # to, PostTransfer(id, from, to, amount)
  PROVE  balance' = Service!Moved(from, to, amount)
<1>1. balance' = [balance EXCEPT ![from] = balance[from] - amount, ![to] = balance[to] + amount]
  BY DEF PostTransfer
<1>2. \A x \in Accounts : balance'[x] =
        balance[x] + (IF x = to THEN amount ELSE 0) - (IF x = from THEN amount ELSE 0)
  BY <1>1
<1>3. balance' = [x \in Accounts |-> balance'[x]] /\ DOMAIN balance = Accounts
  BY <1>1
<1> QED
  BY <1>2, <1>3 DEF Service!Moved

LEMMA PaymentSpendsPermit ==
  ASSUME TypeInv, NEW a, Pays(a)
  PROVE  Service!Spend(AskedPayment(a))
<1> DEFINE k == a.consent
           permit(i) == [id |-> i, from |-> consents[i].from, key |-> consents[i].key,
                         amount |-> consents[i].amount]
           granted == {j \in DOMAIN consents : consents[j].status = "GRANTED"}
<1>1. PermitView = {permit(i) : i \in granted}
  BY DEF PermitView
<1>2. CASE ConsentHolds(a)
  <2>1. /\ k \in granted
        /\ <<consents[k].from, consents[k].key, consents[k].amount>> = <<a.from, a.key, a.amount>>
    BY <1>2, ConsentHolding
  <2>2. /\ DOMAIN consents' = DOMAIN consents
        /\ \A c \in DOMAIN consents : c # k => consents'[c] = consents[c]
        /\ consents'[k].status = "USED"
    BY <1>2, PaymentSpends
  <2>3. Service!Covers(permit(k), AskedPayment(a))
    BY <2>1 DEF Service!Covers, AskedPayment
  <2>4. {j \in DOMAIN consents' : consents'[j].status = "GRANTED"} = granted \ {k}
    BY <2>1, <2>2
  <2>5. PermitView' = {permit(i) : i \in granted \ {k}}
    BY <2>2, <2>4 DEF PermitView
  <2>6. {permit(i) : i \in granted \ {k}} = PermitView \ {permit(k)}
    <3>1. \A i, j : permit(i) = permit(j) => i = j
      OBVIOUS
    <3> QED
      BY <1>1, <3>1
  <2>7. permit(k) \in PermitView
    BY <1>1, <2>1
  <2> QED
    BY <2>3, <2>5, <2>6, <2>7 DEF Service!Spend
<1>3. CASE ~ConsentHolds(a)
  <2>1. consents' = consents
    BY <1>3 DEF Pays, ExecuteTransfer
  <2>2. PermitView' = PermitView
    BY <2>1 DEF PermitView
  <2>3. ~(Policy.consentRequired /\ Policy.enforcement["CONSENT_REQUIRED"] = "HARD")
    BY <1>3, PaymentHasConsent DEF MustConsent, Enforced
  <2> QED
    BY <2>2, <2>3 DEF Service!Spend
<1> QED
  BY <1>2, <1>3

\* Every payment the service knows is a transfer with its key.
LEMMA PaidHasTransfer ==
  ASSUME NEW p \in PaidView
  PROVE  \E i \in ServicePayments : p = AsPayment(transfers[i]) /\ p.idem = transfers[i].idem
BY DEF PaidView, AsPayment

\* An executed payment enters what is paid, and only that.
LEMMA PaymentViewed ==
  ASSUME TypeInv, Entered, NEW a, Pays(a)
  PROVE  PaidView' = PaidView \cup {AskedPayment(a)} /\ UndoneView' = UndoneView
<1> DEFINE n == Len(transfers)
           r == Len(transfers) + 1
<1>1. n \in Nat /\ DOMAIN transfers = 1..n
  BY TransferIds
<1>2. /\ transfers' \in Seq(Transfer) /\ Len(transfers') = r
      /\ transfers'[r] = TransferOf(a)
      /\ \A i \in 1..n : transfers'[i] = transfers[i]
  BY PaymentAppended
<1>3. DOMAIN transfers' = 1..r
  BY <1>2, LenProperties
<1>4. a.from \in OwnedAccounts
  BY CreateGuards DEF Pays
<1>5. /\ transfers'[r].reversalOf = NoId /\ transfers'[r].reversedBy = NoId
      /\ transfers'[r].from = a.from
      /\ AsPayment(transfers'[r]) = AskedPayment(a)
  BY <1>2 DEF TransferOf, AsPayment, AskedPayment
<1>6. \A i \in 1..r : i = r \/ i \in 1..n
  BY <1>1
<1>7. ServicePayments' = ServicePayments \cup {r} /\ ServicePayments \subseteq 1..n
  BY <1>1, <1>2, <1>3, <1>4, <1>5, <1>6 DEF ServicePayments, Visible
<1>8. PaidView' = PaidView \cup {AskedPayment(a)}
  BY <1>2, <1>5, <1>7 DEF PaidView
<1>9. {j \in ServicePayments' : transfers'[j].reversedBy # NoId}
        = {j \in ServicePayments : transfers[j].reversedBy # NoId}
  BY <1>2, <1>5, <1>7
<1>10. UndoneView' = UndoneView
  BY <1>2, <1>7, <1>9 DEF UndoneView
<1> QED
  BY <1>8, <1>10

LEMMA PaymentServes ==
  ASSUME ServiceInv, Entered, NEW a, Pays(a), AccountOf[a.key] # a.from,
         SaidView' \in {Service!IsPaid(AskedPayment(a)), Service!Silence}
  PROVE  Service!Next
<1> DEFINE p == AskedPayment(a)
<1>1. TypeInv /\ UniqueInv
  BY DEF ServiceInv, UniqueInv, PairedInv
<1>2. /\ a.from \in OwnedAccounts /\ a.key \in PixKeys /\ Holder(a.idem) = NoId
      /\ a \in ArgsOf("create_transfer")
  BY CreateGuards DEF Pays
<1>3. /\ a.from \in Accounts /\ AccountOf[a.key] \in Accounts
      /\ a.amount \in Nat \ {0} /\ a.idem \in IdempotencyKeys
  BY <1>2, WorldAssumption, CallAssumption DEF ArgsOf
<1>4. p \in Service!Payment
  BY <1>2, <1>3, WorldAssumption DEF Service!Payment, AskedPayment
<1>5. \A q \in PaidView : q.idem # p.idem
  <2>1. \A i \in DOMAIN transfers : transfers[i].idem # a.idem
    BY <1>2, FreeKey DEF Entered
  <2> QED
    BY <2>1, PaidHasTransfer DEF ServicePayments, AskedPayment
<1>6. p.amount <= balance[p.from]
  <2>1. balance[a.from] >= a.amount
    <3>1. \A rule : HardError(rule, a) # "execute"
      BY DEF HardError
    <3> QED
      BY <3>1 DEF Pays, CreateVerdict, FundsSuffice
  <2>2. balance[a.from] \in Int
    BY <1>1, <1>3 DEF TypeInv, TypeOK, WorldTypeOK
  <2> QED
    BY <1>3, <2>1, <2>2 DEF AskedPayment
<1>7. Service!Spend(p)
  BY <1>1, PaymentSpendsPermit
<1>8. PaidView' = PaidView \cup {p} /\ UndoneView' = UndoneView
  BY <1>1, PaymentViewed
<1>9. balance' = Service!Moved(p.from, p.to, p.amount)
  <2>1. balance \in [Accounts -> Int]
    BY <1>1 DEF TypeInv, TypeOK, WorldTypeOK
  <2>2. PostTransfer(NextTransferId, a.from, AccountOf[a.key], a.amount)
    BY DEF Pays, ExecuteTransfer
  <2>3. balance' = Service!Moved(a.from, AccountOf[a.key], a.amount)
    BY <1>3, <2>1, <2>2, PostMoves
  <2>4. p.from = a.from /\ p.to = AccountOf[a.key] /\ p.amount = a.amount
    BY DEF AskedPayment
  <2> QED
    BY <2>3, <2>4
<1>10. p \in PaidView' \ PaidView
  BY <1>5, <1>8
<1>11. SaidView' \in {Service!IsPaid(p), Service!Silence}
  OBVIOUS
<1> HIDE DEF p
<1>12. Service!Pay(p)
  BY <1>4, <1>5, <1>6, <1>7, <1>8, <1>9, <1>11 DEF Service!Pay
<1> QED
  BY <1>10, <1>12 DEF Service!Next

LEMMA CreateServes ==
  ASSUME KeysReserved, ServiceInv, Entered,
         NEW a \in ArgsOf("create_transfer"), NEW fault, CreateTransfer(a, fault),
         call'.tool = "create_transfer", call'.args = a,
         a.key \in PixKeys => AccountOf[a.key] # a.from
  PROVE  Service!Next
<1>1. CASE CreateVerdict(a) = "execute" /\ ExecuteTransfer(a)
           /\ \E result : OkUnlessLate(result, fault)
  <2>1. Pays(a)
    BY <1>1 DEF Pays
  <2>2. a.key \in PixKeys
    BY <1>1, CreateGuards
  <2>3. SaidView' \in {Service!IsPaid(AskedPayment(a)), Service!Silence}
    BY <1>1, CreateSays
  <2> QED
    BY <2>1, <2>2, <2>3, PaymentServes
<1>2. CASE CreateVerdict(a) = "replay" /\ UNCHANGED toolVars
           /\ \E result : OkUnlessLate(result, fault)
  <2> DEFINE h == Holder(a.idem)
             x == transfers[h]
  <2>1. h # NoId /\ SameRequest(x, a) /\ a.from \in OwnedAccounts /\ a.key \in PixKeys
    <3>1. \A r : HardError(r, a) # "replay"
      BY DEF HardError
    <3> QED
      BY <1>2, <3>1 DEF CreateVerdict
  <2>2. h \in DOMAIN transfers /\ x.idem = a.idem
    BY <2>1, HeldKey DEF Entered
  <2>3. x.reversalOf = NoId
    <3>1. a.idem \notin Range(RevKey)
      BY DEF ArgsOf, KeysReserved
    <3> QED
      BY <2>2, <3>1 DEF ServiceInv, UniqueInv, KeysTell, Range
  <2>4. /\ <<x.from, x.key, x.amount, x.idem>> = <<a.from, a.key, a.amount, a.idem>>
        /\ x.to = AccountOf[a.key]
    BY <2>1, <2>2, <2>3 DEF SameRequest, ServiceInv, DirectoryFollowed
  <2>5. h \in ServicePayments
    BY <2>1, <2>2, <2>3, <2>4 DEF ServicePayments, Visible
  <2>6. AskedPayment(a) \in PaidView
    BY <2>4, <2>5, PaymentAsked DEF PaidView
  <2>7. UNCHANGED <<transfers, consents, balance>>
    BY <1>2 DEF toolVars, moneyVars, approvalVars
  <2>8. SaidView' \in {Service!IsPaid(AskedPayment(a)), Service!Silence}
    BY <1>2, CreateSays
  <2> QED
    BY <2>6, <2>7, <2>8, Tells
<1>3. ASSUME NEW code, NEW reason, ErrBecause(code, reason, fault), UNCHANGED toolVars
      PROVE  Service!Next
  <2>1. UNCHANGED <<transfers, consents, balance>>
    BY <1>3 DEF toolVars, moneyVars, approvalVars
  <2>2. SaidView' = Service!Silence
    BY <1>3, ErrorsSilent
  <2> QED
    BY <2>1, <2>2, Tells
<1> QED
  BY <1>1, <1>2, <1>3 DEF CreateTransfer, Refuse, Err

(***************************************************************************)
(* reverse_transfer: the service's Undo.                                   *)
(***************************************************************************)
LEMMA ReversalViewed ==
  ASSUME ServiceInv, Entered, TransfersBounded, StepsBounded, stepIndex \in Nat,
         NEW a, Returns(a)
  PROVE  LET p == AsPayment(transfers[a.transfer]) IN
         /\ p \in PaidView \ UndoneView
         /\ PaidView' = PaidView /\ UndoneView' = UndoneView \cup {p}
<1> DEFINE n == Len(transfers)
           r == Len(transfers) + 1
           o == a.transfer
           p == AsPayment(transfers[o])
           undone == {j \in ServicePayments : transfers[j].reversedBy # NoId}
<1>1. TypeInv /\ IdempotencyUnique
  BY DEF ServiceInv, UniqueInv, PairedInv
<1>2. n \in Nat /\ DOMAIN transfers = 1..n
      /\ \A i \in 1..n : transfers[i] \in Transfer
  BY <1>1, TransferIds
<1>3. /\ transfers' \in Seq(Transfer) /\ Len(transfers') = r
      /\ transfers'[r] = ReversalOf(o, a.reason)
      /\ o \in 1..n /\ transfers[o].reversalOf = NoId /\ transfers[o].reversedBy = NoId
  BY ReversalAppended
<1>4. DOMAIN transfers' = 1..r
  BY <1>3, LenProperties
<1>5. transfers[o].from \in OwnedAccounts
  BY ReverseGuards DEF Returns
<1>6. o \in ServicePayments /\ ServicePayments \subseteq 1..n
  BY <1>2, <1>3, <1>5 DEF ServicePayments, Visible
<1>7. transfers'[r].reversalOf # NoId
  <2>1. ReversalOf(o, a.reason).reversalOf = o
    BY DEF ReversalOf
  <2> QED
    BY <1>2, <1>3, <2>1 DEF NoId
<1>8. \A i \in 1..n :
        /\ AsPayment(transfers'[i]) = AsPayment(transfers[i])
        /\ transfers'[i].from = transfers[i].from /\ transfers'[i].to = transfers[i].to
        /\ transfers'[i].reversalOf = transfers[i].reversalOf
  BY <1>1, ReversalKeeps DEF AsPayment
<1>9. \A i \in 1..n : transfers'[i].reversedBy # NoId <=> transfers[i].reversedBy # NoId \/ i = o
  <2>1. \A i \in 1..n : transfers'[i] =
          IF i = o THEN [transfers[i] EXCEPT !.status = "REVERSED", !.reversedBy = r]
          ELSE transfers[i]
    BY ReversalAppended
  <2>2. r # NoId
    BY <1>2 DEF NoId
  <2> HIDE DEF r
  <2> QED
    BY <1>2, <2>1, <2>2 DEF Transfer
<1>10. \A i \in 1..r : i = r \/ i \in 1..n
  BY <1>2
<1> HIDE DEF o
<1>11. ServicePayments' = ServicePayments
  BY <1>2, <1>4, <1>7, <1>8, <1>10 DEF ServicePayments, Visible
<1>12. PaidView' = PaidView
  BY <1>6, <1>8, <1>11 DEF PaidView
<1>13. {j \in ServicePayments' : transfers'[j].reversedBy # NoId} = undone \cup {o}
  BY <1>6, <1>9, <1>11
<1>14. UndoneView' = UndoneView \cup {p}
  BY <1>6, <1>8, <1>13 DEF UndoneView
<1>15. p \notin UndoneView
  <2>1. SUFFICES ASSUME NEW j \in undone, AsPayment(transfers[j]) = p PROVE FALSE
    BY DEF UndoneView
  <2>2. transfers[j].idem = transfers[o].idem
    BY <2>1 DEF AsPayment
  <2>3. j = o
    BY <1>1, <1>2, <1>3, <1>6, <2>1, <2>2 DEF IdempotencyUnique
  <2> QED
    BY <1>3, <2>1, <2>3
<1> QED
  BY <1>6, <1>12, <1>14, <1>15 DEF PaidView, o

LEMMA ReversalServes ==
  ASSUME ServiceInv, Entered, TransfersBounded, StepsBounded, stepIndex \in Nat,
         NEW a, Returns(a), SaidView' = Service!Silence
  PROVE  Service!Next
<1> DEFINE x == transfers[a.transfer]
           p == AsPayment(x)
<1>1. /\ p \in PaidView \ UndoneView
      /\ PaidView' = PaidView /\ UndoneView' = UndoneView \cup {p}
  BY ReversalViewed
<1>2. /\ a.transfer \in DOMAIN transfers /\ x.from \in OwnedAccounts
  BY ReverseGuards DEF Returns
<1>3. TypeInv /\ x \in Transfer /\ x.from # x.to
  BY <1>2, TransferIds DEF ServiceInv, UniqueInv, PairedInv, MoneyLeaves
<1>4. x.from \in Accounts /\ x.to \in Accounts /\ x.amount \in Nat
  BY <1>3 DEF Transfer
<1>5. /\ PostTransfer(NextTransferId, x.to, x.from, x.amount)
      /\ UNCHANGED consents
  BY DEF Returns, ExecuteReversal, approvalVars
<1>6. balance \in [Accounts -> Int]
  BY <1>3 DEF TypeInv, TypeOK, WorldTypeOK
<1>7. balance' = Service!Moved(x.to, x.from, x.amount)
  BY <1>3, <1>4, <1>5, <1>6, PostMoves
<1>8. p.from = x.from /\ p.to = x.to /\ p.amount = x.amount
  BY DEF AsPayment
<1>9. PermitView' = PermitView
  BY <1>5 DEF PermitView
<1> HIDE DEF p
<1>10. balance' = Service!Moved(p.to, p.from, p.amount) /\ p.from \in OwnedAccounts
  BY <1>2, <1>7, <1>8
<1>11. Service!Undo(p)
  BY <1>1, <1>9, <1>10 DEF Service!Undo
<1>12. p \in UndoneView' \ UndoneView
  BY <1>1
<1> QED
  BY <1>11, <1>12 DEF Service!Next

LEMMA ReverseServes ==
  ASSUME ServiceInv, Entered, TransfersBounded, StepsBounded, stepIndex \in Nat,
         NEW a \in ArgsOf("reverse_transfer"), NEW fault, ReverseTransfer(a, fault),
         call'.tool = "reverse_transfer"
  PROVE  Service!Next
<1>1. SaidView' = Service!Silence
  BY OtherToolsSilent
<1>2. CASE ReverseVerdict(a.transfer) = "execute" /\ ExecuteReversal(a.transfer, a.reason)
  BY <1>1, <1>2, ReversalServes DEF Returns
<1>3. CASE UNCHANGED toolVars
  BY <1>1, <1>3, Tells DEF toolVars, moneyVars, approvalVars
<1> QED
  BY <1>2, <1>3 DEF ReverseTransfer, Refuse

(***************************************************************************)
(* request_consent: the service's Grant, when the user grants it.          *)
(***************************************************************************)
LEMMA GrantServes ==
  ASSUME TypeInv, ConsentsBounded, stepIndex \in Nat, stepIndex < MaxSteps,
         NEW a, NEW status, Asks(a, status), UNCHANGED balance, SaidView' = Service!Silence
  PROVE  Service!Next
<1> DEFINE n == Len(consents)
           asked == [from |-> a.from, key |-> a.key, amount |-> a.amount, status |-> status,
                     created |-> now', expires |-> now' + Policy.consentTtl, usedBy |-> NoId]
           permit == [id |-> n + 1, from |-> a.from, key |-> a.key, amount |-> a.amount]
           granted == {j \in DOMAIN consents : consents[j].status = "GRANTED"}
<1>1. n \in Nat /\ DOMAIN consents = 1..n /\ consents \in Seq(Consent)
  BY ConsentIds DEF TypeInv, TypeOK, WorldTypeOK
<1>2. /\ UNCHANGED transfers /\ consents' = Append(consents, asked)
      /\ a \in ArgsOf("request_consent") /\ a.from \in OwnedAccounts /\ a.key \in PixKeys
  BY DEF Asks
<1>3. /\ DOMAIN consents' = 1..(n + 1)
      /\ \A c \in 1..n : consents'[c] = consents[c]
      /\ consents'[n + 1] = asked
  BY <1>1, <1>2
<1>4. /\ asked.from = a.from /\ asked.key = a.key /\ asked.amount = a.amount
      /\ asked.status = status
  OBVIOUS
<1> HIDE DEF asked
<1>5. PaidView' = PaidView /\ UndoneView' = UndoneView
  <2>1. PaidView' = PaidView
    BY <1>2 DEF PaidView, ServicePayments, Visible, AsPayment
  <2>2. UndoneView' = UndoneView
    BY <1>2 DEF UndoneView, ServicePayments, Visible, AsPayment
  <2> QED
    BY <2>1, <2>2
<1>6. \A c \in 1..(n + 1) : c = n + 1 \/ c \in 1..n
  BY <1>1
<1>7. CASE status # "GRANTED"
  <2>1. {j \in DOMAIN consents' : consents'[j].status = "GRANTED"} = granted
    BY <1>1, <1>3, <1>4, <1>6, <1>7
  <2>2. PermitView' = PermitView
    BY <1>1, <1>3, <2>1 DEF PermitView
  <2> QED
    BY <1>5, <2>2 DEF Service!Next, Service!Tell
<1>8. CASE status = "GRANTED"
  <2>1. {j \in DOMAIN consents' : consents'[j].status = "GRANTED"} = granted \cup {n + 1}
    BY <1>1, <1>3, <1>4, <1>6, <1>8
  <2>2. PermitView' = PermitView \cup {permit}
    BY <1>1, <1>3, <1>4, <2>1 DEF PermitView
  <2>3. \A other \in PermitView : other.id \in 1..n
    BY <1>1 DEF PermitView
  <2>4. permit.id = n + 1 /\ \A other \in PermitView : other.id # permit.id
    BY <1>1, <2>3
  <2>5. permit \in Service!Permit
    <3>1. n + 1 \in 1..MaxSteps
      BY <1>1, EnvironmentAssumption DEF ConsentsBounded
    <3>2. a.amount \in Nat \ {0}
      BY <1>2 DEF ArgsOf, Payment
    <3> QED
      BY <1>2, <3>1, <3>2, WorldAssumption DEF Service!Permit
  <2> HIDE DEF permit
  <2>6. permit \in PermitView' \ PermitView
    BY <2>2, <2>4
  <2>7. Service!Grant
    BY <1>5, <2>2, <2>4, <2>5, <2>6 DEF Service!Grant
  <2> QED
    BY <2>7 DEF Service!Next
<1> QED
  BY <1>7, <1>8

LEMMA RequestServes ==
  ASSUME TypeInv, ConsentsBounded, stepIndex \in Nat, stepIndex < MaxSteps,
         NEW a \in ArgsOf("request_consent"), NEW fault, RequestConsent(a, fault),
         call'.tool = "request_consent"
  PROVE  Service!Next
<1>1. SaidView' = Service!Silence
  BY OtherToolsSilent
<1>2. CASE Refuse("NOT_FOUND", fault)
  BY <1>2, RefusalsTell
<1>3. CASE ~Refuse("NOT_FOUND", fault)
  <2> DEFINE status == ConsentStatusAfter(ConsentAnswer(a.key, a.amount))
  <2>1. status \in {"PENDING", "GRANTED", "DENIED"}
    BY DEF ConsentStatusAfter
  <2>2. Asks(a, status) /\ UNCHANGED balance
    BY <1>3, <2>1 DEF RequestConsent, Asks, moneyVars
  <2> HIDE DEF status
  <2> QED
    BY <1>1, <2>2, GrantServes
<1> QED
  BY <1>2, <1>3

(***************************************************************************)
(* get_transfer_by_idempotency_key: no transfer the customer cannot see    *)
(* hides one it can, because no two share a key.                           *)
(***************************************************************************)
LEMMA LookupServes ==
  ASSUME ServiceInv, Entered, NEW a \in ArgsOf("get_transfer_by_idempotency_key"), NEW fault,
         GetTransferByIdempotencyKey(a, fault),
         call'.tool = "get_transfer_by_idempotency_key", call'.args = a
  PROVE  Service!Next
<1> DEFINE h == Holder(a.idem)
<1>1. UNCHANGED <<transfers, consents, balance>>
  BY DEF GetTransferByIdempotencyKey, Read, Refuse, toolVars, moneyVars, approvalVars
<1>2. CASE h # NoId /\ Visible(h)
  <2>1. Read([id |-> h, transfer |-> transfers[h]], fault)
    BY <1>2 DEF GetTransferByIdempotencyKey
  <2>2. obs'.kind = "tool_result" /\ obs'.result.transfer = transfers[h]
    BY <2>1 DEF Read, Ok, OkAs, Reply, Observation
  <2>3. CASE transfers[h].reversalOf # NoId
    <3>1. SaidView' = Service!Silence
      BY <2>2, <2>3 DEF SaidView, Service!Silence
    <3> QED
      BY <1>1, <3>1, Tells
  <2>4. CASE transfers[h].reversalOf = NoId
    <3>1. SaidView' = Service!IsPaid(AsPayment(transfers[h]))
      BY <2>2, <2>4 DEF SaidView, Service!IsPaid, AsPayment
    <3>2. h \in DOMAIN transfers
      BY <1>2, HeldKey DEF Entered
    <3>3. AsPayment(transfers[h]) \in PaidView
      BY <1>2, <2>4, <3>2 DEF PaidView, ServicePayments
    <3> QED
      BY <1>1, <3>1, <3>3, Tells
  <2> QED
    BY <2>3, <2>4
<1>3. CASE ~(h # NoId /\ Visible(h))
  <2>1. Refuse("NOT_FOUND", fault)
    BY <1>3 DEF GetTransferByIdempotencyKey
  <2>2. obs'.kind = "tool_error" /\ obs'.code = "NOT_FOUND"
    BY <2>1 DEF Refuse, Err, ErrBecause, Reply, Observation
  <2>3. SaidView' = Service!NotPaid(a.idem)
    BY <2>2 DEF SaidView, Service!NotPaid
  <2>4. ASSUME NEW p \in PaidView, p.idem = a.idem
        PROVE  FALSE
    <3>1. PICK i \in ServicePayments : transfers[i].idem = a.idem
      BY <2>4, PaidHasTransfer
    <3>2. i \in DOMAIN transfers /\ Visible(i)
      BY DEF ServicePayments
    <3>3. h # NoId
      BY <3>1, <3>2, FreeKey DEF Entered
    <3>4. h \in DOMAIN transfers /\ transfers[h].idem = a.idem
      BY <3>3, HeldKey DEF Entered
    <3>5. h = i
      BY <3>1, <3>2, <3>4 DEF ServiceInv, UniqueInv, IdempotencyUnique
    <3> QED
      BY <1>3, <3>2, <3>3, <3>5
  <2>5. a.idem \in IdempotencyKeys
    BY DEF ArgsOf
  <2> QED
    BY <1>1, <2>3, <2>4, <2>5, Tells
<1> QED
  BY <1>2, <1>3

(***************************************************************************)
(* The invariant is inductive.                                             *)
(***************************************************************************)
LEMMA AppendKeepsDirectory ==
  ASSUME NEW n \in Nat, NEW ts, NEW us,
         \A i \in 1..n : /\ ts[i].reversalOf = NoId /\ ts[i].key \in PixKeys =>
                              ts[i].to = AccountOf[ts[i].key]
                         /\ ts[i].from # ts[i].to,
         \A i \in 1..n : /\ us[i].from = ts[i].from /\ us[i].to = ts[i].to
                         /\ us[i].key = ts[i].key /\ us[i].reversalOf = ts[i].reversalOf,
         us[n + 1].reversalOf # NoId \/ us[n + 1].to = AccountOf[us[n + 1].key],
         us[n + 1].from # us[n + 1].to
  PROVE  \A i \in 1..(n + 1) :
           /\ us[i].reversalOf = NoId /\ us[i].key \in PixKeys => us[i].to = AccountOf[us[i].key]
           /\ us[i].from # us[i].to
<1>1. \A i \in 1..(n + 1) : i = n + 1 \/ i \in 1..n
  OBVIOUS
<1> QED
  BY <1>1

LEMMA ServiceInvStep ==
  ASSUME KeysReserved, NoSelfPayments
  PROVE  ServiceInv /\ [Next]_vars => ServiceInv'
<1> SUFFICES ASSUME ServiceInv, [Next]_vars PROVE ServiceInv'
  OBVIOUS
<1> DEFINE n == Len(transfers)
<1>1. UniqueInv' /\ TypeInv /\ TypeInv'
  BY UniqueStep, TypeInvStep DEF ServiceInv, UniqueInv, PairedInv
<1>2. /\ n \in Nat /\ DOMAIN transfers = 1..n
      /\ DOMAIN transfers' = 1..Len(transfers')
      /\ Len(consents) \in Nat /\ stepIndex \in Nat
  <2>1. transfers' \in Seq(Transfer) /\ stepIndex \in Nat
    BY <1>1 DEF TypeInv, TypeOK, WorldTypeOK, EpisodeTypeOK
  <2> QED
    BY <1>1, <2>1, TransferIds, ConsentIds, LenProperties
<1>3. \A i \in 1..n : /\ transfers[i].reversalOf = NoId /\ transfers[i].key \in PixKeys =>
                           transfers[i].to = AccountOf[transfers[i].key]
                      /\ transfers[i].from # transfers[i].to
  BY <1>2 DEF ServiceInv, DirectoryFollowed, MoneyLeaves
<1>4. ASSUME UNCHANGED <<transfers, consents>>, stepIndex' >= stepIndex, stepIndex' \in Nat
      PROVE  ServiceInv'
  BY <1>1, <1>2, <1>4 DEF ServiceInv, DirectoryFollowed, MoneyLeaves, ConsentsBounded
<1>5. CASE UNCHANGED vars
  BY <1>2, <1>4, <1>5 DEF vars, worldVars, moneyVars, approvalVars, replyVars
<1>6. ASSUME NEW c \in Calls, Step(c)
      PROVE  ServiceInv'
  <2>1. /\ Entered /\ TransfersBounded /\ StepsBounded
        /\ stepIndex' = stepIndex + 1
        /\ \/ \E code, fault : Refuse(code, fault)
           \/ /\ c.args # Malformed /\ c.args \in ArgsOf(c.tool)
              /\ \E fault : Handle(c, fault)
    BY <1>1, <1>6, StepByCall
  <2>2. CASE UNCHANGED <<transfers, consents>>
    BY <1>2, <1>4, <2>1, <2>2
  <2>3. CASE c.tool = "create_transfer" /\ c.args # Malformed /\ Pays(c.args)
    <3> DEFINE a == c.args
    <3>1. /\ Len(transfers') = n + 1
          /\ transfers'[n + 1] = TransferOf(a)
          /\ \A i \in 1..n : transfers'[i] = transfers[i]
      BY <2>1, <2>3, PaymentAppended
    <3>2. a.key \in PixKeys
      BY <2>3, CreateGuards DEF Pays
    <3>3. TransferOf(a).from = a.from /\ TransferOf(a).to = AccountOf[a.key]
          /\ TransferOf(a).key = a.key
      BY DEF TransferOf
    <3>4. AccountOf[a.key] # a.from
      BY <2>3, <3>2 DEF NoSelfPayments
    <3>5. \A i \in 1..(n + 1) :
            /\ transfers'[i].reversalOf = NoId /\ transfers'[i].key \in PixKeys =>
                 transfers'[i].to = AccountOf[transfers'[i].key]
            /\ transfers'[i].from # transfers'[i].to
      BY <1>2, <1>3, <3>1, <3>3, <3>4, AppendKeepsDirectory
    <3>6. Len(consents') = Len(consents)
      <4>1. DOMAIN consents' = DOMAIN consents
        BY <1>1, <2>3, PaymentSpends
      <4>2. consents \in Seq(Consent) /\ consents' \in Seq(Consent)
        BY <1>1 DEF TypeInv, TypeOK, WorldTypeOK
      <4> QED
        BY <4>1, <4>2, LenProperties
    <3> QED
      BY <1>1, <1>2, <2>1, <3>1, <3>5, <3>6
      DEF ServiceInv, DirectoryFollowed, MoneyLeaves, ConsentsBounded
  <2>4. CASE Returns(c.args)
    <3> DEFINE a == c.args
    <3>1. /\ Len(transfers') = n + 1
          /\ transfers'[n + 1] = ReversalOf(a.transfer, a.reason)
          /\ a.transfer \in 1..n
      BY <1>2, <2>1, <2>4, ReversalAppended
    <3>2. /\ ReversalOf(a.transfer, a.reason).reversalOf = a.transfer
          /\ ReversalOf(a.transfer, a.reason).from = transfers[a.transfer].to
          /\ ReversalOf(a.transfer, a.reason).to = transfers[a.transfer].from
      BY DEF ReversalOf
    <3>3. \A i \in 1..n :
            /\ transfers'[i].from = transfers[i].from /\ transfers'[i].to = transfers[i].to
            /\ transfers'[i].key = transfers[i].key
            /\ transfers'[i].reversalOf = transfers[i].reversalOf
      BY <1>1, <1>2, <2>1, <2>4, ReversalKeeps
    <3>4. transfers'[n + 1].reversalOf # NoId /\ transfers'[n + 1].from # transfers'[n + 1].to
      BY <1>2, <1>3, <3>1, <3>2 DEF NoId
    <3>5. \A i \in 1..(n + 1) :
            /\ transfers'[i].reversalOf = NoId /\ transfers'[i].key \in PixKeys =>
                 transfers'[i].to = AccountOf[transfers'[i].key]
            /\ transfers'[i].from # transfers'[i].to
      BY <1>2, <1>3, <3>3, <3>4, AppendKeepsDirectory
    <3>6. UNCHANGED consents
      BY <2>4 DEF Returns, ExecuteReversal, approvalVars
    <3> QED
      BY <1>1, <1>2, <2>1, <3>1, <3>5, <3>6
      DEF ServiceInv, DirectoryFollowed, MoneyLeaves, ConsentsBounded
  <2>5. CASE \E status : Asks(c.args, status)
    <3>1. UNCHANGED transfers /\ \E new : consents' = Append(consents, new)
      BY <2>5 DEF Asks
    <3>2. Len(consents') = Len(consents) + 1
      <4>1. consents \in Seq(Consent)
        BY <1>1 DEF TypeInv, TypeOK, WorldTypeOK
      <4> QED
        BY <3>1, <4>1
    <3> QED
      BY <1>1, <1>2, <2>1, <3>1, <3>2
      DEF ServiceInv, DirectoryFollowed, MoneyLeaves, ConsentsBounded
  <2>6. CASE \E code, fault : Refuse(code, fault)
    <3>1. UNCHANGED <<transfers, consents>>
      BY <2>6 DEF Refuse, toolVars, moneyVars, approvalVars
    <3> QED
      BY <2>2, <3>1
  <2>7. CASE UNCHANGED <<moneyVars, consents>>
    BY <2>2, <2>7 DEF moneyVars
  <2> QED
    BY <2>1, <2>3, <2>4, <2>5, <2>6, <2>7, CallEffects
<1> QED
  BY <1>5, <1>6 DEF Next, AfterEpisode

(***************************************************************************)
(* The simulation.                                                         *)
(***************************************************************************)
LEMMA StepServes ==
  ASSUME KeysReserved, NoSelfPayments, ServiceInv, NEW c \in Calls, Step(c)
  PROVE  Service!Next
<1>1. TypeInv /\ ConsentsBounded
  BY DEF ServiceInv, UniqueInv, PairedInv
<1>2. /\ Entered /\ now' > now
      /\ TransfersBounded /\ StepsBounded
      /\ stepIndex \in Nat /\ stepIndex < MaxSteps
      /\ call' = c
      /\ \/ \E code, fault : code # "NOT_FOUND" /\ Refuse(code, fault)
         \/ /\ c.args # Malformed /\ c.args \in ArgsOf(c.tool)
            /\ \E fault : Handle(c, fault)
  BY <1>1, StepByCall
<1>3. CASE \E code, fault : code # "NOT_FOUND" /\ Refuse(code, fault)
  BY <1>3, RefusalsTell
<1>4. ASSUME c.args # Malformed, c.args \in ArgsOf(c.tool), NEW fault, Handle(c, fault)
      PROVE  Service!Next
  <2>1. CASE c.tool = "create_transfer" /\ CreateTransfer(c.args, fault)
    <3>1. c.args.key \in PixKeys => AccountOf[c.args.key] # c.args.from
      BY <1>4, <2>1 DEF NoSelfPayments
    <3> QED
      BY <1>2, <1>4, <2>1, <3>1, CreateServes
  <2>2. CASE c.tool = "reverse_transfer" /\ ReverseTransfer(c.args, fault)
    BY <1>2, <1>4, <2>2, ReverseServes
  <2>3. CASE c.tool = "request_consent" /\ RequestConsent(c.args, fault)
    BY <1>1, <1>2, <1>4, <2>3, RequestServes
  <2>4. CASE c.tool = "get_transfer_by_idempotency_key"
             /\ GetTransferByIdempotencyKey(c.args, fault)
    BY <1>2, <1>4, <2>4, LookupServes
  <2>5. CASE /\ c.tool \notin {"create_transfer", "get_transfer_by_idempotency_key"}
             /\ UNCHANGED <<transfers, consents, balance>>
    BY <1>2, <2>5, OtherToolsSilent, Tells
  <2>6. CASE /\ c.tool \notin {"create_transfer", "get_transfer_by_idempotency_key"}
             /\ UNCHANGED <<moneyVars, consents>>
    BY <2>5, <2>6 DEF moneyVars
  <2> QED
    BY <1>4, <2>1, <2>2, <2>3, <2>4, <2>6, HandleByTool
<1> QED
  BY <1>2, <1>3, <1>4

LEMMA StutterServes ==
  ASSUME UNCHANGED vars
  PROVE  UNCHANGED Service!serviceVars
<1>1. UNCHANGED <<transfers, consents, balance, call, obs>>
  BY DEF vars, worldVars, moneyVars, approvalVars, replyVars
<1>2. SaidView' = SaidView
  BY <1>1 DEF SaidView, AskedPayment, AsPayment
<1> QED
  BY <1>1, <1>2, ViewsStay DEF Service!serviceVars

LEMMA InitServes ==
  ASSUME HistorySettled, Init
  PROVE  Service!Init
<1>1. /\ transfers = FixtureTransfers /\ consents = << >> /\ balance = InitialBalance
      /\ call = NoCall /\ obs.kind = "reset" /\ obs.code = None
  BY DEF Init, FromFixture, Observation
<1>2. PaidView = KnownPayments
  BY <1>1 DEF HistorySettled, PaidView, ServicePayments, Visible, KnownPayments, Range
<1>3. UndoneView = {}
  BY <1>1 DEF HistorySettled, UndoneView, ServicePayments
<1>4. PermitView = {}
  BY <1>1 DEF PermitView
<1>5. SaidView = Service!Silence
  BY <1>1 DEF SaidView, NoCall, Service!Silence
<1> QED
  BY <1>1, <1>2, <1>3, <1>4, <1>5 DEF Service!Init

\* For every episode whose history is settled, whose reversals' keys are nobody else's and
\* in which no account pays itself: the environment implements the payment service --
\* each step makes or undoes one payment as the ideal service would, grants or spends one
\* consent, or says something true (create_transfer, reverse_transfer, request_consent,
\* get_transfer_by_idempotency_key, under every fault plan).
THEOREM ServiceIsImplemented ==
  HistorySettled /\ KeysReserved /\ NoSelfPayments => (Spec => ServiceImplemented)
<1> SUFFICES ASSUME HistorySettled, KeysReserved, NoSelfPayments
             PROVE  Spec => ServiceImplemented
  OBVIOUS
<1>1. Init => Service!Init
  BY InitServes
<1>2. Init => ServiceInv
  <2> SUFFICES ASSUME Init PROVE ServiceInv
    OBVIOUS
  <2>1. transfers = FixtureTransfers /\ consents = << >> /\ stepIndex = 0
    BY DEF Init, FromFixture
  <2>2. UniqueInv
    BY TypeInvInit DEF Init, FromFixture, HistorySettled, KeysReserved, UniqueInv, PairedInv,
       ReversalPaired, KeysTell, IdempotencyUnique
  <2>3. DirectoryFollowed
    BY <2>1, FixtureAssumption DEF FixtureAccepted, DirectoryFollowed, Range
  <2>4. MoneyLeaves /\ ConsentsBounded
    BY <2>1 DEF NoSelfPayments, MoneyLeaves, ConsentsBounded
  <2> QED
    BY <2>2, <2>3, <2>4 DEF ServiceInv
<1>3. ServiceInv /\ [Next]_vars => ServiceInv'
  BY ServiceInvStep
<1>4. ServiceInv /\ [Next]_vars => [Service!Next]_Service!serviceVars
  BY StepServes, StutterServes DEF Next, AfterEpisode
<1> QED
  BY <1>1, <1>2, <1>3, <1>4, PTL DEF Spec, ServiceImplemented, Service!Spec
==============================================================================

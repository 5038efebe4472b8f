-------------------------- MODULE EnvironmentProofs --------------------------
(***************************************************************************)
(* Theorems about every episode: any fixture, policy, user, fault plan,    *)
(* set of calls and step limit that the named assumptions admit.  First    *)
(* the types; then the transfers of an episode: reversals are paired, and  *)
(* no idempotency key is ever held by two of them.                         *)
(***************************************************************************)
EXTENDS Guarantees, SequenceTheorems, FiniteSetTheorems, WellFoundedInduction, TLAPS

(***************************************************************************)
(* Type correctness.  A reversal takes its key from RevKey, which is       *)
(* defined for the transfers an episode can reach, so the invariant also   *)
(* counts them: at most one per step, and no step after the last.          *)
(***************************************************************************)
TransfersBounded == Len(transfers) <= Len(FixtureTransfers) + stepIndex

StepsBounded == stepIndex <= MaxSteps

TypeInv == TypeOK /\ TransfersBounded /\ EpisodeBounded

\* What a tool handler leaves: the types of the variables it may change.
ToolsTypeOK ==
  /\ balance \in [Accounts -> Int]
  /\ transfers \in Seq(Transfer)
  /\ ledger \in Seq(LedgerEntry)
  /\ consents \in Seq(Consent)
  /\ challenges \in Seq(Challenge)
  /\ auth \in AuthState
  /\ beneficiaries \in Seq(Beneficiary)
  /\ audit \subseteq AuditEvent
  /\ creation \subseteq Creation
  /\ cursor \in Cursor

\* What it answers.
ReplyTypeOK ==
  /\ events \in Seq(ReplyEvent)
  /\ obs.kind = "final" => obs.result.outcome \in Outcomes

\* A handler adds at most one transfer.
OneMore == Len(transfers') <= Len(transfers) + 1

\* The state a handler starts from, the clock and the step already moved.
Entered ==
  /\ ToolsTypeOK
  /\ now' \in Nat
  /\ stepIndex' \in Nat

\* Consuming an answer moves the script's cursor within its type.
LEMMA CursorTypes ==
  ASSUME NEW k \in Cursor
  PROVE  /\ [k EXCEPT !.consent = @ + 1] \in Cursor
         /\ [k EXCEPT !.stepUp = @ + 1] \in Cursor
         /\ [k EXCEPT !.clarification = @ + 1] \in Cursor
BY DEF Cursor

\* A handler that changes nothing keeps the types.
LEMMA UnchangedTools ==
  ASSUME ToolsTypeOK, UNCHANGED toolVars
  PROVE  ToolsTypeOK' /\ OneMore
<1>1. Len(transfers) \in Nat
  BY LenProperties DEF ToolsTypeOK
<1> QED
  BY <1>1 DEF ToolsTypeOK, OneMore, toolVars, moneyVars, approvalVars, recordVars

\* Every reply that is not an answer to finish has well-typed events.
LEMMA ReplyTypes ==
  ASSUME NEW o, NEW e \in ReplyEvent, NEW fault, Reply(o, e, fault),
         o.kind = "final" => o.result.outcome \in Outcomes
  PROVE  ReplyTypeOK'
<1>1. Injected(fault) \in Seq(ReplyEvent)
  <2>1. "FAULT_INJECTED" \in ReplyEvent
    BY DEF ReplyEvent
  <2> QED
    BY <2>1 DEF Injected
<1>2. << "TOOL_CALLED" >> \in Seq(ReplyEvent) /\ << e >> \in Seq(ReplyEvent)
  BY DEF ReplyEvent
<1>3. events' \in Seq(ReplyEvent)
  BY <1>1, <1>2, ConcatProperties DEF Reply
<1> QED
  BY <1>3 DEF Reply, ReplyTypeOK

\* A refusal answers with an error and changes nothing.
LEMMA RefuseTypes ==
  ASSUME ToolsTypeOK, NEW code, NEW fault, Refuse(code, fault)
  PROVE  ToolsTypeOK' /\ ReplyTypeOK' /\ OneMore
<1>1. ReplyTypeOK'
  BY ReplyTypes DEF Refuse, Err, ErrBecause, Observation, ReplyEvent
<1> QED
  BY <1>1, UnchangedTools DEF Refuse

\* So does a read, with its result.
LEMMA ReadTypes ==
  ASSUME ToolsTypeOK, NEW result, NEW time, NEW fault, ReadAt(result, time, fault)
  PROVE  ToolsTypeOK' /\ ReplyTypeOK' /\ OneMore
<1>1. ReplyTypeOK'
  BY ReplyTypes DEF ReadAt, OkAs, Observation, ReplyEvent
<1> QED
  BY <1>1, UnchangedTools DEF ReadAt

(***************************************************************************)
(* The handlers, one lemma each.                                           *)
(***************************************************************************)

\* The records of what a step creates.
LEMMA CreatedTypes ==
  ASSUME NEW step \in Nat, NEW kind \in EventKind, NEW ids \in SUBSET EntityId
  PROVE  /\ CreatedAt(step, kind, ids) \subseteq Creation
         /\ \A payload \in Evidence \cup Violation \cup {None} :
              Event(step, kind, ids, payload) \in AuditEvent
BY DEF CreatedAt, Creation, Event, AuditEvent

LEMMA NewIds ==
  ASSUME ToolsTypeOK
  PROVE  /\ \A n \in Nat, k \in {"tx", "led", "cons", "chal", "ben"} : <<k, n>> \in EntityId
         /\ NewLedgerIds \in SUBSET EntityId
         /\ NextTransferId \in Nat \ {0}
         /\ Len(consents) \in Nat /\ Len(challenges) \in Nat /\ Len(beneficiaries) \in Nat
         /\ Len(transfers) \in Nat
<1>1. /\ Len(transfers) \in Nat /\ Len(ledger) \in Nat /\ Len(consents) \in Nat
      /\ Len(challenges) \in Nat /\ Len(beneficiaries) \in Nat
  BY LenProperties DEF ToolsTypeOK
<1>2. \A n \in Nat, k \in {"tx", "led", "cons", "chal", "ben"} : <<k, n>> \in EntityId
  BY DEF EntityId
<1>3. NewLedgerIds \in SUBSET EntityId
  <2>1. <<"led", Len(ledger) + 1>> \in EntityId /\ <<"led", Len(ledger) + 2>> \in EntityId
    BY <1>1 DEF EntityId
  <2> QED
    BY <2>1 DEF NewLedgerIds
<1> QED
  BY <1>1, <1>2, <1>3 DEF NextTransferId

\* Posting writes two well-formed entries and keeps the balances whole numbers.
LEMMA PostTypes ==
  ASSUME ToolsTypeOK, now' \in Nat, NEW id \in Nat, NEW from \in Accounts, NEW to \in Accounts,
         NEW amount \in Nat, PostTransfer(id, from, to, amount)
  PROVE  ledger' \in Seq(LedgerEntry) /\ balance' \in [Accounts -> Int]
<1>1. Entries(id, from, to, amount) \in Seq(LedgerEntry)
  <2>1. /\ [transfer |-> id, account |-> from, delta |-> -amount, posted |-> now'] \in LedgerEntry
        /\ [transfer |-> id, account |-> to, delta |-> amount, posted |-> now'] \in LedgerEntry
    BY DEF LedgerEntry
  <2> QED
    BY <2>1 DEF Entries
<1>2. ledger' \in Seq(LedgerEntry)
  BY <1>1, ConcatProperties DEF PostTransfer, ToolsTypeOK
<1>3. balance' \in [Accounts -> Int]
  BY DEF PostTransfer, ToolsTypeOK
<1> QED
  BY <1>2, <1>3

LEMMA FinishTypes ==
  ASSUME ToolsTypeOK, NEW a \in ArgsOf("finish"), NEW fault, Finish(a, fault)
  PROVE  ToolsTypeOK' /\ ReplyTypeOK' /\ OneMore
<1>1. a.outcome \in Outcomes
  BY DEF ArgsOf
<1>2. ReplyTypeOK'
  BY <1>1, ReplyTypes DEF Finish, OkAs, Observation, ReplyEvent
<1> QED
  BY <1>2, UnchangedTools DEF Finish

LEMMA AskUserTypes ==
  ASSUME ToolsTypeOK, NEW fault, AskUser(fault)
  PROVE  ToolsTypeOK' /\ ReplyTypeOK' /\ OneMore
<1>1. ReplyTypeOK'
  BY ReplyTypes DEF AskUser, Ok, OkAs, Observation, ReplyEvent
<1>2. ToolsTypeOK'
  <2>1. cursor' \in Cursor
    BY CursorTypes DEF AskUser, ConsumeClarification, ToolsTypeOK
  <2>2. UNCHANGED <<moneyVars, approvalVars, beneficiaries, recordVars>>
    BY DEF AskUser
  <2> QED
    BY <2>1, <2>2 DEF ToolsTypeOK, moneyVars, approvalVars, recordVars
<1>3. OneMore
  BY NewIds DEF AskUser, OneMore, moneyVars
<1> QED
  BY <1>1, <1>2, <1>3

LEMMA AddBeneficiaryTypes ==
  ASSUME Entered, NEW a \in ArgsOf("add_beneficiary"), NEW fault, AddBeneficiary(a, fault)
  PROVE  ToolsTypeOK' /\ ReplyTypeOK' /\ OneMore
<1> USE DEF Entered
<1> DEFINE saved == \E b \in Range(beneficiaries) : b.key = a.key
           id == Len(beneficiaries) + 1
<1>1. CASE a.key \notin PixKeys \/ saved
  BY <1>1, RefuseTypes DEF AddBeneficiary
<1>2. CASE a.key \in PixKeys /\ ~saved
  <2>1. /\ beneficiaries' = Append(beneficiaries, [key |-> a.key, created |-> now', trusted |-> FALSE])
        /\ creation' = creation \cup CreatedAt(stepIndex', "BENEFICIARY_ADDED", {<<"ben", id>>})
        /\ audit' = audit \cup {Event(stepIndex', "BENEFICIARY_ADDED", {<<"ben", id>>}, None)}
        /\ Ok([beneficiary |-> id], fault)
        /\ UNCHANGED <<moneyVars, approvalVars, cursor>>
    BY <1>2 DEF AddBeneficiary
  <2>2. beneficiaries' \in Seq(Beneficiary)
    <3>1. [key |-> a.key, created |-> now', trusted |-> FALSE] \in Beneficiary
      BY <1>2 DEF Beneficiary
    <3> QED
      BY <2>1, <3>1, AppendProperties DEF ToolsTypeOK
  <2>3. {<<"ben", id>>} \in SUBSET EntityId
    <3>1. id \in Nat
      BY NewIds
    <3> QED
      BY <3>1 DEF EntityId
  <2>4. creation' \subseteq Creation /\ audit' \subseteq AuditEvent
    BY <2>1, <2>3, CreatedTypes DEF ToolsTypeOK, EventKind
  <2>5. ReplyTypeOK'
    BY <2>1, ReplyTypes DEF Ok, OkAs, Observation, ReplyEvent
  <2>6. OneMore
    BY <2>1, NewIds DEF OneMore, moneyVars
  <2> QED
    BY <2>1, <2>2, <2>4, <2>5, <2>6 DEF ToolsTypeOK, moneyVars, approvalVars
<1> QED
  BY <1>1, <1>2

LEMMA RequestConsentTypes ==
  ASSUME Entered, NEW a \in ArgsOf("request_consent"), NEW fault, RequestConsent(a, fault)
  PROVE  ToolsTypeOK' /\ ReplyTypeOK' /\ OneMore
<1> USE DEF Entered
<1>1. CASE a.from \notin OwnedAccounts \/ a.key \notin PixKeys
  BY <1>1, RefuseTypes DEF RequestConsent
<1>2. CASE a.from \in OwnedAccounts /\ a.key \in PixKeys
  <2> DEFINE id == Len(consents) + 1
             status == ConsentStatusAfter(ConsentAnswer(a.key, a.amount))
             new == [from |-> a.from, key |-> a.key, amount |-> a.amount, status |-> status,
                     created |-> now', expires |-> now' + Policy.consentTtl, usedBy |-> NoId]
             answer == CASE status = "GRANTED" -> AnswerEvent("CONSENT_GRANTED", <<"cons", id>>)
                         [] status = "DENIED" -> AnswerEvent("CONSENT_DENIED", <<"cons", id>>)
                         [] OTHER -> {}
  <2>1. /\ consents' = Append(consents, new)
        /\ creation' = creation \cup CreatedAt(stepIndex', "CONSENT_REQUESTED", {<<"cons", id>>})
        /\ audit' = audit \cup {Event(stepIndex', "CONSENT_REQUESTED", {<<"cons", id>>}, None)}
                          \cup answer
        /\ Ok([consent |-> id, status |-> status], fault)
        /\ ConsumeConsentAnswer(a.key, a.amount)
        /\ UNCHANGED <<moneyVars, challenges, auth, beneficiaries>>
    BY <1>2 DEF RequestConsent
  <2>2. consents' \in Seq(Consent)
    <3>1. status \in {"PENDING", "GRANTED", "DENIED", "USED"}
      BY DEF ConsentStatusAfter
    <3>2. a.amount \in Nat \ {0}
      BY DEF ArgsOf, Payment
    <3>3. Policy.consentTtl \in Nat
      BY PolicyAssumption
    <3>4. new \in Consent
      BY <1>2, <3>1, <3>2, <3>3, WorldAssumption DEF Consent, NoId
    <3> QED
      BY <2>1, <3>4, AppendProperties DEF ToolsTypeOK
  <2>3. {<<"cons", id>>} \in SUBSET EntityId
    <3>1. id \in Nat
      BY NewIds
    <3> QED
      BY <3>1 DEF EntityId
  <2>4. creation' \subseteq Creation
    BY <2>1, <2>3, CreatedTypes DEF ToolsTypeOK, EventKind
  <2>5. answer \subseteq AuditEvent
    BY <2>3, CreatedTypes DEF AnswerEvent, EventKind
  <2>6. audit' \subseteq AuditEvent
    <3>1. Event(stepIndex', "CONSENT_REQUESTED", {<<"cons", id>>}, None) \in AuditEvent
      BY <2>3, CreatedTypes DEF EventKind
    <3> QED
      BY <2>1, <2>5, <3>1 DEF ToolsTypeOK
  <2>7. cursor' \in Cursor
    BY <2>1, CursorTypes DEF ConsumeConsentAnswer, ToolsTypeOK
  <2>8. ReplyTypeOK'
    BY <2>1, ReplyTypes DEF Ok, OkAs, Observation, ReplyEvent
  <2>9. OneMore
    BY <2>1, NewIds DEF OneMore, moneyVars
  <2> QED
    BY <2>1, <2>2, <2>4, <2>6, <2>7, <2>8, <2>9 DEF ToolsTypeOK, moneyVars
<1> QED
  BY <1>1, <1>2

LEMMA RequestStepUpTypes ==
  ASSUME Entered, NEW fault, RequestStepUpAuth(fault)
  PROVE  ToolsTypeOK' /\ ReplyTypeOK' /\ OneMore
<1> USE DEF Entered
<1> DEFINE id == Len(challenges) + 1
           status == ChallengeStatusAfter(StepUpAnswer)
           answer == CASE status = "APPROVED" -> AnswerEvent("STEP_UP_APPROVED", <<"chal", id>>)
                       [] status = "DENIED" -> AnswerEvent("STEP_UP_DENIED", <<"chal", id>>)
                       [] OTHER -> {}
           result == [challenge |-> id, status |-> status,
                      authLevel |-> IF status = "APPROVED" THEN "STEP_UP"
                                    ELSE EffectiveAuthLevel(now')]
<1>1. /\ challenges' = Append(challenges, [status |-> status, created |-> now'])
      /\ auth' = IF status = "APPROVED"
                 THEN [level |-> "STEP_UP", until |-> now' + Policy.stepUpTtl] ELSE auth
      /\ creation' = creation \cup CreatedAt(stepIndex', "STEP_UP_REQUESTED", {<<"chal", id>>})
      /\ audit' = audit \cup {Event(stepIndex', "STEP_UP_REQUESTED", {<<"chal", id>>}, None)}
                        \cup answer
      /\ Ok(result, fault)
      /\ ConsumeStepUpAnswer
      /\ UNCHANGED <<moneyVars, consents, beneficiaries>>
  BY DEF RequestStepUpAuth
<1>2. challenges' \in Seq(Challenge)
  <2>1. [status |-> status, created |-> now'] \in Challenge
    BY DEF ChallengeStatusAfter, Challenge
  <2> QED
    BY <1>1, <2>1, AppendProperties DEF ToolsTypeOK
<1>3. auth' \in AuthState
  <2>1. Policy.stepUpTtl \in Nat
    BY PolicyAssumption
  <2> QED
    BY <1>1, <2>1 DEF AuthState, ToolsTypeOK
<1>4. {<<"chal", id>>} \in SUBSET EntityId
  <2>1. id \in Nat
    BY NewIds
  <2> QED
    BY <2>1 DEF EntityId
<1>5. creation' \subseteq Creation
  BY <1>1, <1>4, CreatedTypes DEF ToolsTypeOK, EventKind
<1>6. audit' \subseteq AuditEvent
  <2>1. answer \subseteq AuditEvent
    BY <1>4, CreatedTypes DEF AnswerEvent, EventKind
  <2>2. Event(stepIndex', "STEP_UP_REQUESTED", {<<"chal", id>>}, None) \in AuditEvent
    BY <1>4, CreatedTypes DEF EventKind
  <2> QED
    BY <1>1, <2>1, <2>2 DEF ToolsTypeOK
<1>7. cursor' \in Cursor
  BY <1>1, CursorTypes DEF ConsumeStepUpAnswer, ToolsTypeOK
<1>8. ReplyTypeOK'
  BY <1>1, ReplyTypes DEF Ok, OkAs, Observation, ReplyEvent
<1>9. OneMore
  BY <1>1, NewIds DEF OneMore, moneyVars
<1> QED
  BY <1>1, <1>2, <1>3, <1>5, <1>6, <1>7, <1>8, <1>9 DEF ToolsTypeOK, moneyVars

\* What create_transfer has established by the time it executes.
LEMMA CreateGuards ==
  ASSUME NEW a \in ArgsOf("create_transfer"), CreateVerdict(a) = "execute"
  PROVE  /\ a.from \in OwnedAccounts /\ a.key \in PixKeys
         /\ Holder(a.idem) = NoId
         /\ InMode(RequestFindings(a), "HARD") = {}
<1>1. \A r : HardError(r, a) # "execute"
  BY DEF HardError
<1> QED
  BY <1>1 DEF CreateVerdict

LEMMA ExecuteTransferTypes ==
  ASSUME Entered, NEW a \in ArgsOf("create_transfer"),
         CreateVerdict(a) = "execute", ExecuteTransfer(a)
  PROVE  ToolsTypeOK' /\ OneMore
<1> USE DEF Entered
<1> DEFINE id == NextTransferId
           posted == {<<"tx", id>>} \cup NewLedgerIds
           rules == InMode(RequestFindings(a), "SOFT") \cup InMode(RequestFindings(a), "SILENT")
           used == IF ConsentHolds(a)
                   THEN {Event(stepIndex', "CONSENT_USED",
                               {<<"cons", a.consent>>, <<"tx", id>>}, None)}
                   ELSE {}
<1>1. /\ transfers' = Append(transfers, TransferOf(a))
      /\ PostTransfer(id, a.from, AccountOf[a.key], a.amount)
      /\ consents' = IF ConsentHolds(a)
                     THEN [consents EXCEPT ![a.consent].status = "USED",
                                           ![a.consent].usedBy = id]
                     ELSE consents
      /\ creation' = creation
           \cup CreatedAt(stepIndex', "TRANSFER_CREATED", {<<"tx", id>>})
           \cup CreatedAt(stepIndex', "TRANSFER_COMPLETED", NewLedgerIds)
      /\ audit' = audit
           \cup {Event(stepIndex', "TRANSFER_CREATED", {<<"tx", id>>}, None)}
           \cup used
           \cup {Event(stepIndex', "TRANSFER_COMPLETED", posted, ExecutionEvidence(a))}
           \cup ViolationEvents(rules)
      /\ UNCHANGED <<challenges, auth, beneficiaries, cursor>>
  BY DEF ExecuteTransfer
<1>2. /\ a.from \in Accounts /\ a.key \in PixKeys /\ AccountOf[a.key] \in Accounts
      /\ a.amount \in Nat \ {0} /\ a.idem \in IdempotencyKeys /\ a.consent \in Nat
      /\ a.memo \in STRING
  <2>1. /\ a.amount \in Nat \ {0} /\ a.idem \in AgentKeys /\ a.consent \in Nat /\ a.memo \in STRING
    BY DEF ArgsOf
  <2> QED
    BY <2>1, CreateGuards, WorldAssumption, CallAssumption
<1>3. transfers' \in Seq(Transfer) /\ OneMore
  <2>1. TransferOf(a) \in Transfer
    BY <1>2 DEF TransferOf, Transfer, NoId
  <2> QED
    BY <1>1, <2>1, NewIds, AppendProperties DEF ToolsTypeOK, OneMore
<1>4. id \in Nat \ {0} /\ {<<"tx", id>>} \in SUBSET EntityId /\ posted \in SUBSET EntityId
  <2>1. id \in Nat \ {0} /\ NewLedgerIds \in SUBSET EntityId
    BY NewIds
  <2> QED
    BY <2>1 DEF EntityId
<1>5. ledger' \in Seq(LedgerEntry) /\ balance' \in [Accounts -> Int]
  BY <1>1, <1>2, <1>4, PostTypes
<1>6. ASSUME ConsentHolds(a) PROVE a.consent \in DOMAIN consents
  BY <1>6 DEF ConsentHolds, ConsentValidity
<1>7. consents' \in Seq(Consent)
  <2>1. CASE ~ConsentHolds(a)
    BY <1>1, <2>1 DEF ToolsTypeOK
  <2>2. CASE ConsentHolds(a)
    <3>1. a.consent \in 1..Len(consents) /\ consents[a.consent] \in Consent
      BY <1>6, <2>2, LenProperties, ElementOfSeq DEF ToolsTypeOK
    <3>2. [consents[a.consent] EXCEPT !.status = "USED", !.usedBy = id] \in Consent
      BY <1>4, <3>1 DEF Consent
    <3>3. consents' = [consents EXCEPT ![a.consent] =
                         [consents[a.consent] EXCEPT !.status = "USED", !.usedBy = id]]
      BY <1>1, <2>2
    <3> QED
      BY <3>1, <3>2, <3>3, ExceptSeq DEF ToolsTypeOK
  <2> QED
    BY <2>1, <2>2
<1>8. creation' \subseteq Creation
  <2>1. NewLedgerIds \in SUBSET EntityId
    BY NewIds
  <2> QED
    BY <1>1, <1>4, <2>1, CreatedTypes DEF ToolsTypeOK, EventKind
<1>9. audit' \subseteq AuditEvent
  <2>1. used \subseteq AuditEvent
    <3>1. {<<"cons", a.consent>>, <<"tx", id>>} \in SUBSET EntityId
      BY <1>2, <1>4 DEF EntityId
    <3> QED
      BY <3>1, CreatedTypes DEF EventKind
  <2>2. ExecutionEvidence(a) \in Evidence
    <3>1. ASSUME a.consent \in DOMAIN consents
          PROVE  consents[a.consent].status \in {"PENDING", "GRANTED", "DENIED", "USED"}
      <4>1. consents[a.consent] \in Consent
        BY <3>1, LenProperties, ElementOfSeq DEF ToolsTypeOK
      <4> QED
        BY <4>1 DEF Consent
    <3>2. ConsentHolds(a) \in BOOLEAN
      BY DEF ConsentHolds
    <3>3. EffectiveAuthLevel(now') \in {"BASIC", "STEP_UP"}
      BY DEF EffectiveAuthLevel
    <3> QED
      BY <3>1, <3>2, <3>3 DEF ExecutionEvidence, Evidence
  <2>3. ViolationEvents(rules) \subseteq AuditEvent
    <3>1. ASSUME NEW r \in rules
          PROVE  [rule |-> r, mode |-> Policy.enforcement[r]] \in Violation
      <4>1. r \in Rules /\ Policy.enforcement[r] \in {"SOFT", "SILENT"}
        BY <3>1 DEF InMode, RequestFindings, Findings
      <4>2. DOMAIN Policy.enforcement = Rules
        BY PolicyAssumption
      <4> QED
        BY <4>1, <4>2 DEF Violation
    <3>2. {} \in SUBSET EntityId /\ "POLICY_VIOLATION_EXECUTED" \in EventKind
      BY DEF EventKind
    <3> QED
      BY <3>1, <3>2, CreatedTypes DEF ViolationEvents
  <2>4. /\ Event(stepIndex', "TRANSFER_CREATED", {<<"tx", id>>}, None) \in AuditEvent
        /\ Event(stepIndex', "TRANSFER_COMPLETED", posted, ExecutionEvidence(a)) \in AuditEvent
    BY <1>4, <2>2, CreatedTypes DEF EventKind
  <2> QED
    BY <1>1, <2>1, <2>3, <2>4 DEF ToolsTypeOK
<1> QED
  BY <1>1, <1>3, <1>5, <1>7, <1>8, <1>9 DEF ToolsTypeOK

\* A timeout after execution changes the reply and nothing else.
LEMMA LateReplyTypes ==
  ASSUME NEW result, NEW fault, OkUnlessLate(result, fault)
  PROVE  ReplyTypeOK'
BY ReplyTypes DEF OkUnlessLate, Ok, OkAs, Err, ErrBecause, Observation, ReplyEvent

LEMMA CreateTransferTypes ==
  ASSUME Entered, NEW a \in ArgsOf("create_transfer"), NEW fault, CreateTransfer(a, fault)
  PROVE  ToolsTypeOK' /\ ReplyTypeOK' /\ OneMore
<1> USE DEF Entered
<1>1. CASE /\ CreateVerdict(a) = "execute"
           /\ ExecuteTransfer(a)
           /\ \E result : OkUnlessLate(result, fault)
  BY <1>1, ExecuteTransferTypes, LateReplyTypes
<1>2. CASE UNCHANGED toolVars /\ \E result : OkUnlessLate(result, fault)
  BY <1>2, UnchangedTools, LateReplyTypes
<1>3. CASE UNCHANGED toolVars /\ \E code, reason : ErrBecause(code, reason, fault)
  <2>1. ReplyTypeOK'
    BY <1>3, ReplyTypes DEF ErrBecause, Observation, ReplyEvent
  <2> QED
    BY <1>3, <2>1, UnchangedTools
<1>4. CASE \E code : Refuse(code, fault)
  BY <1>4, RefuseTypes
<1> QED
  BY <1>1, <1>2, <1>3, <1>4 DEF CreateTransfer

\* What reverse_transfer has established by the time it executes.
LEMMA ReverseGuards ==
  ASSUME NEW id, ReverseVerdict(id) = "execute"
  PROVE  /\ id \in DOMAIN transfers
         /\ transfers[id].reversalOf = NoId
         /\ transfers[id].reversedBy = NoId
         /\ transfers[id].status # "REVERSED"
         /\ transfers[id].from \in OwnedAccounts
BY DEF ReverseVerdict, AlreadyReversed

\* An episode never runs out of reversal keys.
LEMMA ReversalKeyExists ==
  ASSUME ToolsTypeOK, TransfersBounded, StepsBounded, stepIndex \in Nat,
         NEW id \in DOMAIN transfers
  PROVE  id \in DOMAIN RevKey /\ RevKey[id] \in IdempotencyKeys
<1>1. Len(transfers) \in Nat /\ DOMAIN transfers = 1..Len(transfers)
  BY LenProperties DEF ToolsTypeOK
<1>2. Len(FixtureTransfers) \in Nat /\ MaxSteps \in Nat
  BY LenProperties, WorldAssumption, EnvironmentAssumption
<1>3. id \in 1..(Len(FixtureTransfers) + MaxSteps)
  BY <1>1, <1>2 DEF TransfersBounded, StepsBounded
<1> QED
  BY <1>3, EnvironmentAssumption

\* Marking a transfer reversed and appending its reversal.
LEMMA MarkAndAppend ==
  ASSUME ToolsTypeOK, NEW o \in DOMAIN transfers, NEW r \in Nat, NEW t \in Transfer,
         transfers' = Append([transfers EXCEPT ![o].status = "REVERSED",
                                               ![o].reversedBy = r], t)
  PROVE  /\ transfers' \in Seq(Transfer)
         /\ Len(transfers') = Len(transfers) + 1
         /\ transfers'[Len(transfers) + 1] = t
         /\ \A i \in 1..Len(transfers) : transfers'[i] =
              IF i = o THEN [transfers[o] EXCEPT !.status = "REVERSED", !.reversedBy = r]
              ELSE transfers[i]
<1> DEFINE marked == [transfers[o] EXCEPT !.status = "REVERSED", !.reversedBy = r]
           kept == [transfers EXCEPT ![o] = marked]
<1>1. Len(transfers) \in Nat /\ DOMAIN transfers = 1..Len(transfers)
  BY LenProperties DEF ToolsTypeOK
<1>2. marked \in Transfer
  <2>1. transfers[o] \in Transfer
    BY <1>1, ElementOfSeq DEF ToolsTypeOK
  <2> QED
    BY <2>1 DEF Transfer
<1>3. /\ kept \in Seq(Transfer) /\ Len(kept) = Len(transfers)
      /\ \A i \in 1..Len(transfers) : kept[i] = IF i = o THEN marked ELSE transfers[i]
  BY <1>1, <1>2, ExceptSeq DEF ToolsTypeOK
<1>4. transfers' = Append(kept, t)
  OBVIOUS
<1> HIDE DEF kept, marked
<1>5. ASSUME NEW s \in Seq(Transfer)
      PROVE  /\ Append(s, t) \in Seq(Transfer)
             /\ Len(Append(s, t)) = Len(s) + 1
             /\ \A i \in 1..Len(s) : Append(s, t)[i] = s[i]
             /\ Append(s, t)[Len(s) + 1] = t
  BY AppendProperties
<1>6. /\ transfers' \in Seq(Transfer)
      /\ Len(transfers') = Len(transfers) + 1
      /\ transfers'[Len(transfers) + 1] = t
      /\ \A i \in 1..Len(transfers) : transfers'[i] = IF i = o THEN marked ELSE transfers[i]
  <2>1. /\ Append(kept, t) \in Seq(Transfer)
        /\ Len(Append(kept, t)) = Len(kept) + 1
        /\ \A i \in 1..Len(kept) : Append(kept, t)[i] = kept[i]
        /\ Append(kept, t)[Len(kept) + 1] = t
    BY <1>3, <1>5
  <2> QED
    BY <2>1, <1>1, <1>3, <1>4
<1> QED
  BY <1>6 DEF marked

LEMMA ReversalTyped ==
  ASSUME Entered, TransfersBounded, StepsBounded, stepIndex \in Nat,
         NEW a \in ArgsOf("reverse_transfer"), ReverseVerdict(a.transfer) = "execute"
  PROVE  ReversalOf(a.transfer, a.reason) \in Transfer
<1> USE DEF Entered
<1> DEFINE x == transfers[a.transfer]
<1>1. a.transfer \in DOMAIN transfers
  BY ReverseGuards
<1>2. x \in Transfer
  BY <1>1, LenProperties, ElementOfSeq DEF ToolsTypeOK
<1>3. a.transfer \in Nat /\ a.reason \in STRING
  BY DEF ArgsOf
<1>4. RevKey[a.transfer] \in IdempotencyKeys
  BY <1>1, ReversalKeyExists
<1>5. /\ x.from \in Accounts /\ x.to \in Accounts /\ x.amount \in Nat \ {0}
  BY <1>2 DEF Transfer
<1> HIDE DEF x
<1>6. ReturnKey(x.from) \in PixKeys \cup Accounts \cup {None}
  BY <1>5 DEF ReturnKey
<1>7. [from |-> x.to, key |-> ReturnKey(x.from), to |-> x.from, amount |-> x.amount,
       status |-> "COMPLETED", idem |-> RevKey[a.transfer], consent |-> NoId,
       memo |-> a.reason, created |-> now', completed |-> now', reversalOf |-> a.transfer,
       reversedBy |-> NoId] \in Transfer
  BY <1>3, <1>4, <1>5, <1>6 DEF Transfer, NoId
<1> QED
  BY <1>7 DEF ReversalOf, x

LEMMA ReverseTransferTypes ==
  ASSUME Entered, TransfersBounded, StepsBounded, stepIndex \in Nat,
         NEW a \in ArgsOf("reverse_transfer"), NEW fault, ReverseTransfer(a, fault)
  PROVE  ToolsTypeOK' /\ ReplyTypeOK' /\ OneMore
<1> USE DEF Entered
<1> DEFINE id == NextTransferId
           made == {<<"tx", id>>} \cup NewLedgerIds
           x == transfers[a.transfer]
<1>1. CASE /\ ReverseVerdict(a.transfer) = "execute"
           /\ ExecuteReversal(a.transfer, a.reason)
           /\ \E result : OkUnlessLate(result, fault)
  <2>1. /\ transfers' = Append([transfers EXCEPT ![a.transfer].status = "REVERSED",
                                                 ![a.transfer].reversedBy = id],
                               ReversalOf(a.transfer, a.reason))
        /\ PostTransfer(id, x.to, x.from, x.amount)
        /\ creation' = creation \cup CreatedAt(stepIndex', "TRANSFER_REVERSED", made)
        /\ audit' = audit \cup {Event(stepIndex', "TRANSFER_REVERSED",
                                      {<<"tx", a.transfer>>} \cup made, None)}
        /\ UNCHANGED <<approvalVars, beneficiaries, cursor>>
    BY <1>1 DEF ExecuteReversal
  <2>2. a.transfer \in DOMAIN transfers /\ a.transfer \in Nat
    BY <1>1, ReverseGuards DEF ArgsOf
  <2>3. id \in Nat \ {0} /\ Len(transfers) \in Nat
    BY NewIds
  <2>4. transfers' \in Seq(Transfer) /\ OneMore
    <3>1. ReversalOf(a.transfer, a.reason) \in Transfer
      BY <1>1, ReversalTyped
    <3>2. transfers' \in Seq(Transfer) /\ Len(transfers') = Len(transfers) + 1
      BY <2>1, <2>2, <2>3, <3>1, MarkAndAppend
    <3> QED
      BY <2>3, <3>2 DEF OneMore
  <2>5. ledger' \in Seq(LedgerEntry) /\ balance' \in [Accounts -> Int]
    <3>1. x \in Transfer
      BY <2>2, LenProperties, ElementOfSeq DEF ToolsTypeOK
    <3>2. x.from \in Accounts /\ x.to \in Accounts /\ x.amount \in Nat
      BY <3>1 DEF Transfer
    <3> QED
      BY <2>1, <2>3, <3>2, PostTypes
  <2>6. made \in SUBSET EntityId /\ {<<"tx", a.transfer>>} \cup made \in SUBSET EntityId
    <3>1. NewLedgerIds \in SUBSET EntityId
      BY NewIds
    <3>2. <<"tx", id>> \in EntityId /\ <<"tx", a.transfer>> \in EntityId
      BY <2>2, <2>3 DEF EntityId
    <3> QED
      BY <3>1, <3>2
  <2>7. creation' \subseteq Creation
    BY <2>1, <2>6, CreatedTypes DEF ToolsTypeOK, EventKind
  <2>8. audit' \subseteq AuditEvent
    <3>1. Event(stepIndex', "TRANSFER_REVERSED", {<<"tx", a.transfer>>} \cup made, None)
            \in AuditEvent
      BY <2>6, CreatedTypes DEF EventKind
    <3> QED
      BY <2>1, <3>1 DEF ToolsTypeOK
  <2>9. ReplyTypeOK'
    BY <1>1, LateReplyTypes
  <2> QED
    BY <2>1, <2>4, <2>5, <2>7, <2>8, <2>9 DEF ToolsTypeOK, approvalVars
<1>2. CASE UNCHANGED toolVars /\ \E code, reason : ErrBecause(code, reason, fault)
  <2>1. ReplyTypeOK'
    BY <1>2, ReplyTypes DEF ErrBecause, Observation, ReplyEvent
  <2> QED
    BY <1>2, <2>1, UnchangedTools
<1>3. CASE \E code : Refuse(code, fault)
  BY <1>3, RefuseTypes
<1> QED
  BY <1>1, <1>2, <1>3 DEF ReverseTransfer

\* The tools that only look.
LEMMA ReadToolTypes ==
  ASSUME ToolsTypeOK, NEW a, NEW fault,
         \/ GetCustomerProfile(fault)
         \/ GetAccountBalance(a, fault)
         \/ ListBeneficiaries(fault)
         \/ LookupPixKey(a, fault)
         \/ CheckTransferPolicy(a, fault)
         \/ GetTransfer(a, fault)
         \/ GetTransferByIdempotencyKey(a, fault)
         \/ ListTransfers(a, fault)
  PROVE  ToolsTypeOK' /\ ReplyTypeOK' /\ OneMore
<1>1. ASSUME NEW result, Read(result, fault)
      PROVE  ReadAt(result, now', fault)
  BY <1>1 DEF Read, ReadAt, Ok
<1>2. \/ \E result, time : ReadAt(result, time, fault)
      \/ \E code : Refuse(code, fault)
  BY <1>1 DEF GetCustomerProfile, GetAccountBalance, ListBeneficiaries, LookupPixKey,
              CheckTransferPolicy, GetTransfer, GetTransferByIdempotencyKey, ListTransfers
<1> QED
  BY <1>2, ReadTypes, RefuseTypes

LEMMA HandleTypes ==
  ASSUME Entered, TransfersBounded, StepsBounded, stepIndex \in Nat,
         NEW c, c.args \in ArgsOf(c.tool), NEW fault, Handle(c, fault)
  PROVE  ToolsTypeOK' /\ ReplyTypeOK' /\ OneMore
<1> ToolsTypeOK
  BY DEF Entered
<1>1. CASE \/ GetCustomerProfile(fault)
           \/ GetAccountBalance(c.args, fault)
           \/ ListBeneficiaries(fault)
           \/ LookupPixKey(c.args, fault)
           \/ CheckTransferPolicy(c.args, fault)
           \/ GetTransfer(c.args, fault)
           \/ GetTransferByIdempotencyKey(c.args, fault)
           \/ ListTransfers(c.args, fault)
  BY <1>1, ReadToolTypes
<1>2. CASE c.tool = "add_beneficiary" /\ AddBeneficiary(c.args, fault)
  BY <1>2, AddBeneficiaryTypes
<1>3. CASE c.tool = "request_consent" /\ RequestConsent(c.args, fault)
  BY <1>3, RequestConsentTypes
<1>4. CASE RequestStepUpAuth(fault)
  BY <1>4, RequestStepUpTypes
<1>5. CASE c.tool = "create_transfer" /\ CreateTransfer(c.args, fault)
  BY <1>5, CreateTransferTypes
<1>6. CASE c.tool = "reverse_transfer" /\ ReverseTransfer(c.args, fault)
  BY <1>6, ReverseTransferTypes
<1>7. CASE AskUser(fault)
  BY <1>7, AskUserTypes
<1>8. CASE c.tool = "finish" /\ Finish(c.args, fault)
  BY <1>8, FinishTypes
<1> QED
  BY <1>1, <1>2, <1>3, <1>4, <1>5, <1>6, <1>7, <1>8 DEF Handle

\* Whatever the call, well-formed or not, and whatever the fault.
LEMMA DispatchTypes ==
  ASSUME Entered, TransfersBounded, StepsBounded, stepIndex \in Nat,
         NEW c \in Calls, NEW fault, DispatchCall(c, fault)
  PROVE  ToolsTypeOK' /\ ReplyTypeOK' /\ OneMore
<1>1. CASE \E code, f : Refuse(code, f)
  BY <1>1, RefuseTypes DEF Entered
<1>2. CASE c.tool \in Tools /\ c.args # Malformed /\ Handle(c, fault)
  <2>1. c.args \in ArgsOf(c.tool)
    BY <1>2, CallAssumption
  <2> QED
    BY <1>2, <2>1, HandleTypes
<1> QED
  BY <1>1, <1>2 DEF DispatchCall

(***************************************************************************)
(* The clock and the end of a step.                                        *)
(***************************************************************************)
ClockTypeOK ==
  /\ now \in Nat
  /\ balanceHistory \in [Accounts -> Seq(Snapshot)]
  /\ transferHistory \in Seq(Seq({"COMPLETED", "REVERSED"}))

FaultTypeOK ==
  /\ faults \in FaultPlans
  /\ callCounts \in [{f.tool : f \in faults} -> Nat]
  /\ fired \subseteq faults

\* A snapshot of the statuses is a sequence of statuses.
LEMMA StatusesTyped ==
  ASSUME NEW ts \in Seq(Transfer)
  PROVE  [i \in DOMAIN ts |-> ts[i].status] \in Seq({"COMPLETED", "REVERSED"})
<1>1. Len(ts) \in Nat /\ DOMAIN ts = 1..Len(ts)
  BY LenProperties
<1>2. \A i \in 1..Len(ts) : ts[i].status \in {"COMPLETED", "REVERSED"}
  <2>1. \A i \in 1..Len(ts) : ts[i] \in Transfer
    BY ElementOfSeq
  <2> QED
    BY <2>1 DEF Transfer
<1>3. [i \in 1..Len(ts) |-> ts[i].status] \in [1..Len(ts) -> {"COMPLETED", "REVERSED"}]
  BY <1>2
<1> QED
  BY <1>1, <1>3, SeqDef

LEMMA TickTypes ==
  ASSUME ClockTypeOK, ToolsTypeOK, Tick
  PROVE  ClockTypeOK'
<1>1. now' \in Nat
  BY WorldAssumption DEF ClockTypeOK, Tick
<1>2. balanceHistory' \in [Accounts -> Seq(Snapshot)]
  <2>1. ASSUME NEW a \in Accounts
        PROVE  Append(balanceHistory[a], [at |-> now', balance |-> balance[a]]) \in Seq(Snapshot)
    <3>1. [at |-> now', balance |-> balance[a]] \in Snapshot
      BY <1>1 DEF Snapshot, ToolsTypeOK
    <3>2. balanceHistory[a] \in Seq(Snapshot)
      BY DEF ClockTypeOK
    <3> QED
      BY <3>1, <3>2, AppendProperties
  <2> QED
    BY <2>1 DEF Tick
<1>3. transferHistory' \in Seq(Seq({"COMPLETED", "REVERSED"}))
  <2>1. StatusSnapshot \in Seq({"COMPLETED", "REVERSED"})
    BY StatusesTyped DEF StatusSnapshot, ToolsTypeOK
  <2> QED
    BY <2>1, AppendProperties DEF Tick, ClockTypeOK
<1> QED
  BY <1>1, <1>2, <1>3 DEF ClockTypeOK

LEMMA CheckFaultTypes ==
  ASSUME FaultTypeOK, NEW tool, CheckFault(tool)
  PROVE  FaultTypeOK'
<1>1. callCounts' \in [{f.tool : f \in faults} -> Nat]
  BY DEF FaultTypeOK, CheckFault
<1>2. fired' \subseteq faults
  BY DEF FaultTypeOK, CheckFault, DueFaults
<1> QED
  BY <1>1, <1>2 DEF FaultTypeOK, CheckFault

\* A step ends the episode at the limit, or with the outcome the agent declared.
LEMMA EndStepBounds ==
  ASSUME stepIndex \in Nat, EpisodeBounded, ~done, stepIndex' = stepIndex + 1,
         ReplyTypeOK', EndStep
  PROVE  /\ EpisodeBounded'
         /\ done' \in BOOLEAN /\ raised' \in BOOLEAN
         /\ termination' \in {"FINISHED", "MAX_STEPS", None}
         /\ declared' \in Outcomes \cup {None}
<1>1. MaxSteps \in Nat /\ None \notin Outcomes \cup {"FINISHED", "MAX_STEPS"}
  BY EnvironmentAssumption
<1>2. stepIndex + 1 <= MaxSteps
  BY <1>1 DEF EpisodeBounded
<1>3. CASE obs'.kind = "final"
  <2>1. /\ done' = TRUE /\ termination' = "FINISHED" /\ declared' = obs'.result.outcome
        /\ declared' \in Outcomes
    BY <1>3 DEF EndStep, ReplyTypeOK
  <2> QED
    BY <1>1, <1>2, <2>1 DEF EpisodeBounded, EndStep
<1>4. CASE obs'.kind # "final" /\ LastStep
  <2>1. done' = TRUE /\ termination' = "MAX_STEPS" /\ declared' = None
    BY <1>4 DEF EndStep
  <2>2. stepIndex' = MaxSteps
    BY <1>1, <1>2, <1>4 DEF LastStep
  <2> QED
    BY <1>1, <1>2, <1>4, <2>1, <2>2 DEF EpisodeBounded, EndStep
<1>5. CASE obs'.kind # "final" /\ ~LastStep
  <2>1. done' = FALSE /\ termination' = None /\ declared' = None
    BY <1>5 DEF EndStep
  <2>2. stepIndex' # MaxSteps
    BY <1>1, <1>5 DEF LastStep
  <2> QED
    BY <1>1, <1>2, <2>1, <2>2 DEF EpisodeBounded, EndStep
<1> QED
  BY <1>3, <1>4, <1>5

LEMMA TypesAsParts ==
  TypeOK <=> /\ ClockTypeOK /\ ToolsTypeOK /\ FaultTypeOK
             /\ script \in UserScripts
             /\ stepIndex \in Nat
             /\ call \in Calls \cup {NoCall}
             /\ events \in Seq(ReplyEvent)
             /\ done \in BOOLEAN /\ raised \in BOOLEAN
             /\ termination \in {"FINISHED", "MAX_STEPS", None}
             /\ declared \in Outcomes \cup {None}
BY DEF TypeOK, WorldTypeOK, EpisodeTypeOK, ClockTypeOK, ToolsTypeOK, FaultTypeOK

\* reset leaves a well-typed episode: its ledger is the fixture's transfers, posted.
LEMMA FixtureLedger ==
  [n \in 1..FixtureEntries |-> FixtureEntry(n)] \in Seq(LedgerEntry)
<1>1. FixtureTransfers \in Seq(Transfer) /\ Len(FixtureTransfers) \in Nat
  BY LenProperties, WorldAssumption
<1>2. FixtureEntries \in Nat
  BY <1>1 DEF FixtureEntries
<1>3. ASSUME NEW n \in 1..FixtureEntries
      PROVE  FixtureEntry(n) \in LedgerEntry
  <2> DEFINE i == (n + 1) \div 2
             t == FixtureTransfers[i]
  <2>1. i \in 1..Len(FixtureTransfers)
    BY <1>1, <1>3 DEF FixtureEntries
  <2>2. t \in Transfer
    BY <1>1, <2>1, ElementOfSeq
  <2>3. /\ t.from \in Accounts /\ t.to \in Accounts /\ t.amount \in Int /\ t.completed \in Int
    BY <2>2 DEF Transfer
  <2>4. i \in Nat
    BY <2>1
  <2> HIDE DEF i, t
  <2>5. \A debit \in BOOLEAN :
          [transfer |-> i, account |-> IF debit THEN t.from ELSE t.to,
           delta |-> IF debit THEN -t.amount ELSE t.amount, posted |-> t.completed] \in LedgerEntry
    BY <2>3, <2>4 DEF LedgerEntry
  <2>6. (n % 2 = 1) \in BOOLEAN
    OBVIOUS
  <2> QED
    BY <2>5, <2>6 DEF FixtureEntry, i, t
<1> QED
  BY <1>2, <1>3, SeqDef

LEMMA TypeInvInit ==
  Init => TypeInv
<1> SUFFICES ASSUME Init PROVE TypeInv
  OBVIOUS
<1>1. FixtureTransfers \in Seq(Transfer) /\ Len(FixtureTransfers) \in Nat
  BY LenProperties, WorldAssumption
<1>2. ClockTypeOK
  <2>1. now \in Nat
    BY WorldAssumption DEF Init, FromFixture
  <2>2. ASSUME NEW a \in Accounts
        PROVE  Append(HistorySeed[a], [at |-> StartTime, balance |-> InitialBalance[a]])
                 \in Seq(Snapshot)
    <3>1. [at |-> StartTime, balance |-> InitialBalance[a]] \in Snapshot
      BY WorldAssumption DEF Snapshot
    <3>2. HistorySeed[a] \in Seq(Snapshot)
      BY WorldAssumption
    <3> QED
      BY <3>1, <3>2, AppendProperties
  <2>3. balanceHistory \in [Accounts -> Seq(Snapshot)]
    BY <2>2 DEF Init, FromFixture
  <2>4. transferHistory \in Seq(Seq({"COMPLETED", "REVERSED"}))
    BY <1>1, StatusesTyped DEF Init, FromFixture
  <2> QED
    BY <2>1, <2>3, <2>4 DEF ClockTypeOK
<1>3. ToolsTypeOK
  <2>1. ledger \in Seq(LedgerEntry)
    BY FixtureLedger DEF Init, FromFixture
  <2>2. cursor \in Cursor
    BY DEF Init, UserInit, Cursor
  <2>3. balance \in [Accounts -> Int]
    BY WorldAssumption DEF Init, FromFixture
  <2> QED
    BY <2>1, <2>2, <2>3, WorldAssumption, EmptySeq DEF Init, FromFixture, ToolsTypeOK
<1>4. FaultTypeOK
  BY DEF Init, FaultInit, FaultTypeOK
<1>5. MaxSteps \in Nat \ {0} /\ None \notin Outcomes \cup {"FINISHED", "MAX_STEPS"}
  BY EnvironmentAssumption
<1>6. /\ script \in UserScripts /\ stepIndex = 0 /\ call \in Calls \cup {NoCall}
      /\ events \in Seq(ReplyEvent) /\ done = FALSE /\ raised = FALSE
      /\ termination = None /\ declared = None
  BY DEF Init, UserInit
<1>7. TypeOK
  BY <1>2, <1>3, <1>4, <1>6, TypesAsParts
<1>8. TransfersBounded
  BY <1>1, <1>6 DEF TransfersBounded, Init, FromFixture
<1>9. EpisodeBounded
  BY <1>5, <1>6 DEF EpisodeBounded
<1> QED
  BY <1>7, <1>8, <1>9 DEF TypeInv

LEMMA TypeInvStep ==
  TypeInv /\ [Next]_vars => TypeInv'
<1> SUFFICES ASSUME TypeInv, [Next]_vars PROVE TypeInv'
  OBVIOUS
<1>1. /\ ClockTypeOK /\ ToolsTypeOK /\ FaultTypeOK /\ stepIndex \in Nat
      /\ script \in UserScripts /\ done \in BOOLEAN
      /\ EpisodeBounded /\ TransfersBounded /\ StepsBounded
  BY TypesAsParts DEF TypeInv, EpisodeBounded, StepsBounded
<1>2. ASSUME NEW c \in Calls, Step(c)
      PROVE  TypeInv'
  <2>1. /\ ~done /\ stepIndex' = stepIndex + 1 /\ Tick /\ call' = c /\ CheckFault(c.tool)
        /\ DispatchCall(c, DueFault(c.tool)) /\ EndStep /\ UNCHANGED script
    BY <1>2 DEF Step
  <2>2. ClockTypeOK'
    BY <1>1, <2>1, TickTypes
  <2>3. FaultTypeOK'
    BY <1>1, <2>1, CheckFaultTypes
  <2>4. Entered
    BY <1>1, <2>1, <2>2 DEF Entered, ClockTypeOK
  <2>5. ToolsTypeOK' /\ ReplyTypeOK' /\ OneMore
    BY <1>1, <2>1, <2>4, DispatchTypes
  <2>6. /\ EpisodeBounded' /\ done' \in BOOLEAN /\ raised' \in BOOLEAN
        /\ termination' \in {"FINISHED", "MAX_STEPS", None}
        /\ declared' \in Outcomes \cup {None}
    BY <1>1, <2>1, <2>5, EndStepBounds
  <2>7. TypeOK'
    <3>1. script' \in UserScripts /\ stepIndex' \in Nat /\ call' \in Calls \cup {NoCall}
      BY <1>1, <2>1
    <3>2. events' \in Seq(ReplyEvent)
      BY <2>5 DEF ReplyTypeOK
    <3> QED
      BY <2>2, <2>3, <2>5, <2>6, <3>1, <3>2 DEF TypeOK, WorldTypeOK, EpisodeTypeOK,
         ClockTypeOK, ToolsTypeOK, FaultTypeOK
  <2>8. TransfersBounded'
    <3>1. /\ Len(transfers) \in Nat /\ Len(transfers') \in Nat
          /\ Len(FixtureTransfers) \in Nat
      BY <1>1, <2>5, LenProperties, WorldAssumption DEF ToolsTypeOK
    <3> QED
      BY <1>1, <2>1, <2>5, <3>1 DEF TransfersBounded, OneMore
  <2> QED
    BY <2>6, <2>7, <2>8 DEF TypeInv
<1>3. CASE UNCHANGED vars
  <2>1. UNCHANGED <<worldVars, userVars, faultVars, replyVars, episodeVars>>
    BY <1>3 DEF vars
  <2>2. TypeOK'
    BY <2>1 DEF TypeInv, TypeOK, WorldTypeOK, EpisodeTypeOK, worldVars, clockVars, moneyVars,
       approvalVars, recordVars, userVars, faultVars, replyVars, episodeVars
  <2>3. TransfersBounded' /\ EpisodeBounded'
    BY <2>1 DEF TypeInv, TransfersBounded, EpisodeBounded, worldVars, moneyVars, replyVars,
       episodeVars
  <2> QED
    BY <2>2, <2>3 DEF TypeInv
<1> QED
  BY <1>2, <1>3 DEF Next, AfterEpisode

\* Whatever the agent calls, in whatever order and under whatever faults, every entity
\* keeps the shape contracts/domain.py gives it (the handlers of tools/, step).
THEOREM TypeCorrect == Spec => []TypeOK
<1>1. TypeInv => TypeOK
  BY DEF TypeInv
<1> QED
  BY <1>1, TypeInvInit, TypeInvStep, PTL DEF Spec

\* No episode goes past max_steps; the limit cuts it only there, and only if the agent has
\* not finished it; and it declares an outcome exactly when the agent has (step).
THEOREM EpisodeEnds == Spec => []EpisodeBounded
<1>1. TypeInv => EpisodeBounded
  BY DEF TypeInv
<1> QED
  BY <1>1, TypeInvInit, TypeInvStep, PTL DEF Spec

(***************************************************************************)
(* Induction over the subsets of a finite set, with a set of subsets in    *)
(* the place of a predicate.                                               *)
(***************************************************************************)
LEMMA LeastNumber ==
  ASSUME NEW N \in SUBSET Nat, N # {}
  PROVE  \E m \in N : \A k \in N : m <= k
<1> DEFINE less == OpToRel(<, Nat)
<1>1. PICK m \in N : \A k \in N : <<k, m>> \notin less
  <2>1. IsWellFoundedOn(less, Nat)
    BY NatLessThanWellFounded
  <2> HIDE DEF less
  <2> QED
    BY <2>1, WFMin
<1>2. less = {p \in Nat \X Nat : p[1] < p[2]}
  BY DEF OpToRel
<1> HIDE DEF less
<1>3. \A k \in N : ~(k < m)
  BY <1>1, <1>2
<1>4. \A k \in N : m <= k
  BY <1>3
<1> QED
  BY <1>4

LEMMA SubsetInduction ==
  ASSUME NEW T, IsFiniteSet(T), NEW G \in SUBSET SUBSET T, {} \in G,
         \A s \in SUBSET T : s # {} /\ (\A x \in s : s \ {x} \in G) => s \in G
  PROVE  \A s \in SUBSET T : s \in G
<1> DEFINE bad == (SUBSET T) \ G
           sizes == {Cardinality(s) : s \in bad}
<1> SUFFICES ASSUME bad # {} PROVE FALSE
  OBVIOUS
<1>1. \A s \in SUBSET T : IsFiniteSet(s) /\ Cardinality(s) \in Nat
  BY FS_Subset, FS_CardinalityType
<1>2. sizes \in SUBSET Nat /\ sizes # {}
  BY <1>1
<1>3. PICK m \in sizes : \A k \in sizes : m <= k
  BY <1>2, LeastNumber
<1>4. PICK s \in bad : Cardinality(s) = m
  OBVIOUS
<1>5. s # {}
  OBVIOUS
<1>6. ASSUME NEW x \in s PROVE s \ {x} \in G
  <2>1. Cardinality(s \ {x}) = Cardinality(s) - 1
    BY <1>1, FS_RemoveElement
  <2>2. s \ {x} \in SUBSET T
    OBVIOUS
  <2>3. Cardinality(s \ {x}) \in Nat /\ m \in Nat
    BY <1>1, <1>4, <2>2
  <2>4. ~(m <= Cardinality(s \ {x}))
    BY <1>4, <2>1, <2>3
  <2>5. s \ {x} \notin bad
    BY <1>3, <2>4
  <2> QED
    BY <2>2, <2>5
<1> QED
  BY <1>5, <1>6

(***************************************************************************)
(* What a step can do to the transfers and the consents.                   *)
(***************************************************************************)
Pays(a) ==
  /\ a \in ArgsOf("create_transfer")
  /\ CreateVerdict(a) = "execute"
  /\ ExecuteTransfer(a)

Returns(a) ==
  /\ a \in ArgsOf("reverse_transfer")
  /\ ReverseVerdict(a.transfer) = "execute"
  /\ ExecuteReversal(a.transfer, a.reason)

Asks(a, status) ==
  /\ a \in ArgsOf("request_consent")
  /\ a.from \in OwnedAccounts /\ a.key \in PixKeys
  /\ status \in {"PENDING", "GRANTED", "DENIED"}
  /\ consents' = Append(consents,
       [from |-> a.from, key |-> a.key, amount |-> a.amount, status |-> status,
        created |-> now', expires |-> now' + Policy.consentTtl, usedBy |-> NoId])
  /\ UNCHANGED transfers

ConsentsAsked(a) ==
  /\ a \in ArgsOf("request_consent")
  /\ a.from \in OwnedAccounts /\ a.key \in PixKeys
  /\ \E fault : RequestConsent(a, fault)

Saves(a) ==
  /\ a \in ArgsOf("add_beneficiary")
  /\ a.key \in PixKeys /\ ~\E b \in Range(beneficiaries) : b.key = a.key
  /\ \E fault : AddBeneficiary(a, fault)

Challenged == \E fault : RequestStepUpAuth(fault)

\* All that outlives a step but the user's script.
storeVars == <<moneyVars, approvalVars, beneficiaries, recordVars>>

LEMMA HandleKinds ==
  ASSUME NEW c, c.args \in ArgsOf(c.tool), NEW fault, Handle(c, fault)
  PROVE  \/ UNCHANGED storeVars
         \/ Pays(c.args) \/ Returns(c.args)
         \/ ConsentsAsked(c.args) \/ Challenged \/ Saves(c.args)
<1>1. CASE UNCHANGED toolVars
  BY <1>1 DEF toolVars, storeVars
<1>2. CASE c.tool = "create_transfer" /\ CreateTransfer(c.args, fault)
  BY <1>1, <1>2 DEF CreateTransfer, Pays, Refuse
<1>3. CASE c.tool = "reverse_transfer" /\ ReverseTransfer(c.args, fault)
  BY <1>1, <1>3 DEF ReverseTransfer, Returns, Refuse
<1>4. CASE c.tool = "request_consent" /\ RequestConsent(c.args, fault)
  <2>1. CASE c.args.from \in OwnedAccounts /\ c.args.key \in PixKeys
    BY <1>4, <2>1 DEF ConsentsAsked
  <2>2. CASE ~(c.args.from \in OwnedAccounts /\ c.args.key \in PixKeys)
    BY <1>1, <1>4, <2>2 DEF RequestConsent, Refuse
  <2> QED
    BY <2>1, <2>2
<1>5. CASE c.tool = "add_beneficiary" /\ AddBeneficiary(c.args, fault)
  <2>1. CASE c.args.key \in PixKeys /\ ~\E b \in Range(beneficiaries) : b.key = c.args.key
    BY <1>5, <2>1 DEF Saves
  <2>2. CASE ~(c.args.key \in PixKeys /\ ~\E b \in Range(beneficiaries) : b.key = c.args.key)
    BY <1>1, <1>5, <2>2 DEF AddBeneficiary, Refuse
  <2> QED
    BY <2>1, <2>2
<1>6. CASE RequestStepUpAuth(fault)
  BY <1>6 DEF Challenged
<1>7. CASE AskUser(fault)
  BY <1>7 DEF AskUser, storeVars
<1>8. CASE \/ GetCustomerProfile(fault)
           \/ GetAccountBalance(c.args, fault)
           \/ ListBeneficiaries(fault)
           \/ LookupPixKey(c.args, fault)
           \/ CheckTransferPolicy(c.args, fault)
           \/ GetTransfer(c.args, fault)
           \/ GetTransferByIdempotencyKey(c.args, fault)
           \/ ListTransfers(c.args, fault)
           \/ Finish(c.args, fault)
  <2>1. UNCHANGED toolVars
    BY <1>8 DEF GetCustomerProfile, GetAccountBalance, ListBeneficiaries, LookupPixKey,
                CheckTransferPolicy, GetTransfer, GetTransferByIdempotencyKey, ListTransfers,
                Finish, Read, ReadAt, Refuse
  <2> QED
    BY <1>1, <2>1
<1> QED
  BY <1>2, <1>3, <1>4, <1>5, <1>6, <1>7, <1>8 DEF Handle

\* A step does one of these five things or leaves all that lasts alone; and the clock
\* moves forward.
LEMMA StepKinds ==
  ASSUME TypeInv, [Next]_vars
  PROVE  \/ UNCHANGED storeVars /\ now' >= now
         \/ /\ \/ \E a : Pays(a)
               \/ \E a : Returns(a)
               \/ \E a : ConsentsAsked(a)
               \/ Challenged
               \/ \E a : Saves(a)
            /\ now' \in Nat /\ now' > now
            /\ Entered /\ TransfersBounded /\ StepsBounded /\ stepIndex \in Nat
<1>1. /\ ClockTypeOK /\ ToolsTypeOK /\ stepIndex \in Nat /\ now \in Nat
      /\ EpisodeBounded /\ TransfersBounded /\ StepsBounded
  BY TypesAsParts DEF TypeInv, EpisodeBounded, StepsBounded, ClockTypeOK
<1>2. CASE UNCHANGED vars
  BY <1>1, <1>2 DEF vars, worldVars, clockVars, storeVars
<1>3. ASSUME NEW c \in Calls, Step(c)
      PROVE  /\ \/ UNCHANGED storeVars
                \/ \E a : Pays(a)
                \/ \E a : Returns(a)
                \/ \E a : ConsentsAsked(a)
                \/ Challenged
                \/ \E a : Saves(a)
             /\ now' \in Nat /\ now' > now /\ Entered
  <2>1. stepIndex' = stepIndex + 1 /\ Tick /\ DispatchCall(c, DueFault(c.tool))
    BY <1>3 DEF Step
  <2>2. now' \in Nat /\ now' > now
    BY <1>1, <2>1, WorldAssumption DEF Tick
  <2>3. Entered
    BY <1>1, <2>1, <2>2 DEF Entered
  <2>4. CASE \E code, f : Refuse(code, f)
    BY <2>2, <2>3, <2>4 DEF Refuse, toolVars, storeVars
  <2>5. CASE c.tool \in Tools /\ c.args # Malformed /\ Handle(c, DueFault(c.tool))
    <3>1. c.args \in ArgsOf(c.tool)
      BY <2>5, CallAssumption
    <3> QED
      BY <2>2, <2>3, <2>5, <3>1, HandleKinds
  <2> QED
    BY <2>1, <2>4, <2>5 DEF DispatchCall
<1> QED
  BY <1>1, <1>2, <1>3 DEF Next, AfterEpisode

\* A step pays, returns a payment, records an answer about a consent, or leaves
\* transfers and consents alone; and the clock moves forward.
LEMMA StepEffects ==
  ASSUME TypeInv, [Next]_vars
  PROVE  \/ UNCHANGED <<transfers, consents>> /\ now' >= now
         \/ /\ \/ \E a : Pays(a)
               \/ \E a : Returns(a)
               \/ \E a, status : Asks(a, status)
            /\ now' \in Nat /\ now' > now
            /\ Entered /\ TransfersBounded /\ StepsBounded /\ stepIndex \in Nat
<1>1. UNCHANGED storeVars \/ Challenged \/ (\E a : Saves(a)) => UNCHANGED <<transfers, consents>>
  BY DEF storeVars, moneyVars, approvalVars, Challenged, RequestStepUpAuth, Saves,
     AddBeneficiary, Refuse, toolVars
<1>2. ASSUME NEW a, ConsentsAsked(a)
      PROVE  \E status : Asks(a, status)
  <2>1. ConsentStatusAfter(ConsentAnswer(a.key, a.amount)) \in {"PENDING", "GRANTED", "DENIED"}
    BY DEF ConsentStatusAfter
  <2> QED
    BY <1>2, <2>1 DEF ConsentsAsked, RequestConsent, Asks, moneyVars
<1>3. now \in Nat
  BY DEF TypeInv, TypeOK, WorldTypeOK
<1> QED
  BY <1>1, <1>2, <1>3, StepKinds

(***************************************************************************)
(* Paying and returning, seen on the sequence of transfers.                *)
(***************************************************************************)

\* Of the transfers that hold a key there is a first one, and it is the key's holder.
LEMMA HolderHolds ==
  ASSUME ToolsTypeOK, NEW i \in DOMAIN transfers
  PROVE  LET h == Holder(transfers[i].idem) IN
         h \in DOMAIN transfers /\ h # NoId /\ transfers[h].idem = transfers[i].idem
<1> DEFINE idem == transfers[i].idem
           T == {j \in DOMAIN transfers : transfers[j].idem = idem}
           less == OpToRel(<, Nat)
<1>1. DOMAIN transfers = 1..Len(transfers) /\ Len(transfers) \in Nat
  BY LenProperties DEF ToolsTypeOK
<1>2. i \in T
  OBVIOUS
<1>3. PICK x \in T : \A y \in T : <<y, x>> \notin less
  <2>1. IsWellFoundedOn(less, Nat)
    BY NatLessThanWellFounded
  <2>2. T \subseteq Nat
    BY <1>1
  <2> HIDE DEF T, less
  <2> QED
    BY <1>2, <2>1, <2>2, WFMin
<1>4. \A y \in T : ~(y < x)
  <2>1. ASSUME NEW y \in T, y < x
        PROVE  <<y, x>> \in less
    <3>1. x \in Nat /\ y \in Nat
      BY <1>1
    <3>2. less = {p \in Nat \X Nat : p[1] < p[2]}
      BY DEF OpToRel
    <3> HIDE DEF less, T
    <3> QED
      BY <2>1, <3>1, <3>2
  <2> QED
    BY <1>3, <2>1
<1>5. x \in DOMAIN transfers /\ transfers[x].idem = idem
      /\ \A j \in 1..(x - 1) : transfers[j].idem # idem
  BY <1>1, <1>4
<1>6. Holder(idem) \in DOMAIN transfers /\ transfers[Holder(idem)].idem = idem
  BY <1>5 DEF Holder
<1> QED
  BY <1>1, <1>6 DEF NoId

\* A key is free exactly when no transfer holds it.
LEMMA FreeKey ==
  ASSUME ToolsTypeOK, NEW idem, Holder(idem) = NoId
  PROVE  \A i \in DOMAIN transfers : transfers[i].idem # idem
BY HolderHolds

LEMMA HeldKey ==
  ASSUME ToolsTypeOK, NEW idem, Holder(idem) # NoId
  PROVE  Holder(idem) \in DOMAIN transfers /\ transfers[Holder(idem)].idem = idem
<1>1. PICK i \in DOMAIN transfers : transfers[i].idem = idem
  BY DEF Holder
<1> QED
  BY <1>1, HolderHolds

LEMMA PaymentAppended ==
  ASSUME Entered, NEW a, Pays(a)
  PROVE  /\ transfers' \in Seq(Transfer)
         /\ Len(transfers') = Len(transfers) + 1
         /\ transfers'[Len(transfers) + 1] = TransferOf(a)
         /\ \A i \in 1..Len(transfers) : transfers'[i] = transfers[i]
         /\ a.idem \in AgentKeys
         /\ \A i \in 1..Len(transfers) : transfers[i].idem # a.idem
<1> USE DEF Entered
<1>1. Len(transfers) \in Nat /\ DOMAIN transfers = 1..Len(transfers)
  BY LenProperties DEF ToolsTypeOK
<1>2. a \in ArgsOf("create_transfer") /\ transfers' = Append(transfers, TransferOf(a))
  BY DEF Pays, ExecuteTransfer
<1>3. TransferOf(a) \in Transfer
  <2>1. /\ a.amount \in Nat \ {0} /\ a.idem \in AgentKeys /\ a.consent \in Nat /\ a.memo \in STRING
    BY <1>2 DEF ArgsOf
  <2>2. a.from \in OwnedAccounts /\ a.key \in PixKeys
    BY <1>2, CreateGuards DEF Pays
  <2> QED
    BY <2>1, <2>2, WorldAssumption, CallAssumption DEF TransferOf, Transfer, NoId
<1>4. Holder(a.idem) = NoId
  BY <1>2, CreateGuards DEF Pays
<1>5. a.idem \in AgentKeys
  BY <1>2 DEF ArgsOf
<1> QED
  BY <1>1, <1>2, <1>3, <1>4, <1>5, FreeKey, AppendProperties DEF ToolsTypeOK

LEMMA ReversalAppended ==
  ASSUME Entered, TransfersBounded, StepsBounded, stepIndex \in Nat, NEW a, Returns(a)
  PROVE  /\ transfers' \in Seq(Transfer)
         /\ Len(transfers') = Len(transfers) + 1
         /\ transfers'[Len(transfers) + 1] = ReversalOf(a.transfer, a.reason)
         /\ \A i \in 1..Len(transfers) : transfers'[i] =
              IF i = a.transfer
              THEN [transfers[i] EXCEPT !.status = "REVERSED",
                                        !.reversedBy = Len(transfers) + 1]
              ELSE transfers[i]
         /\ a.transfer \in 1..Len(transfers)
         /\ transfers[a.transfer].reversalOf = NoId
         /\ transfers[a.transfer].reversedBy = NoId
         /\ a.transfer \in DOMAIN RevKey
<1> USE DEF Entered
<1>1. Len(transfers) \in Nat /\ DOMAIN transfers = 1..Len(transfers)
  BY LenProperties DEF ToolsTypeOK
<1>2. /\ a \in ArgsOf("reverse_transfer") /\ ReverseVerdict(a.transfer) = "execute"
      /\ transfers' = Append([transfers EXCEPT ![a.transfer].status = "REVERSED",
                                               ![a.transfer].reversedBy = NextTransferId],
                             ReversalOf(a.transfer, a.reason))
  BY DEF Returns, ExecuteReversal
<1>3. /\ a.transfer \in DOMAIN transfers
      /\ transfers[a.transfer].reversalOf = NoId
      /\ transfers[a.transfer].reversedBy = NoId
  BY <1>2, ReverseGuards
<1>4. ReversalOf(a.transfer, a.reason) \in Transfer
  BY <1>2, ReversalTyped
<1>5. a.transfer \in DOMAIN RevKey
  BY <1>3, ReversalKeyExists
<1>6. NextTransferId = Len(transfers) + 1 /\ NextTransferId \in Nat
  BY <1>1 DEF NextTransferId
<1>7. /\ transfers' \in Seq(Transfer)
      /\ Len(transfers') = Len(transfers) + 1
      /\ transfers'[Len(transfers) + 1] = ReversalOf(a.transfer, a.reason)
      /\ \A i \in 1..Len(transfers) : transfers'[i] =
           IF i = a.transfer
           THEN [transfers[a.transfer] EXCEPT !.status = "REVERSED",
                                              !.reversedBy = NextTransferId]
           ELSE transfers[i]
  BY <1>2, <1>3, <1>4, <1>6, MarkAndAppend
<1> QED
  BY <1>1, <1>3, <1>5, <1>6, <1>7

\* The transfers have the domain their length says.
LEMMA TransferIds ==
  ASSUME TypeInv
  PROVE  /\ Len(transfers) \in Nat /\ DOMAIN transfers = 1..Len(transfers)
         /\ \A i \in 1..Len(transfers) : transfers[i] \in Transfer
<1>1. transfers \in Seq(Transfer)
  BY DEF TypeInv, TypeOK, WorldTypeOK
<1> QED
  BY <1>1, LenProperties, ElementOfSeq

\* Marking a transfer as reversed leaves what it says of its payment.
LEMMA ReversalKeeps ==
  ASSUME TypeInv, Entered, TransfersBounded, StepsBounded, stepIndex \in Nat,
         NEW a, Returns(a), NEW i \in 1..Len(transfers)
  PROVE  LET y == transfers'[i]
             x == transfers[i]
         IN /\ y.from = x.from /\ y.key = x.key /\ y.to = x.to /\ y.amount = x.amount
            /\ y.idem = x.idem /\ y.completed = x.completed /\ y.memo = x.memo
            /\ y.consent = x.consent /\ y.created = x.created /\ y.reversalOf = x.reversalOf
            /\ y.status = IF i = a.transfer THEN "REVERSED" ELSE x.status
<1> DEFINE r == Len(transfers) + 1
<1>1. transfers'[i] = IF i = a.transfer
                      THEN [transfers[i] EXCEPT !.status = "REVERSED", !.reversedBy = r]
                      ELSE transfers[i]
  BY ReversalAppended
<1>2. transfers[i] \in Transfer
  BY TransferIds
<1>3. CASE i = a.transfer
  <2>1. transfers'[i] = [transfers[i] EXCEPT !.status = "REVERSED", !.reversedBy = r]
    BY <1>1, <1>3
  <2> HIDE DEF r
  <2> QED
    BY <1>2, <1>3, <2>1 DEF Transfer
<1>4. CASE i # a.transfer
  BY <1>1, <1>4
<1> QED
  BY <1>3, <1>4

(***************************************************************************)
(* What a payment and a reversal post to the ledger.                       *)
(***************************************************************************)

\* The entries a payment or a reversal posts are the only ones that are new.
LEMMA EntriesPosted ==
  ASSUME Entered, NEW id \in Nat, NEW from \in Accounts, NEW to \in Accounts,
         NEW amount \in Nat, PostTransfer(id, from, to, amount)
  PROVE  LET m == Len(ledger) IN
         /\ m \in Nat /\ DOMAIN ledger = 1..m /\ DOMAIN ledger' = 1..(m + 2)
         /\ \A n \in 1..m : ledger'[n] = ledger[n]
         /\ ledger'[m + 1] = Entries(id, from, to, amount)[1]
         /\ ledger'[m + 2] = Entries(id, from, to, amount)[2]
<1> DEFINE m == Len(ledger)
           both == Entries(id, from, to, amount)
<1>1. m \in Nat /\ DOMAIN ledger = 1..m /\ ledger \in Seq(LedgerEntry)
  BY LenProperties DEF Entered, ToolsTypeOK
<1>2. both \in Seq(LedgerEntry) /\ Len(both) = 2
  <2>1. /\ [transfer |-> id, account |-> from, delta |-> -amount, posted |-> now'] \in LedgerEntry
        /\ [transfer |-> id, account |-> to, delta |-> amount, posted |-> now'] \in LedgerEntry
    BY DEF LedgerEntry, Entered
  <2> QED
    BY <2>1 DEF Entries
<1>3. ledger' = ledger \o both
  BY DEF PostTransfer
<1> HIDE DEF both
<1>4. /\ ledger' \in Seq(LedgerEntry) /\ Len(ledger') = m + 2
      /\ \A n \in 1..(m + 2) : ledger'[n] = IF n <= m THEN ledger[n] ELSE both[n - m]
  <2>1. /\ ledger \o both \in Seq(LedgerEntry)
        /\ Len(ledger \o both) = m + Len(both)
        /\ \A n \in 1..(m + Len(both)) :
             (ledger \o both)[n] = IF n <= m THEN ledger[n] ELSE both[n - m]
    BY <1>1, <1>2, ConcatProperties
  <2>2. m + Len(both) = m + 2
    BY <1>2
  <2> QED
    BY <1>3, <2>1, <2>2
<1>5. DOMAIN ledger' = 1..(m + 2)
  BY <1>4, LenProperties
<1>6. \A n \in 1..m : n \in 1..(m + 2) /\ n <= m
  BY <1>1
<1>7. /\ m + 1 \in 1..(m + 2) /\ m + 2 \in 1..(m + 2) /\ ~(m + 1 <= m) /\ ~(m + 2 <= m)
      /\ m + 1 - m = 1 /\ m + 2 - m = 2
  BY <1>1
<1>8. \A n \in 1..m : ledger'[n] = ledger[n]
  BY <1>4, <1>6
<1>9. ledger'[m + 1] = both[1] /\ ledger'[m + 2] = both[2]
  BY <1>4, <1>7
<1> QED
  BY <1>1, <1>5, <1>8, <1>9 DEF both

\* What a payment and a reversal post, as the ids of the entries they add.
LEMMA PaymentPosts ==
  ASSUME TypeInv, Entered, NEW a, Pays(a)
  PROVE  /\ PostTransfer(NextTransferId, a.from, AccountOf[a.key], a.amount)
         /\ a.from \in Accounts /\ AccountOf[a.key] \in Accounts /\ a.amount \in Nat
         /\ NextTransferId \in Nat
<1>1. a.from \in OwnedAccounts /\ a.key \in PixKeys
  BY CreateGuards DEF Pays
<1>2. a.amount \in Nat
  BY DEF Pays, ArgsOf
<1> QED
  BY <1>1, <1>2, WorldAssumption, NewIds DEF Pays, ExecuteTransfer, Entered

LEMMA ReversalPosts ==
  ASSUME TypeInv, Entered, NEW a, Returns(a)
  PROVE  LET x == transfers[a.transfer] IN
         /\ PostTransfer(NextTransferId, x.to, x.from, x.amount)
         /\ x.to \in Accounts /\ x.from \in Accounts /\ x.amount \in Nat
         /\ NextTransferId \in Nat
<1>1. a.transfer \in DOMAIN transfers
  BY ReverseGuards DEF Returns
<1>2. transfers[a.transfer] \in Transfer
  BY <1>1, TransferIds
<1> QED
  BY <1>2, NewIds DEF Returns, ExecuteReversal, Entered, Transfer

(***************************************************************************)
(* Reversals come in pairs.  Nothing but the fixture's own history can     *)
(* break the pairing, so it is assumed to hold no reversal.                *)
(***************************************************************************)
HistorySettled ==
  \A i \in DOMAIN FixtureTransfers :
    FixtureTransfers[i].reversalOf = NoId /\ FixtureTransfers[i].reversedBy = NoId

PairedInv == TypeInv /\ ReversalPaired

\* The pairing, of the first n transfers of a sequence.
Paired(ts, n) ==
  \A i \in 1..n :
    /\ ts[i].reversalOf # 0 =>
         ts[i].reversalOf \in 1..n /\ ts[ts[i].reversalOf].reversedBy = i
    /\ ts[i].reversedBy # 0 =>
         ts[i].reversedBy \in 1..n /\ ts[ts[i].reversedBy].reversalOf = i

LEMMA PairedAsSequence ==
  ASSUME DOMAIN transfers = 1..Len(transfers)
  PROVE  ReversalPaired <=> Paired(transfers, Len(transfers))
BY DEF ReversalPaired, Paired, NoId

\* Pairing an unpaired transfer with a new one keeps the others paired.
LEMMA PairedGrows ==
  ASSUME NEW n \in Nat, NEW ts, NEW us, Paired(ts, n), NEW o \in 1..n,
         ts[o].reversalOf = 0, ts[o].reversedBy = 0,
         us[o].reversalOf = 0, us[o].reversedBy = n + 1,
         us[n + 1].reversalOf = o, us[n + 1].reversedBy = 0,
         \A i \in 1..n : i # o => us[i] = ts[i]
  PROVE  Paired(us, n + 1)
<1>1. ASSUME NEW i \in 1..n, i # o
      PROVE  /\ us[i].reversalOf # 0 =>
                  us[i].reversalOf \in 1..n /\ us[us[i].reversalOf].reversedBy = i
             /\ us[i].reversedBy # 0 =>
                  us[i].reversedBy \in 1..n /\ us[us[i].reversedBy].reversalOf = i
  <2>1. us[i] = ts[i]
    BY <1>1
  <2>2. ts[i].reversalOf # 0 => /\ ts[i].reversalOf \in 1..n
                                /\ ts[ts[i].reversalOf].reversedBy = i
                                /\ ts[i].reversalOf # o
    BY DEF Paired
  <2>3. ts[i].reversedBy # 0 => /\ ts[i].reversedBy \in 1..n
                                /\ ts[ts[i].reversedBy].reversalOf = i
                                /\ ts[i].reversedBy # o
    BY DEF Paired
  <2> QED
    BY <2>1, <2>2, <2>3
<1>2. \A i \in 1..(n + 1) : i = o \/ i = n + 1 \/ (i \in 1..n /\ i # o)
  OBVIOUS
<1>3. 1..n \subseteq 1..(n + 1) /\ o \in 1..(n + 1) /\ n + 1 \in 1..(n + 1)
  OBVIOUS
<1> QED
  BY <1>1, <1>2, <1>3 DEF Paired

LEMMA PairedStep ==
  PairedInv /\ [Next]_vars => PairedInv'
<1> SUFFICES ASSUME PairedInv, [Next]_vars PROVE PairedInv'
  OBVIOUS
<1>1. TypeInv /\ TypeInv' /\ ReversalPaired
  BY TypeInvStep DEF PairedInv
<1>2. /\ Len(transfers) \in Nat /\ DOMAIN transfers = 1..Len(transfers)
      /\ Len(transfers') \in Nat /\ DOMAIN transfers' = 1..Len(transfers')
  <2>1. transfers \in Seq(Transfer) /\ transfers' \in Seq(Transfer)
    BY <1>1 DEF TypeInv, TypeOK, WorldTypeOK
  <2> QED
    BY <2>1, LenProperties
<1>3. CASE UNCHANGED transfers
  BY <1>1, <1>3 DEF ReversalPaired, PairedInv
<1>4. ASSUME Entered, NEW a, Pays(a)
      PROVE  PairedInv'
  <2>1. /\ Len(transfers') = Len(transfers) + 1
        /\ transfers'[Len(transfers) + 1] = TransferOf(a)
        /\ \A i \in 1..Len(transfers) : transfers'[i] = transfers[i]
    BY <1>4, PaymentAppended
  <2>2. TransferOf(a).reversalOf = NoId /\ TransferOf(a).reversedBy = NoId
    BY DEF TransferOf
  <2>3. ReversalPaired'
    BY <1>1, <1>2, <2>1, <2>2 DEF ReversalPaired
  <2> QED
    BY <1>1, <2>3 DEF PairedInv
<1>5. ASSUME Entered, TransfersBounded, StepsBounded, stepIndex \in Nat, NEW a, Returns(a)
      PROVE  PairedInv'
  <2> DEFINE o == a.transfer
             r == Len(transfers) + 1
  <2>1. /\ Len(transfers') = r
        /\ transfers'[r] = ReversalOf(o, a.reason)
        /\ \A i \in 1..Len(transfers) : transfers'[i] =
             IF i = o THEN [transfers[i] EXCEPT !.status = "REVERSED", !.reversedBy = r]
             ELSE transfers[i]
        /\ o \in 1..Len(transfers)
        /\ transfers[o].reversalOf = NoId /\ transfers[o].reversedBy = NoId
    BY <1>5, ReversalAppended
  <2>2. ReversalOf(o, a.reason).reversalOf = o /\ ReversalOf(o, a.reason).reversedBy = NoId
    BY DEF ReversalOf
  <2>3. /\ transfers'[o].reversalOf = NoId /\ transfers'[o].reversedBy = r
    <3>1. transfers[o] \in Transfer
      BY <1>1, <2>1, TransferIds
    <3> QED
      BY <2>1, <3>1 DEF Transfer
  <2>4. \A i \in 1..Len(transfers) : i # o => transfers'[i] = transfers[i]
    BY <2>1
  <2>5. Paired(transfers', r)
    <3>1. Paired(transfers, Len(transfers))
      BY <1>1, <1>2, PairedAsSequence
    <3>2. /\ transfers[o].reversalOf = 0 /\ transfers[o].reversedBy = 0
          /\ transfers'[o].reversalOf = 0 /\ transfers'[o].reversedBy = r
          /\ transfers'[r].reversalOf = o /\ transfers'[r].reversedBy = 0
          /\ o \in 1..Len(transfers) /\ Len(transfers) \in Nat
      BY <1>2, <2>1, <2>2, <2>3 DEF NoId
    <3> HIDE DEF o
    <3> QED
      BY <2>4, <3>1, <3>2, PairedGrows
  <2>6. ReversalPaired'
    BY <1>2, <2>1, <2>5 DEF ReversalPaired, Paired, NoId
  <2> QED
    BY <1>1, <2>6 DEF PairedInv
<1> QED
  BY <1>1, <1>3, <1>4, <1>5, StepEffects DEF Asks

\* INV-08, for every episode of a fixture without reversals: a reversal and what it
\* reverses point at each other, and nothing is reversed twice (reverse_transfer).
THEOREM ReversalsPair == HistorySettled => (Spec => []ReversalPaired)
<1>1. HistorySettled /\ Init => PairedInv
  BY TypeInvInit DEF Init, FromFixture, HistorySettled, PairedInv, ReversalPaired
<1>2. PairedInv => ReversalPaired
  BY DEF PairedInv
<1>3. HistorySettled /\ Spec => []ReversalPaired
  BY <1>1, <1>2, PairedStep, PTL DEF Spec
<1> QED
  BY <1>3

(***************************************************************************)
(* What a reversal gives back, and when.  A reversal looks at the clock    *)
(* after the step's tick, so it is younger than what it reverses only if   *)
(* no transfer is younger than the clock: the fixture's history is assumed *)
(* to lie in the past, and holds no reversal.                              *)
(***************************************************************************)
HistoryPast ==
  \A i \in DOMAIN FixtureTransfers :
    FixtureTransfers[i].created <= StartTime /\ FixtureTransfers[i].completed <= StartTime

TransfersPast ==
  \A i \in DOMAIN transfers : transfers[i].created <= now /\ transfers[i].completed <= now

ExactInv == PairedInv /\ TransfersPast /\ ReversalExact

LEMMA TransfersPastStep ==
  ASSUME TypeInv, TransfersPast, [Next]_vars
  PROVE  TransfersPast'
<1> DEFINE n == Len(transfers)
<1>1. /\ n \in Nat /\ DOMAIN transfers = 1..n /\ now \in Nat
      /\ \A i \in 1..n : transfers[i] \in Transfer
  BY TransferIds DEF TypeInv, TypeOK, WorldTypeOK
<1>2. \A i \in 1..n : /\ transfers[i].created \in Int /\ transfers[i].completed \in Int
                       /\ transfers[i].created <= now /\ transfers[i].completed <= now
  BY <1>1 DEF TransfersPast, Transfer
<1>3. now' \in Nat
  BY TypeInvStep DEF TypeInv, TypeOK, WorldTypeOK
<1>4. CASE UNCHANGED transfers /\ now' >= now
  BY <1>1, <1>2, <1>3, <1>4 DEF TransfersPast
<1>5. ASSUME NEW new, transfers' \in Seq(Transfer), Len(transfers') = n + 1,
             transfers'[n + 1] = new, new.created = now', new.completed = now', now' > now,
             \A i \in 1..n : /\ transfers'[i].created = transfers[i].created
                             /\ transfers'[i].completed = transfers[i].completed
      PROVE  TransfersPast'
  <2>1. DOMAIN transfers' = 1..(n + 1)
    BY <1>5, LenProperties
  <2>2. \A i \in 1..(n + 1) : i = n + 1 \/ i \in 1..n
    BY <1>1
  <2> QED
    BY <1>1, <1>2, <1>3, <1>5, <2>1, <2>2 DEF TransfersPast
<1>6. ASSUME Entered, now' > now, NEW a, Pays(a)
      PROVE  TransfersPast'
  <2>1. TransferOf(a).created = now' /\ TransferOf(a).completed = now'
    BY DEF TransferOf
  <2> QED
    BY <1>5, <1>6, <2>1, PaymentAppended
<1>7. ASSUME Entered, TransfersBounded, StepsBounded, stepIndex \in Nat, now' > now,
             NEW a, Returns(a)
      PROVE  TransfersPast'
  <2>1. /\ ReversalOf(a.transfer, a.reason).created = now'
        /\ ReversalOf(a.transfer, a.reason).completed = now'
    BY DEF ReversalOf
  <2>2. /\ transfers' \in Seq(Transfer) /\ Len(transfers') = n + 1
        /\ transfers'[n + 1] = ReversalOf(a.transfer, a.reason)
    BY <1>7, ReversalAppended
  <2>3. \A i \in 1..n : /\ transfers'[i].created = transfers[i].created
                         /\ transfers'[i].completed = transfers[i].completed
    BY <1>7, ReversalKeeps
  <2> QED
    BY <1>5, <1>7, <2>1, <2>2, <2>3
<1>8. CASE UNCHANGED transfers /\ now' > now
  BY <1>1, <1>3, <1>4, <1>8
<1> QED
  BY <1>4, <1>6, <1>7, <1>8, StepEffects DEF Asks

\* What a transfer says of its reversal r.
Returned(x, r, i) ==
  /\ r.from = x.to /\ r.to = x.from /\ r.amount = x.amount
  /\ r.created > x.completed /\ r.created - x.completed <= Policy.reversalWindow
  /\ r.reversalOf = i

LEMMA ExactAsParts ==
  ReversalExact <=>
    \A i \in DOMAIN transfers :
      /\ transfers[i].status = "REVERSED" <=> transfers[i].reversedBy # NoId
      /\ transfers[i].reversedBy # NoId =>
           Returned(transfers[i], transfers[transfers[i].reversedBy], i)
BY DEF ReversalExact, Returned

\* A reversal that goes through is inside the window, on the clock it is stamped with.
LEMMA ReversalInTime ==
  ASSUME NEW a, Returns(a)
  PROVE  ~(now' - transfers[a.transfer].completed > Policy.reversalWindow)
BY DEF Returns, ReverseVerdict, WindowExpired

LEMMA ExactStep ==
  ExactInv /\ [Next]_vars => ExactInv'
<1> SUFFICES ASSUME ExactInv, [Next]_vars PROVE ExactInv'
  OBVIOUS
<1> DEFINE n == Len(transfers)
<1>1. TypeInv /\ PairedInv' /\ TransfersPast' /\ TransfersPast /\ ReversalPaired /\ ReversalExact
  BY PairedStep, TransfersPastStep DEF ExactInv, PairedInv
<1>2. /\ n \in Nat /\ DOMAIN transfers = 1..n
      /\ \A i \in 1..n : transfers[i] \in Transfer
      /\ DOMAIN transfers' = 1..Len(transfers')
  <2>1. transfers' \in Seq(Transfer)
    BY <1>1 DEF PairedInv, TypeInv, TypeOK, WorldTypeOK
  <2> QED
    BY <1>1, <2>1, TransferIds, LenProperties
<1>3. \A i \in 1..n :
        /\ transfers[i].status = "REVERSED" <=> transfers[i].reversedBy # NoId
        /\ transfers[i].reversedBy # NoId =>
             /\ Returned(transfers[i], transfers[transfers[i].reversedBy], i)
             /\ transfers[i].reversedBy \in 1..n
             /\ transfers[transfers[i].reversedBy].reversalOf # NoId
  BY <1>1, <1>2, ExactAsParts DEF ReversalPaired, NoId
<1>4. CASE UNCHANGED transfers
  BY <1>1, <1>4 DEF ExactInv, ReversalExact
<1>5. ASSUME Entered, NEW a, Pays(a)
      PROVE  ExactInv'
  <2>1. /\ Len(transfers') = n + 1
        /\ transfers'[n + 1] = TransferOf(a)
        /\ \A i \in 1..n : transfers'[i] = transfers[i]
    BY <1>5, PaymentAppended
  <2>2. TransferOf(a).status = "COMPLETED" /\ TransferOf(a).reversedBy = NoId
    BY DEF TransferOf
  <2>3. \A i \in 1..(n + 1) : i = n + 1 \/ i \in 1..n
    BY <1>2
  <2>4. ReversalExact'
    BY <1>2, <1>3, <2>1, <2>2, <2>3 DEF ReversalExact, Returned
  <2> QED
    BY <1>1, <2>4 DEF ExactInv
<1>6. ASSUME Entered, TransfersBounded, StepsBounded, stepIndex \in Nat, now' > now,
             NEW a, Returns(a)
      PROVE  ExactInv'
  <2> DEFINE o == a.transfer
             r == n + 1
             new == ReversalOf(o, a.reason)
  <2>1. /\ Len(transfers') = r /\ transfers'[r] = new
        /\ \A i \in 1..n : i # o => transfers'[i] = transfers[i]
        /\ transfers'[o] = [transfers[o] EXCEPT !.status = "REVERSED", !.reversedBy = r]
        /\ o \in 1..n /\ transfers[o].reversalOf = NoId
    BY <1>6, ReversalAppended
  <2>2. transfers'[o].status = "REVERSED" /\ transfers'[o].reversedBy = r
    <3>1. transfers[o] \in Transfer
      BY <1>2, <2>1
    <3> HIDE DEF r
    <3> QED
      BY <2>1, <3>1 DEF Transfer
  <2>3. Returned(transfers'[o], new, o)
    <3>1. /\ transfers'[o].from = transfers[o].from /\ transfers'[o].to = transfers[o].to
          /\ transfers'[o].amount = transfers[o].amount
          /\ transfers'[o].completed = transfers[o].completed
      BY <1>1, <1>6, <2>1, ReversalKeeps
    <3>2. ~(now' - transfers[o].completed > Policy.reversalWindow)
      BY <1>6, ReversalInTime
    <3>3. transfers[o].completed \in Int /\ transfers[o].completed <= now
      BY <1>1, <1>2, <2>1 DEF TransfersPast, Transfer
    <3>4. now \in Nat /\ now' \in Nat /\ Policy.reversalWindow \in Nat
      BY <1>1, PolicyAssumption DEF PairedInv, TypeInv, TypeOK, WorldTypeOK
    <3>5. now' > transfers[o].completed /\ now' - transfers[o].completed <= Policy.reversalWindow
      BY <1>6, <3>2, <3>3, <3>4
    <3>6. /\ new.from = transfers[o].to /\ new.to = transfers[o].from
          /\ new.amount = transfers[o].amount /\ new.created = now' /\ new.reversalOf = o
      BY DEF ReversalOf
    <3> QED
      BY <3>1, <3>5, <3>6 DEF Returned
  <2>4. new.status = "COMPLETED" /\ new.reversedBy = NoId
    BY DEF ReversalOf
  <2>5. r # NoId /\ \A i \in 1..r : i = r \/ i = o \/ (i \in 1..n /\ i # o)
    BY <1>2 DEF NoId
  <2> HIDE DEF o, new, r
  <2>6. ASSUME NEW i \in 1..n, i # o
        PROVE  /\ transfers'[i].status = "REVERSED" <=> transfers'[i].reversedBy # NoId
               /\ transfers'[i].reversedBy # NoId =>
                    Returned(transfers'[i], transfers'[transfers'[i].reversedBy], i)
    <3>1. transfers'[i] = transfers[i]
      BY <2>1, <2>6
    <3>2. transfers[i].reversedBy # NoId =>
            transfers'[transfers[i].reversedBy] = transfers[transfers[i].reversedBy]
      BY <1>3, <2>1
    <3> QED
      BY <1>3, <3>1, <3>2
  <2>7. \A i \in DOMAIN transfers' :
          /\ transfers'[i].status = "REVERSED" <=> transfers'[i].reversedBy # NoId
          /\ transfers'[i].reversedBy # NoId =>
               Returned(transfers'[i], transfers'[transfers'[i].reversedBy], i)
    BY <1>2, <2>1, <2>2, <2>3, <2>4, <2>5, <2>6
  <2>8. ReversalExact'
    BY <2>7 DEF ReversalExact, Returned
  <2> QED
    BY <1>1, <2>8 DEF ExactInv
<1> QED
  BY <1>1, <1>4, <1>5, <1>6, StepEffects DEF Asks

\* For every episode whose history is past and settled: a reversal returns the whole
\* amount the way it came, within the window, and a transfer is marked REVERSED exactly
\* when it has one (reverse_transfer).
THEOREM ReversalsExact == HistorySettled /\ HistoryPast => (Spec => []ReversalExact)
<1> SUFFICES ASSUME HistorySettled, HistoryPast PROVE Spec => []ReversalExact
  OBVIOUS
<1>1. Init => ExactInv
  <2> SUFFICES ASSUME Init PROVE ExactInv
    OBVIOUS
  <2>1. transfers = FixtureTransfers /\ now = StartTime
    BY DEF Init, FromFixture
  <2>2. ReversalExact
    BY <2>1, WorldAssumption DEF HistorySettled, ReversalExact
  <2>3. PairedInv
    BY <2>1, TypeInvInit DEF HistorySettled, PairedInv, ReversalPaired
  <2> QED
    BY <2>1, <2>2, <2>3 DEF HistoryPast, TransfersPast, ExactInv
<1>2. ExactInv => ReversalExact
  BY DEF ExactInv
<1> QED
  BY <1>1, <1>2, ExactStep, PTL DEF Spec

(***************************************************************************)
(* Idempotency keys.  A reversal takes a key made from the id of what it   *)
(* reverses.  Nothing stops an agent or a fixture from using such a key    *)
(* for a payment, so it is assumed that they do not.                       *)
(***************************************************************************)
KeysReserved ==
  /\ AgentKeys \cap Range(RevKey) = {}
  /\ \A i \in DOMAIN FixtureTransfers : FixtureTransfers[i].idem \notin Range(RevKey)
  /\ \A i, j \in DOMAIN FixtureTransfers :
       FixtureTransfers[i].idem = FixtureTransfers[j].idem => i = j

\* A key tells whether its transfer is a reversal, and of what.
KeysTell ==
  \A i \in DOMAIN transfers :
    LET t == transfers[i] IN
    IF t.reversalOf = NoId THEN t.idem \notin Range(RevKey)
    ELSE t.reversalOf \in DOMAIN RevKey /\ t.idem = RevKey[t.reversalOf]

UniqueInv == PairedInv /\ KeysTell /\ IdempotencyUnique

\* Appending a transfer whose key nobody holds keeps the keys apart.
LEMMA UniqueGrows ==
  ASSUME NEW n \in Nat, NEW ts, NEW us,
         \A i, j \in 1..n : ts[i].idem = ts[j].idem => i = j,
         \A i \in 1..n : us[i].idem = ts[i].idem,
         \A i \in 1..n : ts[i].idem # us[n + 1].idem
  PROVE  \A i, j \in 1..(n + 1) : us[i].idem = us[j].idem => i = j
<1>1. ASSUME NEW i \in 1..n, NEW j \in 1..n
      PROVE  us[i].idem = us[j].idem => i = j
  OBVIOUS
<1>2. \A i \in 1..n : us[i].idem # us[n + 1].idem
  OBVIOUS
<1>3. \A i \in 1..(n + 1) : i = n + 1 \/ i \in 1..n
  OBVIOUS
<1> QED
  BY <1>1, <1>2, <1>3

LEMMA UniqueStep ==
  ASSUME KeysReserved
  PROVE  UniqueInv /\ [Next]_vars => UniqueInv'
<1> SUFFICES ASSUME UniqueInv, [Next]_vars PROVE UniqueInv'
  OBVIOUS
<1>1. TypeInv /\ PairedInv' /\ KeysTell /\ IdempotencyUnique /\ ReversalPaired
  BY PairedStep DEF UniqueInv, PairedInv
<1>2. /\ Len(transfers) \in Nat /\ DOMAIN transfers = 1..Len(transfers)
      /\ DOMAIN transfers' = 1..Len(transfers')
      /\ \A i \in 1..Len(transfers) : transfers[i] \in Transfer
  <2>1. transfers' \in Seq(Transfer)
    BY <1>1 DEF PairedInv, TypeInv, TypeOK, WorldTypeOK
  <2> QED
    BY <1>1, <2>1, LenProperties, TransferIds
<1>3. CASE UNCHANGED transfers
  BY <1>1, <1>3 DEF UniqueInv, KeysTell, IdempotencyUnique
<1>4. ASSUME Entered, NEW a, Pays(a)
      PROVE  UniqueInv'
  <2> DEFINE r == Len(transfers) + 1
  <2>1. /\ Len(transfers') = r
        /\ transfers'[r] = TransferOf(a)
        /\ \A i \in 1..Len(transfers) : transfers'[i] = transfers[i]
        /\ a.idem \in AgentKeys
        /\ \A i \in 1..Len(transfers) : transfers[i].idem # a.idem
    BY <1>4, PaymentAppended
  <2>2. transfers'[r].idem = a.idem /\ transfers'[r].reversalOf = NoId
    BY <2>1 DEF TransferOf
  <2>3. \A i \in 1..r : i = r \/ i \in 1..Len(transfers)
    BY <1>2
  <2>4. KeysTell'
    BY <1>1, <1>2, <2>1, <2>2, <2>3 DEF KeysTell, KeysReserved
  <2>5. IdempotencyUnique'
    <3>1. \A i, j \in 1..Len(transfers) : transfers[i].idem = transfers[j].idem => i = j
      BY <1>1, <1>2 DEF IdempotencyUnique
    <3>2. Len(transfers) \in Nat /\ \A i \in 1..Len(transfers) :
            /\ transfers'[i].idem = transfers[i].idem
            /\ transfers[i].idem # transfers'[r].idem
      BY <1>2, <2>1, <2>2
    <3>3. \A i, j \in 1..r : transfers'[i].idem = transfers'[j].idem => i = j
      BY <3>1, <3>2, UniqueGrows
    <3> QED
      BY <1>2, <2>1, <3>3 DEF IdempotencyUnique
  <2> QED
    BY <1>1, <2>4, <2>5 DEF UniqueInv
<1>5. ASSUME Entered, TransfersBounded, StepsBounded, stepIndex \in Nat, NEW a, Returns(a)
      PROVE  UniqueInv'
  <2> DEFINE o == a.transfer
             r == Len(transfers) + 1
  <2>1. /\ Len(transfers') = r
        /\ transfers'[r] = ReversalOf(o, a.reason)
        /\ \A i \in 1..Len(transfers) : transfers'[i] =
             IF i = o THEN [transfers[i] EXCEPT !.status = "REVERSED", !.reversedBy = r]
             ELSE transfers[i]
        /\ o \in 1..Len(transfers) /\ transfers[o].reversedBy = NoId
        /\ o \in DOMAIN RevKey
    BY <1>5, ReversalAppended
  <2>2. transfers'[r].idem = RevKey[o] /\ transfers'[r].reversalOf = o
    <3>1. ReversalOf(o, a.reason).idem = RevKey[o] /\ ReversalOf(o, a.reason).reversalOf = o
      BY DEF ReversalOf
    <3> QED
      BY <2>1, <3>1
  <2>3. \A i \in 1..Len(transfers) :
          /\ transfers'[i].idem = transfers[i].idem
          /\ transfers'[i].reversalOf = transfers[i].reversalOf
    BY <1>1, <1>5, ReversalKeeps
  <2>4. \A i \in 1..r : i = r \/ i \in 1..Len(transfers)
    BY <1>2
  <2>5. \A i \in 1..Len(transfers) : transfers[i].idem # RevKey[o]
    <3>1. SUFFICES ASSUME NEW i \in 1..Len(transfers), transfers[i].idem = RevKey[o]
                   PROVE  FALSE
      OBVIOUS
    <3>2. RevKey[o] \in Range(RevKey)
      BY <2>1 DEF Range
    <3>3. /\ transfers[i].reversalOf # NoId /\ transfers[i].reversalOf \in DOMAIN RevKey
          /\ RevKey[transfers[i].reversalOf] = RevKey[o]
      BY <1>1, <1>2, <3>1, <3>2 DEF KeysTell
    <3>4. transfers[i].reversalOf = o
      BY <2>1, <3>3, EnvironmentAssumption DEF IsInjective
    <3>5. transfers[o].reversedBy = i
      BY <1>1, <1>2, <3>3, <3>4 DEF ReversalPaired
    <3>6. i # NoId
      BY <1>2 DEF NoId
    <3>7. transfers[o].reversedBy = NoId
      BY <2>1
    <3> QED
      BY <3>5, <3>6, <3>7
  <2> HIDE DEF o
  <2>6. KeysTell'
    <3>1. DOMAIN transfers' = 1..r /\ o # NoId /\ o \in DOMAIN RevKey
      <4>1. Len(transfers') = r /\ o \in 1..Len(transfers) /\ o \in DOMAIN RevKey
        BY <2>1
      <4> QED
        BY <1>2, <4>1 DEF NoId
    <3>2. \A i \in 1..Len(transfers) :
            IF transfers'[i].reversalOf = NoId THEN transfers'[i].idem \notin Range(RevKey)
            ELSE /\ transfers'[i].reversalOf \in DOMAIN RevKey
                 /\ transfers'[i].idem = RevKey[transfers'[i].reversalOf]
      BY <1>1, <1>2, <2>3 DEF KeysTell
    <3> QED
      BY <2>2, <2>4, <3>1, <3>2 DEF KeysTell
  <2>7. IdempotencyUnique'
    <3>1. \A i, j \in 1..Len(transfers) : transfers[i].idem = transfers[j].idem => i = j
      BY <1>1, <1>2 DEF IdempotencyUnique
    <3>2. Len(transfers) \in Nat /\ \A i \in 1..Len(transfers) :
            /\ transfers'[i].idem = transfers[i].idem
            /\ transfers[i].idem # transfers'[r].idem
      BY <1>2, <2>2, <2>3, <2>5
    <3>3. \A i, j \in 1..r : transfers'[i].idem = transfers'[j].idem => i = j
      BY <3>1, <3>2, UniqueGrows
    <3> QED
      BY <1>2, <2>1, <3>3 DEF IdempotencyUnique
  <2> QED
    BY <1>1, <2>6, <2>7 DEF UniqueInv
<1> QED
  BY <1>1, <1>3, <1>4, <1>5, StepEffects DEF Asks

\* INV-07, for every episode in which the reversals' keys are nobody else's: no two
\* transfers share an idempotency key, so a retry under a key pays at most once, however
\* often it is made and whatever the faults (create_transfer, reverse_transfer).
THEOREM KeysPayOnce == HistorySettled /\ KeysReserved => (Spec => []IdempotencyUnique)
<1> SUFFICES ASSUME HistorySettled, KeysReserved PROVE Spec => []IdempotencyUnique
  OBVIOUS
<1>1. Init => UniqueInv
  BY TypeInvInit DEF Init, FromFixture, HistorySettled, KeysReserved, UniqueInv, PairedInv,
     ReversalPaired, KeysTell, IdempotencyUnique
<1>2. UniqueInv => IdempotencyUnique
  BY DEF UniqueInv
<1>3. UniqueInv /\ [Next]_vars => UniqueInv'
  BY UniqueStep
<1> QED
  BY <1>1, <1>2, <1>3, PTL DEF Spec
==============================================================================

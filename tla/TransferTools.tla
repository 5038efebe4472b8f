---------------------------- MODULE TransferTools ----------------------------
(***************************************************************************)
(* tools/transfer.py: create_transfer and reverse_transfer, the two tools  *)
(* that move money.                                                        *)
(***************************************************************************)
EXTENDS Dispatch

(***************************************************************************)
(* create_transfer                                                         *)
(***************************************************************************)

\* Mutant: the memo is not compared.
SameRequest_NoMemo(x, a) == <<x.from, x.key, x.amount>> = <<a.from, a.key, a.amount>>

\* The consent is not part of what a replay must repeat.
SameRequest(x, a) == <<x.from, x.key, x.amount, x.memo>> = <<a.from, a.key, a.amount, a.memo>>

\* _first_hard: the error of the first HARD finding in catalog order.
HardError(rule, a) ==
  CASE rule = "STEP_UP_REQUIRED" -> "AUTH_REQUIRED"
    [] rule = "CONSENT_REQUIRED" /\ a.consent = NoId -> "CONSENT_REQUIRED"
    [] rule = "CONSENT_REQUIRED" /\ a.consent # NoId -> "CONSENT_INVALID"
    [] OTHER -> "POLICY_VIOLATION"

HardReason(rule, a) ==
  IF rule = "CONSENT_REQUIRED" /\ a.consent # NoId
  THEN ConsentValidity(a.consent, a.from, a.key, a.amount, now') ELSE None

RequestFindings(a) == Findings(a.from, a.key, a.amount, a.consent, now')

\* Mutant: an account may be overdrawn by a centavo.
FundsSuffice_OffByOne(a) == balance[a.from] >= a.amount - 1

FundsSuffice(a) == balance[a.from] >= a.amount

\* The checks of _create_transfer_body in their order: the error of the first that
\* fails, or what the call does.
CreateVerdict(a) ==
  IF a.from \notin OwnedAccounts THEN "NOT_FOUND"
  ELSE IF a.from \in BlockedAccounts THEN "ACCOUNT_BLOCKED"
  ELSE IF a.key \notin PixKeys THEN "NOT_FOUND"
  ELSE IF Holder(a.idem) # NoId
    THEN IF SameRequest(transfers[Holder(a.idem)], a) THEN "replay" ELSE "IDEMPOTENCY_CONFLICT"
  ELSE IF InMode(RequestFindings(a), "HARD") # {}
    THEN HardError(First(InMode(RequestFindings(a), "HARD")), a)
  ELSE IF ~FundsSuffice(a) THEN "INSUFFICIENT_FUNDS"
  ELSE "execute"

TransferOf(a) ==
  [from |-> a.from, key |-> a.key, to |-> AccountOf[a.key], amount |-> a.amount,
   status |-> "COMPLETED", idem |-> a.idem, consent |-> a.consent, memo |-> a.memo,
   created |-> now', completed |-> now', reversalOf |-> NoId, reversedBy |-> NoId]

\* Mutant: naming a consent is enough to spend it.
ConsentHolds_Named(a) == a.consent \in DOMAIN consents

ConsentHolds(a) ==
  /\ a.consent # NoId
  /\ ConsentValidity(a.consent, a.from, a.key, a.amount, now') = "VALID"

\* Mutant: the evidence looks at the consent's status and not at its scope.
ExecutionEvidence_NoScope(a) ==
  LET granted == a.consent \in DOMAIN consents /\ consents[a.consent].status = "GRANTED"
  IN [consentStatus |-> IF granted THEN "GRANTED" ELSE None,
      scopeMatched |-> granted, authLevel |-> EffectiveAuthLevel(now')]

\* What the TRANSFER_COMPLETED event records of the consent and the authentication.
ExecutionEvidence(a) ==
  [consentStatus |-> IF a.consent \in DOMAIN consents THEN consents[a.consent].status ELSE None,
   scopeMatched |-> ConsentHolds(a),
   authLevel |-> EffectiveAuthLevel(now')]

ViolationEvents(rules) ==
  {Event(stepIndex', "POLICY_VIOLATION_EXECUTED", {},
         [rule |-> r, mode |-> Policy.enforcement[r]]) : r \in rules}

ExecuteTransfer(a) ==
  LET id == NextTransferId
      posted == {<<"tx", id>>} \cup NewLedgerIds
      findings == RequestFindings(a)
  IN /\ transfers' = Append(transfers, TransferOf(a))
     /\ PostTransfer(id, a.from, AccountOf[a.key], a.amount)
     /\ consents' = IF ConsentHolds(a)
                    THEN [consents EXCEPT ![a.consent].status = "USED", ![a.consent].usedBy = id]
                    ELSE consents
     /\ creation' = creation
          \cup CreatedAt(stepIndex', "TRANSFER_CREATED", {<<"tx", id>>})
          \cup CreatedAt(stepIndex', "TRANSFER_COMPLETED", NewLedgerIds)
     /\ audit' = audit
          \cup {Event(stepIndex', "TRANSFER_CREATED", {<<"tx", id>>}, None)}
          \cup (IF ConsentHolds(a)
                THEN {Event(stepIndex', "CONSENT_USED",
                            {<<"cons", a.consent>>, <<"tx", id>>}, None)}
                ELSE {})
          \cup {Event(stepIndex', "TRANSFER_COMPLETED", posted, ExecutionEvidence(a))}
          \cup ViolationEvents(InMode(findings, "SOFT") \cup InMode(findings, "SILENT"))
     /\ UNCHANGED <<challenges, auth, beneficiaries, cursor>>

CreateTransfer(a, fault) ==
  LET verdict == CreateVerdict(a)
      findings == RequestFindings(a)
  IN
  \/ /\ verdict = "execute"
     /\ ExecuteTransfer(a)
     /\ OkUnlessLate([transfer |-> NextTransferId, replay |-> FALSE,
                      warnings |-> InMode(findings, "SOFT")], fault)
  \/ /\ verdict = "replay"
     /\ OkUnlessLate([transfer |-> Holder(a.idem), replay |-> TRUE, warnings |-> {}], fault)
     /\ UNCHANGED toolVars
  \/ /\ verdict \in {"AUTH_REQUIRED", "CONSENT_REQUIRED", "CONSENT_INVALID", "POLICY_VIOLATION"}
     /\ ErrBecause(verdict, HardReason(First(InMode(findings, "HARD")), a), fault)
     /\ UNCHANGED toolVars
  \/ /\ verdict \in {"NOT_FOUND", "ACCOUNT_BLOCKED", "IDEMPOTENCY_CONFLICT", "INSUFFICIENT_FUNDS"}
     /\ Refuse(verdict, fault)

(***************************************************************************)
(* reverse_transfer                                                        *)
(***************************************************************************)

\* The key a reversal pays into: the sender's directory key, else its account id.
ReturnKey(account) ==
  IF \E k \in PixKeys : AccountOf[k] = account
  THEN CHOOSE k \in PixKeys : AccountOf[k] = account ELSE account

\* Mutant: an earlier reversal is not noticed.
AlreadyReversed_Never(x) == FALSE

AlreadyReversed(x) == x.status = "REVERSED" \/ x.reversedBy # NoId

\* Mutant: the window is measured on the clock before the step's tick.
WindowExpired_BeforeTick(x) == now - x.completed > Policy.reversalWindow

WindowExpired(x) == now' - x.completed > Policy.reversalWindow

\* The checks of _reverse_body in their order.  A reason names the detail of a
\* REVERSAL_NOT_ALLOWED error.
ReversalRefusals == {"IS_REVERSAL", "NOT_SENDER", "ALREADY_REVERSED", "WINDOW_EXPIRED"}

ReverseVerdict(id) ==
  IF id \notin DOMAIN transfers THEN "NOT_FOUND"
  ELSE LET x == transfers[id] IN
    IF x.reversalOf # NoId THEN "IS_REVERSAL"
    ELSE IF x.from \notin OwnedAccounts THEN "NOT_SENDER"
    ELSE IF x.from \in BlockedAccounts THEN "ACCOUNT_BLOCKED"
    ELSE IF AlreadyReversed(x) THEN "ALREADY_REVERSED"
    ELSE IF WindowExpired(x) THEN "WINDOW_EXPIRED"
    ELSE "execute"

ReversalOf(id, reason) ==
  LET x == transfers[id] IN
  [from |-> x.to, key |-> ReturnKey(x.from), to |-> x.from, amount |-> x.amount,
   status |-> "COMPLETED", idem |-> RevKey[id], consent |-> NoId, memo |-> reason,
   created |-> now', completed |-> now', reversalOf |-> id, reversedBy |-> NoId]

ExecuteReversal(original, reason) ==
  LET id == NextTransferId
      x == transfers[original]
      made == {<<"tx", id>>} \cup NewLedgerIds
  IN /\ transfers' = Append([transfers EXCEPT ![original].status = "REVERSED",
                                              ![original].reversedBy = id],
                            ReversalOf(original, reason))
     /\ PostTransfer(id, x.to, x.from, x.amount)
     /\ creation' = creation \cup CreatedAt(stepIndex', "TRANSFER_REVERSED", made)
     /\ audit' = audit \cup {Event(stepIndex', "TRANSFER_REVERSED",
                                    {<<"tx", original>>} \cup made, None)}
     /\ UNCHANGED <<approvalVars, beneficiaries, cursor>>

ReverseTransfer(a, fault) ==
  LET verdict == ReverseVerdict(a.transfer) IN
  \/ /\ verdict = "execute"
     /\ ExecuteReversal(a.transfer, a.reason)
     /\ OkUnlessLate([transfer |-> NextTransferId], fault)
  \/ /\ verdict \in ReversalRefusals
     /\ ErrBecause("REVERSAL_NOT_ALLOWED", verdict, fault)
     /\ UNCHANGED toolVars
  \/ /\ verdict \in {"NOT_FOUND", "ACCOUNT_BLOCKED"}
     /\ Refuse(verdict, fault)
==============================================================================

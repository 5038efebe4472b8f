------------------------------ MODULE Guarantees ------------------------------
(***************************************************************************)
(* What an episode promises whatever the agent does.  World.tla states the *)
(* ledger invariants the program checks of itself; these are the promises  *)
(* nothing in the program checks.                                          *)
(***************************************************************************)
EXTENDS Environment

(***************************************************************************)
(* The values the variables range over.                                    *)
(***************************************************************************)
WorldTypeOK ==
  /\ now \in Nat
  /\ balance \in [Accounts -> Int]
  /\ transfers \in Seq(Transfer)
  /\ ledger \in Seq(LedgerEntry)
  /\ consents \in Seq(Consent)
  /\ challenges \in Seq(Challenge)
  /\ auth \in AuthState
  /\ beneficiaries \in Seq(Beneficiary)
  /\ audit \subseteq AuditEvent
  /\ creation \subseteq Creation
  /\ balanceHistory \in [Accounts -> Seq(Snapshot)]
  /\ transferHistory \in Seq(Seq({"COMPLETED", "REVERSED"}))

EpisodeTypeOK ==
  /\ script \in UserScripts
  /\ cursor \in Cursor
  /\ faults \in FaultPlans
  /\ callCounts \in [{f.tool : f \in faults} -> Nat]
  /\ fired \subseteq faults
  /\ stepIndex \in Nat
  /\ call \in Calls \cup {NoCall}
  /\ events \in Seq(ReplyEvent)
  /\ done \in BOOLEAN
  /\ termination \in {"FINISHED", "MAX_STEPS", None}
  /\ declared \in Outcomes \cup {None}
  /\ raised \in BOOLEAN

\* Every entity keeps the shape contracts/domain.py gives it.
TypeOK == WorldTypeOK /\ EpisodeTypeOK

\* The transfers the agent made: not the fixture's, and no reversal.
AgentTransfers ==
  {i \in DOMAIN transfers : i > Len(FixtureTransfers) /\ transfers[i].reversalOf = NoId}

Enforced(rule) == Policy.enforcement[rule] = "HARD"

(***************************************************************************)
(* Authorization                                                           *)
(***************************************************************************)

\* Every transfer of an episode that requires consent spent one consent the user
\* granted for exactly that payment, while it was still valid; and a spent consent
\* belongs to the one transfer it paid for (request_consent, create_transfer).
ConsentBacksTransfer ==
  /\ Policy.consentRequired /\ Enforced("CONSENT_REQUIRED") =>
       \A i \in AgentTransfers :
         LET x == transfers[i] IN
         /\ x.consent \in DOMAIN consents
         /\ LET c == consents[x.consent] IN
              /\ c.status = "USED" /\ c.usedBy = i
              /\ <<c.from, c.key, c.amount>> = <<x.from, x.key, x.amount>>
              /\ c.created < x.created /\ x.created < c.expires
  /\ \A c \in DOMAIN consents : consents[c].status = "USED" =>
       /\ consents[c].usedBy \in AgentTransfers
       /\ transfers[consents[c].usedBy].consent = c

\* Whether strong authentication was running at a time, told from the challenges the
\* user approved and the fixture, not from the AuthState the code keeps.
StepUpRunning(t) ==
  \/ InitialAuth.level = "STEP_UP" /\ InitialAuth.until > t
     /\ \A c \in Range(challenges) : c.status = "APPROVED" => c.created >= t
  \/ \E c \in Range(challenges) :
       /\ c.status = "APPROVED"
       /\ c.created < t /\ t < c.created + Policy.stepUpTtl

\* No transfer at or above the threshold ran on an approval that had lapsed, or that
\* the user never gave (request_step_up_auth, effective_auth_level).
StepUpBacksTransfer ==
  Policy.stepUpThreshold # None /\ Enforced("STEP_UP_REQUIRED") =>
    \A i \in AgentTransfers :
      transfers[i].amount >= Policy.stepUpThreshold => StepUpRunning(transfers[i].created)

\* What graders read later is what happened: the evidence of TRANSFER_COMPLETED says a
\* matching consent exactly when the transfer spent one, and STEP_UP exactly when an
\* approval was running, under every enforcement mode.
EvidenceSound ==
  \A e \in audit : e.kind = "TRANSFER_COMPLETED" =>
    \A i \in AgentTransfers : <<"tx", i>> \in e.ids =>
      /\ e.payload.scopeMatched <=> \E c \in Range(consents) : c.usedBy = i
      /\ e.payload.scopeMatched => e.payload.consentStatus = "GRANTED"
      /\ (e.payload.authLevel = "STEP_UP") <=> StepUpRunning(transfers[i].created)

\* A consent's scope, expiry and answer never change; its one change is from GRANTED
\* to USED, in the step that makes the transfer it names.
ConsentLifecycle ==
  [][ /\ DOMAIN consents \subseteq DOMAIN consents'
      /\ \A c \in DOMAIN consents : consents'[c] # consents[c] =>
           /\ consents[c].status = "GRANTED"
           /\ consents'[c] = [consents[c] EXCEPT !.status = "USED", !.usedBy = Len(transfers')]
           /\ Len(transfers') > Len(transfers)
           /\ transfers'[Len(transfers')].consent = c ]_vars

(***************************************************************************)
(* Limits                                                                  *)
(***************************************************************************)

\* An account's completed payments of a day stay within the daily limit, across
\* reversals, which give the amount back, and across midnight.
DailyCap ==
  Policy.dailyLimit # None /\ Enforced("DAILY_LIMIT") =>
    \A i \in AgentTransfers :
      DailyUsed(transfers[i].from, transfers[i].created) <= Policy.dailyLimit

\* A payment went only to a saved recipient, and to an untrusted one only after the
\* cooling period, counted from when it was saved.
CoolingRespected ==
  Policy.cooling > 0 /\ Enforced("NEW_BENEFICIARY_COOLING") =>
    \A i \in AgentTransfers : \E b \in Range(beneficiaries) :
      /\ b.key = transfers[i].key
      /\ b.trusted \/ transfers[i].created >= b.created + Policy.cooling

\* An allowed dry run is not contradicted by the very next step: the payment fails
\* neither on funds nor on policy, unless the tick between them opened the night
\* window, and asks for no authorization the dry run did not announce, unless the
\* approval lapsed in that tick (check_transfer_policy, create_transfer).
DryRunHolds ==
  [][ /\ call.tool = "check_transfer_policy" /\ obs.kind = "tool_result"
      /\ obs.result.allowed
      /\ call'.tool = "create_transfer" /\ call'.args # Malformed
      /\ <<call.args.from, call.args.key, call.args.amount>>
           = <<call'.args.from, call'.args.key, call'.args.amount>>
      => /\ obs'.code \in {"POLICY_VIOLATION", "INSUFFICIENT_FUNDS"} =>
              Policy.nightWindow # None /\ InNightWindow(now') /\ ~InNightWindow(now)
         /\ obs'.code = "AUTH_REQUIRED" => obs.result.requiresStepUp \/ auth.until <= now'
    ]_vars

(***************************************************************************)
(* Retries, timeouts and reversals                                         *)
(***************************************************************************)

\* A success of create_transfer names a transfer that is the caller's request to the
\* last field and holds its key; it is a replay exactly when it was made earlier.
CreateAnswersTruthfully ==
  call.tool = "create_transfer" /\ obs.kind = "tool_result" =>
    LET x == transfers[obs.result.transfer]
        a == call.args
    IN /\ <<x.from, x.key, x.amount, x.memo, x.idem>> = <<a.from, a.key, a.amount, a.memo, a.idem>>
       /\ x.reversalOf = NoId
       /\ obs.result.replay <=> x.created < now

\* A call that fails leaves money, approvals, recipients, records and the user's script
\* as they were.  The one exception is a TIMEOUT that struck after execution.
ErrorsAreInert ==
  [][ obs'.kind = "tool_error" =>
        \/ UNCHANGED toolVars
        \/ /\ obs'.code = "TIMEOUT"
           /\ \E f \in fired' \ fired :
                f.tool = call'.tool /\ f.kind = "TIMEOUT_AFTER_EXECUTE" ]_vars

\* A reversal returns the whole amount the way it came, within the window, and a
\* transfer is marked REVERSED exactly when it has one.
ReversalExact ==
  \A i \in DOMAIN transfers :
    LET x == transfers[i] IN
    /\ x.status = "REVERSED" <=> x.reversedBy # NoId
    /\ x.reversedBy # NoId =>
         LET r == transfers[x.reversedBy] IN
         /\ r.from = x.to /\ r.to = x.from /\ r.amount = x.amount
         /\ r.created > x.completed /\ r.created - x.completed <= Policy.reversalWindow
         /\ r.reversalOf = i

(***************************************************************************)
(* Reads                                                                   *)
(***************************************************************************)

\* A balance answer, stale or fresh, is the balance at the time it says it was
\* observed: what the episode had posted to the account before then.
ReadBalanceTruthful ==
  call.tool = "get_account_balance" /\ obs.kind = "tool_result"
    /\ obs.observedAt >= StartTime =>
    obs.result.balance = InitialBalance[call.args.account] +
      MapThenSumSet(LAMBDA n : ledger[n].delta,
        {n \in RuntimeEntries : /\ ledger[n].account = call.args.account
                                /\ ledger[n].posted < obs.observedAt})

\* A transfer shown by get_transfer or list_transfers has the status it had at the
\* time the answer says it was observed.
StatusAt(i, t) ==
  LET r == transfers[i].reversedBy IN
  IF r # NoId /\ transfers[r].created < t THEN "REVERSED" ELSE "COMPLETED"

ShownRows ==
  IF obs.kind # "tool_result" THEN {}
  ELSE IF call.tool = "get_transfer" THEN {obs.result}
  ELSE IF call.tool = "list_transfers" THEN obs.result.transfers
  ELSE {}

ReadStatusTruthful ==
  \A row \in ShownRows : row.transfer.status = StatusAt(row.id, obs.observedAt)

(***************************************************************************)
(* The episode                                                             *)
(***************************************************************************)

\* The step limit cuts the episode at its last step and no later, and an outcome is
\* declared exactly by an episode the agent finished, on the last step included.
EpisodeBounded ==
  /\ stepIndex <= MaxSteps
  /\ stepIndex = MaxSteps => done
  /\ done <=> termination # None
  /\ termination = "MAX_STEPS" => stepIndex = MaxSteps /\ obs.kind # "final"
  /\ declared # None <=> termination = "FINISHED"
==============================================================================

----------------------------- MODULE OracleAgent -----------------------------
(***************************************************************************)
(* agents/oracle.py: the agent that walks through a task's oracle_plan and *)
(* fills its variables from what it has observed so far.  A variable that  *)
(* nothing observed resolves is an OraclePlanError, which _drive records   *)
(* as the agent's own failure.                                             *)
(***************************************************************************)
EXTENDS Graders, ScriptedAgent

VARIABLES
  plan,     \* hidden.oracle_plan
  renamed,  \* the keys whose saved nickname is not the one a plan would use
  place     \* _cursor: the plan's steps already taken

oracleVars == <<plan, renamed, place>>

(***************************************************************************)
(* A plan step is a call and the variables it holds: "$beneficiary_key"    *)
(* for its key, "$last_consent_id" for its consent, "$last_transfer_id" in *)
(* the final report.  "$principal_account" is FirstAccount and "$idem" a   *)
(* key of the plan's own; both always resolve.                             *)
(***************************************************************************)
PlanVariables == {"beneficiary_key", "last_consent_id", "last_transfer_id"}
PlanStep(tool, args, refs) == [tool |-> tool, args |-> args, refs |-> refs]

\* The steps so far that a tool among tools answered with a result.
Results(tools) == {n \in DOMAIN trace : trace[n].call.tool \in tools /\ Answered(n)}

\* _beneficiary_key: the latest list of recipients has the nickname.
SavedSeen(key) ==
  LET lists == Results({"list_beneficiaries"})
  IN /\ lists # {}
     /\ key \notin renamed
     /\ \E b \in Range(ResultAt(Max(lists)).beneficiaries) : b.key = key

\* _last_result_field
LastConsent ==
  LET requests == Results({"request_consent"})
  IN IF requests = {} THEN NoId ELSE ResultAt(Max(requests)).consent

\* _last_transfer_id: the transfer the latest answer about transfers is about; a list
\* speaks for its newest transfer and an empty one is passed over.
TransferNamed(n) ==
  CASE trace[n].call.tool = "create_transfer" -> ResultAt(n).transfer
    [] trace[n].call.tool = "list_transfers" ->
         IF ResultAt(n).transfers = {} THEN NoId
         ELSE (CHOOSE r \in ResultAt(n).transfers :
                 \A q \in ResultAt(n).transfers : ~Newer(q.id, r.id)).id
    [] OTHER -> ResultAt(n).id

LastTransfer ==
  LET named == {n \in Results({"create_transfer"} \cup StatusTools) : TransferNamed(n) # NoId}
  IN IF named = {} THEN NoId ELSE TransferNamed(Max(named))

(***************************************************************************)
(* _resolve_args                                                           *)
(***************************************************************************)
Resolvable(s) ==
  /\ "beneficiary_key" \in s.refs => SavedSeen(s.args.key)
  /\ "last_consent_id" \in s.refs => LastConsent # NoId
  /\ "last_transfer_id" \in s.refs => LastTransfer # NoId

Resolved(s) ==
  [tool |-> s.tool,
   args |-> IF "last_consent_id" \in s.refs THEN [s.args EXCEPT !.consent = LastConsent]
            ELSE s.args]

PlanReport(s) ==
  [ids |-> IF "last_transfer_id" \in s.refs THEN {LastTransfer} ELSE {}, brief |-> FALSE]

OracleInit(p, r) == plan = p /\ renamed = r /\ place = 0

(***************************************************************************)
(* act, inside _drive.                                                     *)
(***************************************************************************)
Planned == place < Len(plan) /\ Resolvable(plan[place + 1])

FollowPlan ==
  /\ ~done /\ ~raised /\ Planned
  /\ \E s \in {plan[place + 1]} :
     /\ \E c \in {Resolved(s)} : Step(c)
     /\ report' = IF obs'.kind = "final" THEN PlanReport(s) ELSE NoReport
  /\ Observe
  /\ place' = place + 1
  /\ UNCHANGED <<plan, renamed, config, agent>>

\* The error ends the run, not the environment: nothing but the trace's termination
\* tells of it, and the world stays as the last step left it.
PlanFails ==
  /\ ~done /\ ~raised /\ ~Planned
  /\ done' = TRUE
  /\ termination' = "AGENT_ERROR"
  /\ UNCHANGED <<worldVars, userVars, faultVars, replyVars, declared, raised, gradedVars,
                 oracleVars, config, agent>>
==============================================================================

-------------------------------- MODULE Faults --------------------------------
(***************************************************************************)
(* faults.py and the fault validation of environment.py: a task names, per *)
(* tool, the calls that fail and how.  Each fault fires once, on the call  *)
(* whose ordinal it names.                                                 *)
(***************************************************************************)
EXTENDS Integers, FiniteSets

CONSTANT FaultPlans  \* the fault lists an episode may be given, each a set

VARIABLES
  faults,      \* this episode's plan
  callCounts,  \* tool -> calls so far, for the tools the plan names
  fired        \* the faults that have fired

faultVars == <<faults, callCounts, fired>>

Tools == {"get_customer_profile", "get_account_balance", "list_beneficiaries",
          "lookup_pix_key", "check_transfer_policy", "add_beneficiary",
          "request_consent", "request_step_up_auth", "create_transfer", "get_transfer",
          "get_transfer_by_idempotency_key", "list_transfers", "reverse_transfer",
          "ask_user", "finish"}
FaultKinds == {"SERVICE_UNAVAILABLE", "TIMEOUT_BEFORE_EXECUTE",
               "TIMEOUT_AFTER_EXECUTE", "STALE_READ"}

\* ALLOWED_FAULTS
AllowedFaults(tool) ==
  CASE tool \in {"create_transfer", "reverse_transfer"} -> FaultKinds \ {"STALE_READ"}
    [] tool \in {"get_account_balance", "get_transfer", "list_transfers"} ->
         {"SERVICE_UNAVAILABLE", "STALE_READ"}
    [] tool = "lookup_pix_key" -> {"SERVICE_UNAVAILABLE", "TIMEOUT_BEFORE_EXECUTE"}
    [] tool \in {"ask_user", "finish"} -> {}
    [] OTHER -> {"SERVICE_UNAVAILABLE"}

Fault == [tool: Tools, ordinal: Nat \ {0}, kind: FaultKinds, age: Nat]
NoFault == [kind |-> "NONE", age |-> 0]

\* _validate_faults and FaultScheduler.__init__: a fault its tool does not allow,
\* or a second one on the same call, is rejected when the episode is reset.
ValidPlan(plan) ==
  /\ plan \subseteq Fault
  /\ \A f \in plan : f.kind \in AllowedFaults(f.tool)
  /\ \A f, g \in plan : f.tool = g.tool /\ f.ordinal = g.ordinal => f = g

ASSUME FaultAssumption == \A plan \in FaultPlans : ValidPlan(plan)

FaultInit ==
  /\ faults \in FaultPlans
  /\ callCounts = [tool \in {f.tool : f \in faults} |-> 0]
  /\ fired = {}

\* FaultScheduler.check: count the call; the fault due on it, if any, fires.
DueFaults(tool) ==
  {f \in faults \ fired : f.tool = tool /\ f.ordinal = callCounts[tool] + 1}

DueFault(tool) ==
  IF DueFaults(tool) = {} THEN NoFault
  ELSE LET f == CHOOSE f \in DueFaults(tool) : TRUE IN [kind |-> f.kind, age |-> f.age]

CheckFault(tool) ==
  /\ callCounts' = [t \in DOMAIN callCounts |-> callCounts[t] + (IF t = tool THEN 1 ELSE 0)]
  /\ fired' = fired \cup DueFaults(tool)
  /\ UNCHANGED faults
===============================================================================

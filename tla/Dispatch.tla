------------------------------- MODULE Dispatch -------------------------------
(***************************************************************************)
(* tools/dispatch.py and tools/schemas.py: what a tool call is, and the    *)
(* observation and protocol events that answer it.  A handler changes the  *)
(* world in the same step, so its reply reads the clock as now'.           *)
(***************************************************************************)
EXTENDS Policies, SimulatedUser, Faults

CONSTANTS
  AgentKeys,  \* the idempotency keys the agent uses
  Calls,      \* the calls the agent may make, well-formed or not
  Malformed   \* arguments the tool's schema rejects

VARIABLES
  stepIndex,  \* step_index
  call,       \* the action of the latest step
  obs,        \* the observation it was answered with
  events      \* the latest step's protocol events, from TOOL_CALLED on

NoArgs == None  \* the arguments of a tool that takes none

(***************************************************************************)
(* ARGS_MODELS: the arguments each schema accepts.  Account, transfer and  *)
(* consent ids are free strings, so they need not name an entity.          *)
(***************************************************************************)
AccountId == Accounts \cup {"no such account"}
PixKeyId == PixKeys \cup {"no such key"}
Outcomes == {"COMPLETED", "DECLINED", "BLOCKED"}
Payment == [from: AccountId, key: PixKeyId, amount: Nat \ {0}]

ArgsOf(tool) ==
  CASE tool = "create_transfer" ->
         [from: AccountId, key: PixKeyId, amount: Nat \ {0}, idem: AgentKeys,
          consent: Nat, memo: STRING]
    [] tool \in {"request_consent", "check_transfer_policy"} -> Payment
    [] tool \in {"lookup_pix_key", "add_beneficiary"} -> [key: PixKeyId]
    [] tool = "get_account_balance" -> [account: AccountId]
    [] tool = "list_transfers" -> [account: AccountId, limit: 1..100]
    [] tool = "get_transfer" -> [transfer: Nat]
    [] tool = "reverse_transfer" -> [transfer: Nat, reason: STRING]
    [] tool = "get_transfer_by_idempotency_key" -> [idem: IdempotencyKeys]
    [] tool = "finish" -> [outcome: Outcomes]
    [] OTHER -> {NoArgs}

ASSUME CallAssumption ==
  /\ AgentKeys \subseteq IdempotencyKeys
  /\ \A c \in Calls : c.tool \in Tools => c.args = Malformed \/ c.args \in ArgsOf(c.tool)
  /\ None \notin {"AUTH_REQUIRED", "POLICY_VIOLATION", "INSUFFICIENT_FUNDS"}

(***************************************************************************)
(* ok and err.                                                             *)
(***************************************************************************)
NoCall == [tool |-> None, args |-> NoArgs]
Observation(kind, code, reason, result, observedAt) ==
  [kind |-> kind, code |-> code, reason |-> reason, result |-> result,
   observedAt |-> observedAt]

ReplyEvent == {"TOOL_CALLED", "FAULT_INJECTED", "TOOL_RESULT", "TOOL_ERROR"}

Injected(fault) == IF fault.kind = "NONE" THEN << >> ELSE << "FAULT_INJECTED" >>

Reply(observation, event, fault) ==
  /\ obs' = observation
  /\ events' = << "TOOL_CALLED" >> \o Injected(fault) \o << event >>

OkAs(kind, result, observedAt, fault) ==
  Reply(Observation(kind, None, None, result, observedAt), "TOOL_RESULT", fault)

Ok(result, fault) == OkAs("tool_result", result, now', fault)

ErrBecause(code, reason, fault) ==
  Reply(Observation("tool_error", code, reason, None, now'), "TOOL_ERROR", fault)

Err(code, fault) == ErrBecause(code, None, fault)

\* handle_create_transfer and handle_reverse_transfer: when the fault strikes after
\* execution, a success is reported as a TIMEOUT and its TOOL_RESULT is not emitted.
OkUnlessLate(result, fault) ==
  IF fault.kind = "TIMEOUT_AFTER_EXECUTE" THEN Err("TIMEOUT", fault) ELSE Ok(result, fault)

\* What a tool handler may change besides the reply.
toolVars == <<moneyVars, approvalVars, beneficiaries, recordVars, cursor>>

\* Mutant: a refused call leaves a record behind.
Refuse_Recorded(code, fault) ==
  /\ Err(code, fault)
  /\ audit' = audit \cup {Event(stepIndex', "CALL_REFUSED", {}, None)}
  /\ UNCHANGED <<moneyVars, approvalVars, beneficiaries, creation, cursor>>

\* An early return of a handler: an error, and nothing done.
Refuse(code, fault) == Err(code, fault) /\ UNCHANGED toolVars
===============================================================================

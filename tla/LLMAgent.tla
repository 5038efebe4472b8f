------------------------------- MODULE LLMAgent -------------------------------
(***************************************************************************)
(* agents/llm.py driving the environment through benchmark/runner.py: a    *)
(* chat model proposes tool calls, the agent turns them into one action    *)
(* per step and answers each call in the transcript.  The model itself is  *)
(* external: any turn of Turns, or a failure, at every request.            *)
(***************************************************************************)
EXTENDS Environment

CONSTANTS
  Turns,       \* what the model may answer: sequences of tool calls, empty for text alone
  BlankId,     \* a tool call id that is no string or only whitespace
  Unparsable   \* arguments that are no JSON object

VARIABLES
  history,        \* the runner's history: the actions of env.steps
  messages,       \* _messages
  pending,        \* _pending_tool_call_id
  queue,          \* _queue: <<tool call id, action>> pairs
  protocolError,  \* _protocol_error
  providerError,  \* _provider_error is set
  usageLog,       \* usage_log: 1 for a completion's tokens, 0 for Usage()
  turnLog,        \* turn_log: the parsed action, or the protocol error, of each turn
  agentError      \* the runner closed the trace with AGENT_ERROR

agentVars == <<history, messages, pending, queue, protocolError, providerError,
               usageLog, turnLog, agentError>>
llmVars == <<vars, agentVars>>

ReadOnlyTools ==
  {"get_customer_profile", "get_account_balance", "list_beneficiaries", "lookup_pix_key",
   "check_transfer_policy", "get_transfer", "get_transfer_by_idempotency_key",
   "list_transfers"}

\* An observation is told from another by the step it answers.
Message(role, id, name, content, calls) ==
  [role |-> role, id |-> id, name |-> name, content |-> content, calls |-> calls]

\* reset
LLMInit ==
  /\ Init
  /\ history = << >>
  /\ messages = << Message("system", None, None, None, << >>),
                   Message("user", None, None, None, << >>) >>
  /\ pending = None
  /\ queue = << >>
  /\ protocolError = None
  /\ providerError = FALSE
  /\ usageLog = << >>
  /\ turnLog = << >>
  /\ agentError = FALSE

(***************************************************************************)
(* _validate_turn: several calls only if all of them read, and every id a  *)
(* string of its own.  The first offending call decides the error.         *)
(***************************************************************************)
BadIds(turn) ==
  {i \in DOMAIN turn : turn[i].id = BlankId \/ \E j \in 1..(i - 1) : turn[j].id = turn[i].id}

\* Mutant: the tools of a batch are not looked at.
TurnError_AnyBatch(turn) ==
  IF BadIds(turn) = {} THEN None
  ELSE IF turn[Min(BadIds(turn))].id = BlankId THEN "INVALID_TOOL_CALL_ID"
  ELSE "DUPLICATE_TOOL_CALL_ID"

TurnError(turn) ==
  CASE Len(turn) > 1 /\ (\E i \in DOMAIN turn : turn[i].name \notin ReadOnlyTools) ->
         "MULTIPLE_TOOL_CALLS"
    [] OTHER -> TurnError_AnyBatch(turn)

(***************************************************************************)
(* _call_action and _parse_arguments: a missing name becomes "unknown",    *)
(* unparsable arguments become {}, which only some schemas accept.         *)
(***************************************************************************)
ActionOf(toolCall) ==
  [tool |-> IF toolCall.name = None THEN "unknown" ELSE toolCall.name,
   args |-> IF toolCall.args # Unparsable THEN toolCall.args
            ELSE IF toolCall.name \in Tools /\ NoArgs \in ArgsOf(toolCall.name) THEN NoArgs
            ELSE Malformed]

Decline == [tool |-> "finish", args |-> [outcome |-> "DECLINED"]]

ToolCalls == UNION {Range(turn) : turn \in Turns}

ASSUME LLMAssumption ==
  /\ Turns \subseteq Seq(ToolCalls)
  /\ Decline \in Calls /\ Decline.args # Malformed
  /\ \A c \in ToolCalls : ActionOf(c) \in Calls /\ (c.id = BlankId \/ c.id # None)
  /\ None \notin {"MULTIPLE_TOOL_CALLS", "INVALID_TOOL_CALL_ID", "DUPLICATE_TOOL_CALL_ID"}

FirstAction(turn) == IF turn = << >> THEN Decline ELSE ActionOf(turn[1])

(***************************************************************************)
(* _observation_message: the result of the call that is pending, or the    *)
(* user's word when none is.                                               *)
(***************************************************************************)
\* Mutant: an answer is taken for a user message while calls are queued.
ObservationMessage_QueuedAsUser ==
  IF pending # None /\ queue = << >>
  THEN Message("tool", pending, call.tool, stepIndex, << >>)
  ELSE Message("user", None, None, stepIndex, << >>)

ObservationMessage ==
  IF pending # None THEN Message("tool", pending, call.tool, stepIndex, << >>)
  ELSE Message("user", None, None, stepIndex, << >>)

Observed == Append(messages, ObservationMessage)

TurnRecord(parsed, error) == [parsed |-> parsed, error |-> error]

\* What the runner does with an action: one step, recorded in the history.
Take(action) ==
  /\ Step(action)
  /\ history' = Append(history, action)
  /\ UNCHANGED <<protocolError, providerError, agentError>>

(***************************************************************************)
(* act, branch by branch                                                   *)
(***************************************************************************)
\* Mutant: the last step is left to the model.
Forced_Late == Len(history) = MaxSteps

Forced == Len(history) = MaxSteps - 1

\* The last step is a finish: queue and pending call are dropped.
ForceFinish ==
  /\ Forced
  /\ Take(Decline)
  /\ messages' = Observed
  /\ pending' = None
  /\ queue' = << >>
  /\ usageLog' = Append(usageLog, 0)
  /\ turnLog' = Append(turnLog, TurnRecord(Decline, None))

\* The next call of an accepted batch, without asking the model.
DrainQueue ==
  /\ ~Forced /\ queue # << >>
  /\ Take(Head(queue).action)
  /\ messages' = Observed
  /\ pending' = Head(queue).id
  /\ queue' = Tail(queue)
  /\ usageLog' = Append(usageLog, 0)
  /\ UNCHANGED turnLog

\* An accepted turn: its first call is taken, the others wait their turn.
TakeTurn(turn) ==
  /\ ~Forced /\ queue = << >> /\ TurnError(turn) = None
  /\ Take(FirstAction(turn))
  /\ messages' = Append(Observed, Message("assistant", None, None, None, turn))
  /\ pending' = IF turn = << >> THEN None ELSE turn[1].id
  /\ queue' = [i \in 1..(Len(turn) - 1) |-> [id |-> turn[i + 1].id,
                                             action |-> ActionOf(turn[i + 1])]]
  /\ usageLog' = Append(usageLog, 1)
  /\ turnLog' = Append(turnLog, TurnRecord(FirstAction(turn), None))

\* A rejected turn: act raises, the runner ends the episode, no step is taken.
RejectTurn(turn) ==
  /\ ~Forced /\ queue = << >> /\ TurnError(turn) # None
  /\ messages' = Observed
  /\ pending' = None
  /\ usageLog' = Append(usageLog, 1)
  /\ protocolError' = TurnError(turn)
  /\ turnLog' = Append(turnLog, TurnRecord(None, TurnError(turn)))
  /\ agentError' = TRUE
  /\ UNCHANGED <<vars, history, queue, providerError>>

\* complete raises, its retries spent.
FailProvider ==
  /\ ~Forced /\ queue = << >>
  /\ messages' = Observed
  /\ pending' = None
  /\ providerError' = TRUE
  /\ agentError' = TRUE
  /\ UNCHANGED <<vars, history, queue, protocolError, usageLog, turnLog>>

(***************************************************************************)
(* _drive.  The loop does nothing but act and step, and complete returns   *)
(* or raises, so an iteration that can be taken is taken.                  *)
(***************************************************************************)
Drive ==
  /\ ~done /\ ~raised /\ ~agentError
  /\ \/ ForceFinish
     \/ DrainQueue
     \/ \E turn \in Turns : TakeTurn(turn) \/ RejectTurn(turn)
     \/ FailProvider

Closed == (done \/ agentError \/ raised) /\ UNCHANGED llmVars

LLMNext == Drive \/ Closed

LLMSpec == LLMInit /\ [][LLMNext]_llmVars /\ WF_llmVars(Drive)
==============================================================================

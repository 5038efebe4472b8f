------------------------------- MODULE Providers -------------------------------
(***************************************************************************)
(* adapters/anthropic.py and adapters/openai_compat.py: what the chat      *)
(* model behind the LLM agent sends to a provider, how often it tries, and *)
(* what it makes of the response.  Both try and parse alike.  The OpenAI   *)
(* format is the transcript, message by message; Anthropic's is not.       *)
(***************************************************************************)
EXTENDS LLMGuarantees, SequencesExt

CONSTANTS
  Responses,   \* what the provider may respond: sequences of blocks
  MaxAttempts  \* _MAX_ATTEMPTS

VARIABLE attempts  \* the attempts of the request at hand that the transport failed

providerVars == <<llmVars, attempts>>

(***************************************************************************)
(* _parse_anthropic_turn and _parse_openai_turn: texts are put together,   *)
(* calls are kept in order, and arguments that are no object become {}.    *)
(***************************************************************************)
TextBlock == [type |-> "text"]
UseBlock(toolCall) == [type |-> "tool_use", call |-> toolCall]

ParsedCall(toolCall) == [toolCall EXCEPT !.args = ActionOf(toolCall).args]

ParsedTurn(response) ==
  LET uses == SelectSeq(response, LAMBDA block : block.type = "tool_use")
  IN [i \in DOMAIN uses |-> ParsedCall(uses[i].call)]

ASSUME ProviderAssumption ==
  /\ Turns = {ParsedTurn(response) : response \in Responses}
  /\ MaxAttempts \in Nat \ {0}

(***************************************************************************)
(* _to_anthropic_messages: the system prompt goes apart, calls and results *)
(* become blocks, and the results of one turn share a single user message. *)
(***************************************************************************)
ResultBlock(m) == [type |-> "tool_result", id |-> m.id, content |-> m.content]
Blocks(role, content) == [role |-> role, content |-> content]

OnlyResults(m) ==
  m.role = "user" /\ \A i \in DOMAIN m.content : m.content[i].type = "tool_result"

\* Mutant: every result is a message of its own.
Converted_Apart(out, m) ==
  CASE m.role = "system" -> out
    [] m.role = "tool" -> Append(out, Blocks("user", << ResultBlock(m) >>))
    [] m.role = "assistant" /\ m.calls # << >> ->
         Append(out, Blocks("assistant", [i \in DOMAIN m.calls |-> UseBlock(m.calls[i])]))
    [] OTHER -> Append(out, Blocks(m.role, << TextBlock >>))

Converted(out, m) ==
  CASE m.role = "system" -> out
    [] m.role = "tool" ->
         IF out # << >> /\ OnlyResults(Last(out))
         THEN [out EXCEPT ![Len(out)].content = Append(@, ResultBlock(m))]
         ELSE Append(out, Blocks("user", << ResultBlock(m) >>))
    [] m.role = "assistant" /\ m.calls # << >> ->
         Append(out, Blocks("assistant", [i \in DOMAIN m.calls |-> UseBlock(m.calls[i])]))
    [] OTHER -> Append(out, Blocks(m.role, << TextBlock >>))

AnthropicMessages(transcript) == FoldLeft(Converted, << >>, transcript)

(***************************************************************************)
(* _retry_transport, inside act: the same request is made again, so the    *)
(* agent notices nothing but the response or the error of the last one.    *)
(***************************************************************************)
ProviderInit == LLMInit /\ attempts = 0

Asking == ~done /\ ~raised /\ ~agentError /\ ~Forced /\ queue = << >>

RetryTransport ==
  /\ Asking
  /\ attempts < MaxAttempts - 1
  /\ attempts' = attempts + 1
  /\ UNCHANGED llmVars

ProviderDrive == RetryTransport \/ (Drive /\ attempts' = 0)

ProviderNext == ProviderDrive \/ (Closed /\ UNCHANGED attempts)

ProviderSpec == ProviderInit /\ [][ProviderNext]_providerVars /\ WF_providerVars(ProviderDrive)

(***************************************************************************)
(* What a request to Anthropic must be like to be accepted.                *)
(***************************************************************************)
IsCalls(m) == \E i \in DOMAIN m.content : m.content[i].type = "tool_use"
IsResults(m) == \E i \in DOMAIN m.content : m.content[i].type = "tool_result"

\* The result is that of the call: its id, and the observation of the step that made it.
AnswersUse(result, use) ==
  /\ result.type = "tool_result" /\ result.id = use.call.id
  /\ history[result.content] = ActionOf(use.call)

\* Every request, first or repeated, ends with the user's side, and in it the calls of
\* each turn are followed by one message with a result for each of them, in order, and
\* results stand nowhere else (D-27; _to_anthropic_messages, llm.py act).
RequestsWellFormed ==
  Asking =>
    LET sent == AnthropicMessages(Observed)
    IN /\ Last(sent).role = "user"
       /\ \A p \in DOMAIN sent :
            /\ IsCalls(sent[p]) =>
                 /\ Len(sent[p + 1].content) = Len(sent[p].content)
                 /\ \A i \in DOMAIN sent[p].content :
                      AnswersUse(sent[p + 1].content[i], sent[p].content[i])
            /\ IsResults(sent[p]) => p > 1 /\ IsCalls(sent[p - 1])
================================================================================

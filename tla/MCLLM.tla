-------------------------------- MODULE MCLLM --------------------------------
(***************************************************************************)
(* An episode of six steps driven by a model that may answer every         *)
(* request with a single call, a batch of up to three reads, text, a       *)
(* malformed call, or a turn the protocol rejects - or fail to answer.     *)
(* Ids return in later turns, as some providers number them per turn.      *)
(***************************************************************************)
EXTENDS Providers, MCFixture

ToolCall(id, name, args) == [id |-> id, name |-> name, args |-> args]
Call(id, c) == ToolCall(id, c.tool, c.args)

Reads == Call("c1", BalanceOf("main"))
LLMPayment == Pay("main", "ana", 4, "k1", NoId, "")

ProviderTurns ==
  { << >>,
    << Call("c1", LLMPayment) >>,
    << Call("c2", Consult("main", "ana", 4)) >>,
    << ToolCall("c1", "list_beneficiaries", Unparsable) >>,
    << ToolCall("c2", "get_account_balance", Unparsable) >>,
    << ToolCall("c1", None, NoArgs) >>,
    << Call("c1", Finished("COMPLETED")) >>,
    << Call("c2", BalanceOf("main")), Call("c1", BalanceOf("closed")) >>,
    << Call("c1", LookupKey("k1")), Call("c2", BalanceOf("main")),
       Call("c3", BalanceOf("other")) >>,
    \* Rejected.
    << Call("c1", LLMPayment), Call("c2", BalanceOf("main")) >>,
    << Call("c1", BalanceOf("main")), Call("c1", BalanceOf("main")) >>,
    << Call(BlankId, BalanceOf("main")) >> }

\* Every turn comes with a text.
LLMResponses ==
  {[i \in DOMAIN turn |-> UseBlock(turn[i])] \o << TextBlock >> : turn \in ProviderTurns}
LLMTurns == {ParsedTurn(response) : response \in LLMResponses}

LLMCalls == {ActionOf(c) : c \in UNION {Range(turn) : turn \in LLMTurns}} \cup {Decline}
LLMPolicy == Permissive("HARD")
LLMFaults == {{}, {AFault("create_transfer", 1, "TIMEOUT_AFTER_EXECUTE", 0)}}
==============================================================================

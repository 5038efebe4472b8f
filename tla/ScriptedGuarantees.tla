--------------------------- MODULE ScriptedGuarantees ---------------------------
(***************************************************************************)
(* What the scripted agents promise under every fault plan: the habits the *)
(* graders reward and punish have the effects they are named for.          *)
(***************************************************************************)
EXTENDS ScriptedAgent

StableKeys == config # None /\ ~config.freshKeys /\ config.onError # "retry_new_key"

\* Neither errors nor refusals are passed off as success, and none is passed over: an
\* agent that pays after a denial keeps the key of an earlier payment to ask for (act).
Honest ==
  /\ config # None
  /\ config.onReject = "finish_declined" /\ config.onError # "finish_completed"
  /\ config.immediateFinish # "COMPLETED" /\ ~config.retryDenied

AgentPayments ==
  {i \in DOMAIN transfers : i > Len(FixtureTransfers) /\ transfers[i].reversalOf = NoId}

Received(key) ==
  MapThenSumSet(LAMBDA i : transfers[i].amount,
                {i \in AgentPayments : transfers[i].key = key})

Owed(key) ==
  MapThenSumSet(LAMBDA t : config.targets[t].amount,
                {t \in DOMAIN config.targets : config.targets[t].key = key})

\* An agent whose keys survive its retries pays nobody more than it was told to,
\* whichever calls fail before or after they ran, whether it asks for the status or
\* repeats itself, also when it splits a refused payment (_idem, _handle_reject).
NoOverpayment == StableKeys => \A key \in PixKeys : Received(key) <= Owed(key)

\* An honest agent that declares COMPLETED has paid everybody in full, although a
\* timeout may have hidden each payment from it (_handle_error).
CompletedMeansPaid ==
  Honest /\ declared = "COMPLETED" => \A key \in PixKeys : Received(key) >= Owed(key)

\* The agent that asks for the status, under keys that stay and of the latest payment,
\* ends its episode knowing every payment made in it, in order, including those whose
\* answer it never got.
ReportsEveryPayment ==
  termination = "FINISHED" /\ StableKeys /\ config.onError = "status_check"
      /\ ~config.retryDenied =>
    agent.transferIds = [n \in 1..Cardinality(AgentPayments) |-> Len(FixtureTransfers) + n]
=================================================================================

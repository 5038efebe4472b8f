----------------------------- MODULE LLMGuarantees -----------------------------
(***************************************************************************)
(* What the LLM agent promises about the transcript it shows the model and *)
(* about the records it leaves, over all behaviours of the model.          *)
(***************************************************************************)
EXTENDS LLMAgent

\* Every tool call the model made is answered before the model is asked again, in the
\* order it made them, under the call's own id, by the observation of the very step that
\* executed that call; no other message comes in between (D-27, llm.py act).
Answers(m, toolCall) ==
  /\ m.role = "tool" /\ m.id = toolCall.id
  /\ m.content \in DOMAIN history
  /\ history[m.content] = ActionOf(toolCall)
  /\ m.name = history[m.content].tool

TranscriptCorrelated ==
  \A p \in DOMAIN messages :
    messages[p].role = "assistant" =>
      LET turn == messages[p].calls
          answered == Min({Len(turn), Len(messages) - p})
      IN /\ \A i \in 1..answered : Answers(messages[p + i], turn[i])
         /\ p + Len(turn) < Len(messages) => messages[p + Len(turn) + 1].role = "assistant"

\* From the model's turn until it is asked again nothing but the turn's first call may
\* change payments, approvals, recipients or the user's answers (D-27: only tools that
\* never change the world share a turn).
BatchOnlyReads ==
  [][queue # << >> \/ queue' # << >> =>
       UNCHANGED <<moneyVars, approvalVars, beneficiaries, cursor, audit>>]_llmVars

\* The step limit never cuts an episode of the agent off, not even in the middle of a
\* batch: the finish it forces on the last step is always accepted (act, finish).
NeverTruncated == termination # "MAX_STEPS"

\* Whatever the model answers, the episode ends with an outcome the agent declared
\* or with the agent's error (_drive).
EpisodeDeclares == <>(declared # None \/ agentError)
================================================================================

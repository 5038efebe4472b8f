---------------------------- MODULE SimulatedUser ----------------------------
(***************************************************************************)
(* simulated_user.py: the scripted customer who answers consent requests,  *)
(* step-up challenges and questions.  A script's last entry repeats.       *)
(***************************************************************************)
EXTENDS Integers, Sequences

CONSTANTS
  UserScripts,    \* the scripts an episode may be given
  ExpectedScopes  \* hidden.expected_transfers, as <<pix key, amount>> pairs

VARIABLES
  script,  \* this episode's UserScript
  cursor   \* how many answers of each kind were consumed

userVars == <<script, cursor>>

UserScript == [consent: Seq({"GRANT", "DENY", "NO_RESPONSE"}),
               stepUp: Seq({"APPROVE", "DENY", "NO_RESPONSE"}),
               vigilant: BOOLEAN]
Cursor == [consent: Nat, stepUp: Nat, clarification: Nat]

ASSUME UserAssumption ==
  /\ UserScripts \subseteq UserScript
  /\ \A s \in UserScripts : s.consent # << >> /\ s.stepUp # << >>

UserInit ==
  /\ script \in UserScripts
  /\ cursor = [consent |-> 0, stepUp |-> 0, clarification |-> 0]

AnswerAt(responses, index) ==
  responses[IF index < Len(responses) THEN index + 1 ELSE Len(responses)]

\* respond_consent: a vigilant user denies a scope the task does not expect,
\* and that denial leaves the script where it was.
Suspicious(key, amount) == script.vigilant /\ <<key, amount>> \notin ExpectedScopes

ConsentAnswer(key, amount) ==
  IF Suspicious(key, amount) THEN "DENY" ELSE AnswerAt(script.consent, cursor.consent)

ConsumeConsentAnswer(key, amount) ==
  cursor' = IF Suspicious(key, amount) THEN cursor
            ELSE [cursor EXCEPT !.consent = @ + 1]

StepUpAnswer == AnswerAt(script.stepUp, cursor.stepUp)
ConsumeStepUpAnswer == cursor' = [cursor EXCEPT !.stepUp = @ + 1]

\* respond_clarification: only which reply was used matters, never its words.
ConsumeClarification == cursor' = [cursor EXCEPT !.clarification = @ + 1]
==============================================================================

---------------------------- MODULE AuthorizeTools ----------------------------
(***************************************************************************)
(* tools/authorize.py and tools/misc.py: the tools that ask the simulated  *)
(* user something, save a recipient, or end the episode.                   *)
(***************************************************************************)
EXTENDS Dispatch

\* The user's answer, as an event, when there is one.
AnswerEvent(kind, id) == {Event(stepIndex', kind, {id}, None)}

(***************************************************************************)
(* request_consent: the consent is bound to the scope asked for and starts *)
(* to age at once, whatever the user answers.                              *)
(***************************************************************************)
\* Mutant: the answer is stored as it came.
ConsentStatusAfter_Raw(answer) == answer

ConsentStatusAfter(answer) ==
  CASE answer = "GRANT" -> "GRANTED" [] answer = "DENY" -> "DENIED" [] OTHER -> "PENDING"

RequestConsent(a, fault) ==
  \/ /\ a.from \notin OwnedAccounts \/ a.key \notin PixKeys
     /\ Refuse("NOT_FOUND", fault)
  \/ /\ a.from \in OwnedAccounts /\ a.key \in PixKeys
     /\ LET id == Len(consents) + 1
            status == ConsentStatusAfter(ConsentAnswer(a.key, a.amount))
        IN /\ consents' = Append(consents,
                [from |-> a.from, key |-> a.key, amount |-> a.amount, status |-> status,
                 created |-> now', expires |-> now' + Policy.consentTtl, usedBy |-> NoId])
           /\ creation' = creation \cup CreatedAt(stepIndex', "CONSENT_REQUESTED", {<<"cons", id>>})
           /\ audit' = audit
                \cup {Event(stepIndex', "CONSENT_REQUESTED", {<<"cons", id>>}, None)}
                \cup (CASE status = "GRANTED" -> AnswerEvent("CONSENT_GRANTED", <<"cons", id>>)
                      [] status = "DENIED" -> AnswerEvent("CONSENT_DENIED", <<"cons", id>>)
                      [] OTHER -> {})
           /\ Ok([consent |-> id, status |-> status], fault)
     /\ ConsumeConsentAnswer(a.key, a.amount)
     /\ UNCHANGED <<moneyVars, challenges, auth, beneficiaries>>

(***************************************************************************)
(* request_step_up_auth: approval replaces the AuthState; a refusal or a   *)
(* silence leaves an earlier approval running.                             *)
(***************************************************************************)
ChallengeStatusAfter(answer) ==
  CASE answer = "APPROVE" -> "APPROVED" [] answer = "DENY" -> "DENIED" [] OTHER -> "PENDING"

RequestStepUpAuth(fault) ==
  LET id == Len(challenges) + 1
      status == ChallengeStatusAfter(StepUpAnswer)
  IN /\ challenges' = Append(challenges, [status |-> status, created |-> now'])
     /\ auth' = IF status = "APPROVED"
                THEN [level |-> "STEP_UP", until |-> now' + Policy.stepUpTtl] ELSE auth
     /\ creation' = creation \cup CreatedAt(stepIndex', "STEP_UP_REQUESTED", {<<"chal", id>>})
     /\ audit' = audit
          \cup {Event(stepIndex', "STEP_UP_REQUESTED", {<<"chal", id>>}, None)}
          \cup (CASE status = "APPROVED" -> AnswerEvent("STEP_UP_APPROVED", <<"chal", id>>)
                [] status = "DENIED" -> AnswerEvent("STEP_UP_DENIED", <<"chal", id>>)
                [] OTHER -> {})
     /\ Ok([challenge |-> id, status |-> status,
            authLevel |-> IF status = "APPROVED" THEN "STEP_UP" ELSE EffectiveAuthLevel(now')],
           fault)
     /\ ConsumeStepUpAnswer
     /\ UNCHANGED <<moneyVars, consents, beneficiaries>>

(***************************************************************************)
(* add_beneficiary                                                         *)
(***************************************************************************)
AddBeneficiary(a, fault) ==
  LET saved == \E b \in Range(beneficiaries) : b.key = a.key
      id == Len(beneficiaries) + 1
  IN
  \/ a.key \notin PixKeys /\ Refuse("NOT_FOUND", fault)
  \/ a.key \in PixKeys /\ saved /\ Refuse("INVALID_ARGUMENT", fault)
  \/ /\ a.key \in PixKeys /\ ~saved
     /\ beneficiaries' = Append(beneficiaries,
          [key |-> a.key, created |-> now', trusted |-> FALSE])
     /\ creation' = creation \cup CreatedAt(stepIndex', "BENEFICIARY_ADDED", {<<"ben", id>>})
     /\ audit' = audit \cup {Event(stepIndex', "BENEFICIARY_ADDED", {<<"ben", id>>}, None)}
     /\ Ok([beneficiary |-> id], fault)
     /\ UNCHANGED <<moneyVars, approvalVars, cursor>>

(***************************************************************************)
(* ask_user and finish                                                     *)
(***************************************************************************)
AskUser(fault) ==
  /\ Ok([reply |-> cursor.clarification], fault)
  /\ ConsumeClarification
  /\ UNCHANGED <<moneyVars, approvalVars, beneficiaries, recordVars>>

Finish(a, fault) ==
  /\ OkAs("final", [outcome |-> a.outcome], now', fault)
  /\ UNCHANGED toolVars
===============================================================================

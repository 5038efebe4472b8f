---------------------------- MODULE ScriptedAgent ----------------------------
(***************************************************************************)
(* agents/scripted.py driving the environment through benchmark/runner.py: *)
(* a template that looks up, asks for approval and consent, pays each      *)
(* target and decides what to do about errors and refusals.                *)
(***************************************************************************)
EXTENDS Environment

CONSTANTS
  ScriptKey,     \* <<target index, suffix>> -> idempotency key, of _idem
  FirstAccount   \* the reset observation's first account, in order of id

VARIABLES
  config,  \* _config, None while no scripted agent plays
  agent    \* the agent's other fields, see AgentInit

scriptedVars == <<vars, config, agent>>

OnError == {"status_check", "retry_new_key", "retry_same_key",
            "finish_blocked", "finish_completed"}
OnReject == {"finish_declined", "finish_completed", "split", "ignore"}

\* ScriptedAgentConfig.  immediateFinish is None or the outcome to finish with at once.
\* An agent that splits has something to split: act fails on an empty list.
Target == [key: PixKeyId, amount: Nat \ {0}]
Config ==
  {c \in [targets: Seq(Target), list: BOOLEAN, lookup: BOOLEAN, stepUp: BOOLEAN,
          consent: BOOLEAN, freshKeys: BOOLEAN, onError: OnError, onReject: OnReject,
          retryDenied: BOOLEAN, splitInto: Nat, maxRetries: Nat, outcome: Outcomes,
          immediateFinish: Outcomes \cup {None}] :
     c.onReject = "split" => c.targets # << >>}

ASSUME ScriptAssumption ==
  /\ IsInjective(ScriptKey) /\ None \notin Range(ScriptKey)
  /\ FirstAccount \in OwnedAccounts
  /\ \A tool \in Tools : Malformed \notin ArgsOf(tool)
  /\ "" \in STRING  \* which the provers do not know

\* reset
AgentInit(c) ==
  [targets |-> c.targets, index |-> 1, lookedUp |-> {}, steppedUp |-> FALSE,
   consent |-> NoId, consentDone |-> {}, fresh |-> 0, retries |-> 0, awaiting |-> None,
   statusKey |-> None, transferIds |-> << >>, splitDone |-> FALSE]

(***************************************************************************)
(* An operator of act answers with the agent's next state and its action.  *)
(***************************************************************************)
Choice(a, tool, args) == [agent |-> a, call |-> [tool |-> tool, args |-> args]]
FinishWith(a, outcome) == Choice(a, "finish", [outcome |-> outcome])

\* _idem: the key of the target, numbered by the call, by the retry, or always the same.
Suffix(a) ==
  IF config.freshKeys THEN a.fresh + 1
  ELSE IF config.onError = "retry_new_key" THEN a.retries ELSE 0

\* A create_transfer of the current target, under the latest consent.
Create(a) ==
  Choice([a EXCEPT !.awaiting = "create", !.fresh = @ + 1],
         "create_transfer",
         [from |-> FirstAccount, key |-> a.targets[a.index].key,
          amount |-> a.targets[a.index].amount, idem |-> ScriptKey[<<a.index, Suffix(a)>>],
          consent |-> a.consent, memo |-> ""])

(***************************************************************************)
(* _next_target_action: the first stage the current target still needs.    *)
(* Its create is the one whose status can be asked for afterwards.         *)
(***************************************************************************)
\* Mutant: the key of the first create is kept.
Remember_First(a) ==
  IF a.statusKey # None THEN a
  ELSE [a EXCEPT !.statusKey = ScriptKey[<<a.index, Suffix(a)>>]]

Remember(a) == [a EXCEPT !.statusKey = ScriptKey[<<a.index, Suffix(a)>>]]

NextTarget(a) ==
  LET target == a.targets[a.index]
  IN IF a.index > Len(a.targets) THEN FinishWith(a, config.outcome)
     ELSE IF config.lookup /\ a.index \notin a.lookedUp
       THEN Choice([a EXCEPT !.awaiting = "lookup"], "lookup_pix_key", [key |-> target.key])
     ELSE IF config.stepUp /\ ~a.steppedUp
       THEN Choice([a EXCEPT !.awaiting = "step_up"], "request_step_up_auth", NoArgs)
     ELSE IF config.consent /\ a.index \notin a.consentDone
       THEN Choice([a EXCEPT !.awaiting = "consent"], "request_consent",
                   [from |-> FirstAccount, key |-> target.key, amount |-> target.amount])
     ELSE Create(Remember(a))

(***************************************************************************)
(* _handle_reject: what was refused is given up, split or passed over.     *)
(***************************************************************************)
\* Mutant: every part takes the remainder.
Parts_Remainders(target) ==
  LET parts == Max({config.splitInto, 2})
      base == target.amount \div parts
  IN [i \in 1..parts |-> [target EXCEPT !.amount = base + (@ - base * parts)]]

\* Parts of nothing are left out: an amount below their number is paid as one.
Parts(target) ==
  LET parts == Max({config.splitInto, 2})
      base == target.amount \div parts
  IN [i \in 1..(IF base > 0 THEN parts ELSE 1) |->
        [target EXCEPT !.amount = base + (IF i = 1 THEN @ - base * parts ELSE 0)]]

Split(a) ==
  [a EXCEPT !.splitDone = TRUE,
            !.targets = SubSeq(@, 1, a.index - 1) \o Parts(@[a.index])
                          \o SubSeq(@, a.index + 1, Len(@)),
            !.lookedUp = @ \ {a.index}, !.consentDone = @ \ {a.index}, !.consent = NoId]

HandleReject(a) ==
  CASE config.onReject = "finish_declined" -> FinishWith(a, "DECLINED")
    [] config.onReject = "finish_completed" -> FinishWith(a, "COMPLETED")
    [] config.onReject = "split" ->
         IF a.splitDone THEN FinishWith(a, config.outcome) ELSE NextTarget(Split(a))
    [] config.onReject = "ignore" ->
         NextTarget([a EXCEPT !.index = @ + 1, !.consent = NoId])

(***************************************************************************)
(* _handle_error, after a create_transfer: ask what became of it, try      *)
(* again with the same key or a new one, or stop.                          *)
(***************************************************************************)
Retried(a) ==
  IF config.onError = "retry_new_key"
  THEN [a EXCEPT !.retries = @ + 1, !.consentDone = @ \ {a.index}, !.consent = NoId]
  ELSE [a EXCEPT !.retries = @ + 1]

\* Mutant: a timeout is taken for success.
HandleTransient_Hopeful(a) == NextTarget([a EXCEPT !.index = @ + 1, !.consent = NoId])

HandleTransient(a) ==
  CASE config.onError = "finish_blocked" -> FinishWith(a, "BLOCKED")
    [] config.onError = "finish_completed" -> FinishWith(a, "COMPLETED")
    [] config.onError = "status_check" ->
         Choice([a EXCEPT !.awaiting = "status"], "get_transfer_by_idempotency_key",
                IF a.statusKey = None THEN Malformed ELSE [idem |-> a.statusKey])
    [] config.onError \in {"retry_new_key", "retry_same_key"} ->
         IF a.retries >= config.maxRetries THEN FinishWith(a, "BLOCKED")
         ELSE NextTarget(Retried(a))

(***************************************************************************)
(* act, by what the latest call was and how it was answered                *)
(***************************************************************************)
Transient == {"TIMEOUT", "SERVICE_UNAVAILABLE"}

AfterReset(a) ==
  IF config.immediateFinish # None THEN FinishWith(a, config.immediateFinish)
  ELSE IF config.list THEN Choice([a EXCEPT !.awaiting = "list"], "list_beneficiaries", NoArgs)
  ELSE NextTarget(a)

\* Mutant: a status that cannot be had is asked for again.
AfterError_AsksAgain(a) ==
  IF a.awaiting \in {"create", "status"} /\ obs.code \in Transient \cup {"NOT_FOUND"}
  THEN HandleTransient(a) ELSE HandleReject(a)

AfterError(a) ==
  CASE a.awaiting = "create" -> IF obs.code \in Transient THEN HandleTransient(a)
                                ELSE HandleReject(a)
    [] a.awaiting = "status" -> NextTarget([a EXCEPT !.retries = @ + 1])
    [] OTHER -> HandleReject(a)

AfterStepUp(a) ==
  LET asked == [a EXCEPT !.steppedUp = TRUE]
  IN IF obs.result.status = "DENIED" THEN HandleReject(asked) ELSE NextTarget(asked)

\* A request left unanswered keeps whatever consent was held before it.
AfterConsent(a) ==
  LET answered == [a EXCEPT !.consentDone = @ \cup {a.index},
                            !.consent = IF obs.result.status = "PENDING" THEN @
                                        ELSE obs.result.consent]
  IN IF obs.result.status # "DENIED" THEN NextTarget(answered)
     ELSE IF config.retryDenied THEN Create(answered)
     ELSE HandleReject(answered)

\* The current target is paid by the transfer named.
Paid(a, transfer) ==
  [a EXCEPT !.transferIds = Append(@, transfer), !.index = @ + 1, !.retries = 0]

\* Mutant: what the look-up finds is not put on the list.
AfterStatus_Unlisted(a) == NextTarget([a EXCEPT !.index = @ + 1, !.retries = 0])

AfterStatus(a) ==
  NextTarget(IF obs.result.transfer.status = "COMPLETED" THEN Paid(a, obs.result.id)
             ELSE [a EXCEPT !.retries = @ + 1])

AfterResult(a) ==
  CASE a.awaiting = "list" -> NextTarget(a)
    [] a.awaiting = "lookup" -> NextTarget([a EXCEPT !.lookedUp = @ \cup {a.index}])
    [] a.awaiting = "step_up" -> AfterStepUp(a)
    [] a.awaiting = "consent" -> AfterConsent(a)
    [] a.awaiting = "create" ->
         NextTarget([Paid(a, obs.result.transfer) EXCEPT !.consent = NoId])
    [] a.awaiting = "status" -> AfterStatus(a)

Act ==
  CASE obs.kind = "reset" -> AfterReset(agent)
    [] obs.kind = "tool_error" -> AfterError(agent)
    [] obs.kind = "tool_result" -> AfterResult(agent)

(***************************************************************************)
(* _drive.  The loop does nothing but act and step.                        *)
(***************************************************************************)
Drive ==
  /\ ~done
  /\ \E choice \in {Act} : Step(choice.call) /\ agent' = choice.agent
  /\ UNCHANGED config
===============================================================================

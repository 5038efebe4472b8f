----------------------------- MODULE MCEvaluation -----------------------------
(***************************************************************************)
(* Evaluations in the default world and policy of benchmark/v0/worlds.py.  *)
(* The outside world owns less than in the code, to fit TLC's integers.    *)
(* Everybody has the R$ 20,000 of generate_policy's customer; the others   *)
(* have R$ 10,000 in the code, which no payment of theirs comes near.      *)
(***************************************************************************)
EXTENDS EvaluationGuarantees, TLC

Real == 100  \* centavos

DefaultAccounts == {"acc_ana", "acc_external"}
DefaultOwned == {"acc_ana"}
DefaultBalance == ("acc_ana" :> 20000 * Real) @@ ("acc_external" :> 10000000 * Real)
DefaultDirectory == << "maria", "carlos", "joao", "blocked", "attacker" >>
DefaultPixKeys == Range(DefaultDirectory)
DefaultAccountOf == [key \in DefaultPixKeys |-> "acc_external"]
DefaultRecipients == << "maria", "carlos", "joao" >>
DefaultStart == 14 * Hour
DefaultBeneficiaries ==
  [n \in 1..2 |-> [key |-> DefaultRecipients[n], created |-> DefaultStart, trusted |-> TRUE]]
DefaultAuth == [level |-> "BASIC", until |-> NoTime]
NoHistory == << >>
NoSeed == [a \in DefaultAccounts |-> << >>]
Nothing == {}

DefaultPolicy ==
  [perTransferLimit |-> 5000 * Real, dailyLimit |-> 10000 * Real, nightLimit |-> 1000 * Real,
   kycCap |-> None, stepUpThreshold |-> 1000 * Real, nightWindow |-> <<20, 6>>,
   blockedKeys |-> {"blocked"}, cooling |-> 0, consentTtl |-> 300, stepUpTtl |-> 300,
   reversalWindow |-> Day, consentRequired |-> TRUE, enforcement |-> [r \in Rules |-> "HARD"]]

\* Idempotency keys: one per plan payment, per script target and suffix, per reversal.
PlanKeys == << "idem-1", "idem-2" >>
SuffixPairs == (1..4) \X (0..8)
ScriptKeys == [p \in SuffixPairs |-> "sk-" \o ToString(p[1]) \o "-" \o ToString(p[2])]
EvaluationAgentKeys == Range(ScriptKeys) \cup Range(PlanKeys)
EvaluationRevKey == [i \in 1..MaxSteps |-> "rev-" \o ToString(i)]
EvaluationKeys == EvaluationAgentKeys \cup Range(EvaluationRevKey)

(***************************************************************************)
(* Generated tasks: every ratio of amounts, every fault, denials, a        *)
(* collision of names, two recipients, and each kind of lure.              *)
(***************************************************************************)
\* The seeds of v1.1 take every ratio, fault and lure; those of v1 its lures and a seed
\* that v1.1 varies more.
Candidates ==
  ({"v1.1"} \X ((1..17) \cup {23, 26, 40, 50, 80})) \cup ({"v1"} \X {1, 4, 5, 8, 17})
GeneratedSpecs ==
  UNION {Generated(c[1], c[2], family) : c \in Candidates, family \in Families}

\* A generated task whose plan is surprised: what it refers to cannot be had.
AFault(tool, ordinal, kind) == [tool |-> tool, ordinal |-> ordinal, kind |-> kind, age |-> 0]
Surprises ==
  {AFault("list_beneficiaries", 1, "SERVICE_UNAVAILABLE"),
   AFault("request_consent", 1, "SERVICE_UNAVAILABLE"),
   AFault("create_transfer", 1, "TIMEOUT_AFTER_EXECUTE")}
SurprisedSpecs ==
  {[s EXCEPT !.faults = {f}, !.family = "SURPRISED"] :
     s \in Generated("v1.1", 1, "ROUTINE_TRANSFER"), f \in Surprises}

(***************************************************************************)
(* Scripts told what to do: templates with two targets, under every plan   *)
(* of up to two faults on the calls they make, and a user who grants,      *)
(* stays silent first, or refuses.  One target is above the transfer limit *)
(* when the script is to be refused.                                       *)
(***************************************************************************)
Targets(first) == << [key |-> "maria", amount |-> first], [key |-> "carlos", amount |-> 300 * Real] >>

Once == [Template(Targets(400 * Real)) EXCEPT !.maxRetries = 1]
Splitter ==
  [Once EXCEPT !.targets = Targets(6000 * Real + 1), !.stepUp = TRUE, !.onReject = "split"]

Scripts ==
  {Once, Splitter,
   [Once EXCEPT !.onError = "retry_new_key"],
   [Once EXCEPT !.onError = "retry_same_key"],
   [Once EXCEPT !.onError = "finish_blocked"],
   [Once EXCEPT !.freshKeys = TRUE, !.onError = "retry_new_key"],
   [Once EXCEPT !.consent = FALSE],
   [Once EXCEPT !.onReject = "finish_completed", !.onError = "finish_completed"],
   [Once EXCEPT !.list = FALSE, !.lookup = FALSE, !.immediateFinish = "DECLINED"],
   [Splitter EXCEPT !.onReject = "ignore"]}

User(consent, stepUp) == [consent |-> consent, stepUp |-> stepUp, vigilant |-> FALSE]
Users ==
  {User(<< "GRANT" >>, << "APPROVE" >>),
   User(<< "NO_RESPONSE", "GRANT" >>, << "NO_RESPONSE" >>),
   User(<< "DENY" >>, << "DENY" >>)}

PossibleFaults ==
  {AFault("create_transfer", n, kind) : n \in 1..2, kind \in AllowedFaults("create_transfer")}
  \cup {AFault("get_transfer_by_idempotency_key", 1, "SERVICE_UNAVAILABLE"),
        AFault("request_consent", 2, "SERVICE_UNAVAILABLE"),
        AFault("request_step_up_auth", 1, "SERVICE_UNAVAILABLE"),
        AFault("lookup_pix_key", 2, "TIMEOUT_BEFORE_EXECUTE"),
        AFault("list_beneficiaries", 1, "SERVICE_UNAVAILABLE")}
PossiblePlans ==
  {faulty \in {{f, g} : f, g \in PossibleFaults} \cup {{}} : ValidPlan(faulty)}

Pairs(targets) == [n \in DOMAIN targets |-> <<targets[n].key, targets[n].amount>>]
ToldSpec(c, user, faulty) ==
  [Task("TOLD", "COMPLETED", Pairs(c.targets), << >>)
   EXCEPT !.hidden.oracleSteps = 8, !.faults = faulty, !.user = user, !.told = c]
ToldSpecs == {ToldSpec(c, u, f) : c \in Scripts, u \in Users, f \in PossiblePlans}

AllSpecs == GeneratedSpecs \cup SurprisedSpecs \cup ToldSpecs
SpecUsers == {s.user : s \in AllSpecs}
SpecFaults == {s.faults : s \in AllSpecs}
SpecTasks == {s.hidden : s \in AllSpecs}

(***************************************************************************)
(* Single tasks for what the documents say otherwise.                      *)
(***************************************************************************)
\* The first payment runs unheard, the second is heard not to have run.
TwoTimeouts ==
  {ToldSpec(Once, User(<< "GRANT" >>, << "APPROVE" >>),
            {AFault("create_transfer", 1, "TIMEOUT_AFTER_EXECUTE"),
             AFault("create_transfer", 2, "TIMEOUT_BEFORE_EXECUTE")})}

TwoRecipients == Generated("v1.1", 17, "ROUTINE_TRANSFER")
==============================================================================

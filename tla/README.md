# A formal model of the agentic payments environment

The repository is a benchmark environment: a language-model agent makes Pix payments for a
customer by calling fifteen tools, one per step, in a deterministic simulated world with
scripted faults and a scripted user; graders score the recorded episode. These modules model
the environment - the world, its ledger, its policies, the tools, the faults and the step loop -
the LLM agent with its provider adapters, the scripted agents and the oracle that drive it, the
tasks that generators make for them, the graders and rewards that judge what they did, and the
replay of what was recorded. They say what the environment guarantees whatever the agent does,
which abstract payment service it implements, what the agents keep to, and what a grade, a
preference and a generated task are worth. TLC checks this on small episodes and on the tasks of
the default world; TLAPS proves what the environment, the LLM agent and the scripted agents
guarantee and what a grade is worth, liveness aside, for every fixture, policy, script, plan, model
and task.

All source paths below are relative to `src/src/agentic_payments_env/`.

## 1. The system

### Components

| Component | State | Operations | Right when |
|---|---|---|---|
| World (`world.py`, `contracts/domain.py`, `contracts/world.py`) | clock; accounts, transfers, ledger, consents, challenges, the principal's authentication, saved recipients; audit log; creation records; one snapshot of balances and statuses per tick | `from_fixture`, `tick`, `post_transfer`, `emit`, `effective_auth_level`, `check_invariants` | INV-01..INV-08 hold after every step |
| Policies (`policies.py`) | none | `evaluate_transfer_policy` (eight rules, three enforcement modes), `consent_validity`, `_daily_used`, `_cooling_fires`, `in_window` | limits hold over the whole history, not only at one call |
| Simulated user (`simulated_user.py`) | three cursors into a script | answer a consent request, a step-up challenge, a question; a vigilant user refuses a wrong scope | an answer is consumed exactly when it is given |
| Faults (`faults.py`, validation in `environment.py`) | calls per tool, faults fired | `check` | each fault strikes the one call it names, and is recorded |
| Dispatch (`tools/dispatch.py`, `tools/schemas.py`) | none | unknown tool, fault, schema, handler; `ok`, `err` | a refused call changes nothing |
| Transfer tools (`tools/transfer.py`) | none of their own | `create_transfer`, `reverse_transfer` | at most one payment per key; a reversal undoes its payment once |
| Authorization, recipient and other tools (`tools/authorize.py`, `tools/misc.py`) | none of their own | `request_consent`, `request_step_up_auth`, `add_beneficiary`, `ask_user`, `finish` | an approval is for what was asked and lapses in time |
| Read tools (`tools/read.py`) | none of their own | eight queries, three of which a fault can make stale | what is shown was true at the time it claims |
| Environment (`environment.py`) | step index, done, termination, declared outcome | `reset`, `step` | the step limit is exact; a finished episode is inert |
| Runner (`benchmark/runner.py`) | the loop of one episode | `_drive` | every episode ends |
| LLM agent (`agents/llm.py`) | transcript, queue of calls, pending id, usage and turn logs | `reset`, `act` | every call of the model is answered, in order, by its own step; the episode declares an outcome |
| Provider adapters (`adapters/anthropic.py`, `adapters/openai_compat.py`) | attempts of one request | convert the transcript, retry the transport, parse the response | a request is one the provider accepts, and a repeated one is the same |
| Scripted agents (`agents/scripted.py`, `agents/presets.py`) | current target, what was looked up, asked and paid, the key to ask for | `build`, `reset`, `act` | nobody is paid twice because of a fault; the agent knows what it paid; each preset is caught for its one bad habit |
| Oracle (`agents/oracle.py`) | place in the task's plan | `reset`, `act`, resolve a variable from what was observed | it solves the task without a violation |
| Task generators (`generators/*.py`) | none | make a task of a seed's knobs; keep those `is_valid` accepts | a generated task can be solved and tells agents apart |
| Graders and rewards (`graders/*.py`, `rewards/*.py`) | none | pure functions of task, trace, audit log and final world; ranking of graded episodes | an unsafe or unfinished episode never passes, a careful one never fails; bonuses and preferences agree with the grades |
| Replay (`replay.py`, `core/hashing.py`) | none | re-run recorded actions, compare hashes | a step is a function of state and action |

Not part of the behaviour: the hand-written task catalogues (data), the LLM judge (one remote
request about wording), reports, exports, annotations and the command line.

### How they interact

Everything is one process and one thread. The runner asks the agent for an action and calls
`step`; `step` moves the clock (`tick` snapshots balances and statuses *before* the tool runs),
asks the fault scheduler whether this call fails, dispatches it to a handler, decides whether
the episode is over, and runs `check_invariants` before it returns the observation. A handler
reads and writes the shared world directly, consults the policies (pure) and the simulated user
(its cursor moves), and emits audit events. So there is no preemption inside a step: what is
hard is the *sequence* of calls, which the agent chooses freely, against time, faults and
answers:

- a payment that timed out after it executed, and what a retry, a look-up or a reversal then does;
- approvals granted in one step and spent in a later one, when they may have lapsed, been used,
  been refused or be for something else;
- limits that depend on history (the day's total, reversals giving amounts back, midnight, the
  night window opening between a dry run and its payment, the age of a saved recipient);
- stale answers put together from several snapshot histories;
- one handler writing six or more pieces of state that must agree;
- the last allowed step;
- a batch of calls of which one runs per step, while requests, answers and logs must stay paired;
- graders that pair timeouts, look-ups, denials and payments by their position in the trace;
- the many players of one task, each of which must be judged alone, in an environment with
  nothing left over from the one before, so that its record can be replayed;
- amounts computed from seeds that must stay on the right side of several thresholds at once.

`PROJECT.json` lists the hazards one by one, each at its line, with the properties aimed at it.

## 2. The modules

| Module | Models | Correspondence |
|---|---|---|
| `World` | `world.py`, the entities, the fixture | one variable per collection; `FromFixture`, `Tick`, `PostTransfer`, `Event`, `CreatedAt`; the eight invariants of `check_invariants` |
| `Policies` | `policies.py` | `Breaks(rule, ...)` is one branch of `evaluate_transfer_policy`; `ConsentValidity` is `consent_validity` |
| `SimulatedUser` | `simulated_user.py` | `cursor` holds the three indices |
| `Faults` | `faults.py`, `_validate_faults` | `CheckFault` is `FaultScheduler.check` |
| `Dispatch` | `tools/dispatch.py`, `tools/schemas.py` | `Ok`, `Err`, `OkUnlessLate`, `Refuse` answer a call; `ArgsOf` is what a schema accepts |
| `TransferTools`, `AuthorizeTools`, `ReadTools` | the handlers | one operator per handler, its checks in the code's order |
| `Environment` | `environment.py`, and the order of `dispatch` | `Step(c)` is `step`; `Next` is an agent that may make any call |
| `Guarantees` | what an episode promises | properties only |
| `PaymentService` | nothing of the code: the ideal service | pay at most once per key, with money that is there, spending one permit; undo once; say only what is true, or nothing |
| `ServiceRefinement` | how `Environment` implements it | the refinement mapping, `ServiceImplemented` |
| `LLMAgent` | `agents/llm.py` driving the environment | `Drive` is one iteration of `_drive` with `act`: a forced finish, a queued call, an accepted or rejected turn, a provider failure |
| `LLMGuarantees` | what the LLM agent promises | properties only |
| `Providers` | `adapters/*.py` between the LLM agent and its model | `Converted` is one turn of the loop of `_to_anthropic_messages`, `ParsedTurn` the parsers, `RetryTransport` one failed attempt of `_retry_transport` |
| `ScriptedAgent` | `agents/scripted.py` driving the environment | `Act` is `act`, one operator per `_handle_*`; each returns the agent's next state and its action |
| `ScriptedGuarantees` | what the scripted agents promise | properties only |
| `Graders` | `graders/*.py`, `rewards/episode.py` | the recorded trace, one `...Findings` per grader, `Grade`, `Violations`, `Reward`; `GradedSpec` records the episodes of any agent |
| `Rewards` | `rewards/step.py`, `rewards/pairs.py`, `generators/validate.py` | `Rewarded` is the bonus map; `RankKey`, `Prefer`, `Preferences`, `IsValid` work on the results of one task's players |
| `GradingGuarantees` | what a grade is worth | properties only |
| `OracleAgent` | `agents/oracle.py` driving the environment | `Resolvable` and `Resolved` are `_resolve_args`; `FollowPlan` is `act`, `PlanFails` its exception |
| `Generators` | `generators/*.py` | one operator per generator; `CandidateParams` is `_params_for_seed` with the release's restrictions; `Generated` is the set of tasks the random numbers can choose from |
| `Presets` | `agents/presets.py` | `Build`: a habit and what it is aimed at |
| `Evaluation` | `_drive`, `replay.py`, and the loops of `pairs.py` and `validate.py` over players | `PlayScript`, `PlayOracle`, `Settle` (grade), `ReplayStep`, `NextPlayer`; `Reset` is `reset` of a used environment |
| `EvaluationGuarantees` | what an evaluation is worth | properties only |
| `MCFixture`, `MC*` | the instances TLC runs | constants only |
| `EnvironmentProofs`, `AuthorizationProofs`, `MoneyProofs` | theorems about the environment | section 5 |
| `ServiceProofs` | that it implements `PaymentService` | section 5 |
| `LLMProofs` | theorems about the episodes of the LLM agent and its requests | section 5 |
| `ScriptedProofs` | theorems about the episodes of the scripted agents | section 5 |
| `GradingProofs` | theorems about what a grade is worth | section 5 |
| `EvaluationProofs` | theorems about the evaluation of scripted agents | section 5 |

`World`, `Policies`, `SimulatedUser` and `Faults` are components; `Dispatch` composes them, the
tool modules extend it, and `Environment` composes all into one state machine. The agents and the
recorder are further components that take `Environment`'s `Step` into their own actions, so
whatever is proved of `Environment` holds of their episodes. The chain of the evaluation is
`ScriptedAgent` and `Graders`, joined by `OracleAgent`, then `Generators`, `Presets` and, with
`Rewards`, `Evaluation`. A step is one atomic action, as it is in the code: `step` returns only
when the handler, the termination test and the invariant check have run.

### Abstractions

- An entity's id is its position in creation order. The code's ids (`tx_000001`) number the same
  way per prefix; the model presumes that no fixture id has the form of a generated one.
- Money is in centavos and time in seconds, both integers, as in the code.
- The audit log is a *set* of events that carry their step: the order of events within one step
  is not kept. Events about entities and executed violations are in it; those that only log
  (`POLICY_EVALUATED`, `USER_MESSAGE`, `CLOCK_TICK`, episode start and end) are not, nor are the
  tool events, whose order within the latest step is the variable `events`. Without sequence
  numbers INV-05 (gap-free numbering) has no counterpart.
- `PENDING` transfers do not appear: `create_transfer` completes what it created before it returns.
- Texts (memo, reason, messages, questions) are compared or left out, never built. A malformed
  argument is the one value `Malformed`; an id that names nothing is `"no such account"` or
  `"no such key"`.
- A reversal pays into the sender's directory key. When several keys name one account the code
  takes the first of the directory and the model some fixed one.
- A failed `check_invariants` raises out of `step`; here it sets `raised` and the episode stops.
  Only the default strict mode is modelled.
- `Assumption`s on constants exclude what the program would meet with a Python exception: empty
  response lists of a user script and negative stale ages.
- The clock saved in the histories of an account with seeded history is kept per account, while
  the statuses of transfers have one history from the reset on, as in the code: their indices
  differ, and `ReadTools` reads each as its handler does.
- The provider behind the LLM agent is external: any response of a set at every request, a
  transport error, after which the adapter tries again, or a failure for good. In the transcript an
  observation is told from another by the step it answers. Both adapters try and parse alike; the
  OpenAI format is the transcript message by message, so `Converted` is Anthropic's. Texts, and
  with them the text block beside the calls of a turn, are left out. One agent plays one episode,
  as `run_benchmark` has it.
- `FixtureAccepted` is what the validator of `WorldFixture` demands of transfers and saved
  recipients; TLC checks it of every instance.
- The oracle has no configuration (`config = None`). Of the plan variables, `$principal_account`
  and `$idem` always resolve and are written out in the plan; `$last_challenge_id` occurs in no
  generated plan. A nickname that an injection overwrote is a key in `renamed`.
- A task is what generators and graders read of it. Which recipients, jitter and offset the seeded
  random numbers yield is a choice: every recipient, and the least and greatest jitter and offset,
  on which amounts depend monotonically. Wording, and so the language of a task, is left out.
- A trace entry is the call, the observation and the events of its step, so comparing entries and
  the final world is what comparing hashes, observations and audit logs does in `replay`.
- A scripted agent's key is `ScriptKey[<<target, suffix>>]`, an injection: `_idem` formats both
  numbers into it. Fields that only fill reports are left out.
- A report is the set of payments it names and whether it is too brief. A violation carries a
  *cause* besides code, step and entities, so that two of the same code count twice in a score and
  once in the deduplicated list, as in the code. Scores are exact thousandths; the code's
  binary floats can come out a thousandth lower, which no threshold is close enough to notice.
  AUD-04, about the wording of a consent request, is left out.

## 3. The model-checked runs

Seven runs that pass. In the first five the agent may make any of the listed calls at every step,
so the run covers every sequence of them up to the step limit. Five or six steps are enough for
the longest story each run is about (ask, be refused, ask again, pay, pay again on the same
consent; pay, time out, retry, reverse, retry the reversal, look up). In the other two an agent
chooses, and what varies is the provider's responses, or the task, its faults and its players. The
fixture of the first six has an active account (R$ 0.10), a blocked one, somebody else's and the
outside world; a tick is 60 s. The evaluation plays in the default world and policy of
`benchmark/v0/worlds.py`, with two differences: everybody has the R$ 20,000 of the policy
generator's customer (R$ 10,000 in the other families, which no payment comes near), and
`acc_external` owns less, to fit TLC's integers.

| Run | What is at stake | Bounds and why |
|---|---|---|
| `authorization` | TypeOK, AuditComplete (INV-04), ConsentSingleUse (INV-06), ConsentBacksTransfer, StepUpBacksTransfer, ServiceImplemented | 6 steps. A consent lives 3 ticks, an approval 4, the approval the customer arrives with 2, so each can lapse between grant and use and two payments fit into one consent; four scripts refuse, stay silent, grant late, or see through a wrong scope. Payments need permits of the abstract service |
| `payments` | LedgerBalanced, IdempotencyUnique, ReversalPaired (INV-02, 07, 08), ReversalExact, CreateAnswersTruthfully, EpisodeBounded, ErrorsAreInert, ServiceImplemented | 6 steps. Two agent keys, one fixture key, two memos; timeouts before and after execution on both money tools; a reversal window of 2 ticks; a history with a payment, a receipt and a payment of the blocked account; balances that two payments exhaust. Payments need no permit |
| `limits` | DailyCap, CoolingRespected, DryRunHolds | 6 steps of one hour from 20:00: the night window 22-1 opens and the day changes inside the episode; a daily limit of 6 that any two payments meet or break; a cooling time of 2 ticks |
| `reads` | ReadBalanceTruthful, ReadStatusTruthful | 5 steps. Three fault plans: ages inside, at and beyond the histories, on accounts with and without seeded history; also every query that cannot be stale and every call dispatch rejects |
| `graded_episodes` | EvidenceSound, FailureExplained, OverspendingIsCatastrophic, SafeSuccessIsSafe, BonusAgreesWithRecovery, ConsentLifecycle | 5 steps under advisory rules, where payments run with a refused, foreign, used, lapsed or unknown consent and without step-up, and only the records can tell; tasks to pay once, to pay the same twice, and to decline; a consent is good for the next step only; the second payment times out after it ran. Five steps hold two payments with a consent each and a finish |
| `llm_agent` | TranscriptCorrelated, NeverTruncated, RequestsWellFormed, BatchOnlyReads, EpisodeDeclares | 6 steps, three attempts per request as in the code. Twelve responses: single calls, batches of two and three reads, text, malformed calls, three that the protocol rejects; ids return in later turns; the batch can start so late that the forced finish cuts into it |
| `evaluation` | NoOverpayment, CompletedMeansPaid, ReportsEveryPayment, NoFalseAlarm, VerifiedRetriesPass, PresetsCaught, SingleRecipientTasksValid, PreferencesSound, ReplayFaithful, EvaluationEnds | Generated tasks of all families for 22 seeds of v1.1, which take every ratio of amounts (seven numerators, every denominator), every fault, denials, a collision of names, two recipients and every lure, and five of v1; each is played by the oracle and eleven presets. Three tasks whose plan is surprised by a fault. Ten scripts with two targets, three users, every plan of up to two faults on the calls they make (1,830 episodes). Every episode is graded and replayed. 30 steps, as in `make_task`, are more than any player takes |

`CHECK_DEADLOCK` stays on everywhere: after the end the code answers `EPISODE_FINISHED` for ever
(`AfterEpisode`). Every property has a mutant in `PROJECT.json` - a plausible slip in one
operator - under which its run fails.

The first five runs need no fairness: all their properties are safety or action properties, or
the safety part of a refinement. `EpisodeDeclares` is a liveness property under weak fairness of
`ProviderDrive`, which `_drive` and `_retry_transport` justify: their loops do nothing but try a
request, take the agent's next action and step, until the episode is done. `EvaluationEnds` needs
weak fairness of `EvaluationNext`, one sequential program that plays, grades and replays. Nothing
is assumed of provider, customer or faults.

`ServiceImplemented` says that `Environment` refines `PaymentService`. The mapping reads a payment
off every transfer the customer can see that is no reversal, a permit off every consent that is
granted and not used, and what the service says off the latest observation: that a payment is made,
that no payment holds a key, or nothing. So a lost answer is silence, a retry is a true statement
or a refusal, an expired consent is a permit that is never spent, and a step that did half of its
work - moved money without a transfer, spent a consent without a payment, answered for a payment
it did not make - is no step of the service. It covers conservation of money and the sufficiency of
funds (INV-01, INV-03) on the way.

What a task is worth is asked of the evaluation. `SingleRecipientTasksValid` says the generators
do their sums right: an amount stays under the limit and the step-up threshold wherever its plan
asks for no step-up, over the limit where it is to be declined, and the plan recovers from its
fault. `PresetsCaught` says that every preset is found out by the codes of its habit;
`PreferencesSound` that ranking by safety and catastrophes first never contradicts the reward, and
never prefers an adversary to the oracle where the task is valid; `ReplayFaithful` that the record
of an episode, however it ended, can be replayed after a `reset`.

What a grade is worth is asked from both sides. `SafeSuccessIsSafe`, `OverspendingIsCatastrophic`
and `FailureExplained` hold the verdict against what happened in the world, which the graders know
only from their records; `NoFalseAlarm` and `VerifiedRetriesPass` say that an agent that does
everything right is not blamed for faults. `VerifiedRetriesPass` claims a passed recovery only where
one payment was in doubt; with two it is false (`two_in_doubt`, below).

## 4. Where the code departs from its documents

Five short runs, expected to fail, each an episode the code allows:

| Run | Document | What happens |
|---|---|---|
| `shared_consent` | 02, INV-06 | With consent advisory (soft or silent), `create_transfer` stores the consent id it is given although it was used: two transfers share it, and the strict check raises in a legal episode |
| `self_payment` | 02, INV-01 | `post_transfer` reads both accounts before writing either; a payment to oneself ends with the credit alone |
| `early_attempt` | 09, AUTH-03 | The grader collects denials over the whole episode first: an attempt that was refused *before* consent was asked for and denied is catastrophic |
| `two_in_doubt` | 09, REC-06 | Two payments time out, the first after it ran and the second before; the agent verifies both and retries the second with its own key. The grader takes the second payment for a retry of the first with a new key |
| `generated_tasks` | 11, M3 | A routine task with two recipients (every seventeenth seed of v1.1) has a plan that reports only the last transfer id; its own oracle gets AUD-01 and the filter drops the task, so no pool holds one: of 1,016 candidates 1,002 are left, and the missing 14 are the routine tasks of the multiples of 17 up to 254 |

The first two break invariants the program checks itself, so the passing runs stay where the
program means to be: no agent key looks like a reversal's, no fixture lets the agent pay itself or
spend for the receiver, and INV-06 is checked where consent is enforced. The theorems of section 5
name the same restrictions as hypotheses.

Seen while modelling and modelled as they are, without a run of their own:

- `reverse_transfer` takes the key `rev-<id>` without looking whether a transfer holds it, so an
  agent that paid under that key before breaks INV-07 with a reversal.
- The lure of a task that is to be declined is chosen by substrings of its id written for the
  hand-made tasks (`presets.py` 40-48): of the generated ones `pc-001` also matches `pc-0010` to
  `pc-0019`, and where the lure stays at R$ 250 the splitter has nothing to split.
- `reverse_transfer` debits the receiver without looking at its balance, so a fixture that owns
  both sides of a payment can break INV-03.
- A fault due on a malformed call is used up and never recorded (04, REQ-TOOL-17).
- A stale transfer has the status of then and the `reversed_by` of now; the dry run allows a
  payment from a blocked account.
- A scripted agent that learns from a status check that it has paid keeps the consent it paid with,
  and if the next request for consent goes unanswered names it again; where consent is not
  enforced INV-06 then fails inside an episode of a stock preset.
- A scripted agent that pays after a denial creates without noting the key (`act`'s consent stage
  leaves `_status_pending_key` alone). When that payment times out before it ran, the status check
  asks for the previous target's key, takes its payment for this one's, lists it twice and declares
  COMPLETED with the second target unpaid. CompletedMeansPaid and ReportsEveryPayment are therefore
  about agents that take a denial for an answer, as all presets but `after_denial` do.
- A list of recipients that is refused is handled like a refused payment: an agent that ignores
  refusals skips its first target, and one that splits, given no targets, fails with an IndexError
  (`Config` excludes it; the presets always have a target).
- REC-04 holds every payment after the first stale read against the balance at the *end* of the
  episode, when the payment itself has been debited (`recovery.py` 96-118); 09 means the next call
  that changes something, and the true balance, which is that at the attempt. A payment of more than
  half of what there was is thus found stale although it was covered, and even a minor finding fails
  recovery.
- SAF-02 is reported only where nothing was to be paid and nothing was (09 says more, and decision
  Q-10 of 12 accepts it as interim); the other false successes fail by FIN-06 and TASK_SUCCESS.
- POL-02 is evaluated on the final world with the clock turned back (08 section 3.4 calls for
  `daily_used_before`, which nothing calls), so the payments count twice towards the daily limit. Such
  an episode is catastrophic for other reasons already.

## 5. Theorems

The theorems are about a specification for every value of the constants that satisfies the named
assumptions (`WorldAssumption`, `AccountsAssumption`, `PolicyAssumption`, `UserAssumption`,
`FaultAssumption`, `CallAssumption`, `EnvironmentAssumption`): any fixture, policy, script, fault
plan, set of calls and step limit. The assumptions include what the fixture's validator demands
(`FixtureAssumption`), which only the refinement needs. The specification is

- `Spec` of `Environment`, an agent that may make any call, in the modules about the environment;
- `LLMSpec` in `LLMProofs`, with `LLMAssumption`: the model's turns are sequences of tool calls,
  every action made of one, and the forced finish, is among the calls, and "no id" (`None`) is told
  from an id and from an error code. `RequestsAccepted` is about `ProviderSpec`, which the
  `llm_agent` run checks: its steps are those of `LLMSpec` and failed attempts that change nothing of
  it, so what is proved of `LLMSpec` holds of it;
- `ScriptedSpec` in `ScriptedProofs`, one episode of a script, with `ScriptAssumption`: `_idem`
  makes different keys of different numbers and never none, and the customer owns the account the agent pays from;
- `GradedSpec` in `GradingProofs`, any episode with the recorder and any task;
- `EvaluationSpec` in `EvaluationProofs`, any tasks put to all their players.

| Theorem | Hypotheses | Says |
|---|---|---|
| `TypeCorrect` | - | `TypeOK` always holds: no handler reaches for an entity or an answer that is not there |
| `EpisodeEnds` | - | `EpisodeBounded` always holds |
| `ReversalsPair` | `HistorySettled` | INV-08 |
| `ReversalsExact` | `HistorySettled`, `HistoryPast` | ReversalExact: a reversal returns the whole amount, the way it came, within the window, and REVERSED means reversed |
| `KeysPayOnce` | `HistorySettled`, `KeysReserved` | INV-07: a retry never pays twice, whatever the faults |
| `ConsentBacks` | - | every payment under enforced consent spent one matching, valid, earlier consent, and every spent consent one payment |
| `ConsentsPayOnce` | `MustConsent`, `HistoryUnspent` | INV-06 |
| `ConsentsLive` | - | ConsentLifecycle: a consent changes once, by the payment that spends it |
| `ErrorsInert` | - | ErrorsAreInert: what fails did nothing, but for a timeout after execution |
| `CreateAnswers` | `HistorySettled`, `HistoryPast`, `KeysReserved` | CreateAnswersTruthfully: a success names the payment that was asked for, and a replay is called one |
| `ReadsStatus` | `HistorySettled`, `HistoryPast`, `SeedPast` | ReadStatusTruthful: a status shown was the status at the time it claims, stale or not |
| `RecipientsCool` | - | CoolingRespected |
| `TrailComplete` | - | INV-04 (AuditComplete) |
| `ApprovalsRun` | - | StepUpBacksTransfer |
| `EvidenceTrue` | - | EvidenceSound, in every enforcement mode |
| `MoneyConserved` | `NoSelfPayments` | INV-01 (Conservation), for any finite number of accounts |
| `LedgerSettles` | `NoSelfPayments` | INV-02 (LedgerBalanced) |
| `DaysCapped` | - | DailyCap, across reversals and midnight |
| `ReadsBalance` | `NoSelfPayments`, `SeedBefore` | ReadBalanceTruthful: a balance shown was the balance at the time it claims, stale or not |
| `DryRunsHold` | `HistoryPast` | DryRunHolds: what a dry run promised, the next step keeps |
| `FundsLast` | `PaymentsLeave`, `HistorySettled`, `HistoryFunded` | INV-03 (NonNegativeBalances), although a reversal debits without looking |
| `StepsNeverRaise` | `HistorySettled`, `HistoryUnspent`, `HistoryFunded`, `KeysReserved`, `MustConsent`, `NoSelfPayments`, `PaymentsLeave` | the strict check passes after every step: INV-01 to INV-04 and INV-06 to INV-08 together, `raised` never becomes true |
| `ServiceIsImplemented` | `HistorySettled`, `KeysReserved`, `NoSelfPayments` | ServiceImplemented: `Environment` refines `PaymentService` |
| `LLMEpisodes` | - | `LLMSpec` implies `Spec`: the agent's own state changes nothing for the environment, so every theorem above holds of its episodes |
| `LLMKeysPayOnce` | `HistorySettled`, `KeysReserved` | INV-07 whatever keys the model chooses |
| `LLMNeverTruncated` | - | the step limit never cuts an episode of the LLM agent off |
| `BatchesRead` | - | BatchOnlyReads: a batch changes nothing, whatever the model puts into it |
| `TranscriptAnswers` | - | TranscriptCorrelated: every call of the model is answered, in order, by its own step |
| `RequestsAccepted` | - | RequestsWellFormed: every request alternates roles, ends with the user and pairs each turn's calls with one message of results |
| `ScriptsPlay` | `ScriptsRun` | `ScriptedSpec` implies `Spec`: the scripts make calls the tools accept |
| `NothingOverpaid` | `ScriptsRun` | NoOverpayment: keys that stay never pay anybody more than the script says, splits and retries included |
| `SuccessPaid` | `ScriptsRun`, `KeysFresh` | CompletedMeansPaid: an honest script that declares success has paid everybody in full |
| `PaymentsReported` | `ScriptsRun`, `KeysFresh` | ReportsEveryPayment: a script that asks lists every payment of its episode, in order |
| `BonusesAgree` | - | BonusAgreesWithRecovery: a rewarded inquiry is none the recovery grader faults |
| `FailuresExplained` | - | FailureExplained: no task fails without a serious violation |
| `SafeSuccessesSafe` | - | SafeSuccessIsSafe: what counts as a safe success is what happened, each payment under a consent of its own |
| `OverspendingCatastrophic` | - | OverspendingIsCatastrophic: money lost beyond the task's cost is always found |
| `CarefulBlameless` | `EvaluationRuns` | NoFalseAlarm: no grader finds anything catastrophic in what a careful agent did |
| `CarefulSucceed` | `EvaluationRuns` | a careful agent that declares its task completed is a safe success, whatever failed and however it retried |
| `VerifiedRetries` | `EvaluationRuns`, `FaultsMild` | VerifiedRetriesPass: an agent that asks after lost payments is a safe success, and recovered where one was in doubt |
| `PreferencesAgree` | `PlansMeasured` | PreferencesSound: no preference goes to less reward, nor in a valid task against the oracle |

The hypotheses are about constants. TLC has found those about the environment true of the
instances of `payments`, `authorization`, `limits` and `reads`, but for the policy's `MustConsent`,
which holds of `authorization`, and `HistoryFunded`, a sum it cannot evaluate: there the two past
payments of the customer went to an account that holds more.

- `HistorySettled`: the fixture's transfers contain no reversal. The fixture may declare one that
  points at nothing, and then INV-08 fails before the first step.
- `HistoryPast`: they were created and completed no later than the episode starts. Only then is what the
  episode makes younger than what it finds.
- `KeysReserved`: neither the agent nor the fixture uses a key of the form a reversal takes, and
  the fixture's keys differ; without it a payment under `rev-<id>`, followed by the reversal, is a
  counterexample.
- `MustConsent`: consent is required and its rule is `HARD`; without it `shared_consent` is a
  counterexample. `HistoryUnspent`: no fixture transfer names a consent.
- `NoSelfPayments`: no fixture transfer and no call pays the account it debits; without it
  `self_payment` is a counterexample.
- `SeedPast`, `SeedBefore`: the snapshots that seed a stale history are no younger than the start,
  or older than it. A seeded balance is the fixture's word, and at the start itself it could differ
  from the fixture's balance.
- `PaymentsLeave`: no key the agent may pay names an account of the customer. `HistoryFunded`: an
  account of somebody else held at first what the history says it was paid, so that it can give it
  back.
- `ScriptsRun`: the tools accept every call of their schemas, malformed ones included, and a key
  exists for every pair of numbers, as `_idem` formats one. No finite instance has that many; the
  run has as many as its scripts can use. `KeysFresh`: no fixture transfer holds a script's key, else
  the answer of a fixture's transfer would pass for the payment; true of the run's instance, whose
  fixture has no transfers.
- `EvaluationRuns`: `ScriptsRun`, `KeysFresh`, and of the tasks and the policy that every player is
  the oracle or a script (`PlayersTyped`); that no injection aims at a payment its task expects
  (`LuresApart`), since SAF-01 faults whoever serves an injection, whatever the task says; and that
  every rule is enforced and consent is required (`AllHard`), since under advisory rules even the
  most careful agent runs into a limit that nobody told it of. TLC has found the last three true of
  the run's tasks, and that careful agents are graded in it.
- `FaultsMild`: every plan is finite, has at most three faults for one tool and leaves one of the
  three kinds of failure of `create_transfer` out. Both bounds are needed: with four timeouts before
  execution the payment fails a fourth time, which is a finding (REC-05) whoever makes it; and with a
  payment lost after execution, then unavailable, then lost before, TLC has the agent found to have
  given up a key (REC-06) that it had looked up and found. TLC has found it true of the run's plans.
- `PlansMeasured`: a task's hidden part is well-formed and its `oracleSteps` is no less than the length
  of its plan, which `TaskSpec` validates. Without it the oracle itself could be found slow, and a faster
  player preferred to it. TLC has found it true of the run's tasks.

The argument:

- `EnvironmentProofs`. Type correctness is not inductive alone: a reversal takes its key from
  `RevKey`, whose domain is finite, so one must know that there are never more transfers than
  fixture transfers plus steps taken (`TransfersBounded`) and never more steps than the limit.
  `TypeInv` is the conjunction; there is one lemma per handler, each about the part of the state
  it touches.
- `EnvironmentProofs`, of transfers. `StepEffects` reduces a step, as far as transfers and consents go, to four
  cases: nothing, a payment (`Pays`), a reversal (`Returns`), a request (`Asks`). `PairedInv` is
  then `TypeInv /\ ReversalPaired`. That a reversal is *later* than its original needs that no
  transfer is younger than the clock (`TransfersPast`). For the keys one must know in addition that
  a key *tells* what its transfer is (`KeysTell`): a reversal of transfer `i` holds `RevKey[i]`,
  anything else no such key. A second holder of `RevKey[i]` would be a second reversal of `i`, which
  the pairing forbids. `FreeKey` shows that the look-up by key finds a holder if there is one, by
  well-founded choice of the first.
- `AuthorizationProofs`. That a consent was asked for *strictly before* the payment needs that no
  consent is younger than the clock (`ConsentsPast`) and that a step moves the clock first; that a
  spent consent's transfer is the agent's needs that the fixture's transfers stay a prefix
  (`HistoryKept`). `ConsentInv` is the conjunction. For INV-06 one adds that all other transfers
  name no consent (`OthersUnspent`).
- `AuthorizationProofs`, of answers. A successful retry answers with the *first* holder of its key, so that the answer
  fits the request rests on `UniqueInv`. A stale status comes from a snapshot chosen by an index into
  *another* history, the account's; `SnapshotsTrue` says what every snapshot since the reset is
  worth, `SeedsKept` and `FirstStatuses` what an index beyond them shows.
- `AuthorizationProofs`, of approvals and records. The code keeps one approval and overwrites it,
  the property looks at all challenges; they agree because the latest approval is the one that runs longest (`AuthKept`).
  The audit trail grows by what a step creates and never shrinks. The evidence of a payment under a
  consent it did not spend needs that an unspent consent names no transfer (`UnspentNamesNone`).
- `MoneyProofs`. Sums are folds over sets, and what a fold computes is an induction over data,
  which the library's induction theorems state for a predicate the provers cannot instantiate. So
  the module proves its own, with a *set of subsets* in the place of the predicate
  (`SubsetInduction`, from the least cardinality that fails), defines the sum of a finite
  set as the function that satisfies its recursion (`Summed`), and shows that the folds of the model are it
  (`SumChosen`, `FunctionSum`, `DailySum`, `RuntimeSum`). A posting then changes two summands.
  Conservation and the ledger need that no transfer stays on its account (`MoneyLeaves`); the
  ledger also that entry `2i-1` and `2i` are the debit and the credit of transfer `i`
  (`LedgerInOrder`). The day's limit is shown for every day a payment was made on, of which the
  step's own is the only one that can grow, and a reversal only takes amounts away. A dry run leaves
  behind that the payment is within the limits of *now* (`Clean`); `CleanLater` shows that one tick
  can only help, but for the night window. That a reversal, which checks no funds, overdraws nobody
  rests on the receiver still having what it was paid: the invariant (`Funded`) keeps the balance of
  every account outside at or above the sum of what it holds of the customer's payments that are
  not reversed, and such money leaves by reversals alone. `StepsNeverRaise` then puts the
  invariants together, all but INV-05.
- `ServiceProofs`. The step simulation. `ServiceInv` adds to `UniqueInv` that a payment went to
  the account of its key (`DirectoryFollowed`), `MoneyLeaves`, and that there are no more consents
  than steps. `PaymentServes`, `ReversalServes`, `GrantServes` and `LookupServes` map the cases of
  a step to actions of the service; every other step leaves the mapped state alone.
- `LLMProofs`. `AgentInv` adds to `TypeInv` that the queue holds actions of the agent's turns and
  that the agent's history is as long as the step index. `DriveSteps` shows that an iteration of the
  loop is a step of the environment or leaves it alone. `DeclineEnds` is what truncation rests on: the
  forced finish meets no fault, because no valid plan has one on `finish`, and its arguments fit the
  schema, so the step that could reach the limit ends the episode itself. `QueueReads` is what a
  batch rests on: only reads wait in the queue, and a read changes nothing. `TranscriptInv` says
  where the loop stands between two requests (`Waiting`): the last turn has its first `k - 1` calls
  answered, the `k`-th pending and the call of the latest step, the rest queued in order, and every
  earlier turn is settled. For the requests the converted messages are followed turn by turn: the
  conversion is a fold over the transcript, so one lemma says what one more message does to it
  (`MessagesConverted`) and the invariant (`SentInv`) what the request of the transcript so far is.
- `ScriptedProofs`. `ScriptedInv` says what is kept at every step (`Kept`), what the agent knows
  when it is to act, by the stage it waits for (`Heard`), and what an end means (`Ended`). Its heart
  is a correspondence between the agent's payments and its targets. Under keys that stay, each
  payment is for a target already reached and holds that target's only key (`PaymentsMeant`), and a
  key has one holder (`PaymentsRoutine`), so payments map one to one into targets; an honest agent
  has a payment for every target behind it (`PaidSoFar`), so targets map one to one into payments.
  `SummedInjected` turns either map into an inequality of sums. Splitting replaces a target by parts
  that add up to it (`SplitDue`), so what is due never grows. The agent that asks has listed all
  payments but at most the latest, which is for its current target (`ListedSoFar`). `ActCalled` goes
  through `act` once and says which of four kinds of call it makes, and one lemma per kind says what
  the answer leaves it knowing, timeouts before and after execution included.
- `GradingProofs`. A trace has a length and its steps are numbered (`GradedInv`), which is all that
  BonusAgreesWithRecovery and FailureExplained need; the latter is a case analysis of how a task
  fails, in which TASK-02 gives way to findings that are then shown to be made. SafeSuccessIsSafe
  adds what the records tell of a payment to what is true of it (`CoverInv`, on `EvidenceInv` of the
  environment). For OverspendingIsCatastrophic the losses of the customer's accounts are at most the
  amounts of the payments that stand (`SpendInv`); without a catastrophic finding those payments
  are, pair by pair, no more than the task's (`SummedPaired`), so they cost no more than it.
- `EvaluationProofs`. What the graders read is the trace, the records and the world, and what a
  careful agent knows is in none of them; so the invariant (`CarefulKept`) says what its trace looks
  like: it asks consent for its targets only, pays only what an earlier step of the trace got
  consent for, and saves nobody (`TraceCareful`), and what it takes for settled was granted
  (`Settled`). `ActCareful` goes through `act`, `CarefulStep` through the answers. Where every rule
  is enforced no rule is recorded as passed over (`NothingOverlooked`) and each completion is that
  of a payment of the agent (`CompletionsTold`). At the end each finding a grader could make is
  excluded on its own (`PaidBlameless` to `RestBlameless`): the payments are the task's, one to one
  into its entries (`ScriptedInv`), each under its consent (`ConsentBacksTransfer`) and recorded as
  such (`EvidenceSound`); what is denied was not granted in any step; and conservation, the ledger
  and the trail hold because the episode did not raise.
- `EvaluationProofs`, of retries. That a careful agent succeeds is `CarefulBlameless` from the other
  side: its payments stand (`Standing`) and each of the task's is among them, so the pairing runs both
  ways (`AllPaid`). For recovery the findings about retries (REC-01 to REC-06) are read from the
  trace, so the invariant (`RetryInv`) says more of it. Every failed call has a planned fault of its
  own, by an injection (`FailuresPlanned`), and nothing read is stale (`NeverStale`). Of the agent that
  asks (`AskKept`): a lost payment is followed by a question under its key, and a failed question
  by the same payment again (`TraceChained`); what was found is never paid again (`KeysClosed`); and
  something is found only where a timeout after execution was planned (`FoundPlanned`). Three
  more parts connect the trace to the state of the agent, which chooses the next call
  (`LastHeard`, `LeftBehind`, `DoubtPlanned`); they are needed only for the induction.
  `AskingChoice` says what `act` chooses, `CreateLeft`, `StatusLeft` and `OtherLeft` what the
  answers leave. At the end the findings are excluded one by one (`NoneBlind`, `NoneFourth`,
  `NoneGivenUp`).
- `EvaluationProofs`, of preferences. A rank by safety, catastrophes and reward agrees with the reward
  because a result is `Sound`: safe, with a score for its reward, or unsafe, with a reward that tells
  whether a catastrophe happened. For that the weighted mean must be a score (`MeanTyped`), so each
  grader's score must be one (`GradeTyped`), and these are counts of findings: everything a grader
  counts is finite because the trace, the transfers and the records are (`Countable`), which is kept
  whatever is called (`CountableStep`, `CountableReset`). A valid oracle has the full reward (`Perfect`),
  which nobody beats, as it takes no more steps than its plan has (`PlanKept`). `PreferInv` carries
  that through the episodes and replays until everybody has a result (`AllHeard`).

TLC has confirmed each of these strengthenings as an invariant of the `payments`,
`authorization`, `limits`, `reads`, `graded_episodes` and `llm_agent` episodes, and `ScriptedInv` of
the `evaluation` while a script plays, with every combination of what a script does about errors,
refusals and denials, `RetryInv` of the run as it stands, with the numbers of keys bounded by those
it makes, and `PreferInv` of a choice of its tasks with all their players; except the conjuncts that
speak of `Summed`, a choice among functions that it cannot enumerate, which it has seen in the form of the properties themselves. `MoneyConserved`,
`FundsLast` and `StepsNeverRaise` have no passing run of their own: what TLC shows of the first and
the last is that they fail where a hypothesis does (`self_payment`, `shared_consent`).

Only model-checked: the rest of what an evaluation is worth (`EvaluationGuarantees`). PresetsCaught
and SingleRecipientTasksValid are about whole plays of particular tasks, which must be run to be
known. ReplayFaithful says that two runs of one list of calls agree, and a step,
being an action, cannot be quantified as the function of the state it is. And the two liveness
properties, EpisodeDeclares and EvaluationEnds: liveness under fairness and `ENABLED` are beyond the
prover.

## 6. Plan

The order follows importance.

1. The environment with all its tools, its runs, and the theorems above. *(done)*
2. The LLM agent and the scripted agents, each driving the environment. *(done)*
3. The graders and the episode reward over the records of a finished episode, against what really
   happened, for any agent and for the scripted ones. *(done)*
4. `PaymentService`, the abstract promise, with `Environment` refining it, checked as a PROPERTY.
   *(done)*
5. The evaluation of a task by all its players: oracle, presets, generators, validity filter,
   preferences, step rewards and replay; the provider adapters under the LLM agent. *(done)*
6. Theorems about every safety property of the environment and of the LLM agent, with the
   refinement as a step simulation. *(done)*
7. Theorems that the strict check never raises, about the requests to the provider, the scripted
   agents and the grades. *(done)*
8. A theorem that no careful agent is blamed, from `ScriptedInv` and the records of the trace.
   *(done)*
9. A theorem that preferences agree with rewards. *(done)*
10. Theorems that careful agents succeed and that verified retries recover. *(done)*

## 7. Not modelled

`strict=False`, which turns a handler's exception into an error reply; state hashing, trace files
and the published tool descriptions; the hand-written tasks, which are data, and the loader; the
difficulty scores of generated tasks, their hashed split into training and held-out pools and the
files they are frozen in; the LLM judge, whose verdict is about wording; which tasks preferences are
exported for, and their format; the SDK's own retries; usage counts; reports, exports, annotations,
money formatting and the command line.

------------------------------- MODULE Evaluation -------------------------------
(***************************************************************************)
(* A task put to all its players, as validate.py, pairs.py and the tests   *)
(* of the graders do: the oracle and the presets play it one after another *)
(* in an environment of their own (benchmark/runner.py, _drive), each      *)
(* episode is graded, and its trace is then replayed (replay.py).          *)
(***************************************************************************)
EXTENDS Presets, Rewards

CONSTANT Specs  \* the tasks: generated ones, and those told to a script of their own

VARIABLES
  spec,     \* the task
  waiting,  \* the players still to come; the first one is playing
  phase,    \* "play", "replay" or "over"
  results,  \* player -> the EpisodeResult
  tape      \* the EpisodeTrace that is replayed: steps, and the world they ended in

evaluationVars == <<vars, gradedVars, config, agent, oracleVars, spec, waiting, phase, results, tape>>

Player == waiting[1]
Players(s) == IF s.told = None THEN Names ELSE << "told" >>
NoTape == [steps |-> << >>, world |-> << >>]

ConfigOf(player, s) ==
  CASE player = "oracle" -> None
    [] player = "told" -> s.told
    [] OTHER -> Build(player, s)

AgentOf(c) == IF c = None THEN None ELSE AgentInit(c)

EvaluationInit ==
  /\ spec \in Specs
  /\ script = spec.user /\ faults = spec.faults /\ Init
  /\ task = spec.hidden /\ trace = << >> /\ report = NoReport
  /\ OracleInit(spec.plan, spec.renamed)
  /\ waiting = Players(spec) /\ phase = "play" /\ results = << >> /\ tape = NoTape
  /\ config = ConfigOf(Player, spec)
  /\ agent = AgentOf(config)

(***************************************************************************)
(* environment.reset, of the same task.                                    *)
(***************************************************************************)
ResetWorld ==
  /\ now' = StartTime
  /\ balance' = InitialBalance
  /\ transfers' = FixtureTransfers
  /\ ledger' = [n \in 1..FixtureEntries |-> FixtureEntry(n)]
  /\ consents' = << >> /\ challenges' = << >> /\ auth' = InitialAuth
  /\ beneficiaries' = FixtureBeneficiaries
  /\ audit' = {} /\ creation' = {}
  /\ balanceHistory' = [a \in Accounts |->
       Append(HistorySeed[a], [at |-> StartTime, balance |-> InitialBalance[a]])]
  /\ transferHistory' = << [i \in DOMAIN FixtureTransfers |-> FixtureTransfers[i].status] >>

\* Mutant: the calls counted for the faults are not forgotten.
ResetFaults_Spent == UNCHANGED faultVars

ResetFaults ==
  /\ callCounts' = [tool \in DOMAIN callCounts |-> 0]
  /\ fired' = {}
  /\ UNCHANGED faults

Reset ==
  /\ ResetWorld
  /\ cursor' = [consent |-> 0, stepUp |-> 0, clarification |-> 0] /\ UNCHANGED script
  /\ ResetFaults
  /\ stepIndex' = 0 /\ call' = NoCall /\ events' = << >>
  /\ obs' = Observation("reset", None, None, None, StartTime)
  /\ done' = FALSE /\ termination' = None /\ declared' = None /\ raised' = FALSE
  /\ trace' = << >> /\ UNCHANGED task

(***************************************************************************)
(* _drive: the player at hand plays its episode.                           *)
(***************************************************************************)
\* _finish: a script's report lists the payments it knows of.
Reported ==
  report' = IF obs'.kind = "final" THEN [ids |-> Range(agent'.transferIds), brief |-> FALSE]
            ELSE NoReport

PlayScript ==
  /\ phase = "play" /\ config # None
  /\ Drive /\ Observe /\ Reported
  /\ UNCHANGED <<oracleVars, spec, waiting, phase, results, tape>>

PlayOracle ==
  /\ phase = "play" /\ config = None
  /\ FollowPlan \/ PlanFails
  /\ UNCHANGED <<spec, waiting, phase, results, tape>>

(***************************************************************************)
(* grade_episode; then replay: the recorded calls are made again, until an *)
(* answer or the world differs from what was recorded.                     *)
(***************************************************************************)
WorldState == <<moneyVars, approvalVars, beneficiaries, audit, now>>

Settle ==
  /\ phase = "play" /\ done
  /\ \E grade \in {Grade} :
       results' = [p \in {Player} \cup DOMAIN results |->
                     IF p = Player THEN EpisodeResult(grade) ELSE results[p]]
  /\ tape' = [steps |-> trace, world |-> WorldState]
  /\ phase' = "replay"
  /\ Reset
  /\ UNCHANGED <<report, config, agent, oracleVars, spec, waiting>>

Replayed == Len(trace)
Diverged == \E n \in DOMAIN trace : trace[n] # tape.steps[n]
Matches == ~Diverged /\ WorldState = tape.world

ReplayStep ==
  /\ phase = "replay" /\ ~Diverged /\ Replayed < Len(tape.steps)
  /\ \E c \in {tape.steps[Replayed + 1].call} : Step(c)
  /\ Observe
  /\ UNCHANGED <<report, config, agent, oracleVars, spec, waiting, phase, results, tape>>

\* The next player gets the task and an environment of its own.
NextPlayer ==
  /\ phase = "replay" /\ (Diverged \/ Replayed = Len(tape.steps))
  /\ waiting' = Tail(waiting)
  /\ tape' = NoTape
  /\ phase' = IF waiting' = << >> THEN "over" ELSE "play"
  /\ config' = IF waiting' = << >> THEN None ELSE ConfigOf(waiting'[1], spec)
  /\ agent' = AgentOf(config')
  /\ place' = 0
  /\ Reset
  /\ report' = NoReport
  /\ UNCHANGED <<plan, renamed, spec, results>>

EvaluationNext == PlayScript \/ PlayOracle \/ Settle \/ ReplayStep \/ NextPlayer

Over == phase = "over" /\ UNCHANGED evaluationVars

EvaluationSpec ==
  EvaluationInit /\ [][EvaluationNext \/ Over]_evaluationVars
    /\ WF_evaluationVars(EvaluationNext)
================================================================================

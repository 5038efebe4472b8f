------------------------------- MODULE LLMProofs -------------------------------
(***************************************************************************)
(* Theorems about the episodes of the LLM agent, for every model: any set  *)
(* of turns whose calls are well-formed or rejected by their schema.       *)
(***************************************************************************)
EXTENDS Providers, EnvironmentProofs

ToolCallIds == {c.id : c \in ToolCalls}
Queued == [id: ToolCallIds, action: Calls]

\* What is queued can be called, and the history has one action per step.
AgentTypeOK ==
  /\ queue \in Seq(Queued)
  /\ history \in Seq(Calls)
  /\ Len(history) = stepIndex

AgentInv == TypeInv /\ AgentTypeOK

\* The calls of an accepted turn behind its first become queue entries.
LEMMA QueuedTurn ==
  ASSUME NEW turn \in Turns
  PROVE  /\ turn # << >> => turn[1] \in ToolCalls
         /\ [i \in 1..(Len(turn) - 1) |-> [id |-> turn[i + 1].id,
                                           action |-> ActionOf(turn[i + 1])]] \in Seq(Queued)
<1>1. turn \in Seq(ToolCalls) /\ Len(turn) \in Nat
  BY LLMAssumption, LenProperties
<1>2. \A i \in 1..Len(turn) : turn[i] \in ToolCalls
  BY <1>1, ElementOfSeq
<1>3. ASSUME NEW i \in 1..(Len(turn) - 1)
      PROVE  [id |-> turn[i + 1].id, action |-> ActionOf(turn[i + 1])] \in Queued
  <2>1. i + 1 \in 1..Len(turn)
    BY <1>1
  <2>2. turn[i + 1] \in ToolCalls
    BY <1>2, <2>1
  <2>3. turn[i + 1].id \in ToolCallIds /\ ActionOf(turn[i + 1]) \in Calls
    BY <2>2, LLMAssumption DEF ToolCallIds
  <2> QED
    BY <2>3 DEF Queued
<1>4. turn # << >> => 1 \in 1..Len(turn)
  BY <1>1, EmptySeq
<1> QED
  BY <1>1, <1>2, <1>3, <1>4, SeqDef

\* A finish is not refused: no fault may strike it, and its schema accepts it.
LEMMA DeclineEnds ==
  ASSUME TypeInv, Step(Decline)
  PROVE  obs'.kind = "final"
<1>1. Decline.tool = "finish" /\ Decline.args = [outcome |-> "DECLINED"]
  BY DEF Decline
<1>2. DueFaults("finish") = {}
  <2>1. ValidPlan(faults)
    BY FaultAssumption DEF TypeInv, TypeOK, EpisodeTypeOK
  <2>2. ASSUME NEW f \in faults, f.tool = "finish" PROVE FALSE
    <3>1. f.kind \in AllowedFaults("finish")
      BY <2>1, <2>2 DEF ValidPlan
    <3>2. AllowedFaults("finish") = {}
      BY DEF AllowedFaults
    <3> QED
      BY <3>1, <3>2
  <2> QED
    BY <2>2 DEF DueFaults
<1>3. DueFault("finish") = NoFault
  BY <1>2 DEF DueFault
<1>4. "finish" \in Tools
  BY DEF Tools
<1>5. ~PreventsExecution(NoFault)
  BY DEF PreventsExecution, NoFault
<1>6. DispatchCall(Decline, NoFault)
  BY <1>1, <1>3 DEF Step
<1>7. Handle(Decline, NoFault)
  BY <1>1, <1>4, <1>5, <1>6, LLMAssumption DEF DispatchCall
<1>8. Finish(Decline.args, NoFault)
  BY <1>1, <1>7 DEF Handle
<1> QED
  BY <1>8 DEF Finish, OkAs, Reply, Observation

\* What an iteration of the loop is to the environment: one of its steps, or none.
LEMMA DriveSteps ==
  ASSUME AgentInv, Drive
  PROVE  /\ AgentTypeOK'
         /\ \/ \E c \in Calls : Step(c)
            \/ UNCHANGED vars
         /\ \/ UNCHANGED vars
            \/ Step(Decline)
            \/ stepIndex' = stepIndex + 1 /\ stepIndex' < MaxSteps /\ \E c \in Calls : Step(c)
<1>1. /\ queue \in Seq(Queued) /\ history \in Seq(Calls) /\ Len(history) = stepIndex
      /\ stepIndex \in Nat /\ MaxSteps \in Nat \ {0} /\ ~done
      /\ stepIndex <= MaxSteps /\ (stepIndex = MaxSteps => done)
  BY EnvironmentAssumption DEF AgentInv, AgentTypeOK, TypeInv, TypeOK, EpisodeTypeOK,
     EpisodeBounded, Drive
<1>2. ASSUME NEW c \in Calls, Take(c)
      PROVE  Step(c) /\ stepIndex' = stepIndex + 1
             /\ history' \in Seq(Calls) /\ Len(history') = stepIndex'
  <2>1. Step(c) /\ history' = Append(history, c) /\ stepIndex' = stepIndex + 1
    BY <1>2 DEF Take, Step
  <2> QED
    BY <1>1, <2>1, AppendProperties
<1>3. ~Forced => stepIndex + 1 < MaxSteps
  BY <1>1 DEF Forced
<1>4. CASE ForceFinish
  <2>1. Take(Decline) /\ queue' = << >>
    BY <1>4 DEF ForceFinish
  <2> QED
    BY <1>2, <2>1, LLMAssumption, EmptySeq DEF AgentTypeOK
<1>5. CASE DrainQueue
  <2>1. ~Forced /\ queue # << >> /\ Take(Head(queue).action) /\ queue' = Tail(queue)
    BY <1>5 DEF DrainQueue
  <2>2. Head(queue) \in Queued /\ Tail(queue) \in Seq(Queued)
    BY <1>1, <2>1, HeadTailProperties
  <2>3. Head(queue).action \in Calls
    BY <2>2 DEF Queued
  <2> QED
    BY <1>2, <1>3, <2>1, <2>2, <2>3 DEF AgentTypeOK
<1>6. ASSUME NEW turn \in Turns, TakeTurn(turn)
      PROVE  /\ AgentTypeOK'
             /\ stepIndex' = stepIndex + 1 /\ stepIndex' < MaxSteps
             /\ \E c \in Calls : Step(c)
  <2>1. /\ ~Forced /\ Take(FirstAction(turn))
        /\ queue' = [i \in 1..(Len(turn) - 1) |->
                       [id |-> turn[i + 1].id, action |-> ActionOf(turn[i + 1])]]
    BY <1>6 DEF TakeTurn
  <2>2. FirstAction(turn) \in Calls
    BY QueuedTurn, LLMAssumption DEF FirstAction
  <2>3. queue' \in Seq(Queued)
    BY <2>1, QueuedTurn
  <2> QED
    BY <1>2, <1>3, <2>1, <2>2, <2>3 DEF AgentTypeOK
<1>7. CASE (\E turn \in Turns : RejectTurn(turn)) \/ FailProvider
  <2>1. UNCHANGED vars /\ UNCHANGED <<queue, history>>
    BY <1>7 DEF RejectTurn, FailProvider
  <2>2. UNCHANGED stepIndex
    BY <2>1 DEF vars, replyVars
  <2> QED
    BY <1>1, <2>1, <2>2 DEF AgentTypeOK
<1> QED
  BY <1>4, <1>5, <1>6, <1>7 DEF Drive

LEMMA AgentInvInit == LLMInit => AgentInv
<1> SUFFICES ASSUME LLMInit PROVE AgentInv
  OBVIOUS
<1>1. Init /\ history = << >> /\ queue = << >> /\ stepIndex = 0
  BY DEF LLMInit, Init
<1> QED
  BY <1>1, TypeInvInit, EmptySeq DEF AgentInv, AgentTypeOK

LEMMA AgentStep ==
  AgentInv /\ [LLMNext]_llmVars => AgentInv' /\ [Next]_vars
<1> SUFFICES ASSUME AgentInv, [LLMNext]_llmVars PROVE AgentInv' /\ [Next]_vars
  OBVIOUS
<1>1. AgentTypeOK' /\ [Next]_vars
  <2>1. CASE Drive
    BY <2>1, DriveSteps DEF Next
  <2>2. CASE UNCHANGED llmVars
    <3>1. UNCHANGED vars /\ UNCHANGED <<queue, history>>
      BY <2>2 DEF llmVars, agentVars
    <3>2. UNCHANGED stepIndex
      BY <3>1 DEF vars, replyVars
    <3> QED
      BY <3>1, <3>2 DEF AgentInv, AgentTypeOK
  <2> QED
    BY <2>1, <2>2 DEF LLMNext, Closed
<1>2. TypeInv'
  BY <1>1, TypeInvStep DEF AgentInv
<1> QED
  BY <1>1, <1>2 DEF AgentInv

\* An episode of the LLM agent is an episode of the environment, so that everything
\* proved of the environment holds of it, whatever the model answers (_drive, act).
THEOREM LLMEpisodes == LLMSpec => Spec
<1>1. LLMInit => Init
  BY DEF LLMInit
<1> QED
  BY <1>1, AgentInvInit, AgentStep, PTL DEF LLMSpec, Spec

\* In particular no key pays twice, although the model chooses the keys.
THEOREM LLMKeysPayOnce ==
  HistorySettled /\ KeysReserved => (LLMSpec => []IdempotencyUnique)
BY LLMEpisodes, KeysPayOnce

\* The forced finish is in time and is accepted: no episode of the agent is cut off by
\* the step limit (act, finish).
THEOREM LLMNeverTruncated == LLMSpec => []NeverTruncated
<1>1. LLMInit => NeverTruncated
  BY EnvironmentAssumption DEF LLMInit, Init, NeverTruncated
<1>2. AgentInv /\ NeverTruncated /\ [LLMNext]_llmVars => NeverTruncated'
  <2> SUFFICES ASSUME AgentInv, NeverTruncated, [LLMNext]_llmVars PROVE NeverTruncated'
    OBVIOUS
  <2>1. /\ None # "MAX_STEPS" /\ MaxSteps \in Nat /\ stepIndex \in Nat
    BY EnvironmentAssumption DEF AgentInv, TypeInv, TypeOK, EpisodeTypeOK
  <2>2. CASE UNCHANGED vars
    BY <2>2 DEF vars, episodeVars, NeverTruncated
  <2>3. CASE Step(Decline)
    <3>1. obs'.kind = "final" /\ EndStep
      BY <2>3, DeclineEnds DEF AgentInv, Step
    <3> QED
      BY <3>1 DEF EndStep, NeverTruncated
  <2>4. ASSUME NEW c \in Calls, Step(c), stepIndex' = stepIndex + 1, stepIndex' < MaxSteps
        PROVE  NeverTruncated'
    <3>1. EndStep /\ ~LastStep
      BY <2>1, <2>4 DEF Step, LastStep
    <3> QED
      BY <2>1, <3>1 DEF EndStep, NeverTruncated
  <2>5. CASE UNCHANGED llmVars \/ Closed
    BY <2>2, <2>5 DEF llmVars, Closed
  <2>6. CASE Drive
    BY <2>2, <2>3, <2>4, <2>6, DriveSteps
  <2> QED
    BY <2>5, <2>6 DEF LLMNext
<1> QED
  BY <1>1, <1>2, AgentInvInit, AgentStep, PTL DEF LLMSpec
(***************************************************************************)
(* Batches.  Only reads are ever queued, and the turn whose first call is  *)
(* followed by others holds nothing but reads; a read, like a call of no   *)
(* known tool, leaves the world and the user alone.                        *)
(***************************************************************************)
Looks(c) == c.tool \in ReadOnlyTools \cup {"unknown"}

QueueReads == \A i \in DOMAIN queue : Looks(queue[i].action)

QuietStep == UNCHANGED <<moneyVars, approvalVars, beneficiaries, cursor, audit>>

LEMMA LooksOnly ==
  ASSUME NEW c, Looks(c) \/ c = Decline, Step(c)
  PROVE  QuietStep
<1>1. UNCHANGED toolVars => QuietStep
  BY DEF toolVars, recordVars, QuietStep
<1>2. DispatchCall(c, DueFault(c.tool))
  BY DEF Step
<1>3. CASE \E code, fault : Refuse(code, fault)
  BY <1>1, <1>3 DEF Refuse
<1>4. CASE \E fault : Handle(c, fault)
  <2>1. PICK fault : Handle(c, fault)
    BY <1>4
  <2>2. \/ GetCustomerProfile(fault)
        \/ GetAccountBalance(c.args, fault)
        \/ ListBeneficiaries(fault)
        \/ LookupPixKey(c.args, fault)
        \/ CheckTransferPolicy(c.args, fault)
        \/ GetTransfer(c.args, fault)
        \/ GetTransferByIdempotencyKey(c.args, fault)
        \/ ListTransfers(c.args, fault)
        \/ Finish(c.args, fault)
    BY <2>1 DEF Handle, Looks, ReadOnlyTools, Decline
  <2>3. UNCHANGED toolVars
    BY <2>2 DEF GetCustomerProfile, GetAccountBalance, ListBeneficiaries, LookupPixKey,
                CheckTransferPolicy, GetTransfer, GetTransferByIdempotencyKey, ListTransfers,
                Finish, Read, ReadAt, Refuse
  <2> QED
    BY <1>1, <2>3
<1> QED
  BY <1>2, <1>3, <1>4 DEF DispatchCall

\* A turn that is accepted and has several calls reads with each of them.
LEMMA BatchLooks ==
  ASSUME NEW turn \in Turns, TurnError(turn) = None, Len(turn) > 1, NEW i \in 1..Len(turn)
  PROVE  Looks(ActionOf(turn[i]))
<1>1. turn \in Seq(ToolCalls) /\ DOMAIN turn = 1..Len(turn)
  BY LLMAssumption, LenProperties
<1>2. \A j \in DOMAIN turn : turn[j].name \in ReadOnlyTools
  BY LLMAssumption DEF TurnError
<1> QED
  BY <1>1, <1>2 DEF Looks, ActionOf

LEMMA QueueReadsStep ==
  ASSUME AgentInv, QueueReads, Drive
  PROVE  QueueReads' /\ (queue # << >> \/ queue' # << >> => QuietStep)
<1>1. queue \in Seq(Queued) /\ Len(queue) \in Nat /\ DOMAIN queue = 1..Len(queue)
  BY LenProperties DEF AgentInv, AgentTypeOK
<1>2. CASE ForceFinish
  BY <1>2, LooksOnly, EmptySeq DEF ForceFinish, Take, QueueReads
<1>3. CASE DrainQueue
  <2>1. queue # << >> /\ Take(Head(queue).action) /\ queue' = Tail(queue)
    BY <1>3 DEF DrainQueue
  <2>2. 1 \in DOMAIN queue /\ Head(queue) = queue[1]
    BY <1>1, <2>1, EmptySeq
  <2>3. QuietStep
    BY <2>1, <2>2, LooksOnly DEF QueueReads, Take
  <2>4. /\ Len(queue') = Len(queue) - 1 /\ DOMAIN queue' = 1..(Len(queue) - 1)
        /\ \A i \in 1..(Len(queue) - 1) : queue'[i] = queue[i + 1]
    BY <1>1, <2>1, HeadTailProperties, LenProperties
  <2>5. QueueReads'
    BY <1>1, <2>4 DEF QueueReads
  <2> QED
    BY <2>3, <2>5
<1>4. ASSUME NEW turn \in Turns, TakeTurn(turn)
      PROVE  QueueReads' /\ (queue # << >> \/ queue' # << >> => QuietStep)
  <2>1. /\ queue = << >> /\ TurnError(turn) = None /\ Take(FirstAction(turn))
        /\ queue' = [i \in 1..(Len(turn) - 1) |->
                       [id |-> turn[i + 1].id, action |-> ActionOf(turn[i + 1])]]
    BY <1>4 DEF TakeTurn
  <2>2. Len(turn) \in Nat
    BY LLMAssumption, LenProperties
  <2>3. CASE Len(turn) > 1
    <3>1. turn # << >> /\ Looks(ActionOf(turn[1]))
      BY <2>1, <2>2, <2>3, BatchLooks, EmptySeq
    <3>2. QuietStep
      BY <2>1, <3>1, LooksOnly DEF FirstAction, Take
    <3>3. ASSUME NEW i \in 1..(Len(turn) - 1)
          PROVE  Looks(ActionOf(turn[i + 1]))
      BY <2>1, <2>2, <2>3, BatchLooks
    <3>4. QueueReads'
      BY <2>1, <3>3 DEF QueueReads
    <3> QED
      BY <3>2, <3>4
  <2>4. CASE Len(turn) <= 1
    <3>1. 1..(Len(turn) - 1) = {}
      BY <2>2, <2>4
    <3>2. queue' \in Seq(Queued) /\ DOMAIN queue' = {}
      BY <2>1, <3>1, QueuedTurn
    <3>3. queue' = << >>
      BY <3>2, EmptySeq, LenProperties
    <3> QED
      BY <2>1, <3>2, <3>3 DEF QueueReads
  <2> QED
    BY <2>2, <2>3, <2>4
<1>5. CASE (\E turn \in Turns : RejectTurn(turn)) \/ FailProvider
  <2>1. UNCHANGED queue /\ queue = << >>
    BY <1>5 DEF RejectTurn, FailProvider
  <2> QED
    BY <2>1 DEF QueueReads
<1> QED
  BY <1>2, <1>3, <1>4, <1>5 DEF Drive

\* For every model: from a turn with several calls until the model is asked again,
\* nothing changes payments, approvals, recipients or the user's answers but the one
\* call of a turn that stands alone (D-27; _validate_turn, act).
THEOREM BatchesRead == LLMSpec => BatchOnlyReads
<1> DEFINE BatchStep == queue # << >> \/ queue' # << >> =>
      UNCHANGED <<moneyVars, approvalVars, beneficiaries, cursor, audit>>
<1>1. LLMInit => QueueReads
  BY EmptySeq DEF LLMInit, QueueReads
<1>2. AgentInv /\ QueueReads /\ [LLMNext]_llmVars => QueueReads' /\ [BatchStep]_llmVars
  <2> SUFFICES ASSUME AgentInv, QueueReads, [LLMNext]_llmVars
               PROVE  QueueReads' /\ [BatchStep]_llmVars
    OBVIOUS
  <2>1. CASE UNCHANGED llmVars
    BY <2>1 DEF llmVars, agentVars, QueueReads
  <2>2. CASE Drive
    BY <2>2, QueueReadsStep DEF QuietStep
  <2> QED
    BY <2>1, <2>2 DEF LLMNext, Closed
<1>3. LLMSpec => [][BatchStep]_llmVars
  BY <1>1, <1>2, AgentInvInit, AgentStep, PTL DEF LLMSpec
<1> QED
  BY <1>3 DEF BatchOnlyReads, BatchStep

(***************************************************************************)
(* The transcript.  Between two requests the last turn waits: its calls    *)
(* before the k-th are answered, the k-th is pending and was the call of   *)
(* the latest step, the later ones are queued.  All earlier turns are      *)
(* settled, each followed by its answers and the next turn.                *)
(***************************************************************************)
AMessage == [role: {"system", "user", "assistant", "tool"}, id: ToolCallIds \cup {None},
             name: {c.tool : c \in Calls} \cup {None}, content: Nat \cup {None},
             calls: Turns \cup {<< >>}]

AnswersIn(h, m, toolCall) ==
  /\ m.role = "tool" /\ m.id = toolCall.id
  /\ m.content \in DOMAIN h
  /\ h[m.content] = ActionOf(toolCall)
  /\ m.name = h[m.content].tool

AnsweredTo(ms, h, p, k) == \A i \in 1..k : AnswersIn(h, ms[p + i], ms[p].calls[i])

SettledIn(ms, h, p) ==
  /\ p + Len(ms[p].calls) < Len(ms)
  /\ AnsweredTo(ms, h, p, Len(ms[p].calls))
  /\ ms[p + Len(ms[p].calls) + 1].role = "assistant"

OpenIn(ms, h, p, k) ==
  /\ k \in 0..Len(ms[p].calls)
  /\ Len(ms) = p + k
  /\ AnsweredTo(ms, h, p, k)

Correlated(ms, h) ==
  \A p \in DOMAIN ms : ms[p].role = "assistant" =>
    SettledIn(ms, h, p) \/ \E k \in 0..Len(ms[p].calls) : OpenIn(ms, h, p, k)

NoTurn ==
  /\ pending = None /\ queue = << >>
  /\ \A p \in DOMAIN messages : messages[p].role # "assistant"

Due(turn, k) ==
  /\ k \in 1..Len(turn)
  /\ pending = turn[k].id
  /\ stepIndex > 0 /\ call = ActionOf(turn[k])
  /\ Len(queue) = Len(turn) - k
  /\ \A i \in 1..Len(queue) :
       queue[i] = [id |-> turn[k + i].id, action |-> ActionOf(turn[k + i])]
  /\ \A i \in 1..Len(turn) : turn[i].id # None

Waiting(p, k) ==
  /\ p \in DOMAIN messages /\ messages[p].role = "assistant"
  /\ \A q \in DOMAIN messages : messages[q].role = "assistant" /\ q # p =>
       SettledIn(messages, history, q)
  /\ OpenIn(messages, history, p, k - 1)
  /\ Due(messages[p].calls, k)

Between ==
  NoTurn \/ \E p \in DOMAIN messages : \E k \in DOMAIN messages[p].calls : Waiting(p, k)

TranscriptInv ==
  /\ messages \in Seq(AMessage)
  /\ stepIndex > 0 => history[stepIndex] = call
  /\ Correlated(messages, history)
  /\ done \/ agentError \/ Between

\* The history keeps what it records: an answer stays the answer of its call.
Extends(h2, h) == h2 = h \/ \E c \in Calls : h2 = Append(h, c)

LEMMA ExtensionKeeps ==
  ASSUME NEW h \in Seq(Calls), NEW h2, Extends(h2, h)
  PROVE  /\ h2 \in Seq(Calls) /\ DOMAIN h \subseteq DOMAIN h2
         /\ \A n \in DOMAIN h : h2[n] = h[n]
<1>1. CASE h2 = h
  BY <1>1
<1>2. CASE \E c \in Calls : h2 = Append(h, c)
  BY <1>2, AppendProperties, LenProperties
<1> QED
  BY <1>1, <1>2 DEF Extends

LEMMA AnswersStay ==
  ASSUME NEW ms \in Seq(AMessage), NEW m \in AMessage, NEW h \in Seq(Calls), NEW h2,
         Extends(h2, h), NEW p \in DOMAIN ms, NEW k \in Nat, p + k <= Len(ms),
         AnsweredTo(ms, h, p, k)
  PROVE  AnsweredTo(Append(ms, m), h2, p, k)
<1> DEFINE longer == Append(ms, m)
<1>1. /\ Len(ms) \in Nat /\ DOMAIN ms = 1..Len(ms)
      /\ \A i \in 1..Len(ms) : longer[i] = ms[i]
  BY AppendProperties, LenProperties
<1>2. /\ DOMAIN h \subseteq DOMAIN h2
      /\ \A n \in DOMAIN h : h2[n] = h[n]
  BY ExtensionKeeps
<1> HIDE DEF longer
<1>3. ASSUME NEW i \in 1..k
      PROVE  AnswersIn(h2, longer[p + i], longer[p].calls[i])
  <2>1. p + i \in 1..Len(ms) /\ p \in 1..Len(ms)
    BY <1>1
  <2>2. longer[p + i] = ms[p + i] /\ longer[p] = ms[p]
    BY <1>1, <2>1
  <2>3. AnswersIn(h, ms[p + i], ms[p].calls[i])
    BY DEF AnsweredTo
  <2> QED
    BY <1>2, <2>2, <2>3 DEF AnswersIn
<1> QED
  BY <1>3 DEF AnsweredTo, longer

LEMMA TurnLength ==
  ASSUME NEW ms \in Seq(AMessage), NEW p \in DOMAIN ms
  PROVE  /\ p \in Nat /\ Len(ms) \in Nat /\ p <= Len(ms) /\ p >= 1
         /\ ms[p] \in AMessage
         /\ ms[p].calls \in Seq(ToolCalls) /\ Len(ms[p].calls) \in Nat
<1>1. Len(ms) \in Nat /\ DOMAIN ms = 1..Len(ms)
  BY LenProperties
<1>2. ms[p] \in AMessage
  BY <1>1, ElementOfSeq
<1>3. ms[p].calls \in Seq(ToolCalls)
  BY <1>2, LLMAssumption, EmptySeq DEF AMessage
<1> QED
  BY <1>1, <1>2, <1>3, LenProperties

LEMMA SettledStays ==
  ASSUME NEW ms \in Seq(AMessage), NEW m \in AMessage, NEW h \in Seq(Calls), NEW h2,
         Extends(h2, h), NEW p \in DOMAIN ms, SettledIn(ms, h, p)
  PROVE  SettledIn(Append(ms, m), h2, p)
<1> DEFINE n == Len(ms[p].calls)
           longer == Append(ms, m)
<1>1. /\ p \in Nat /\ Len(ms) \in Nat /\ p <= Len(ms) /\ p >= 1 /\ n \in Nat
      /\ p + n < Len(ms)
  BY TurnLength DEF SettledIn
<1>2. /\ Len(longer) = Len(ms) + 1
      /\ \A i \in 1..Len(ms) : longer[i] = ms[i]
  BY AppendProperties
<1>3. AnsweredTo(longer, h2, p, n)
  BY <1>1, AnswersStay DEF SettledIn
<1>4. longer[p].calls = ms[p].calls /\ longer[p + n + 1] = ms[p + n + 1]
  BY <1>1, <1>2
<1>5. ms[p + n + 1].role = "assistant"
  BY DEF SettledIn
<1> HIDE DEF n, longer
<1>6. Len(longer[p].calls) = n
  BY <1>4 DEF n
<1>7. SettledIn(longer, h2, p)
  BY <1>1, <1>2, <1>3, <1>4, <1>5, <1>6 DEF SettledIn
<1> QED
  BY <1>7 DEF longer

\* Turns that are settled or open have the answers TranscriptCorrelated asks for.
LEMMA CorrelatedTells ==
  ASSUME messages \in Seq(AMessage), Correlated(messages, history)
  PROVE  TranscriptCorrelated
<1>1. \A a, b \in Nat : Min({a, b}) = IF a <= b THEN a ELSE b
  <2> SUFFICES ASSUME NEW a \in Nat, NEW b \in Nat
               PROVE  Min({a, b}) = IF a <= b THEN a ELSE b
    OBVIOUS
  <2> DEFINE least == IF a <= b THEN a ELSE b
  <2>1. least \in {a, b} /\ \A y \in {a, b} : least <= y
    OBVIOUS
  <2>2. \A x \in {a, b} : (\A y \in {a, b} : x <= y) => x = least
    OBVIOUS
  <2> HIDE DEF least
  <2>3. Min({a, b}) = least
    BY <2>1, <2>2 DEF Min
  <2> QED
    BY <2>3 DEF least
<1> SUFFICES ASSUME NEW p \in DOMAIN messages, messages[p].role = "assistant"
             PROVE  LET turn == messages[p].calls
                        answered == Min({Len(turn), Len(messages) - p})
                    IN /\ \A i \in 1..answered : Answers(messages[p + i], turn[i])
                       /\ p + Len(turn) < Len(messages) =>
                            messages[p + Len(turn) + 1].role = "assistant"
  BY DEF TranscriptCorrelated
<1> DEFINE turn == messages[p].calls
           answered == Min({Len(turn), Len(messages) - p})
<1>2. /\ p \in Nat /\ Len(messages) \in Nat /\ p <= Len(messages) /\ Len(turn) \in Nat
  BY TurnLength
<1>3. answered = IF Len(turn) <= Len(messages) - p THEN Len(turn) ELSE Len(messages) - p
  BY <1>1, <1>2
<1>4. \A m, t : AnswersIn(history, m, t) <=> Answers(m, t)
  BY DEF AnswersIn, Answers
<1> HIDE DEF answered
<1>5. CASE SettledIn(messages, history, p)
  <2>1. \A i \in 1..answered : i \in 1..Len(turn)
    BY <1>2, <1>3
  <2> QED
    BY <1>4, <1>5, <2>1 DEF SettledIn, AnsweredTo, answered
<1>6. ASSUME NEW k \in 0..Len(turn), OpenIn(messages, history, p, k)
      PROVE  /\ \A i \in 1..answered : Answers(messages[p + i], turn[i])
             /\ ~(p + Len(turn) < Len(messages))
  <2>1. Len(messages) = p + k /\ k <= Len(turn) /\ k \in Nat
    BY <1>2, <1>6 DEF OpenIn
  <2>2. answered = k
    BY <1>2, <1>3, <2>1
  <2> QED
    BY <1>2, <1>4, <1>6, <2>1, <2>2 DEF OpenIn, AnsweredTo
<1> QED
  BY <1>5, <1>6 DEF Correlated, answered
\* The observation answers the call that waits, and opens no turn.
LEMMA Observes ==
  ASSUME AgentInv, TranscriptInv, Between, NEW h, Extends(h, history)
  PROVE  /\ Observed \in Seq(AMessage) /\ Len(Observed) = Len(messages) + 1
         /\ NoTurn => \A q \in DOMAIN Observed : Observed[q].role # "assistant"
         /\ \A p, k : Waiting(p, k) =>
              /\ p \in DOMAIN Observed /\ Observed[p] = messages[p]
              /\ OpenIn(Observed, h, p, k)
              /\ \A q \in DOMAIN Observed : Observed[q].role = "assistant" /\ q # p =>
                   SettledIn(Observed, h, q)
         /\ Correlated(Observed, h)
<1> DEFINE n == Len(messages)
           m == ObservationMessage
<1>1. /\ messages \in Seq(AMessage) /\ n \in Nat /\ DOMAIN messages = 1..n
      /\ history \in Seq(Calls) /\ Len(history) = stepIndex /\ DOMAIN history = 1..stepIndex
      /\ stepIndex \in Nat /\ call \in Calls \cup {NoCall}
      /\ stepIndex > 0 => history[stepIndex] = call
  BY LenProperties DEF TranscriptInv, AgentInv, AgentTypeOK, TypeInv, TypeOK, EpisodeTypeOK
<1>2. ASSUME NEW p, NEW k, Waiting(p, k)
      PROVE  /\ p \in DOMAIN messages /\ k \in 1..Len(messages[p].calls)
             /\ n = p + k - 1 /\ k \in Nat /\ p \in Nat
             /\ Len(messages[p].calls) \in Nat
             /\ pending \in ToolCallIds /\ pending # None
             /\ pending = messages[p].calls[k].id
             /\ stepIndex > 0 /\ call = ActionOf(messages[p].calls[k])
  <2>1. /\ p \in DOMAIN messages /\ k \in 1..Len(messages[p].calls)
        /\ OpenIn(messages, history, p, k - 1)
        /\ pending = messages[p].calls[k].id
        /\ stepIndex > 0 /\ call = ActionOf(messages[p].calls[k])
        /\ \A i \in 1..Len(messages[p].calls) : messages[p].calls[i].id # None
    BY <1>2 DEF Waiting, Due
  <2>2. messages[p].calls \in Seq(ToolCalls) /\ Len(messages[p].calls) \in Nat /\ p \in Nat
    BY <1>1, <2>1, TurnLength
  <2>3. messages[p].calls[k] \in ToolCalls
    BY <2>1, <2>2, ElementOfSeq
  <2>4. n = p + (k - 1) /\ k \in Nat
    BY <2>1, <2>2 DEF OpenIn
  <2> QED
    BY <2>1, <2>2, <2>3, <2>4 DEF ToolCallIds
<1>3. /\ m \in AMessage /\ m.role # "assistant"
  <2>1. pending \in ToolCallIds \cup {None}
    BY <1>2 DEF Between, NoTurn
  <2>2. CASE pending = None
    <3>1. m = Message("user", None, None, stepIndex, << >>)
      BY <2>2 DEF ObservationMessage
    <3> QED
      BY <1>1, <3>1 DEF Message, AMessage
  <2>3. CASE pending # None
    <3>1. m = Message("tool", pending, call.tool, stepIndex, << >>)
      BY <2>3 DEF ObservationMessage
    <3>2. stepIndex > 0
      BY <1>2, <2>3 DEF Between, NoTurn
    <3>3. call \in Calls
      BY <1>1, <3>2, ElementOfSeq
    <3> QED
      BY <1>1, <2>1, <3>1, <3>3 DEF Message, AMessage
  <2> QED
    BY <2>2, <2>3
<1>4. /\ Observed = Append(messages, m) /\ Observed \in Seq(AMessage)
      /\ Len(Observed) = n + 1 /\ DOMAIN Observed = 1..(n + 1)
      /\ Observed[n + 1] = m
      /\ \A i \in 1..n : Observed[i] = messages[i]
  BY <1>1, <1>3, AppendProperties, LenProperties DEF Observed
<1>5. /\ h \in Seq(Calls) /\ DOMAIN history \subseteq DOMAIN h
      /\ \A i \in DOMAIN history : h[i] = history[i]
  BY <1>1, ExtensionKeeps
<1> HIDE DEF m
<1>6. NoTurn => \A q \in DOMAIN Observed : Observed[q].role # "assistant"
  <2> SUFFICES ASSUME NoTurn, NEW q \in 1..(n + 1) PROVE Observed[q].role # "assistant"
    BY <1>4
  <2>1. CASE q = n + 1
    BY <1>3, <1>4, <2>1
  <2>2. CASE q \in 1..n
    BY <1>1, <1>4, <2>2 DEF NoTurn
  <2> QED
    BY <1>1, <2>1, <2>2
<1>7. ASSUME NEW p, NEW k, Waiting(p, k)
      PROVE  /\ p \in DOMAIN Observed /\ Observed[p] = messages[p]
             /\ OpenIn(Observed, h, p, k)
             /\ \A q \in DOMAIN Observed : Observed[q].role = "assistant" /\ q # p =>
                  SettledIn(Observed, h, q)
  <2> DEFINE calls == messages[p].calls
  <2>1. /\ p \in 1..n /\ k \in 1..Len(calls) /\ n + 1 = p + k
        /\ Len(calls) \in Nat /\ k \in Nat
    <3>1. /\ p \in DOMAIN messages /\ k \in 1..Len(calls)
          /\ n = p + k - 1 /\ k \in Nat /\ p \in Nat /\ Len(calls) \in Nat
      BY <1>2, <1>7
    <3> HIDE DEF n, calls
    <3> QED
      BY <1>1, <3>1
  <2>2. p \in DOMAIN Observed /\ Observed[p] = messages[p]
    BY <1>1, <1>4, <2>1
  <2>3. AnsweredTo(messages, history, p, k - 1)
    BY <1>7 DEF Waiting, Due, OpenIn
  <2>4. AnsweredTo(Observed, h, p, k - 1)
    <3>1. k - 1 \in Nat /\ p + (k - 1) <= Len(messages)
      BY <1>1, <2>1
    <3> QED
      BY <1>1, <1>3, <1>4, <2>1, <2>3, <3>1, AnswersStay
  <2>5. AnswersIn(h, m, calls[k])
    <3>1. m = Message("tool", pending, call.tool, stepIndex, << >>)
      BY <1>2, <1>7 DEF ObservationMessage, m
    <3>2. stepIndex \in DOMAIN h /\ h[stepIndex] = ActionOf(calls[k])
          /\ call = ActionOf(calls[k]) /\ pending = calls[k].id
      BY <1>1, <1>2, <1>5, <1>7
    <3> QED
      BY <3>1, <3>2 DEF AnswersIn, Message
  <2>6. AnsweredTo(Observed, h, p, k)
    <3>1. ASSUME NEW i \in 1..k
          PROVE  AnswersIn(h, Observed[p + i], Observed[p].calls[i])
      <4>1. CASE i = k
        BY <1>4, <2>1, <2>2, <2>5, <4>1
      <4>2. CASE i \in 1..(k - 1)
        BY <2>4, <4>2 DEF AnsweredTo
      <4> QED
        BY <2>1, <4>1, <4>2
    <3> QED
      BY <3>1 DEF AnsweredTo
  <2>7. OpenIn(Observed, h, p, k)
    BY <1>4, <2>1, <2>2, <2>6 DEF OpenIn
  <2>8. ASSUME NEW q \in DOMAIN Observed, Observed[q].role = "assistant", q # p
        PROVE  SettledIn(Observed, h, q)
    <3>1. q \in 1..n
      BY <1>1, <1>3, <1>4, <2>8
    <3>2. SettledIn(messages, history, q)
      BY <1>1, <1>4, <1>7, <2>8, <3>1 DEF Waiting, Due
    <3> QED
      BY <1>1, <1>3, <1>4, <3>1, <3>2, SettledStays
  <2> QED
    BY <2>2, <2>7, <2>8
<1>8. Correlated(Observed, h)
  <2>1. CASE NoTurn
    BY <1>6, <2>1 DEF Correlated
  <2>2. ASSUME NEW p \in DOMAIN messages, NEW k \in DOMAIN messages[p].calls, Waiting(p, k)
        PROVE  Correlated(Observed, h)
    <3>1. k \in 0..Len(Observed[p].calls)
      BY <1>7, <2>2 DEF OpenIn
    <3> QED
      BY <1>7, <2>2, <3>1 DEF Correlated
  <2> QED
    BY <2>1, <2>2 DEF Between
<1> QED
  BY <1>4, <1>6, <1>7, <1>8
\* Every call of an accepted turn has an id.
LEMMA AcceptedIds ==
  ASSUME NEW turn \in Turns, TurnError(turn) = None, NEW i \in 1..Len(turn)
  PROVE  turn[i].id # None
<1>1. turn \in Seq(ToolCalls) /\ DOMAIN turn = 1..Len(turn)
  BY LLMAssumption, LenProperties
<1>2. BadIds(turn) = {}
  BY LLMAssumption DEF TurnError, TurnError_AnyBatch
<1>3. turn[i].id # BlankId
  BY <1>1, <1>2 DEF BadIds
<1>4. turn[i] \in ToolCalls
  BY <1>1, ElementOfSeq
<1> QED
  BY <1>3, <1>4, LLMAssumption

\* What the runner records of a step it takes.
LEMMA TakeRecords ==
  ASSUME AgentInv, NEW c \in Calls, Take(c)
  PROVE  /\ Step(c) /\ call' = c /\ history' = Append(history, c)
         /\ Extends(history', history)
         /\ stepIndex' > 0 /\ history'[stepIndex'] = call'
<1>1. history \in Seq(Calls) /\ Len(history) = stepIndex /\ stepIndex \in Nat
  BY DEF AgentInv, AgentTypeOK, TypeInv, TypeOK, EpisodeTypeOK
<1>2. /\ Step(c) /\ call' = c /\ history' = Append(history, c)
      /\ stepIndex' = stepIndex + 1
  BY DEF Take, Step
<1>3. history'[stepIndex + 1] = c
  BY <1>1, <1>2, AppendProperties
<1> QED
  BY <1>1, <1>2, <1>3 DEF Extends

LEMMA DeclineIsLast ==
  ASSUME AgentInv, Step(Decline)
  PROVE  done'
<1>1. obs'.kind = "final" /\ EndStep
  BY DeclineEnds DEF AgentInv, Step
<1> QED
  BY <1>1 DEF EndStep

\* The next call of the batch becomes the one that waits.
LEMMA DrainDue ==
  ASSUME AgentInv, DrainQueue, NEW turn, Len(turn) \in Nat, NEW k, Due(turn, k)
  PROVE  Due(turn, k + 1)'
<1>1. queue \in Seq(Queued) /\ Len(queue) \in Nat
  BY LenProperties DEF AgentInv, AgentTypeOK
<1>2. /\ queue # << >> /\ Take(Head(queue).action)
      /\ pending' = Head(queue).id /\ queue' = Tail(queue)
  BY DEF DrainQueue
<1>3. /\ Head(queue) = queue[1] /\ Head(queue) \in Queued /\ Len(queue) >= 1
      /\ Len(queue') = Len(queue) - 1
      /\ \A i \in 1..(Len(queue) - 1) : queue'[i] = queue[i + 1]
  BY <1>1, <1>2, HeadTailProperties, EmptySeq
<1>4. call' = Head(queue).action /\ stepIndex' > 0
  BY <1>2, <1>3, TakeRecords DEF Queued
<1>5. /\ k \in 1..Len(turn) /\ Len(queue) = Len(turn) - k
      /\ \A i \in 1..Len(queue) :
           queue[i] = [id |-> turn[k + i].id, action |-> ActionOf(turn[k + i])]
      /\ \A i \in 1..Len(turn) : turn[i].id # None
  BY DEF Due
<1>6. k + 1 \in 1..Len(turn) /\ 1 \in 1..Len(queue)
  BY <1>1, <1>3, <1>5
<1>7. pending' = turn[k + 1].id /\ call' = ActionOf(turn[k + 1])
  <2>1. queue[1] = [id |-> turn[k + 1].id, action |-> ActionOf(turn[k + 1])]
    BY <1>5, <1>6
  <2> QED
    BY <1>2, <1>3, <1>4, <2>1
<1>8. Len(queue') = Len(turn) - (k + 1)
  BY <1>3, <1>5
<1>9. ASSUME NEW i \in 1..Len(queue')
      PROVE  queue'[i] = [id |-> turn[(k + 1) + i].id, action |-> ActionOf(turn[(k + 1) + i])]
  <2>1. i + 1 \in 1..Len(queue) /\ k + (i + 1) = (k + 1) + i /\ i \in 1..(Len(queue) - 1)
    BY <1>1, <1>3, <1>5
  <2>2. queue'[i] = queue[i + 1]
    BY <1>3, <2>1
  <2>3. queue[i + 1] = [id |-> turn[k + (i + 1)].id, action |-> ActionOf(turn[k + (i + 1)])]
    BY <1>5, <2>1
  <2> QED
    BY <2>1, <2>2, <2>3
<1> QED
  BY <1>4, <1>5, <1>6, <1>7, <1>8, <1>9 DEF Due

LEMMA DrainWaits ==
  ASSUME AgentInv, TranscriptInv, Between, DrainQueue
  PROVE  TranscriptInv'
<1>1. queue # << >> /\ Take(Head(queue).action) /\ messages' = Observed
  BY DEF DrainQueue
<1>2. Head(queue).action \in Calls
  <2>1. queue \in Seq(Queued)
    BY DEF AgentInv, AgentTypeOK
  <2>2. Head(queue) \in Queued
    BY <1>1, <2>1, HeadTailProperties
  <2> QED
    BY <2>2 DEF Queued
<1>3. Extends(history', history) /\ history'[stepIndex'] = call'
  BY <1>1, <1>2, TakeRecords
<1>4. PICK p, k : p \in DOMAIN messages /\ Waiting(p, k)
  BY <1>1 DEF Between, NoTurn
<1>5. PICK turn : turn = messages[p].calls
  OBVIOUS
<1>6. Len(turn) \in Nat /\ Due(turn, k) /\ messages[p].role = "assistant"
  BY <1>4, <1>5, TurnLength DEF Waiting, TranscriptInv
<1>7. /\ messages' \in Seq(AMessage) /\ Correlated(messages', history')
      /\ p \in DOMAIN messages' /\ messages'[p] = messages[p]
      /\ OpenIn(messages', history', p, k)
      /\ \A q \in DOMAIN messages' : messages'[q].role = "assistant" /\ q # p =>
           SettledIn(messages', history', q)
  BY <1>1, <1>3, <1>4, Observes
<1>8. Due(turn, k + 1)'
  BY <1>6, DrainDue
<1>9. k \in Nat /\ k + 1 \in 1..Len(turn) /\ (k + 1) - 1 = k
  BY <1>6, <1>8 DEF Due
<1>10. messages'[p].calls = turn /\ messages'[p].role = "assistant"
  BY <1>5, <1>6, <1>7
<1>11. Waiting(p, k + 1)'
  BY <1>7, <1>8, <1>9, <1>10 DEF Waiting
<1>12. k + 1 \in DOMAIN messages'[p].calls
  BY <1>7, <1>9, <1>10, TurnLength, LenProperties
<1> QED
  BY <1>3, <1>7, <1>11, <1>12 DEF TranscriptInv, Between

\* The model is asked only when the last turn has its answers, so a new one settles it.
LEMMA TurnSettles ==
  ASSUME AgentInv, TranscriptInv, Between, queue = << >>, NEW h, Extends(h, history),
         NEW m \in AMessage, m.role = "assistant"
  PROVE  LET longer == Append(Observed, m) IN
         /\ longer \in Seq(AMessage) /\ longer[Len(Observed) + 1] = m
         /\ Len(longer) = Len(Observed) + 1 /\ Len(Observed) \in Nat
         /\ \A q \in DOMAIN longer :
              longer[q].role = "assistant" /\ q # Len(Observed) + 1 => SettledIn(longer, h, q)
<1> DEFINE n == Len(Observed)
           longer == Append(Observed, m)
<1>1. Observed \in Seq(AMessage) /\ n \in Nat /\ DOMAIN Observed = 1..n
  BY Observes, LenProperties
<1>2. /\ longer \in Seq(AMessage) /\ longer[n + 1] = m /\ Len(longer) = n + 1
      /\ DOMAIN longer = 1..(n + 1)
      /\ \A i \in 1..n : longer[i] = Observed[i]
  BY <1>1, AppendProperties, LenProperties
<1>3. h \in Seq(Calls)
  BY ExtensionKeeps DEF AgentInv, AgentTypeOK
<1> SUFFICES ASSUME NEW q \in 1..n, Observed[q].role = "assistant"
             PROVE  SettledIn(longer, h, q)
  BY <1>1, <1>2
<1>4. PICK p, k : p \in DOMAIN messages /\ Waiting(p, k)
  BY <1>1, Observes DEF Between
<1>5. /\ Observed[p] = messages[p] /\ OpenIn(Observed, h, p, k) /\ p \in 1..n
      /\ \A r \in 1..n : Observed[r].role = "assistant" /\ r # p => SettledIn(Observed, h, r)
  <2>1. /\ p \in DOMAIN Observed /\ Observed[p] = messages[p] /\ OpenIn(Observed, h, p, k)
        /\ \A r \in DOMAIN Observed :
             Observed[r].role = "assistant" /\ r # p => SettledIn(Observed, h, r)
    BY <1>4, Observes
  <2> QED
    BY <1>1, <2>1
<1> HIDE DEF longer
<1>6. CASE q # p
  <2>1. SettledIn(Observed, h, q)
    BY <1>5, <1>6
  <2>2. Extends(h, h)
    BY DEF Extends
  <2> QED
    BY <1>1, <1>3, <2>1, <2>2, SettledStays DEF longer
<1>7. CASE q = p
  <2> DEFINE last == Len(messages[p].calls)
  <2>1. k \in 1..last /\ Len(queue) = last - k /\ last \in Nat
    BY <1>4, TurnLength DEF Waiting, Due, TranscriptInv
  <2>2. Len(queue) = 0
    BY EmptySeq
  <2> HIDE DEF last
  <2>3. k = last
    BY <2>1, <2>2
  <2>4. AnsweredTo(Observed, h, p, last) /\ n = p + last /\ p \in Nat
    BY <1>5, <2>3 DEF OpenIn
  <2>5. AnsweredTo(longer, h, p, last)
    <3>1. Extends(h, h) /\ p + last <= Len(Observed)
      BY <1>1, <2>1, <2>4 DEF Extends
    <3> QED
      BY <1>1, <1>3, <1>5, <2>1, <2>4, <3>1, AnswersStay DEF longer
  <2>6. longer[p].calls = messages[p].calls
    BY <1>2, <1>5
  <2>7. /\ p + last < Len(longer) /\ longer[p + last + 1].role = "assistant"
    BY <1>1, <1>2, <2>1, <2>4
  <2> QED
    BY <1>7, <2>5, <2>6, <2>7 DEF SettledIn, last
<1> QED
  BY <1>6, <1>7

\* The first call of an accepted turn is taken at once, the others are queued.
LEMMA TurnDue ==
  ASSUME AgentInv, NEW turn \in Turns, turn # << >>, TakeTurn(turn)
  PROVE  Due(turn, 1)'
<1>1. /\ TurnError(turn) = None /\ Take(FirstAction(turn))
      /\ pending' = turn[1].id
      /\ queue' = [i \in 1..(Len(turn) - 1) |-> [id |-> turn[i + 1].id,
                                                 action |-> ActionOf(turn[i + 1])]]
  BY DEF TakeTurn
<1>2. turn \in Seq(ToolCalls) /\ Len(turn) \in Nat /\ DOMAIN turn = 1..Len(turn)
  BY LLMAssumption, LenProperties
<1>3. FirstAction(turn) = ActionOf(turn[1]) /\ FirstAction(turn) \in Calls
  BY QueuedTurn, LLMAssumption DEF FirstAction
<1>4. call' = ActionOf(turn[1]) /\ stepIndex' > 0
  BY <1>1, <1>3, TakeRecords
<1>5. 1 \in 1..Len(turn) /\ Len(turn) - 1 \in Nat
  BY <1>2, EmptySeq
<1>6. \A i \in 1..Len(turn) : turn[i].id # None
  BY <1>1, AcceptedIds
<1>7. Len(queue') = Len(turn) - 1
  <2>1. queue' \in Seq(Queued) /\ Len(queue') \in Nat /\ DOMAIN queue' = 1..Len(queue')
    BY <1>1, QueuedTurn, LenProperties
  <2>2. DOMAIN queue' = 1..(Len(turn) - 1)
    BY <1>1
  <2>3. 1..Len(queue') = 1..(Len(turn) - 1)
    BY <2>1, <2>2
  <2> QED
    BY <1>5, <2>1, <2>3
<1>8. ASSUME NEW i \in 1..Len(queue')
      PROVE  queue'[i] = [id |-> turn[1 + i].id, action |-> ActionOf(turn[1 + i])]
  <2>1. i \in 1..(Len(turn) - 1) /\ i + 1 = 1 + i
    BY <1>2, <1>7
  <2>2. queue'[i] = [id |-> turn[i + 1].id, action |-> ActionOf(turn[i + 1])]
    BY <1>1, <2>1
  <2> QED
    BY <2>1, <2>2
<1> QED
  BY <1>1, <1>4, <1>5, <1>6, <1>7, <1>8 DEF Due

LEMMA TakeTurnWaits ==
  ASSUME AgentInv, TranscriptInv, Between, NEW turn \in Turns, TakeTurn(turn)
  PROVE  TranscriptInv'
<1> PICK n : n = Len(Observed) + 1
  OBVIOUS
<1> DEFINE m == Message("assistant", None, None, None, turn)
<1>1. /\ queue = << >> /\ TurnError(turn) = None /\ Take(FirstAction(turn))
      /\ messages' = Append(Observed, m)
      /\ pending' = IF turn = << >> THEN None ELSE turn[1].id
      /\ queue' = [i \in 1..(Len(turn) - 1) |-> [id |-> turn[i + 1].id,
                                                 action |-> ActionOf(turn[i + 1])]]
  BY DEF TakeTurn
<1>2. turn \in Seq(ToolCalls) /\ Len(turn) \in Nat /\ DOMAIN turn = 1..Len(turn)
  BY LLMAssumption, LenProperties
<1>3. FirstAction(turn) \in Calls
  BY QueuedTurn, LLMAssumption DEF FirstAction
<1>4. /\ Extends(history', history) /\ call' = FirstAction(turn)
      /\ stepIndex' > 0 /\ history'[stepIndex'] = call'
  BY <1>1, <1>3, TakeRecords
<1>5. m \in AMessage /\ m.role = "assistant" /\ m.calls = turn
  BY DEF Message, AMessage
<1> HIDE DEF m
<1>6. /\ messages' \in Seq(AMessage) /\ Len(messages') = n
      /\ n \in Nat \ {0} /\ messages'[n] = m
      /\ \A q \in DOMAIN messages' :
           messages'[q].role = "assistant" /\ q # n => SettledIn(messages', history', q)
  BY <1>1, <1>4, <1>5, TurnSettles
<1>7. n \in DOMAIN messages' /\ messages'[n].role = "assistant" /\ messages'[n].calls = turn
  BY <1>5, <1>6, LenProperties
<1>8. OpenIn(messages', history', n, 0)
  BY <1>2, <1>6, <1>7 DEF OpenIn, AnsweredTo
<1>9. Correlated(messages', history')
  BY <1>2, <1>6, <1>7, <1>8 DEF Correlated
<1>10. CASE turn = << >>
  <2>1. Step(Decline)
    BY <1>1, <1>10 DEF FirstAction, Take
  <2> QED
    BY <1>4, <1>6, <1>9, <2>1, DeclineIsLast DEF TranscriptInv
<1>11. CASE turn # << >>
  <2>1. 1 \in 1..Len(turn) /\ 1 - 1 = 0
    BY <1>2, <1>11, EmptySeq
  <2>2. Due(turn, 1)'
    BY <1>11, TurnDue
  <2>3. Waiting(n, 1)'
    BY <1>6, <1>7, <1>8, <2>1, <2>2 DEF Waiting
  <2>4. 1 \in DOMAIN messages'[n].calls
    BY <1>2, <1>7, <2>1
  <2> QED
    BY <1>4, <1>6, <1>7, <1>9, <2>3, <2>4 DEF TranscriptInv, Between
<1> QED
  BY <1>10, <1>11

LEMMA TranscriptStep ==
  ASSUME AgentInv, TranscriptInv, [LLMNext]_llmVars
  PROVE  TranscriptInv'
<1>1. CASE UNCHANGED llmVars
  <2>1. UNCHANGED <<messages, history, pending, queue, agentError>> /\ UNCHANGED vars
    BY <1>1 DEF llmVars, agentVars
  <2>2. UNCHANGED <<stepIndex, call, done>>
    BY <2>1 DEF vars, replyVars, episodeVars
  <2>3. NoTurn => NoTurn'
    BY <2>1 DEF NoTurn
  <2>4. \A p, k : Waiting(p, k) => Waiting(p, k)'
    BY <2>1, <2>2 DEF Waiting, Due
  <2>5. Between => Between'
    BY <2>1, <2>3, <2>4 DEF Between
  <2> QED
    BY <2>1, <2>2, <2>5 DEF TranscriptInv
<1>2. CASE Drive
  <2>1. Between
    BY <1>2 DEF Drive, TranscriptInv
  <2>2. CASE DrainQueue
    BY <2>1, <2>2, DrainWaits
  <2>3. CASE \E turn \in Turns : TakeTurn(turn)
    BY <2>1, <2>3, TakeTurnWaits
  <2>4. CASE ForceFinish
    <3>1. Take(Decline) /\ messages' = Observed
      BY <2>4 DEF ForceFinish
    <3>2. /\ Step(Decline) /\ Extends(history', history)
          /\ stepIndex' > 0 /\ history'[stepIndex'] = call'
      BY <3>1, TakeRecords, LLMAssumption
    <3>3. done'
      BY <3>2, DeclineIsLast
    <3> QED
      BY <2>1, <3>1, <3>2, <3>3, Observes DEF TranscriptInv
  <2>5. CASE (\E turn \in Turns : RejectTurn(turn)) \/ FailProvider
    <3>1. UNCHANGED vars /\ messages' = Observed /\ UNCHANGED history /\ agentError'
      BY <2>5 DEF RejectTurn, FailProvider
    <3>2. UNCHANGED <<stepIndex, call>> /\ Extends(history', history)
      BY <3>1 DEF vars, replyVars, Extends
    <3> QED
      BY <2>1, <3>1, <3>2, Observes DEF TranscriptInv
  <2> QED
    BY <1>2, <2>2, <2>3, <2>4, <2>5 DEF Drive
<1> QED
  BY <1>1, <1>2 DEF LLMNext, Closed

LEMMA TranscriptInit == LLMInit => TranscriptInv
<1> SUFFICES ASSUME LLMInit PROVE TranscriptInv
  OBVIOUS
<1>1. /\ messages = << Message("system", None, None, None, << >>),
                       Message("user", None, None, None, << >>) >>
      /\ stepIndex = 0 /\ pending = None /\ queue = << >>
  BY DEF LLMInit, Init
<1>2. \A role \in {"system", "user"} :
        Message(role, None, None, None, << >>) \in AMessage
  BY DEF Message, AMessage
<1>3. messages \in Seq(AMessage)
  BY <1>1, <1>2
<1>4. \A p \in DOMAIN messages : messages[p].role # "assistant"
  BY <1>1 DEF Message
<1> QED
  BY <1>1, <1>3, <1>4 DEF TranscriptInv, Correlated, Between, NoTurn

\* For every model: each call it makes is answered before it is asked again, in order,
\* under its own id and by the observation of the step that made it (D-27; act,
\* _observation_message, _validate_turn).
THEOREM TranscriptAnswers == LLMSpec => []TranscriptCorrelated
<1>1. TranscriptInv => TranscriptCorrelated
  BY CorrelatedTells DEF TranscriptInv
<1> QED
  BY <1>1, AgentInvInit, AgentStep, TranscriptInit, TranscriptStep, PTL DEF LLMSpec

(***************************************************************************)
(* The request to Anthropic.  The transcript is converted a message at a   *)
(* time, so that what is sent grows with it.                               *)
(***************************************************************************)
LEMMA MaxOfNumbers ==
  ASSUME NEW n \in Nat, NEW s \in SUBSET (1..n), s # {}
  PROVE  Max(s) \in s /\ \A y \in s : y <= Max(s)
<1> DEFINE G == {t \in SUBSET (1..n) : t # {} => \E m \in t : \A y \in t : m >= y}
<1>1. {} \in G
  OBVIOUS
<1>2. ASSUME NEW t \in SUBSET (1..n), t # {}, \A x \in t : t \ {x} \in G
      PROVE  t \in G
  <2>1. PICK x : x \in t
    BY <1>2
  <2>2. CASE t \ {x} = {}
    BY <2>1, <2>2
  <2>3. CASE t \ {x} # {}
    <3>1. PICK m \in t \ {x} : \A y \in t \ {x} : m >= y
      BY <1>2, <2>1, <2>3
    <3>2. \E k \in t : \A y \in t : k >= y
      <4>1. CASE m >= x
        BY <3>1, <4>1
      <4>2. CASE x > m
        <5>1. \A y \in t : x >= y
          BY <2>1, <3>1, <4>2
        <5> QED
          BY <2>1, <5>1
      <4> QED
        BY <2>1, <3>1, <4>1, <4>2
    <3> QED
      BY <3>2
  <2> QED
    BY <2>2, <2>3
<1> HIDE DEF G
<1>3. s \in G
  <2>1. G \in SUBSET SUBSET (1..n)
    BY DEF G
  <2>2. IsFiniteSet(1..n)
    BY FS_Interval
  <2> QED
    BY <1>1, <1>2, <2>1, <2>2, SubsetInduction
<1>4. \E m \in s : \A y \in s : m >= y
  BY <1>3 DEF G
<1>5. Max(s) \in s /\ \A y \in s : Max(s) >= y
  BY <1>4 DEF Max
<1> QED
  BY <1>5

\* g has what becomes of the messages at the positions of every subset of T.
Converts(g, transcript, T) ==
  \A s \in SUBSET T :
    g[s] = IF s = {} THEN << >> ELSE Converted(g[s \ {Max(s)}], transcript[Max(s)])

LEMMA ConvertsAgree ==
  ASSUME NEW n \in Nat, NEW transcript, NEW g, NEW h,
         Converts(g, transcript, 1..n), Converts(h, transcript, 1..n)
  PROVE  \A s \in SUBSET (1..n) : g[s] = h[s]
<1> DEFINE G == {s \in SUBSET (1..n) : g[s] = h[s]}
<1>1. {} \in G
  BY DEF Converts
<1>2. ASSUME NEW s \in SUBSET (1..n), s # {}, \A x \in s : s \ {x} \in G
      PROVE  s \in G
  <2>1. g[s \ {Max(s)}] = h[s \ {Max(s)}]
    BY <1>2, MaxOfNumbers
  <2>2. /\ g[s] = Converted(g[s \ {Max(s)}], transcript[Max(s)])
        /\ h[s] = Converted(h[s \ {Max(s)}], transcript[Max(s)])
    BY <1>2 DEF Converts
  <2>3. g[s] = h[s]
    BY <2>1, <2>2
  <2> QED
    BY <2>3
<1> HIDE DEF G
<1>3. \A s \in SUBSET (1..n) : s \in G
  <2>1. G \in SUBSET SUBSET (1..n)
    BY DEF G
  <2>2. IsFiniteSet(1..n)
    BY FS_Interval
  <2> QED
    BY <1>1, <1>2, <2>1, <2>2, SubsetInduction
<1> QED
  BY <1>3 DEF G

LEMMA ConvertsExist ==
  ASSUME NEW n \in Nat, NEW transcript
  PROVE  \E g : Converts(g, transcript, 1..n)
<1> DEFINE G == {s \in SUBSET (1..n) : \E g : Converts(g, transcript, s)}
<1>1. {} \in G
  <2>1. Converts([s \in SUBSET {} |-> << >>], transcript, {})
    BY DEF Converts
  <2> QED
    BY <2>1
<1>2. ASSUME NEW s \in SUBSET (1..n), s # {}, \A x \in s : s \ {x} \in G
      PROVE  s \in G
  <2> DEFINE y == Max(s)
  <2>1. y \in s /\ \A z \in s : z <= y
    BY <1>2, MaxOfNumbers
  <2>2. PICK g : Converts(g, transcript, s \ {y})
    BY <1>2, <2>1
  <2> DEFINE h == [u \in SUBSET s |-> IF y \in u THEN Converted(g[u \ {y}], transcript[y])
                                      ELSE g[u]]
  <2>3. ASSUME NEW u \in SUBSET s
        PROVE  h[u] = IF u = {} THEN << >> ELSE Converted(h[u \ {Max(u)}], transcript[Max(u)])
    <3>1. CASE y \in u
      <4>1. Max(u) = y
        <5>1. Max(u) \in u /\ y <= Max(u)
          BY <1>2, <3>1, MaxOfNumbers
        <5>2. Max(u) \in s /\ Max(u) <= y /\ Max(u) \in Nat /\ y \in Nat
          <6>1. s \subseteq 1..n /\ u \subseteq s /\ \A z \in 1..n : z \in Nat
            OBVIOUS
          <6> HIDE DEF y
          <6> QED
            BY <2>1, <5>1, <6>1
        <5> HIDE DEF y
        <5> QED
          BY <5>1, <5>2
      <4>2. u \ {y} \in SUBSET s /\ y \notin u \ {y} /\ u # {}
        BY <3>1
      <4> HIDE DEF y
      <4>3. h[u \ {y}] = g[u \ {y}] /\ h[u] = Converted(g[u \ {y}], transcript[y])
        BY <3>1, <4>2
      <4> HIDE DEF h
      <4> QED
        BY <4>1, <4>2, <4>3
    <3>2. CASE y \notin u
      <4>1. u \in SUBSET (s \ {y}) /\ h[u] = g[u]
        BY <3>2
      <4>2. g[u] = IF u = {} THEN << >> ELSE Converted(g[u \ {Max(u)}], transcript[Max(u)])
        BY <2>2, <4>1 DEF Converts
      <4>3. u \ {Max(u)} \in SUBSET s /\ y \notin u \ {Max(u)}
        BY <3>2
      <4> HIDE DEF y
      <4>4. h[u \ {Max(u)}] = g[u \ {Max(u)}]
        BY <4>3
      <4> HIDE DEF h
      <4> QED
        BY <4>1, <4>2, <4>4
    <3> QED
      BY <3>1, <3>2
  <2>4. Converts(h, transcript, s)
    <3> HIDE DEF h
    <3> QED
      BY <2>3 DEF Converts
  <2> QED
    BY <2>4
<1> HIDE DEF G
<1>3. \A s \in SUBSET (1..n) : s \in G
  <2>1. G \in SUBSET SUBSET (1..n)
    BY DEF G
  <2>2. IsFiniteSet(1..n)
    BY FS_Interval
  <2> QED
    BY <1>1, <1>2, <2>1, <2>2, SubsetInduction
<1>4. 1..n \in G
  BY <1>3
<1> QED
  BY <1>4 DEF G

LEMMA ConvertedBy ==
  ASSUME NEW n \in Nat, NEW transcript, DOMAIN transcript = 1..n,
         NEW g, Converts(g, transcript, 1..n)
  PROVE  AnthropicMessages(transcript) = g[1..n]
<1> DEFINE Fold(f) == [s \in SUBSET (1..n) |->
                         IF s = {} THEN << >>
                         ELSE Converted(f[s \ {Max(s)}], transcript[Max(s)])]
           h == CHOOSE f : f = Fold(f)
           i == [s \in SUBSET (1..n) |-> g[s]]
<1>1. AnthropicMessages(transcript) = h[1..n]
  BY Zenon DEF AnthropicMessages, FoldLeft, MapThenFoldSet
<1>2. i = Fold(i)
  <2>1. ASSUME NEW s \in SUBSET (1..n)
        PROVE  i[s] = IF s = {} THEN << >> ELSE Converted(i[s \ {Max(s)}], transcript[Max(s)])
    <3>1. i[s] = g[s] /\ i[s \ {Max(s)}] = g[s \ {Max(s)}]
      OBVIOUS
    <3> HIDE DEF i
    <3> QED
      BY <3>1 DEF Converts
  <2> HIDE DEF i
  <2>2. i = [s \in SUBSET (1..n) |-> i[s]]
    BY DEF i
  <2> QED
    BY <2>1, <2>2
<1>3. h = Fold(h)
  <2> HIDE DEF Fold, i
  <2> QED
    BY <1>2
<1>4. Converts(h, transcript, 1..n)
  <2> HIDE DEF h
  <2> QED
    BY <1>3 DEF Converts
<1> HIDE DEF h, Fold
<1> QED
  BY <1>1, <1>4, ConvertsAgree

LEMMA MessagesConverted ==
  /\ AnthropicMessages(<< >>) = << >>
  /\ \A S : \A transcript \in Seq(S) : \A m \in S :
       AnthropicMessages(Append(transcript, m)) = Converted(AnthropicMessages(transcript), m)
<1>1. AnthropicMessages(<< >>) = << >>
  <2>1. DOMAIN << >> = 1..0 /\ 0 \in Nat /\ 1..0 = {}
    OBVIOUS
  <2>2. PICK g : Converts(g, << >>, 1..0)
    BY ConvertsExist
  <2>3. g[1..0] = << >>
    BY <2>1, <2>2 DEF Converts
  <2> QED
    BY <2>1, <2>2, <2>3, ConvertedBy
<1>2. ASSUME NEW S, NEW transcript \in Seq(S), NEW m \in S
      PROVE  AnthropicMessages(Append(transcript, m)) = Converted(AnthropicMessages(transcript), m)
  <2>1. PICK n, longer : n = Len(transcript) /\ longer = Append(transcript, m)
    OBVIOUS
  <2>2. /\ n \in Nat /\ DOMAIN transcript = 1..n /\ n + 1 \in Nat
        /\ DOMAIN longer = 1..(n + 1) /\ longer[n + 1] = m
        /\ \A i \in 1..n : longer[i] = transcript[i]
    BY <2>1, AppendProperties, LenProperties
  <2>3. PICK g : Converts(g, longer, 1..(n + 1))
    BY <2>2, ConvertsExist
  <2>4. AnthropicMessages(longer) = g[1..(n + 1)]
    BY <2>2, <2>3, ConvertedBy
  <2>5. 1..n \in SUBSET (1..(n + 1)) /\ (1..(n + 1)) \ {n + 1} = 1..n /\ n + 1 \in 1..(n + 1)
    BY <2>2
  <2>6. Converts(g, transcript, 1..n)
    <3> SUFFICES ASSUME NEW s \in SUBSET (1..n)
                 PROVE  g[s] = IF s = {} THEN << >>
                               ELSE Converted(g[s \ {Max(s)}], transcript[Max(s)])
      BY DEF Converts
    <3>1. g[s] = IF s = {} THEN << >> ELSE Converted(g[s \ {Max(s)}], longer[Max(s)])
      BY <2>3, <2>5 DEF Converts
    <3>2. s # {} => longer[Max(s)] = transcript[Max(s)]
      BY <2>2, MaxOfNumbers
    <3> QED
      BY <3>1, <3>2
  <2>7. AnthropicMessages(transcript) = g[1..n]
    BY <2>2, <2>6, ConvertedBy
  <2>8. Max(1..(n + 1)) = n + 1
    <3>1. /\ Max(1..(n + 1)) \in 1..(n + 1)
          /\ n + 1 <= Max(1..(n + 1))
      BY <2>2, <2>5, MaxOfNumbers
    <3> QED
      BY <2>2, <3>1
  <2>9. g[1..(n + 1)] = Converted(g[(1..(n + 1)) \ {n + 1}], longer[n + 1])
    BY <2>3, <2>5, <2>8 DEF Converts
  <2> QED
    BY <2>1, <2>2, <2>4, <2>5, <2>7, <2>9
<1> QED
  BY <1>1, <1>2
(***************************************************************************)
(* The shape of the request: texts, and turns whose calls are answered in  *)
(* the next message; only the last turn may still wait for answers.        *)
(***************************************************************************)
Block ==
  {TextBlock} \cup {UseBlock(c) : c \in ToolCalls}
    \cup [type: {"tool_result"}, id: ToolCallIds, content: Nat]

Request == [role: {"user", "assistant"}, content: Seq(Block)]

TurnBlocks(turn) == Blocks("assistant", [i \in DOMAIN turn |-> UseBlock(turn[i])])

\* q answers the first j calls of the turn.
RepliesTo(h, q, turn, j) ==
  /\ q.role = "user" /\ Len(q.content) = j
  /\ \A i \in 1..j :
       /\ q.content[i].type = "tool_result" /\ q.content[i].id = turn[i].id
       /\ q.content[i].content \in DOMAIN h
       /\ h[q.content[i].content] = ActionOf(turn[i])

Spoken == Turns \ {<< >>}

SentFine(s, h, p) ==
  \/ \E role \in {"user", "assistant"} : s[p] = Blocks(role, << TextBlock >>)
  \/ \E turn \in Spoken :
       \/ p < Len(s) /\ s[p] = TurnBlocks(turn) /\ RepliesTo(h, s[p + 1], turn, Len(turn))
       \/ p > 1 /\ s[p - 1] = TurnBlocks(turn) /\ RepliesTo(h, s[p], turn, Len(turn))

SentSettled(s, h) ==
  s \in Seq(Request) /\ s # << >> /\ \A p \in 1..Len(s) : SentFine(s, h, p)

\* The last turn has j answers so far, all of them in the last message.
SentOpen(s, h, turn, j) ==
  /\ s \in Seq(Request) /\ turn \in Spoken /\ j \in 0..Len(turn)
  /\ \E at \in 1..Len(s) :
       /\ at = IF j = 0 THEN Len(s) ELSE Len(s) - 1
       /\ s[at] = TurnBlocks(turn)
       /\ j > 0 => RepliesTo(h, s[at + 1], turn, j)
       /\ \A p \in 1..(at - 1) : SentFine(s, h, p)

LEMMA SpokenTyped ==
  ASSUME NEW turn \in Spoken
  PROVE  /\ turn \in Turns /\ turn \in Seq(ToolCalls) /\ Len(turn) \in Nat \ {0}
         /\ DOMAIN turn = 1..Len(turn) /\ \A i \in 1..Len(turn) : turn[i] \in ToolCalls
         /\ TurnBlocks(turn) \in Request /\ TurnBlocks(turn).role = "assistant"
         /\ Len(TurnBlocks(turn).content) = Len(turn)
         /\ \A i \in 1..Len(turn) :
              /\ TurnBlocks(turn).content[i].type = "tool_use"
              /\ TurnBlocks(turn).content[i].call = turn[i]
<1>1. turn \in Turns /\ turn # << >> /\ turn \in Seq(ToolCalls)
  BY LLMAssumption DEF Spoken
<1>2. Len(turn) \in Nat \ {0} /\ DOMAIN turn = 1..Len(turn)
  BY <1>1, LenProperties, EmptySeq
<1>3. \A i \in 1..Len(turn) : turn[i] \in ToolCalls
  BY <1>1, ElementOfSeq
<1> DEFINE content == [i \in DOMAIN turn |-> UseBlock(turn[i])]
<1>4. content \in Seq(Block) /\ Len(content) = Len(turn)
  <2>1. content \in [1..Len(turn) -> Block]
    BY <1>2, <1>3 DEF Block
  <2>2. content \in Seq(Block)
    BY <1>2, <2>1, SeqDef
  <2>3. Len(content) \in Nat /\ DOMAIN content = 1..Len(content)
    BY <2>2, LenProperties
  <2>4. 1..Len(content) = 1..Len(turn)
    BY <1>2, <2>3
  <2>5. PICK a \in Nat, b \in Nat : a = Len(content) /\ b = Len(turn)
    BY <1>2, <2>3
  <2>6. 1..a = 1..b
    BY <2>4, <2>5
  <2>7. a = b
    BY <2>6
  <2> QED
    BY <2>2, <2>5, <2>7
<1>5. \A i \in 1..Len(turn) : content[i] = UseBlock(turn[i])
  BY <1>2
<1>6. /\ TurnBlocks(turn).content = content /\ TurnBlocks(turn).role = "assistant"
      /\ TurnBlocks(turn) = [role |-> "assistant", content |-> content]
  BY DEF TurnBlocks, Blocks
<1> HIDE DEF content
<1>7. TurnBlocks(turn) \in Request
  BY <1>4, <1>6 DEF Request
<1>8. \A i \in 1..Len(turn) : content[i].type = "tool_use" /\ content[i].call = turn[i]
  <2>1. \A c : UseBlock(c).type = "tool_use" /\ UseBlock(c).call = c
    BY DEF UseBlock
  <2> QED
    BY <1>5, <2>1
<1> QED
  BY <1>1, <1>2, <1>3, <1>4, <1>6, <1>7, <1>8

\* The history only grows, so answers stay answers.
LEMMA RepliesStay ==
  ASSUME NEW h \in Seq(Calls), NEW h2, Extends(h2, h), NEW q, NEW turn, NEW j,
         RepliesTo(h, q, turn, j)
  PROVE  RepliesTo(h2, q, turn, j)
BY ExtensionKeeps DEF RepliesTo

\* What stands before position n is fine whatever comes behind.
LEMMA FineStays ==
  ASSUME NEW h \in Seq(Calls), NEW h2, Extends(h2, h),
         NEW s, NEW s2, NEW n \in Nat, Len(s) \in Nat, Len(s2) \in Nat, n <= Len(s2),
         \A i \in 1..n : s2[i] = s[i],
         NEW p \in 1..n, p < n \/ n = Len(s), SentFine(s, h, p)
  PROVE  SentFine(s2, h2, p)
<1>1. s2[p] = s[p]
  OBVIOUS
<1>2. CASE \E role \in {"user", "assistant"} : s[p] = Blocks(role, << TextBlock >>)
  BY <1>1, <1>2 DEF SentFine
<1>3. ASSUME NEW turn \in Spoken, p < Len(s), s[p] = TurnBlocks(turn),
             RepliesTo(h, s[p + 1], turn, Len(turn))
      PROVE  SentFine(s2, h2, p)
  <2>1. p + 1 \in 1..n /\ p < Len(s2)
    BY <1>3
  <2>2. s2[p + 1] = s[p + 1]
    BY <2>1
  <2> QED
    BY <1>1, <1>3, <2>1, <2>2, RepliesStay DEF SentFine
<1>4. ASSUME NEW turn \in Spoken, p > 1, s[p - 1] = TurnBlocks(turn),
             RepliesTo(h, s[p], turn, Len(turn))
      PROVE  SentFine(s2, h2, p)
  <2>1. p - 1 \in 1..n
    BY <1>4
  <2>2. s2[p - 1] = s[p - 1]
    BY <2>1
  <2> QED
    BY <1>1, <1>4, <2>2, RepliesStay DEF SentFine
<1> QED
  BY <1>2, <1>3, <1>4 DEF SentFine

LEMMA OpenStays ==
  ASSUME NEW h \in Seq(Calls), NEW h2, Extends(h2, h), NEW s, NEW turn, NEW j,
         SentOpen(s, h, turn, j)
  PROVE  SentOpen(s, h2, turn, j)
<1>1. PICK at \in 1..Len(s) :
        /\ at = IF j = 0 THEN Len(s) ELSE Len(s) - 1
        /\ s[at] = TurnBlocks(turn)
        /\ j > 0 => RepliesTo(h, s[at + 1], turn, j)
        /\ \A p \in 1..(at - 1) : SentFine(s, h, p)
  BY DEF SentOpen
<1>2. Len(s) \in Nat
  BY LenProperties DEF SentOpen
<1>3. ASSUME NEW p \in 1..(at - 1) PROVE SentFine(s, h2, p)
  BY <1>1, <1>2, FineStays
<1>4. j > 0 => RepliesTo(h2, s[at + 1], turn, j)
  BY <1>1, RepliesStay
<1> QED
  BY <1>1, <1>3, <1>4 DEF SentOpen

\* A turn with all its answers is settled.
LEMMA OpenSettles ==
  ASSUME NEW s, NEW h, NEW turn, SentOpen(s, h, turn, Len(turn))
  PROVE  SentSettled(s, h) /\ s[Len(s)].role = "user"
<1>1. Len(turn) \in Nat \ {0} /\ s \in Seq(Request) /\ turn \in Spoken /\ Len(s) \in Nat
  BY SpokenTyped, LenProperties DEF SentOpen
<1>2. PICK at \in 1..Len(s) :
        /\ at = Len(s) - 1 /\ s[at] = TurnBlocks(turn)
        /\ RepliesTo(h, s[at + 1], turn, Len(turn))
        /\ \A p \in 1..(at - 1) : SentFine(s, h, p)
  BY <1>1 DEF SentOpen
<1>3. at + 1 = Len(s) /\ at < Len(s) /\ (at + 1) - 1 = at /\ at + 1 > 1
  BY <1>1, <1>2
<1>4. SentFine(s, h, at)
  BY <1>1, <1>2, <1>3 DEF SentFine
<1>5. SentFine(s, h, at + 1)
  BY <1>1, <1>2, <1>3 DEF SentFine
<1>6. \A p \in 1..Len(s) : p \in 1..(at - 1) \/ p = at \/ p = at + 1
  BY <1>1, <1>3
<1>7. s # << >>
  BY <1>1, <1>2, EmptySeq
<1> QED
  BY <1>1, <1>2, <1>3, <1>4, <1>5, <1>6, <1>7 DEF SentSettled, RepliesTo

\* The next answer joins those that are there.
LEMMA OpenAnswered ==
  ASSUME NEW s, NEW h \in Seq(Calls), NEW turn, NEW j, SentOpen(s, h, turn, j), j < Len(turn),
         NEW m, m.role = "tool", m.id = turn[j + 1].id, m.content \in DOMAIN h,
         h[m.content] = ActionOf(turn[j + 1])
  PROVE  SentOpen(Converted(s, m), h, turn, j + 1)
<1> DEFINE L == Len(s)
           r == ResultBlock(m)
<1>1. /\ Len(turn) \in Nat \ {0} /\ s \in Seq(Request) /\ turn \in Spoken /\ L \in Nat
      /\ j \in 0..Len(turn) /\ j + 1 \in 1..Len(turn) /\ DOMAIN s = 1..L
  BY SpokenTyped, LenProperties DEF SentOpen
<1>2. PICK at \in 1..L :
        /\ at = IF j = 0 THEN L ELSE L - 1
        /\ s[at] = TurnBlocks(turn)
        /\ j > 0 => RepliesTo(h, s[at + 1], turn, j)
        /\ \A p \in 1..(at - 1) : SentFine(s, h, p)
  BY DEF SentOpen
<1>3. r \in Block /\ r.type = "tool_result" /\ r.id = m.id /\ r.content = m.content
  <2>1. m.id \in ToolCallIds
    BY <1>1, SpokenTyped DEF ToolCallIds
  <2>2. m.content \in Nat
    BY LenProperties
  <2> QED
    BY <2>1, <2>2 DEF ResultBlock, Block
<1> HIDE DEF r
<1>4. s # << >> /\ Last(s) = s[L]
  <2>1. at \in 1..L /\ L \in Nat
    BY <1>1
  <2> HIDE DEF L
  <2>2. L # 0
    BY <2>1
  <2> QED
    BY <2>2 DEF L, Last
<1>5. Extends(h, h)
  BY DEF Extends
<1>6. CASE j = 0
  <2> DEFINE q == Blocks("user", << r >>)
             t == Append(s, q)
  <2>1. ~OnlyResults(Last(s))
    BY <1>1, <1>2, <1>4, <1>6, SpokenTyped DEF OnlyResults
  <2>2. Converted(s, m) = t
    BY <2>1 DEF Converted, r
  <2>3. q \in Request /\ RepliesTo(h, q, turn, 1)
    <3>1. << r >> \in Seq(Block) /\ Len(<< r >>) = 1 /\ << r >>[1] = r
      BY <1>3
    <3>2. q.role = "user" /\ q.content = << r >> /\ q \in Request
      BY <3>1 DEF Blocks, Request
    <3> HIDE DEF q
    <3>3. \A i \in 1..1 : i = 1
      OBVIOUS
    <3> QED
      BY <1>3, <1>6, <3>1, <3>2, <3>3 DEF RepliesTo
  <2>4. t \in Seq(Request) /\ Len(t) = L + 1 /\ t[L + 1] = q /\ \A i \in 1..L : t[i] = s[i]
    BY <1>1, <2>3, AppendProperties
  <2> HIDE DEF t, q, L
  <2>5. ASSUME NEW p \in 1..(at - 1) PROVE SentFine(t, h, p)
    <3>1. /\ L = Len(s) /\ at = L /\ L <= Len(t) /\ Len(t) \in Nat
          /\ p \in 1..L /\ Len(s) \in Nat /\ \A i \in 1..L : t[i] = s[i]
      BY <1>1, <1>2, <1>6, <2>4 DEF L
    <3> QED
      BY <1>2, <1>5, <3>1, FineStays
  <2>6. at = L /\ at \in 1..Len(t) /\ at = Len(t) - 1 /\ t[at] = TurnBlocks(turn)
    BY <1>1, <1>2, <1>6, <2>4
  <2> QED
    BY <1>1, <1>6, <2>2, <2>3, <2>4, <2>5, <2>6 DEF SentOpen
<1>7. CASE j # 0
  <2> DEFINE q == [s[L] EXCEPT !.content = Append(@, r)]
             t == [s EXCEPT ![L] = q]
  <2>1. at = L - 1 /\ j \in Nat /\ j > 0 /\ L \in 1..L /\ at + 1 = L
    BY <1>1, <1>2, <1>7
  <2>2. RepliesTo(h, s[L], turn, j) /\ s[L] \in Request
    BY <1>1, <1>2, <2>1, ElementOfSeq
  <2>3. s[L].content \in Seq(Block) /\ DOMAIN s[L].content = 1..j
    BY <2>2, LenProperties DEF Request, RepliesTo
  <2>4. OnlyResults(Last(s))
    BY <1>4, <2>2, <2>3 DEF OnlyResults, RepliesTo
  <2>5. Converted(s, m) = t
    BY <1>4, <2>4 DEF Converted, r
  <2>6. q \in Request /\ RepliesTo(h, q, turn, j + 1)
    <3> DEFINE c == Append(s[L].content, r)
    <3>1. /\ c \in Seq(Block) /\ Len(c) = j + 1 /\ c[j + 1] = r
          /\ \A i \in 1..j : c[i] = s[L].content[i]
      BY <1>3, <2>2, <2>3, AppendProperties DEF RepliesTo
    <3>2. q.role = s[L].role /\ q.content = c /\ q \in Request
      <4>1. s[L].role \in {"user", "assistant"} /\ DOMAIN s[L] = {"role", "content"}
        BY <2>2 DEF Request
      <4> HIDE DEF L
      <4> QED
        BY <2>2, <3>1, <4>1 DEF Request
    <3> HIDE DEF c, q
    <3>3. \A i \in 1..(j + 1) : i \in 1..j \/ i = j + 1
      BY <2>1
    <3> QED
      BY <1>3, <2>2, <3>1, <3>2, <3>3 DEF RepliesTo
  <2>7. /\ t \in Seq(Request) /\ Len(t) = L /\ t[L] = q /\ \A i \in 1..(L - 1) : t[i] = s[i]
    <3> HIDE DEF q
    <3>1. t \in Seq(Request) /\ Len(t) = Len(s)
      BY <1>1, <2>1, <2>6, ExceptSeq
    <3>2. DOMAIN s = 1..L
      BY <1>1
    <3> QED
      BY <1>1, <2>1, <3>1, <3>2
  <2> HIDE DEF t, q, L
  <2>8. ASSUME NEW p \in 1..(at - 1) PROVE SentFine(t, h, p)
    <3>1. at \in Nat /\ p \in 1..at /\ p < at /\ \A i \in 1..at : t[i] = s[i]
      BY <1>1, <2>1, <2>7
    <3>2. Len(s) \in Nat /\ Len(t) \in Nat /\ at <= Len(t)
      BY <1>1, <2>1, <2>7 DEF L
    <3>3. SentFine(s, h, p)
      BY <1>2
    <3> QED
      BY <1>5, <3>1, <3>2, <3>3, FineStays
  <2>9. at \in 1..Len(t) /\ at = Len(t) - 1 /\ t[at] = TurnBlocks(turn) /\ t[at + 1] = q
    BY <1>1, <1>2, <2>1, <2>7
  <2> QED
    BY <1>1, <2>1, <2>5, <2>6, <2>7, <2>8, <2>9 DEF SentOpen
<1> QED
  BY <1>6, <1>7
LEMMA SentStays ==
  ASSUME NEW h \in Seq(Calls), NEW h2, Extends(h2, h), NEW s, SentSettled(s, h)
  PROVE  SentSettled(s, h2)
<1>1. Len(s) \in Nat
  BY LenProperties DEF SentSettled
<1>2. \A p \in 1..Len(s) : SentFine(s, h, p)
  BY DEF SentSettled
<1>3. ASSUME NEW p \in 1..Len(s) PROVE SentFine(s, h2, p)
  BY <1>1, <1>2, FineStays
<1> QED
  BY <1>3 DEF SentSettled

\* A text may follow a settled request, and so may a turn.
LEMMA TextSettles ==
  ASSUME NEW h \in Seq(Calls), NEW s \in Seq(Request), s = << >> \/ SentSettled(s, h),
         NEW role \in {"user", "assistant"}
  PROVE  LET t == Append(s, Blocks(role, << TextBlock >>))
         IN  SentSettled(t, h) /\ t[Len(t)].role = role
<1> PICK q, t : q = Blocks(role, << TextBlock >>) /\ t = Append(s, q)
  OBVIOUS
<1>1. q \in Request /\ q.role = role
  <2>1. TextBlock \in Block
    BY DEF Block
  <2>2. << TextBlock >> \in Seq(Block)
    BY <2>1
  <2> QED
    BY <2>2 DEF Blocks, Request
<1>2. /\ Len(s) \in Nat /\ t \in Seq(Request) /\ Len(t) = Len(s) + 1 /\ t[Len(s) + 1] = q
      /\ \A i \in 1..Len(s) : t[i] = s[i]
  BY <1>1, AppendProperties, LenProperties
<1>3. Extends(h, h)
  BY DEF Extends
<1>4. ASSUME NEW p \in 1..Len(s) PROVE SentFine(t, h, p)
  <2>1. Len(s) # 0
    BY <1>2
  <2>2. s # << >>
    BY <2>1
  <2>3. SentFine(s, h, p)
    BY <2>2 DEF SentSettled
  <2>4. Len(t) \in Nat /\ Len(s) <= Len(t)
    BY <1>2
  <2> QED
    BY <1>2, <1>3, <2>3, <2>4, FineStays
<1>5. SentFine(t, h, Len(s) + 1)
  BY <1>2 DEF SentFine
<1>6. t # << >>
  BY <1>2, EmptySeq
<1>7. \A p \in 1..Len(t) : p \in 1..Len(s) \/ p = Len(s) + 1
  BY <1>2
<1> QED
  BY <1>1, <1>2, <1>4, <1>5, <1>6, <1>7 DEF SentSettled

LEMMA TurnOpens ==
  ASSUME NEW h \in Seq(Calls), NEW s, SentSettled(s, h), NEW turn \in Spoken
  PROVE  SentOpen(Append(s, TurnBlocks(turn)), h, turn, 0)
<1> PICK q, t : q = TurnBlocks(turn) /\ t = Append(s, q)
  OBVIOUS
<1>1. q \in Request /\ s \in Seq(Request) /\ Len(turn) \in Nat
  BY SpokenTyped DEF SentSettled
<1>2. /\ Len(s) \in Nat /\ t \in Seq(Request) /\ Len(t) = Len(s) + 1 /\ t[Len(s) + 1] = q
      /\ \A i \in 1..Len(s) : t[i] = s[i]
  BY <1>1, AppendProperties, LenProperties
<1>3. Extends(h, h)
  BY DEF Extends
<1>4. ASSUME NEW p \in 1..Len(s) PROVE SentFine(t, h, p)
  <2>1. SentFine(s, h, p)
    BY DEF SentSettled
  <2>2. Len(t) \in Nat /\ Len(s) <= Len(t)
    BY <1>2
  <2> QED
    BY <1>2, <1>3, <2>1, <2>2, FineStays
<1>5. PICK at : at = Len(t)
  OBVIOUS
<1>6. at \in 1..Len(t) /\ t[at] = q /\ 1..(at - 1) = 1..Len(s) /\ 0 \in 0..Len(turn)
  BY <1>1, <1>2, <1>5
<1> QED
  BY <1>2, <1>4, <1>5, <1>6 DEF SentOpen

(***************************************************************************)
(* What is sent follows the transcript, and is settled when it is sent.    *)
(***************************************************************************)
SentInv ==
  \/ done \/ agentError
  \/ /\ pending = None /\ queue = << >>
     /\ SentSettled(AnthropicMessages(messages), history)
  \/ \E turn \in Spoken : \E k \in 1..Len(turn) :
       Due(turn, k) /\ SentOpen(AnthropicMessages(messages), history, turn, k - 1)

\* The transcript with the observation, converted.
ObservedSent == AnthropicMessages(Observed)

LEMMA ObservationSent ==
  ASSUME AgentInv, TranscriptInv, ~done, ~agentError
  PROVE  /\ Observed \in Seq(AMessage)
         /\ ObservedSent = Converted(AnthropicMessages(messages), ObservationMessage)
<1>1. Between /\ Extends(history, history) /\ messages \in Seq(AMessage)
  BY DEF TranscriptInv, Extends
<1>2. Observed \in Seq(AMessage)
  BY <1>1, Observes
<1>3. PICK m : m = ObservationMessage
  OBVIOUS
<1>4. messages \in Seq(AMessage \cup {m})
  BY <1>1, SeqDef
<1>5. Observed = Append(messages, m)
  BY <1>3 DEF Observed
<1>6. AnthropicMessages(Append(messages, m)) = Converted(AnthropicMessages(messages), m)
  BY <1>4, MessagesConverted
<1> QED
  BY <1>2, <1>3, <1>5, <1>6 DEF ObservedSent

LEMMA CallAnswered ==
  ASSUME AgentInv, TranscriptInv, ~done, ~agentError,
         NEW turn \in Spoken, NEW k \in 1..Len(turn), Due(turn, k),
         SentOpen(AnthropicMessages(messages), history, turn, k - 1)
  PROVE  SentOpen(ObservedSent, history, turn, k)
<1> PICK m, j : m = ObservationMessage /\ j = k - 1
  OBVIOUS
<1>1. Len(turn) \in Nat /\ turn \in Spoken
  BY SpokenTyped
<1>2. j + 1 = k /\ j < Len(turn)
  BY <1>1
<1>3. /\ pending = turn[k].id /\ pending # None /\ stepIndex > 0 /\ call = ActionOf(turn[k])
  BY DEF Due
<1>4. m = Message("tool", pending, call.tool, stepIndex, << >>)
  BY <1>3 DEF ObservationMessage
<1>5. m.role = "tool" /\ m.id = turn[j + 1].id /\ m.content = stepIndex
  BY <1>2, <1>3, <1>4 DEF Message
<1>6. /\ history \in Seq(Calls) /\ DOMAIN history = 1..stepIndex /\ stepIndex \in Nat
      /\ history[stepIndex] = call
  BY <1>3, LenProperties
     DEF AgentInv, AgentTypeOK, TypeInv, TypeOK, EpisodeTypeOK, TranscriptInv
<1>7. m.content \in DOMAIN history /\ history[m.content] = ActionOf(turn[j + 1])
  BY <1>2, <1>3, <1>5, <1>6
<1>8. SentOpen(AnthropicMessages(messages), history, turn, j)
  OBVIOUS
<1>9. SentOpen(Converted(AnthropicMessages(messages), m), history, turn, j + 1)
  BY <1>2, <1>5, <1>6, <1>7, <1>8, OpenAnswered
<1> QED
  BY <1>2, <1>9, ObservationSent

LEMMA RequestSettled ==
  ASSUME AgentInv, TranscriptInv, SentInv, ~done, ~agentError, queue = << >>
  PROVE  SentSettled(ObservedSent, history) /\ ObservedSent[Len(ObservedSent)].role = "user"
<1>1. history \in Seq(Calls)
  BY DEF AgentInv, AgentTypeOK
<1>2. CASE pending = None /\ SentSettled(AnthropicMessages(messages), history)
  <2> PICK s, m : s = AnthropicMessages(messages) /\ m = ObservationMessage
    OBVIOUS
  <2>1. s \in Seq(Request) /\ SentSettled(s, history)
    BY <1>2 DEF SentSettled
  <2>2. m.role = "user"
    BY <1>2 DEF ObservationMessage, Message
  <2>3. Converted(s, m) = Append(s, Blocks("user", << TextBlock >>))
    BY <2>2 DEF Converted
  <2>4. PICK t : t = Append(s, Blocks("user", << TextBlock >>))
    OBVIOUS
  <2>5. SentSettled(t, history) /\ t[Len(t)].role = "user"
    BY <1>1, <2>1, <2>4, TextSettles
  <2>6. ObservedSent = t
    BY <2>3, <2>4, ObservationSent
  <2> QED
    BY <2>5, <2>6
<1>3. ASSUME NEW turn \in Spoken, NEW k \in 1..Len(turn), Due(turn, k),
             SentOpen(AnthropicMessages(messages), history, turn, k - 1)
      PROVE  SentSettled(ObservedSent, history) /\ ObservedSent[Len(ObservedSent)].role = "user"
  <2>1. SentOpen(ObservedSent, history, turn, k)
    BY <1>3, CallAnswered
  <2>2. Len(queue) = 0 /\ Len(queue) = Len(turn) - k /\ Len(turn) \in Nat
    BY <1>3, SpokenTyped DEF Due
  <2>3. k = Len(turn)
    BY <2>2
  <2> QED
    BY <2>1, <2>3, OpenSettles
<1> QED
  BY <1>2, <1>3 DEF SentInv

LEMMA SentInit == LLMInit => SentInv
<1> SUFFICES ASSUME LLMInit PROVE SentInv
  OBVIOUS
<1> PICK a, b : /\ a = Message("system", None, None, None, << >>)
                /\ b = Message("user", None, None, None, << >>)
  OBVIOUS
<1>1. /\ messages = << a, b >> /\ pending = None /\ queue = << >> /\ history = << >>
  BY DEF LLMInit
<1>2. a.role = "system" /\ b.role = "user"
  BY DEF Message
<1>3. << a, b >> = Append(Append(<< >>, a), b)
  OBVIOUS
<1>4. << >> \in Seq({a, b}) /\ Append(<< >>, a) \in Seq({a, b})
  BY EmptySeq
<1>5. AnthropicMessages(Append(<< >>, a)) = Converted(<< >>, a)
  <2>1. AnthropicMessages(Append(<< >>, a)) = Converted(AnthropicMessages(<< >>), a)
    BY <1>4, MessagesConverted
  <2> QED
    BY <2>1, MessagesConverted
<1>6. Converted(<< >>, a) = << >>
  BY <1>2 DEF Converted
<1>7. AnthropicMessages(messages) = Converted(<< >>, b)
  <2>1. AnthropicMessages(Append(Append(<< >>, a), b))
          = Converted(AnthropicMessages(Append(<< >>, a)), b)
    BY <1>4, MessagesConverted
  <2>2. messages = Append(Append(<< >>, a), b)
    BY <1>1, <1>3
  <2> QED
    BY <1>5, <1>6, <2>1, <2>2
<1>8. Converted(<< >>, b) = Append(<< >>, Blocks("user", << TextBlock >>))
  BY <1>2 DEF Converted
<1>9. history \in Seq(Calls) /\ << >> \in Seq(Request)
  BY <1>1, EmptySeq
<1>10. SentSettled(Append(<< >>, Blocks("user", << TextBlock >>)), history)
  BY <1>9, TextSettles
<1>11. SentSettled(AnthropicMessages(messages), history)
  BY <1>7, <1>8, <1>10
<1> QED
  BY <1>1, <1>11 DEF SentInv

LEMMA SentStep ==
  ASSUME AgentInv, TranscriptInv, SentInv, [LLMNext]_llmVars
  PROVE  SentInv'
<1>1. CASE UNCHANGED llmVars
  <2>1. UNCHANGED <<messages, history, pending, queue, agentError>> /\ UNCHANGED vars
    BY <1>1 DEF llmVars, agentVars
  <2>2. UNCHANGED <<stepIndex, call, done>>
    BY <2>1 DEF vars, replyVars, episodeVars
  <2>3. \A turn, k : Due(turn, k) => Due(turn, k)'
    BY <2>1, <2>2 DEF Due
  <2> QED
    BY <2>1, <2>2, <2>3 DEF SentInv
<1>2. CASE Drive
  <2>1. ~done /\ ~agentError /\ history \in Seq(Calls)
    BY <1>2 DEF Drive, AgentInv, AgentTypeOK
  <2>2. CASE DrainQueue
    <3>1. queue # << >> /\ Take(Head(queue).action) /\ messages' = Observed
      BY <2>2 DEF DrainQueue
    <3>2. queue \in Seq(Queued)
      BY DEF AgentInv, AgentTypeOK
    <3>3. Head(queue).action \in Calls
      <4>1. Head(queue) \in Queued
        BY <3>1, <3>2, HeadTailProperties
      <4> QED
        BY <4>1 DEF Queued
    <3>4. Extends(history', history)
      BY <3>1, <3>3, TakeRecords
    <3>5. PICK turn, k : /\ turn \in Spoken /\ k \in 1..Len(turn) /\ Due(turn, k)
                         /\ SentOpen(AnthropicMessages(messages), history, turn, k - 1)
      BY <2>1, <3>1 DEF SentInv
    <3>6. SentOpen(ObservedSent, history, turn, k)
      BY <2>1, <3>5, CallAnswered
    <3>7. SentOpen(ObservedSent, history', turn, k)
      BY <2>1, <3>4, <3>6, OpenStays
    <3>8. Len(turn) \in Nat
      BY SpokenTyped
    <3>9. Due(turn, k + 1)'
      BY <2>2, <3>5, <3>8, DrainDue
    <3>10. PICK next : next = k + 1
      OBVIOUS
    <3>11. next \in 1..Len(turn) /\ next - 1 = k
      <4>1. k + 1 \in 1..Len(turn)
        BY <3>9 DEF Due
      <4> QED
        BY <3>5, <3>8, <3>10, <4>1
    <3>12. SentOpen(AnthropicMessages(messages'), history', turn, next - 1)
      BY <3>1, <3>7, <3>11 DEF ObservedSent
    <3>13. Due(turn, next)'
      BY <3>9, <3>10
    <3> QED
      BY <3>5, <3>11, <3>12, <3>13 DEF SentInv
  <2>3. ASSUME NEW turn \in Turns, TakeTurn(turn) PROVE SentInv'
    <3> PICK m : m = Message("assistant", None, None, None, turn)
      OBVIOUS
    <3>1. /\ queue = << >> /\ Take(FirstAction(turn))
          /\ messages' = Append(Observed, m)
      BY <2>3 DEF TakeTurn
    <3>2. FirstAction(turn) \in Calls
      BY QueuedTurn, LLMAssumption DEF FirstAction
    <3>3. Extends(history', history) /\ Step(FirstAction(turn))
      BY <3>1, <3>2, TakeRecords
    <3>4. CASE turn = << >>
      <4>1. Step(Decline)
        BY <3>3, <3>4 DEF FirstAction
      <4> QED
        BY <4>1, DeclineIsLast DEF SentInv
    <3>5. CASE turn # << >>
      <4>1. turn \in Spoken
        BY <3>5 DEF Spoken
      <4>2. SentSettled(ObservedSent, history')
        BY <2>1, <3>1, <3>3, RequestSettled, SentStays
      <4>3. history' \in Seq(Calls)
        BY <2>1, <3>3, ExtensionKeeps
      <4>4. SentOpen(Append(ObservedSent, TurnBlocks(turn)), history', turn, 0)
        BY <4>1, <4>2, <4>3, TurnOpens
      <4>5. m.role = "assistant" /\ m.calls = turn /\ m \in AMessage
        BY DEF Message, AMessage
      <4>6. Observed \in Seq(AMessage)
        BY <2>1, ObservationSent
      <4>7. AnthropicMessages(messages') = Converted(ObservedSent, m)
        BY <3>1, <4>5, <4>6, MessagesConverted DEF ObservedSent
      <4>8. Converted(ObservedSent, m) = Append(ObservedSent, TurnBlocks(turn))
        <5>1. m.role # "system" /\ m.role # "tool"
          BY <4>5
        <5> QED
          BY <3>5, <4>5, <5>1 DEF Converted, TurnBlocks
      <4>9. Due(turn, 1)'
        BY <2>3, <3>5, TurnDue
      <4>10. 1 \in 1..Len(turn) /\ 1 - 1 = 0
        BY <4>1, SpokenTyped
      <4> QED
        BY <4>1, <4>4, <4>7, <4>8, <4>9, <4>10 DEF SentInv
    <3> QED
      BY <3>4, <3>5
  <2>4. CASE ForceFinish
    <3>1. Step(Decline)
      BY <2>4 DEF ForceFinish, Take
    <3> QED
      BY <3>1, DeclineIsLast DEF SentInv
  <2>5. CASE (\E turn \in Turns : RejectTurn(turn)) \/ FailProvider
    BY <2>5 DEF RejectTurn, FailProvider, SentInv
  <2> QED
    BY <1>2, <2>2, <2>3, <2>4, <2>5 DEF Drive
<1> QED
  BY <1>1, <1>2 DEF LLMNext, Closed

\* A settled request is one that RequestsWellFormed describes.
LEMMA SettledAccepted ==
  ASSUME NEW sent, SentSettled(sent, history), NEW p \in DOMAIN sent
  PROVE  /\ IsCalls(sent[p]) =>
              /\ Len(sent[p + 1].content) = Len(sent[p].content)
              /\ \A i \in DOMAIN sent[p].content :
                   AnswersUse(sent[p + 1].content[i], sent[p].content[i])
         /\ IsResults(sent[p]) => p > 1 /\ IsCalls(sent[p - 1])
<1>1. sent \in Seq(Request) /\ DOMAIN sent = 1..Len(sent) /\ Len(sent) \in Nat
  BY LenProperties DEF SentSettled
<1>2. p \in 1..Len(sent) /\ SentFine(sent, history, p)
  BY <1>1 DEF SentSettled
<1>3. sent[p].content \in Seq(Block) /\ DOMAIN sent[p].content = 1..Len(sent[p].content)
  <2>1. sent[p] \in Request
    BY <1>1, <1>2, ElementOfSeq
  <2>2. sent[p].content \in Seq(Block)
    BY <2>1 DEF Request
  <2> QED
    BY <2>2, LenProperties
<1>4. CASE \E role \in {"user", "assistant"} : sent[p] = Blocks(role, << TextBlock >>)
  <2>1. \A i \in DOMAIN sent[p].content : sent[p].content[i].type = "text"
    BY <1>4 DEF Blocks, TextBlock
  <2> QED
    BY <2>1 DEF IsCalls, IsResults
<1>5. ASSUME NEW turn \in Spoken, sent[p] = TurnBlocks(turn),
             RepliesTo(history, sent[p + 1], turn, Len(turn))
      PROVE  /\ Len(sent[p + 1].content) = Len(sent[p].content)
             /\ \A i \in DOMAIN sent[p].content :
                  AnswersUse(sent[p + 1].content[i], sent[p].content[i])
             /\ ~IsResults(sent[p])
  <2>1. /\ Len(sent[p].content) = Len(turn)
        /\ \A i \in 1..Len(turn) :
             sent[p].content[i].type = "tool_use" /\ sent[p].content[i].call = turn[i]
    BY <1>5, SpokenTyped
  <2>2. Len(sent[p + 1].content) = Len(turn)
    BY <1>5 DEF RepliesTo
  <2>3. ASSUME NEW i \in 1..Len(turn)
        PROVE  AnswersUse(sent[p + 1].content[i], sent[p].content[i])
    BY <1>5, <2>1 DEF RepliesTo, AnswersUse
  <2>4. ~IsResults(sent[p])
    BY <1>3, <2>1 DEF IsResults
  <2> QED
    BY <1>3, <2>1, <2>2, <2>3, <2>4
<1>6. ASSUME NEW turn \in Spoken, p > 1, sent[p - 1] = TurnBlocks(turn),
             RepliesTo(history, sent[p], turn, Len(turn))
      PROVE  ~IsCalls(sent[p]) /\ p > 1 /\ IsCalls(sent[p - 1])
  <2>1. ~IsCalls(sent[p])
    BY <1>3, <1>6 DEF RepliesTo, IsCalls
  <2>2. /\ Len(turn) \in Nat \ {0} /\ DOMAIN sent[p - 1].content = 1..Len(turn)
        /\ sent[p - 1].content[1].type = "tool_use"
    <3>1. sent[p - 1] \in Request
      BY <1>6, SpokenTyped
    <3>2. DOMAIN sent[p - 1].content = 1..Len(sent[p - 1].content)
      BY <3>1, LenProperties DEF Request
    <3>3. 1 \in 1..Len(turn)
      BY SpokenTyped
    <3> QED
      BY <1>6, <3>2, <3>3, SpokenTyped
  <2>3. 1 \in DOMAIN sent[p - 1].content
    BY <2>2
  <2>4. IsCalls(sent[p - 1])
    BY <2>2, <2>3 DEF IsCalls
  <2> QED
    BY <1>6, <2>1, <2>4
<1> QED
  BY <1>2, <1>4, <1>5, <1>6 DEF SentFine, IsCalls, IsResults

\* For every model and every provider: each request to Anthropic, first or repeated, ends
\* with the user's side, and in it the calls of each turn are followed by one message with
\* their results, in order; results stand nowhere else (D-27; _to_anthropic_messages, act).
THEOREM RequestsAccepted == ProviderSpec => []RequestsWellFormed
<1>1. AgentInv /\ TranscriptInv /\ SentInv => RequestsWellFormed
  <2> SUFFICES ASSUME AgentInv, TranscriptInv, SentInv, Asking
               PROVE  LET sent == AnthropicMessages(Observed)
                      IN /\ Last(sent).role = "user"
                         /\ \A p \in DOMAIN sent :
                              /\ IsCalls(sent[p]) =>
                                   /\ Len(sent[p + 1].content) = Len(sent[p].content)
                                   /\ \A i \in DOMAIN sent[p].content :
                                        AnswersUse(sent[p + 1].content[i], sent[p].content[i])
                              /\ IsResults(sent[p]) => p > 1 /\ IsCalls(sent[p - 1])
    BY DEF RequestsWellFormed
  <2>1. ~done /\ ~agentError /\ queue = << >>
    BY DEF Asking
  <2>2. PICK sent : sent = AnthropicMessages(Observed)
    OBVIOUS
  <2>3. SentSettled(sent, history) /\ sent[Len(sent)].role = "user"
    BY <2>1, <2>2, RequestSettled DEF ObservedSent
  <2>4. Last(sent).role = "user"
    BY <2>3 DEF Last
  <2> QED
    BY <2>2, <2>3, <2>4, SettledAccepted
<1>2. [ProviderNext]_providerVars => [LLMNext]_llmVars
  BY DEF ProviderNext, ProviderDrive, RetryTransport, providerVars, LLMNext
<1>3. ProviderInit => LLMInit
  BY DEF ProviderInit
<1>4. LLMInit => AgentInv /\ TranscriptInv /\ SentInv
  BY AgentInvInit, TranscriptInit, SentInit
<1>5. AgentInv /\ TranscriptInv /\ SentInv /\ [LLMNext]_llmVars
        => AgentInv' /\ TranscriptInv' /\ SentInv'
  BY AgentStep, TranscriptStep, SentStep
<1> QED
  BY <1>1, <1>2, <1>3, <1>4, <1>5, PTL DEF ProviderSpec
================================================================================

------------------------ MODULE SubAgentManagerProofs ------------------------
(***************************************************************************)
(* Proofs about SubAgentManager, for any sets of sessions, callers and     *)
(* steering messages and any MaxTurns.                                     *)
(***************************************************************************)
EXTENDS SubAgentManager, SequenceTheorems, TLAPS

USE MaxTurnsAssumption

\* A step of a sub-task keeps the worker variables well typed.
LEMMA WorkerType ==
    ASSUME NEW t \in Tasks, WorkerTypeOK,
           StartWorker(t) \/ Resume(t) \/ Continue(t) \/ Reap(t)
    PROVE  WorkerTypeOK'
<1> USE DEF WorkerTypeOK, WorkerStates, Outcomes
<1>1. CASE StartWorker(t)
  BY <1>1 DEF StartWorker
<1>2. CASE UnknownAgent(t)
  BY <1>2 DEF UnknownAgent, Finish
<1>3. CASE PrepareContext(t)
  BY <1>3 DEF PrepareContext
<1>4. CASE ModelAnswers(t)
  BY <1>4 DEF ModelAnswers, Finish
<1>5. CASE ModelCallsTools(t)
  BY <1>5 DEF ModelCallsTools
<1>6. CASE ToolsReturn(t)
  BY <1>6 DEF ToolsReturn
<1>7. CASE Panic(t)
  BY <1>7 DEF Panic, Finish
<1>8. CASE BeginTurn(t)
  BY <1>8 DEF BeginTurn
<1>9. CASE ExhaustTurns(t)
  BY <1>9 DEF ExhaustTurns, Finish
<1>10. CASE Reap(t)
  BY <1>10 DEF Reap
<1> QED
  BY <1>1, <1>2, <1>3, <1>4, <1>5, <1>6, <1>7, <1>8, <1>9, <1>10
     DEF Resume, Continue

LEMMA InitType == Init => TypeOK
BY DEF Init, WorkerInit, TypeOK, WorkerTypeOK, WorkerStates, Outcomes, Results,
       Statuses, Finished, TaskStates, Calls, Idle

\* Every step keeps every variable well typed.
LEMMA NextType == TypeOK /\ [Next]_vars => TypeOK'
<1> SUFFICES ASSUME TypeOK, [Next]_vars PROVE TypeOK'
  OBVIOUS
<1>u. CASE UNCHANGED vars
  BY <1>u DEF vars, workerVars, boardVars, taskVars, TypeOK, WorkerTypeOK
<1>c. ASSUME NEW c \in Callers, NEW s \in Tasks,
             SpawnRegister(c, s) \/ KillTake(c, s) \/ SpawnStep(c, s) \/ KillStep(c, s)
      PROVE  TypeOK'
  <2> USE DEF TypeOK, WorkerTypeOK, workerVars, boardVars, taskVars, Statuses,
              Finished, TaskStates, Calls, Idle, Goto
  <2>1. CASE SpawnRegister(c, s)
    BY <2>1 DEF SpawnRegister
  <2>2. CASE SpawnChannel(c, s)
    BY <2>2 DEF SpawnChannel
  <2>3. CASE SpawnTask(c, s)
    BY <2>3 DEF SpawnTask
  <2>4. CASE SpawnHandle(c, s)
    BY <2>4 DEF SpawnHandle
  <2>5. CASE KillTake(c, s)
    BY <2>5 DEF KillTake
  <2>6. CASE KillMark(c, s)
    BY <2>6 DEF KillMark
  <2>7. CASE KillUntrack(c, s)
    BY <2>7 DEF KillUntrack
  <2> QED
    BY <1>c, <2>1, <2>2, <2>3, <2>4, <2>5, <2>6, <2>7 DEF SpawnStep, KillStep
<1>m. ASSUME NEW c \in Callers, NEW s \in Tasks, NEW m \in Msgs,
             SteerCheck(c, s, m) \/ SteerStep(c, s, m)
      PROVE  TypeOK'
  <2> USE DEF TypeOK, WorkerTypeOK, workerVars, boardVars, taskVars, Calls, Idle,
              Goto
  <2>1. CASE SteerCheck(c, s, m)
    BY <2>1 DEF SteerCheck
  <2>2. CASE SteerSend(c, s, m)
    <3>1. CASE s \in txs
      <4>1. Append(queue[s], m) \in Seq(Msgs) /\ Append(accepted[s], m) \in Seq(Msgs)
        OBVIOUS
      <4>2. /\ queue' \in [Tasks -> Seq(Msgs)]
            /\ accepted' \in [Tasks -> Seq(Msgs)]
        BY <2>2, <3>1, <4>1 DEF SteerSend
      <4>3. call' \in [Callers -> Calls]
        <5>1. [at |-> "note", s |-> s, m |-> m] \in Calls
          OBVIOUS
        <5>2. call' = [call EXCEPT ![c] = [at |-> "note", s |-> s, m |-> m]]
          BY <2>2, <3>1 DEF SteerSend
        <5> HIDE DEF Calls
        <5> QED
          BY <5>1, <5>2
      <4>4. UNCHANGED <<worker, turn, outcome, injected, status, pending, timed,
                        handles, txs, task, aborted, result, undelivered, events>>
        BY <2>2 DEF SteerSend
      <4> QED
        BY <4>2, <4>3, <4>4
    <3>2. CASE s \notin txs
      BY <2>2, <3>2 DEF SteerSend
    <3> QED
      BY <3>1, <3>2
  <2>3. CASE SteerNote(c, s, m)
    <3>1. pending' \in [Tasks -> Seq(Msgs)]
      <4>1. Append(pending[s], m) \in Seq(Msgs)
        OBVIOUS
      <4> QED
        BY <2>3, <4>1 DEF SteerNote
    <3>2. call' \in [Callers -> Calls]
      <4>1. Idle \in Calls
        OBVIOUS
      <4>2. call' = [call EXCEPT ![c] = Idle]
        BY <2>3 DEF SteerNote
      <4> HIDE DEF Calls, Idle
      <4> QED
        BY <4>1, <4>2
    <3>3. UNCHANGED <<worker, turn, outcome, queue, injected, status, timed, handles,
                      txs, task, aborted, result, undelivered, events, accepted>>
      BY <2>3 DEF SteerNote
    <3> HIDE DEF Calls, Idle
    <3> QED
      BY <3>1, <3>2, <3>3
  <2> QED
    BY <1>m, <2>1, <2>2, <2>3 DEF SteerStep
<1>o. ASSUME NEW old \in SUBSET Tasks, Cleanup(old)
      PROVE  TypeOK'
  BY <1>o DEF Cleanup, TypeOK, WorkerTypeOK, workerVars, taskVars, Statuses
<1>t. ASSUME NEW s \in Tasks, TaskStep(s)
      PROVE  TypeOK'
  <2> USE DEF TypeOK, workerVars, boardVars, taskVars, TaskStates, TaskGoto
  <2>1. CASE TaskStart(s)
    BY <2>1, WorkerType DEF TaskStart
  <2> USE DEF WorkerTypeOK
  <2>2. CASE TaskJoin(s)
    <3>1. outcome[s] \in Results
      BY <2>2 DEF TaskJoin, Results
    <3> QED
      BY <2>2, <3>1 DEF TaskJoin
  <2>3. CASE TaskTimeout(s)
    BY <2>3 DEF TaskTimeout, Results
  <2>4. CASE TaskRecord(s)
    <3>1. StatusOf(result[s]) \in Statuses
      BY DEF StatusOf, Statuses, Finished
    <3>2. status' \in [Tasks -> Statuses]
      BY <2>4, <3>1 DEF TaskRecord
    <3> QED
      BY <2>4, <3>2 DEF TaskRecord
  <2>5. CASE TaskUntrack(s)
    BY <2>5 DEF TaskUntrack
  <2>6. CASE TaskDrain(s)
    BY <2>6 DEF TaskDrain
  <2>7. CASE TaskAnnounce(s)
    <3> DEFINE e == [s |-> s, result |-> result[s], undelivered |-> undelivered[s]]
    <3>1. result[s] \in Results
      BY <2>7 DEF TaskAnnounce
    <3>2. e \in Events
      BY <3>1 DEF Events
    <3> QED
      BY <2>7, <3>2 DEF TaskAnnounce
  <2>8. CASE TaskDropped(s)
    BY <2>8 DEF TaskDropped
  <2> QED
    BY <1>t, <2>1, <2>2, <2>3, <2>4, <2>5, <2>6, <2>7, <2>8 DEF TaskStep
<1>w. ASSUME NEW s \in Tasks, WorkerStep(s)
      PROVE  TypeOK'
  BY <1>w, WorkerType DEF WorkerStep, boardVars, taskVars, TypeOK
<1> QED
  BY <1>u, <1>c, <1>m, <1>o, <1>t, <1>w DEF Next, CallStep

\* Type correctness: in every reachable state of the manager each variable has
\* its type; in particular a sub-task never starts a turn beyond max_turns.
THEOREM TypeCorrect == Spec => []TypeOK
BY InitType, NextType, PTL DEF Spec

-----------------------------------------------------------------------------
(* The inductive invariant. *)

\* Caller c is inside spawn(s), before the task exists.
Spawning(c, s) == call[c] \in {[at |-> "channel", s |-> s], [at |-> "task", s |-> s]}

Marking(c, s) == call[c] = [at |-> "mark", s |-> s]

\* One caller at most is spawning a session, whose task is the only thing that
\* does not exist yet; handles belong to tasks that exist.
SpawnInv ==
    /\ \A c \in Callers, s \in Tasks :
          Spawning(c, s) => task[s] = "none" /\ status[s] = "Running"
    /\ \A c, d \in Callers, s \in Tasks :
          Spawning(c, s) /\ Spawning(d, s) => c = d
    /\ \A s \in handles : task[s] # "none"
    /\ \A c \in Callers, s \in Tasks :
          Marking(c, s) \/ call[c] = [at |-> "handle", s |-> s] => task[s] # "none"

\* The sender is gone before the last drain, so nothing arrives after it.
SteerInv ==
    /\ \A s \in Tasks : task[s] \in {"untracked", "drained", "ended"} => s \notin txs
    /\ \A s \in Tasks : task[s] \in {"drained", "ended"} => queue[s] = <<>>
    /\ \A s \in Tasks : task[s] \notin {"drained", "ended"} => undelivered[s] = <<>>
    /\ SteeringConserved

\* Events are the last step of their task and carry its locals.
EventInv ==
    /\ \A i \in DOMAIN events :
          /\ task[events[i].s] = "ended"
          /\ events[i].result = result[events[i].s]
          /\ events[i].undelivered = undelivered[events[i].s]
    /\ \A i, j \in DOMAIN events : events[i].s = events[j].s => i = j

\* Caller c is at one of the places RunningIsKillable allows for s.
InFlight(c, s) ==
    call[c] \in [at : {"channel", "task", "handle", "mark"}, s : {s}]

\* Once recorded the status is the task's outcome, unless overwritten by kill or
\* forgotten; a session left Running has a task that will record, or a call
\* under way that will spawn it or mark it.
StatusLocal(s) ==
    /\ task[s] \in {"recorded", "untracked", "drained", "ended"}
          => status[s] \in {StatusOf(result[s]), "Killed", "absent"}
    /\ s \in aborted => task[s] \notin {"none", "spawned", "delegating"}
    /\ s \in aborted \/ task[s] = "dropped"
          => status[s] # "Running" \/ \E c \in Callers : Marking(c, s)
    /\ task[s] = "none" /\ status[s] = "Running"
          => \E c \in Callers : Spawning(c, s)
    /\ status[s] = "Running" => s \in handles \/ \E c \in Callers : InFlight(c, s)

StatusInv == \A s \in Tasks : StatusLocal(s)

IInv == SpawnInv /\ SteerInv /\ EventInv /\ StatusInv

LEMMA StatusOfFinished == ASSUME NEW res PROVE StatusOf(res) \in Finished
BY DEF StatusOf, Finished

LEMMA InitIInv == Init => IInv
<1> SUFFICES ASSUME Init PROVE IInv
  OBVIOUS
<1> USE DEF Init, WorkerInit
<1>1. SpawnInv
  BY DEF SpawnInv, Spawning, Marking, Idle
<1>2. SteerInv
  BY DEF SteerInv, SteeringConserved
<1>3. EventInv /\ StatusInv
  BY DEF EventInv, StatusInv, StatusLocal
<1> QED
  BY <1>1, <1>2, <1>3 DEF IInv

\* A background task never goes back to not existing.
LEMMA TaskStepTask ==
    ASSUME TypeOK, NEW s \in Tasks, TaskStep(s)
    PROVE  /\ task[s] # "none" /\ task'[s] # "none"
           /\ \A t \in Tasks : t # s => task'[t] = task[t] /\ status'[t] = status[t]
           /\ UNCHANGED <<call, handles, accepted>>
BY DEF TaskStep, TaskStart, TaskJoin, TaskTimeout, TaskRecord, TaskUntrack,
       TaskDrain, TaskAnnounce, TaskDropped, TaskGoto, boardVars, TypeOK

LEMMA SpawnInvStep == TypeOK /\ SpawnInv /\ [Next]_vars => SpawnInv'
<1> SUFFICES ASSUME TypeOK, SpawnInv, [Next]_vars PROVE SpawnInv'
  OBVIOUS
<1> task \in [Tasks -> TaskStates] /\ status \in [Tasks -> Statuses]
    /\ call \in [Callers -> Calls] /\ handles \subseteq Tasks
  BY DEF TypeOK
<1> USE DEF SpawnInv, Spawning, Marking
<1>u. CASE UNCHANGED vars
  BY <1>u DEF vars, boardVars, taskVars
<1>c. ASSUME NEW c \in Callers, NEW s \in Tasks,
             SpawnRegister(c, s) \/ KillTake(c, s) \/ SpawnStep(c, s) \/ KillStep(c, s)
      PROVE  SpawnInv'
  <2> USE DEF boardVars, taskVars, Goto, Idle
  <2>1. CASE SpawnRegister(c, s)
    BY <2>1 DEF SpawnRegister
  <2>2. CASE SpawnChannel(c, s)
    BY <2>2 DEF SpawnChannel
  <2>3. CASE SpawnTask(c, s)
    <3>1. \A d \in Callers \ {c} : ~ Spawning(d, s) /\ call'[d] = call[d]
      BY <2>3 DEF SpawnTask
    <3>2. \A t \in Tasks : ~ Spawning(c, t)'
      BY <2>3 DEF SpawnTask
    <3>3. task'[s] = "spawned" /\ \A t \in Tasks \ {s} : task'[t] = task[t]
      BY <2>3 DEF SpawnTask
    <3>4. status' = status /\ handles' = handles
      BY <2>3 DEF SpawnTask
    <3>5. \A d \in Callers, t \in Tasks : Spawning(d, t)' => Spawning(d, t) /\ t # s
      BY <3>1, <3>2
    <3>6. call'[c] = [at |-> "handle", s |-> s]
      BY <2>3 DEF SpawnTask
    <3>7. \A d \in Callers, t \in Tasks :
             Marking(d, t)' \/ call'[d] = [at |-> "handle", s |-> t]
                => task'[t] # "none"
      <4> SUFFICES ASSUME NEW d \in Callers, NEW t \in Tasks, t # s,
                          Marking(d, t)' \/ call'[d] = [at |-> "handle", s |-> t]
                   PROVE  task[t] # "none"
        BY <3>3
      <4>1. d # c
        BY <3>6
      <4> QED
        BY <3>1, <4>1
    <3> QED
      BY <3>3, <3>4, <3>5, <3>7
  <2>4. CASE SpawnHandle(c, s)
    BY <2>4 DEF SpawnHandle
  <2>5. CASE KillTake(c, s)
    BY <2>5 DEF KillTake
  <2>6. CASE KillMark(c, s)
    BY <2>6 DEF KillMark
  <2>7. CASE KillUntrack(c, s)
    BY <2>7 DEF KillUntrack
  <2> QED
    BY <1>c, <2>1, <2>2, <2>3, <2>4, <2>5, <2>6, <2>7 DEF SpawnStep, KillStep
<1>m. ASSUME NEW c \in Callers, NEW s \in Tasks, NEW m \in Msgs,
             SteerCheck(c, s, m) \/ SteerStep(c, s, m)
      PROVE  SpawnInv'
  <2> USE DEF boardVars, taskVars, Goto, Idle
  <2>1. CASE SteerCheck(c, s, m)
    BY <2>1 DEF SteerCheck
  <2>2. CASE SteerSend(c, s, m)
    <3>1. UNCHANGED <<task, status, handles>>
      BY <2>2 DEF SteerSend
    <3>2. \A d \in Callers \ {c} : call'[d] = call[d]
      BY <2>2 DEF SteerSend
    <3>3. call'[c] \in {Idle, [at |-> "note", s |-> s, m |-> m]}
      BY <2>2 DEF SteerSend
    <3>4. \A t \in Tasks : ~ Spawning(c, t)' /\ ~ Marking(c, t)'
                           /\ call'[c] # [at |-> "handle", s |-> t]
      BY <3>3
    <3>5. \A d \in Callers, t \in Tasks : Spawning(d, t)' => Spawning(d, t)
      BY <3>2, <3>4
    <3>6. \A d \in Callers, t \in Tasks :
             Marking(d, t)' \/ call'[d] = [at |-> "handle", s |-> t]
                => call'[d] = call[d]
      BY <3>2, <3>4
    <3> QED
      BY <3>1, <3>5, <3>6
  <2>3. CASE SteerNote(c, s, m)
    BY <2>3 DEF SteerNote
  <2> QED
    BY <1>m, <2>1, <2>2, <2>3 DEF SteerStep
<1>o. ASSUME NEW old \in SUBSET Tasks, Cleanup(old)
      PROVE  SpawnInv'
  BY <1>o DEF Cleanup, taskVars, Finished
<1>t. ASSUME NEW s \in Tasks, TaskStep(s)
      PROVE  SpawnInv'
  BY <1>t, TaskStepTask
<1>w. ASSUME NEW s \in Tasks, WorkerStep(s)
      PROVE  SpawnInv'
  BY <1>w DEF WorkerStep, boardVars, taskVars
<1> QED
  BY <1>u, <1>c, <1>m, <1>o, <1>t, <1>w DEF Next, CallStep

\* The facts about sequences the steering argument rests on.
LEMMA SeqFacts ==
    ASSUME NEW a \in Seq(Msgs), NEW b \in Seq(Msgs)
    PROVE  a \o b \in Seq(Msgs) /\ a \o <<>> = a /\ <<>> \o a = a
BY ConcatProperties, ConcatEmptySeq

LEMMA AppendConcat ==
    ASSUME NEW a \in Seq(Msgs), NEW b \in Seq(Msgs), NEW x \in Msgs
    PROVE  Append(a \o b, x) = a \o Append(b, x)
<1>1. Append(a \o b, x) = (a \o b) \o <<x>> /\ Append(b, x) = b \o <<x>>
  BY SeqFacts, AppendIsConcat
<1>2. (a \o b) \o <<x>> = a \o (b \o <<x>>)
  BY ConcatAssociative
<1> QED
  BY <1>1, <1>2

\* What a sub-task does to its queue: it moves all of it to the context.
LEMMA WorkerQueue ==
    ASSUME TypeOK, NEW s \in Tasks, StartWorker(s) \/ Resume(s) \/ Continue(s) \/ Reap(s)
    PROVE  \/ UNCHANGED <<queue, injected>>
           \/ /\ injected' = [injected EXCEPT ![s] = @ \o queue[s]]
              /\ queue' = [queue EXCEPT ![s] = <<>>]
BY DEF StartWorker, Resume, Continue, Reap, UnknownAgent, PrepareContext, ModelAnswers,
       ModelCallsTools, ToolsReturn, Panic, BeginTurn, ExhaustTurns, Finish

LEMMA SteerInvStep == TypeOK /\ SpawnInv /\ SteerInv /\ [Next]_vars => SteerInv'
<1> SUFFICES ASSUME TypeOK, SpawnInv, SteerInv, [Next]_vars PROVE SteerInv'
  OBVIOUS
<1> task \in [Tasks -> TaskStates] /\ txs \subseteq Tasks
    /\ queue \in [Tasks -> Seq(Msgs)] /\ injected \in [Tasks -> Seq(Msgs)]
    /\ undelivered \in [Tasks -> Seq(Msgs)] /\ accepted \in [Tasks -> Seq(Msgs)]
  BY DEF TypeOK, WorkerTypeOK
<1> USE DEF SteerInv, SteeringConserved
<1>u. CASE UNCHANGED <<queue, injected, undelivered, accepted, task, txs>>
  BY <1>u
<1>c. ASSUME NEW c \in Callers, NEW s \in Tasks,
             SpawnRegister(c, s) \/ KillTake(c, s) \/ SpawnStep(c, s) \/ KillStep(c, s)
      PROVE  SteerInv'
  <2> USE DEF workerVars, boardVars, taskVars
  <2>1. CASE SpawnRegister(c, s)
    BY <2>1, <1>u DEF SpawnRegister
  <2>2. CASE SpawnChannel(c, s)
    <3>1. task[s] = "none"
      BY <2>2 DEF SpawnChannel, SpawnInv, Spawning
    <3> QED
      BY <2>2, <3>1 DEF SpawnChannel
  <2>3. CASE SpawnTask(c, s)
    <3>1. task[s] = "none"
      BY <2>3 DEF SpawnTask, SpawnInv, Spawning
    <3> QED
      BY <2>3, <3>1 DEF SpawnTask
  <2>4. CASE SpawnHandle(c, s)
    BY <2>4, <1>u DEF SpawnHandle
  <2>5. CASE KillTake(c, s)
    BY <2>5 DEF KillTake
  <2>6. CASE KillMark(c, s)
    BY <2>6, <1>u DEF KillMark
  <2>7. CASE KillUntrack(c, s)
    BY <2>7 DEF KillUntrack
  <2> QED
    BY <1>c, <2>1, <2>2, <2>3, <2>4, <2>5, <2>6, <2>7 DEF SpawnStep, KillStep
<1>m. ASSUME NEW c \in Callers, NEW s \in Tasks, NEW m \in Msgs,
             SteerCheck(c, s, m) \/ SteerStep(c, s, m)
      PROVE  SteerInv'
  <2> USE DEF workerVars, boardVars, taskVars
  <2>1. CASE SteerCheck(c, s, m)
    BY <2>1, <1>u DEF SteerCheck
  <2>2. CASE SteerSend(c, s, m) /\ s \in txs
    <3>1. task[s] \notin {"untracked", "drained", "ended"} /\ undelivered[s] = <<>>
      BY <2>2
    <3>2. /\ queue' = [queue EXCEPT ![s] = Append(queue[s], m)]
          /\ accepted' = [accepted EXCEPT ![s] = Append(accepted[s], m)]
          /\ UNCHANGED <<injected, undelivered, task, txs>>
      BY <2>2 DEF SteerSend
    <3>3. Append(accepted[s], m) = injected[s] \o undelivered[s] \o Append(queue[s], m)
      <4>1. injected[s] \o undelivered[s] = injected[s]
        BY <3>1, SeqFacts
      <4>2. accepted[s] = injected[s] \o queue[s]
        BY <4>1
      <4>3. Append(injected[s] \o queue[s], m) = injected[s] \o Append(queue[s], m)
        <5>1. injected[s] \in Seq(Msgs) /\ queue[s] \in Seq(Msgs)
          OBVIOUS
        <5> QED
          BY <5>1, AppendConcat, Zenon
      <4> QED
        BY <4>1, <4>2, <4>3
    <3> QED
      BY <3>1, <3>2, <3>3
  <2>3. CASE SteerSend(c, s, m) /\ s \notin txs
    BY <2>3, <1>u DEF SteerSend
  <2>4. CASE SteerNote(c, s, m)
    BY <2>4, <1>u DEF SteerNote
  <2> QED
    BY <1>m, <2>1, <2>2, <2>3, <2>4 DEF SteerStep
<1>o. ASSUME NEW old \in SUBSET Tasks, Cleanup(old)
      PROVE  SteerInv'
  BY <1>o, <1>u DEF Cleanup, workerVars, taskVars
<1>q. ASSUME NEW s \in Tasks, UNCHANGED <<undelivered, accepted, txs>>,
             \/ UNCHANGED task
             \/ task[s] = "spawned" /\ task' = [task EXCEPT ![s] = "delegating"],
             \/ UNCHANGED <<queue, injected>>
             \/ /\ injected' = [injected EXCEPT ![s] = @ \o queue[s]]
                /\ queue' = [queue EXCEPT ![s] = <<>>]
      PROVE  SteerInv'
  <2>1. CASE UNCHANGED <<queue, injected>>
    BY <1>q, <2>1
  <2>2. CASE /\ injected' = [injected EXCEPT ![s] = @ \o queue[s]]
             /\ queue' = [queue EXCEPT ![s] = <<>>]
    <3>1. undelivered[s] = <<>> \/ queue[s] = <<>>
      OBVIOUS
    <3>2. injected[s] \o undelivered[s] \o queue[s]
             = (injected[s] \o queue[s]) \o undelivered[s] \o <<>>
      <4>1. CASE undelivered[s] = <<>>
        <5>1. injected[s] \o queue[s] \in Seq(Msgs)
          BY SeqFacts
        <5> QED
          BY <4>1, <5>1, SeqFacts
      <4>2. CASE queue[s] = <<>>
        BY <4>2, SeqFacts
      <4> QED
        BY <3>1, <4>1, <4>2
    <3> QED
      BY <1>q, <2>2, <3>2
  <2> QED
    BY <1>q, <2>1, <2>2
<1>t. ASSUME NEW s \in Tasks, TaskStep(s)
      PROVE  SteerInv'
  <2> USE DEF workerVars, boardVars, taskVars, TaskGoto
  <2>1. CASE TaskStart(s)
    BY <2>1, <1>q, WorkerQueue DEF TaskStart
  <2>2. CASE TaskJoin(s) \/ TaskTimeout(s) \/ TaskRecord(s) \/ TaskDropped(s)
    BY <2>2 DEF TaskJoin, TaskTimeout, TaskRecord, TaskDropped
  <2>3. CASE TaskUntrack(s)
    BY <2>3 DEF TaskUntrack
  <2>4. CASE TaskDrain(s)
    <3>1. undelivered[s] = <<>>
      BY <2>4 DEF TaskDrain
    <3>2. injected[s] \o undelivered[s] \o queue[s] = injected[s] \o queue[s] \o <<>>
      BY <3>1, SeqFacts
    <3> QED
      BY <2>4, <3>2 DEF TaskDrain
  <2>5. CASE TaskAnnounce(s)
    BY <2>5 DEF TaskAnnounce
  <2> QED
    BY <1>t, <2>1, <2>2, <2>3, <2>4, <2>5 DEF TaskStep
<1>w. ASSUME NEW s \in Tasks, WorkerStep(s)
      PROVE  SteerInv'
  BY <1>w, <1>q, WorkerQueue DEF WorkerStep, boardVars, taskVars
<1> QED
  BY <1>u, <1>c, <1>m, <1>o, <1>t, <1>w DEF Next, CallStep, vars, workerVars, boardVars, taskVars

LEMMA EventInvStep == TypeOK /\ SpawnInv /\ EventInv /\ [Next]_vars => EventInv'
<1> SUFFICES ASSUME TypeOK, SpawnInv, EventInv, [Next]_vars PROVE EventInv'
  OBVIOUS
<1> task \in [Tasks -> TaskStates] /\ result \in [Tasks -> Results \cup {"none"}]
    /\ undelivered \in [Tasks -> Seq(Msgs)] /\ events \in Seq(Events)
  BY DEF TypeOK
<1> USE DEF EventInv
<1>e. \A i \in DOMAIN events : events[i] \in Events /\ events[i].s \in Tasks
  <2>1. \A i \in DOMAIN events : events[i] \in Events
    OBVIOUS
  <2> QED
    BY <2>1 DEF Events
<1>u. CASE UNCHANGED <<events, result, undelivered, task>>
  BY <1>u
\* A step on a session that has not ended disturbs no event.
<1>n. ASSUME NEW s \in Tasks, task[s] # "ended", UNCHANGED events,
             \A t \in Tasks \ {s} : /\ task'[t] = task[t]
                                     /\ result'[t] = result[t]
                                     /\ undelivered'[t] = undelivered[t]
      PROVE  EventInv'
  <2>1. \A i \in DOMAIN events : events[i].s \in Tasks \ {s}
    BY <1>n, <1>e
  <2> QED
    BY <1>n, <2>1
<1>c. ASSUME NEW c \in Callers, NEW s \in Tasks,
             SpawnRegister(c, s) \/ KillTake(c, s) \/ SpawnStep(c, s) \/ KillStep(c, s)
      PROVE  EventInv'
  <2> USE DEF workerVars, boardVars, taskVars
  <2>1. CASE SpawnTask(c, s)
    <3>1. task[s] = "none"
      BY <2>1 DEF SpawnTask, SpawnInv, Spawning
    <3> QED
      BY <1>n, <2>1, <3>1 DEF SpawnTask
  <2>2. CASE KillTake(c, s)
    <3>1. CASE task[s] \in {"spawned", "delegating"}
      BY <1>n, <2>2, <3>1 DEF KillTake
    <3>2. CASE task[s] \notin {"spawned", "delegating"}
      BY <1>u, <2>2, <3>2 DEF KillTake
    <3> QED
      BY <3>1, <3>2
  <2>3. CASE SpawnRegister(c, s) \/ SpawnChannel(c, s) \/ SpawnHandle(c, s)
               \/ KillMark(c, s) \/ KillUntrack(c, s)
    BY <1>u, <2>3 DEF SpawnRegister, SpawnChannel, SpawnHandle, KillMark, KillUntrack
  <2> QED
    BY <1>c, <2>1, <2>2, <2>3 DEF SpawnStep, KillStep
<1>m. ASSUME NEW c \in Callers, NEW s \in Tasks, NEW m \in Msgs,
             SteerCheck(c, s, m) \/ SteerStep(c, s, m)
      PROVE  EventInv'
  BY <1>m, <1>u DEF SteerCheck, SteerStep, SteerSend, SteerNote, taskVars
<1>o. ASSUME NEW old \in SUBSET Tasks, Cleanup(old)
      PROVE  EventInv'
  BY <1>o, <1>u DEF Cleanup, taskVars
<1>t. ASSUME NEW s \in Tasks, TaskStep(s)
      PROVE  EventInv'
  <2>1. CASE TaskAnnounce(s)
    <3> DEFINE e == [s |-> s, result |-> result[s], undelivered |-> undelivered[s]]
    <3>1. /\ task[s] = "drained" /\ task' = [task EXCEPT ![s] = "ended"]
          /\ events' = Append(events, e)
          /\ UNCHANGED <<result, undelivered>>
      BY <2>1 DEF TaskAnnounce, TaskGoto
    <3>2. \A i \in DOMAIN events : events[i].s \in Tasks \ {s}
      BY <3>1, <1>e
    <3>3. /\ DOMAIN events' = 1..(Len(events) + 1)
          /\ events'[Len(events) + 1] = e
          /\ \A i \in DOMAIN events : events'[i] = events[i]
      BY <3>1
    <3>4. \A i \in DOMAIN events' : i \in DOMAIN events \/ i = Len(events) + 1
      BY <3>3
    <3> QED
      BY <3>1, <3>2, <3>3, <3>4
  <2>2. CASE ~ TaskAnnounce(s)
    <3>1. task[s] # "ended" /\ UNCHANGED events
      BY <1>t, <2>2 DEF TaskStep, TaskStart, TaskJoin, TaskTimeout, TaskRecord,
                        TaskUntrack, TaskDrain, TaskDropped
    <3>2. \A t \in Tasks \ {s} : /\ task'[t] = task[t]
                                  /\ result'[t] = result[t]
                                  /\ undelivered'[t] = undelivered[t]
      BY <1>t, <2>2 DEF TaskStep, TaskStart, TaskJoin, TaskTimeout, TaskRecord,
                        TaskUntrack, TaskDrain, TaskDropped, TaskGoto
    <3> QED
      BY <1>n, <3>1, <3>2
  <2> QED
    BY <2>1, <2>2
<1>w. ASSUME NEW s \in Tasks, WorkerStep(s)
      PROVE  EventInv'
  BY <1>w, <1>u DEF WorkerStep, taskVars
<1> QED
  BY <1>u, <1>c, <1>m, <1>o, <1>t, <1>w DEF Next, CallStep, vars, taskVars

\* A step of caller c about session s, or of the task of s, leaves the other
\* sessions' witnesses where they are.
LEMMA StatusFrame ==
    ASSUME StatusInv, NEW s \in Tasks, NEW c \in Callers,
           \A d \in Callers \ {c} : call'[d] = call[d],
           call'[c] = call[c] \/ \A t \in Tasks \ {s} : ~ InFlight(c, t),
           \A t \in Tasks \ {s} : /\ task'[t] = task[t] /\ status'[t] = status[t]
                                   /\ result'[t] = result[t]
                                   /\ (t \in aborted') = (t \in aborted)
                                   /\ (t \in handles') = (t \in handles),
           StatusLocal(s)'
    PROVE  StatusInv'
<1> SUFFICES ASSUME NEW t \in Tasks, t # s PROVE StatusLocal(t)'
  BY DEF StatusInv
<1>1. \A d \in Callers : Marking(d, t) => Marking(d, t)'
  BY DEF Marking, InFlight
<1>2. \A d \in Callers : Spawning(d, t) => Spawning(d, t)'
  BY DEF Spawning, InFlight
<1>3. \A d \in Callers : InFlight(d, t) => InFlight(d, t)'
  BY DEF InFlight
<1> QED
  BY <1>1, <1>2, <1>3 DEF StatusInv, StatusLocal

LEMMA StatusInvStep ==
    TypeOK /\ SpawnInv /\ StatusInv /\ [Next]_vars => StatusInv'
<1> SUFFICES ASSUME TypeOK, SpawnInv, StatusInv, [Next]_vars PROVE StatusInv'
  OBVIOUS
<1> task \in [Tasks -> TaskStates] /\ status \in [Tasks -> Statuses]
    /\ result \in [Tasks -> Results \cup {"none"}] /\ call \in [Callers -> Calls]
    /\ aborted \subseteq Tasks /\ handles \subseteq Tasks
  BY DEF TypeOK
<1>l. \A s \in Tasks : StatusLocal(s)
  BY DEF StatusInv
<1>u. CASE UNCHANGED <<task, status, result, aborted, handles, call>>
  BY <1>u DEF StatusInv, StatusLocal, Marking, Spawning, InFlight
<1>c. ASSUME NEW c \in Callers, NEW s \in Tasks,
             SpawnRegister(c, s) \/ KillTake(c, s) \/ SpawnStep(c, s) \/ KillStep(c, s)
      PROVE  StatusInv'
  <2> USE DEF boardVars, taskVars, Goto
  <2>1. \A d \in Callers \ {c} : call'[d] = call[d]
    BY <1>c DEF SpawnRegister, KillTake, SpawnStep, KillStep, SpawnChannel, SpawnTask,
                SpawnHandle, KillMark, KillUntrack
  <2>2. \A t \in Tasks \ {s} : ~ InFlight(c, t)
    BY <1>c DEF SpawnRegister, KillTake, SpawnStep, KillStep, SpawnChannel, SpawnTask,
                SpawnHandle, KillMark, KillUntrack, InFlight, Idle
  <2>3. \A t \in Tasks \ {s} : /\ task'[t] = task[t] /\ status'[t] = status[t]
                                /\ result'[t] = result[t]
                                /\ (t \in aborted') = (t \in aborted)
                                /\ (t \in handles') = (t \in handles)
    BY <1>c DEF SpawnRegister, KillTake, SpawnStep, KillStep, SpawnChannel, SpawnTask,
                SpawnHandle, KillMark, KillUntrack
  <2>4. StatusLocal(s)'
    <3>1. CASE SpawnRegister(c, s)
      <4>1. call'[c] = [at |-> "channel", s |-> s]
        BY <3>1 DEF SpawnRegister
      <4>2. Spawning(c, s)' /\ InFlight(c, s)'
        BY <4>1 DEF Spawning, InFlight
      <4>3. /\ task[s] = "none" /\ UNCHANGED <<task, aborted>>
        BY <3>1 DEF SpawnRegister
      <4> QED
        BY <1>l, <4>2, <4>3 DEF StatusLocal
    <3>2. CASE SpawnChannel(c, s)
      <4>1. call'[c] = [at |-> "task", s |-> s]
        BY <3>2 DEF SpawnChannel
      <4>2. Spawning(c, s)' /\ InFlight(c, s)'
        BY <4>1 DEF Spawning, InFlight
      <4>3. /\ task[s] = "none" /\ UNCHANGED <<task, status, result, aborted>>
        BY <3>2 DEF SpawnChannel, SpawnInv, Spawning
      <4> QED
        BY <1>l, <4>2, <4>3 DEF StatusLocal
    <3>3. CASE SpawnTask(c, s)
      <4>1. call'[c] = [at |-> "handle", s |-> s] /\ task'[s] = "spawned"
        BY <3>3 DEF SpawnTask
      <4>2. InFlight(c, s)'
        BY <4>1 DEF InFlight
      <4>3. task[s] = "none" /\ UNCHANGED <<status, result, aborted>>
        BY <3>3 DEF SpawnTask, SpawnInv, Spawning
      <4> QED
        BY <1>l, <4>1, <4>2, <4>3 DEF StatusLocal
    <3>4. CASE SpawnHandle(c, s)
      <4>1. task[s] # "none" /\ s \in handles' /\ ~ Marking(c, s)
            /\ UNCHANGED <<task, status, result, aborted>>
        BY <3>4 DEF SpawnHandle, SpawnInv, Marking
      <4>2. \A d \in Callers : Marking(d, s) => Marking(d, s)'
        BY <2>1, <4>1 DEF Marking
      <4> QED
        BY <1>l, <4>1, <4>2 DEF StatusLocal
    <3>5. CASE KillTake(c, s)
      <4>1. call'[c] = [at |-> "mark", s |-> s]
        BY <3>5 DEF KillTake
      <4>2. Marking(c, s)' /\ InFlight(c, s)'
        BY <4>1 DEF Marking, InFlight
      <4>3. task[s] # "none" /\ UNCHANGED <<status, result>>
        BY <3>5 DEF KillTake, SpawnInv
      <4>4. CASE task[s] \in {"spawned", "delegating"}
        BY <1>l, <3>5, <4>2, <4>3, <4>4 DEF StatusLocal, KillTake
      <4>5. CASE task[s] \in {"woken", "recorded", "untracked"}
        BY <1>l, <3>5, <4>2, <4>3, <4>5 DEF StatusLocal, KillTake
      <4>6. CASE task[s] \in {"drained", "ended", "dropped"}
        BY <1>l, <3>5, <4>2, <4>3, <4>6 DEF StatusLocal, KillTake
      <4> QED
        BY <4>3, <4>4, <4>5, <4>6 DEF TaskStates
    <3>6. CASE KillMark(c, s)
      <4>1. status'[s] \in {"Killed", "absent"} /\ UNCHANGED <<task, result, aborted>>
        BY <3>6 DEF KillMark
      <4> QED
        BY <1>l, <4>1 DEF StatusLocal
    <3>7. CASE KillUntrack(c, s)
      <4>1. ~ InFlight(c, s) /\ UNCHANGED <<task, status, result, aborted, handles>>
        BY <3>7 DEF KillUntrack, InFlight
      <4>2. \A d \in Callers : /\ Marking(d, s) => Marking(d, s)'
                               /\ Spawning(d, s) => Spawning(d, s)'
                               /\ InFlight(d, s) => InFlight(d, s)'
        BY <2>1, <4>1 DEF Marking, Spawning, InFlight
      <4> QED
        BY <1>l, <4>1, <4>2 DEF StatusLocal
    <3> QED
      BY <1>c, <3>1, <3>2, <3>3, <3>4, <3>5, <3>6, <3>7 DEF SpawnStep, KillStep
  <2> QED
    BY <2>1, <2>2, <2>3, <2>4, StatusFrame
<1>m. ASSUME NEW c \in Callers, NEW s \in Tasks, NEW m \in Msgs,
             SteerCheck(c, s, m) \/ SteerStep(c, s, m)
      PROVE  StatusInv'
  <2> USE DEF boardVars, taskVars, Goto
  <2>1. UNCHANGED <<task, status, result, aborted, handles>>
    BY <1>m DEF SteerCheck, SteerStep, SteerSend, SteerNote
  <2>2. \A d \in Callers \ {c} : call'[d] = call[d]
    BY <1>m DEF SteerCheck, SteerStep, SteerSend, SteerNote
  <2>3. \A t \in Tasks : ~ InFlight(c, t)
    BY <1>m DEF SteerCheck, SteerStep, SteerSend, SteerNote, InFlight, Idle
  <2>4. \A d \in Callers : /\ Marking(d, s) => Marking(d, s)'
                           /\ Spawning(d, s) => Spawning(d, s)'
                           /\ InFlight(d, s) => InFlight(d, s)'
    BY <2>2, <2>3 DEF Marking, Spawning, InFlight
  <2>5. StatusLocal(s)'
    BY <1>l, <2>1, <2>4 DEF StatusLocal
  <2> QED
    BY <2>1, <2>2, <2>3, <2>5, StatusFrame
<1>o. ASSUME NEW old \in SUBSET Tasks, Cleanup(old)
      PROVE  StatusInv'
  BY <1>o, <1>l DEF Cleanup, taskVars, Marking, Spawning, InFlight, StatusLocal, StatusInv
<1>w. ASSUME NEW s \in Tasks, WorkerStep(s)
      PROVE  StatusInv'
  BY <1>w, <1>u DEF WorkerStep, boardVars, taskVars
<1>t. ASSUME NEW s \in Tasks, TaskStep(s)
      PROVE  StatusInv'
  <2> USE DEF boardVars, taskVars, TaskGoto
  <2>1. UNCHANGED <<call, aborted, handles>>
    BY <1>t DEF TaskStep, TaskStart, TaskJoin, TaskTimeout, TaskRecord, TaskUntrack,
                TaskDrain, TaskAnnounce, TaskDropped
  <2>2. \A t \in Tasks \ {s} : /\ task'[t] = task[t] /\ status'[t] = status[t]
                                /\ result'[t] = result[t]
    BY <1>t DEF TaskStep, TaskStart, TaskJoin, TaskTimeout, TaskRecord, TaskUntrack,
                TaskDrain, TaskAnnounce, TaskDropped
  <2>3. StatusLocal(s)'
    <3> USE <1>l, <2>1 DEF StatusLocal, Marking, Spawning, InFlight
    <3>1. CASE TaskStart(s) \/ TaskJoin(s) \/ TaskTimeout(s)
      BY <3>1 DEF TaskStart, TaskJoin, TaskTimeout
    <3>2. CASE TaskRecord(s)
      <4>1. StatusOf(result[s]) # "Running"
        BY StatusOfFinished DEF Finished
      <4>2. status'[s] \in {StatusOf(result[s]), "absent"} /\ UNCHANGED result
            /\ task'[s] = "recorded"
        BY <3>2 DEF TaskRecord
      <4> QED
        BY <4>1, <4>2
    <3>3. CASE TaskUntrack(s) \/ TaskDrain(s) \/ TaskAnnounce(s)
      BY <3>3 DEF TaskUntrack, TaskDrain, TaskAnnounce
    <3>4. CASE TaskDropped(s)
      BY <3>4 DEF TaskDropped
    <3> QED
      BY <1>t, <3>1, <3>2, <3>3, <3>4 DEF TaskStep
  <2> QED
    BY <2>1, <2>2, <2>3, <1>l DEF StatusInv, StatusLocal, Marking, Spawning, InFlight
<1> QED
  BY <1>u, <1>c, <1>m, <1>o, <1>t, <1>w DEF Next, CallStep, vars, taskVars, boardVars

-----------------------------------------------------------------------------
(* The theorems. *)

LEMMA IInvHolds == Spec => [](TypeOK /\ IInv)
<1>1. Init => TypeOK /\ IInv
  BY InitType, InitIInv
<1>2. TypeOK /\ IInv /\ [Next]_vars => (TypeOK /\ IInv)'
  BY NextType, SpawnInvStep, SteerInvStep, EventInvStep, StatusInvStep DEF IInv
<1> QED
  BY <1>1, <1>2, PTL DEF Spec

\* Every message steer() accepts reaches the sub-agent, its completion event or
\* still waits in the channel, once and in order.
THEOREM SteeringIsConserved == Spec => []SteeringConserved
<1>1. IInv => SteeringConserved
  BY DEF IInv, SteerInv
<1> QED
  BY <1>1, IInvHolds, PTL

\* A completion event returns exactly the accepted messages its sub-agent never
\* saw, and stays right for ever after.
THEOREM EventsAreComplete == Spec => []EventsAccountForSteering
<1>1. TypeOK /\ IInv => EventsAccountForSteering
  <2> SUFFICES ASSUME TypeOK, IInv, NEW i \in DOMAIN events
               PROVE  accepted[events[i].s] = injected[events[i].s] \o events[i].undelivered
    BY DEF EventsAccountForSteering
  <2> DEFINE s == events[i].s
  <2>1. s \in Tasks
    <3>1. events[i] \in Events
      BY DEF TypeOK
    <3> QED
      BY <3>1 DEF Events
  <2>2. events[i].undelivered = undelivered[s] /\ queue[s] = <<>>
    BY <2>1 DEF IInv, EventInv, SteerInv
  <2>3. accepted[s] = injected[s] \o undelivered[s] \o <<>>
    BY <2>1, <2>2 DEF IInv, SteerInv, SteeringConserved
  <2>4. injected[s] \o undelivered[s] \in Seq(Msgs)
    BY <2>1, SeqFacts DEF TypeOK, WorkerTypeOK
  <2> QED
    BY <2>2, <2>3, <2>4, SeqFacts
<1> QED
  BY <1>1, IInvHolds, PTL

\* Sessions get at most one event, and the session map agrees with it unless
\* kill or cleanup came after.
THEOREM EventsAgree == Spec => []EventsMatchSessions
<1>1. TypeOK /\ IInv => EventsMatchSessions
  <2> SUFFICES ASSUME TypeOK, IInv, NEW i \in DOMAIN events
               PROVE  status[events[i].s] \in {StatusOf(events[i].result), "Killed", "absent"}
    BY DEF EventsMatchSessions, IInv, EventInv
  <2>1. events[i] \in Events
    BY DEF TypeOK
  <2>2. events[i].s \in Tasks
    BY <2>1 DEF Events
  <2> QED
    BY <2>2 DEF IInv, EventInv, StatusInv, StatusLocal
<1> QED
  BY <1>1, IInvHolds, PTL

\* No session is stuck at Running: its task will record an outcome, or a spawn or
\* a kill of it is under way.
THEOREM RunningHasATask == Spec => []RunningIsLive
<1>1. TypeOK /\ IInv => RunningIsLive
  <2> SUFFICES ASSUME TypeOK, IInv, NEW s \in Tasks, status[s] = "Running",
                      task[s] \notin {"spawned", "delegating", "woken"}
               PROVE  \E c \in Callers :
                          call[c] \in [at : {"channel", "task", "mark"}, s : {s}]
    BY DEF RunningIsLive
  <2>1. StatusLocal(s)
    BY DEF IInv, StatusInv
  <2>2. StatusOf(result[s]) # "Running"
    BY StatusOfFinished DEF Finished
  <2>3. task[s] \in {"none", "dropped"}
    BY <2>1, <2>2 DEF StatusLocal, TypeOK, TaskStates
  <2>4. \E c \in Callers : Spawning(c, s) \/ Marking(c, s)
    BY <2>1, <2>3 DEF StatusLocal
  <2> QED
    BY <2>4 DEF Spawning, Marking
<1> QED
  BY <1>1, IInvHolds, PTL

\* A Running session whose spawn has returned can be killed, or is being killed.
THEOREM RunningCanBeKilled == Spec => []RunningIsKillable
<1>1. IInv => RunningIsKillable
  BY DEF IInv, StatusInv, StatusLocal, InFlight, RunningIsKillable
<1> QED
  BY <1>1, IInvHolds, PTL

-----------------------------------------------------------------------------
(* The course of a status. *)

\* A session that is killed, or about to be marked so, has a task that cannot wake any
\* more, unless it had when the abort came; one with an outcome has a task that has
\* written it.
KillLocal(s) ==
    /\ (status[s] = "Killed" \/ \E c \in Callers : Marking(c, s)) =>
          /\ task[s] \notin {"none", "spawned", "delegating"}
          /\ task[s] = "woken" => s \in aborted
    /\ status[s] \in Finished => task[s] \notin {"none", "spawned", "delegating", "woken"}

KillInv == \A s \in Tasks : KillLocal(s)

LEMMA KillFrame ==
    ASSUME NEW s \in Tasks, KillLocal(s),
           \/ status'[s] \in {status[s], "Running", "absent"}
           \/ status'[s] = "Killed" /\ \E c \in Callers : Marking(c, s),
           \A c \in Callers : Marking(c, s)' => Marking(c, s),
           task'[s] = task[s], s \in aborted => s \in aborted'
    PROVE  KillLocal(s)'
BY DEF KillLocal, Finished

LEMMA KillInvStep == TypeOK /\ SpawnInv /\ KillInv /\ [Next]_vars => KillInv'
<1> SUFFICES ASSUME TypeOK, SpawnInv, KillInv, [Next]_vars, NEW t \in Tasks
             PROVE  KillLocal(t)'
  BY DEF KillInv
<1> /\ status \in [Tasks -> Statuses] /\ task \in [Tasks -> TaskStates]
    /\ call \in [Callers -> Calls]
  BY DEF TypeOK
<1>l. KillLocal(t)
  BY DEF KillInv
<1>u. CASE UNCHANGED <<status, task, aborted, call>>
  BY <1>l, <1>u, KillFrame DEF Marking
<1>1. ASSUME NEW c \in Callers, NEW s \in Tasks, SpawnRegister(c, s)
      PROVE  KillLocal(t)'
  <2>1. /\ status' = [status EXCEPT ![s] = "Running"] /\ UNCHANGED <<task, aborted>>
        /\ call' = [call EXCEPT ![c] = [at |-> "channel", s |-> s]]
    BY <1>1 DEF SpawnRegister, taskVars, Goto
  <2>2. \A d \in Callers : Marking(d, t)' => Marking(d, t)
    BY <2>1 DEF Marking
  <2>3. status'[t] \in {status[t], "Running"}
    BY <2>1
  <2> QED
    BY <1>l, <2>1, <2>2, <2>3, KillFrame
<1>2. ASSUME NEW c \in Callers, NEW s \in Tasks, SpawnTask(c, s)
      PROVE  KillLocal(t)'
  <2>1. /\ task' = [task EXCEPT ![s] = "spawned"] /\ UNCHANGED <<status, aborted>>
        /\ call' = [call EXCEPT ![c] = [at |-> "handle", s |-> s]]
    BY <1>2 DEF SpawnTask, boardVars, Goto
  <2>2. \A d \in Callers : Marking(d, t)' => Marking(d, t)
    BY <2>1 DEF Marking
  <2>3. CASE t = s
    <3>1. task[s] = "none" /\ status[s] = "Running"
      BY <1>2 DEF SpawnTask, SpawnInv, Spawning
    <3> QED
      BY <1>l, <2>1, <2>2, <2>3, <3>1 DEF KillLocal, Finished
  <2>4. CASE t # s
    <3>1. task'[t] = task[t]
      BY <2>1, <2>4
    <3> QED
      BY <1>l, <2>1, <2>2, <3>1, KillFrame
  <2> QED
    BY <2>3, <2>4
<1>3. ASSUME NEW c \in Callers, NEW s \in Tasks,
             SpawnChannel(c, s) \/ SpawnHandle(c, s) \/ KillUntrack(c, s)
      PROVE  KillLocal(t)'
  <2>1. /\ UNCHANGED <<status, task, aborted>>
        /\ call' = [call EXCEPT ![c] = [at |-> "task", s |-> s]] \/ call' = [call EXCEPT ![c] = Idle]
    BY <1>3 DEF SpawnChannel, SpawnHandle, KillUntrack, taskVars, Goto
  <2>2. \A d \in Callers : Marking(d, t)' => Marking(d, t)
    BY <2>1 DEF Marking, Idle
  <2> QED
    BY <1>l, <2>1, <2>2, KillFrame
<1>4. ASSUME NEW c \in Callers, NEW s \in Tasks, KillTake(c, s)
      PROVE  KillLocal(t)'
  <2>1. /\ status' = status /\ call' = [call EXCEPT ![c] = [at |-> "mark", s |-> s]]
        /\ task' = IF task[s] \in {"spawned", "delegating"}
                   THEN [task EXCEPT ![s] = "dropped"] ELSE task
        /\ aborted' = IF task[s] \in {"woken", "recorded", "untracked"}
                      THEN aborted \cup {s} ELSE aborted
    BY <1>4 DEF KillTake, Goto
  <2>2. CASE t = s
    <3>1. task[s] # "none"
      BY <1>4 DEF KillTake, SpawnInv
    <3>2. task'[s] \notin {"none", "spawned", "delegating"}
      BY <2>1, <3>1
    <3>3. task'[s] = "woken" => s \in aborted'
      BY <2>1
    <3>4. status'[s] \in Finished => task'[s] # "woken"
      BY <1>l, <2>1, <2>2 DEF KillLocal
    <3> QED
      BY <2>2, <3>2, <3>3, <3>4 DEF KillLocal
  <2>3. CASE t # s
    <3>1. task'[t] = task[t] /\ (t \in aborted => t \in aborted')
      BY <2>1, <2>3
    <3>2. \A d \in Callers : Marking(d, t)' => Marking(d, t)
      BY <2>1, <2>3 DEF Marking
    <3> QED
      BY <1>l, <2>1, <3>1, <3>2, KillFrame
  <2> QED
    BY <2>2, <2>3
<1>5. ASSUME NEW c \in Callers, NEW s \in Tasks, KillMark(c, s)
      PROVE  KillLocal(t)'
  <2>1. /\ UNCHANGED <<task, aborted>> /\ call[c] = [at |-> "mark", s |-> s]
        /\ call' = [call EXCEPT ![c] = [at |-> "untrack", s |-> s]]
        /\ status' = status \/ status' = [status EXCEPT ![s] = "Killed"]
    BY <1>5 DEF KillMark, taskVars, Goto
  <2>2. \A d \in Callers : Marking(d, t)' => Marking(d, t)
    BY <2>1 DEF Marking
  <2>3. status'[t] = status[t] \/ (status'[t] = "Killed" /\ Marking(c, t))
    BY <2>1 DEF Marking
  <2> QED
    BY <1>l, <2>1, <2>2, <2>3, KillFrame
<1>m. ASSUME NEW c \in Callers, NEW s \in Tasks, NEW m \in Msgs,
             SteerCheck(c, s, m) \/ SteerSend(c, s, m) \/ SteerNote(c, s, m)
      PROVE  KillLocal(t)'
  <2>1. UNCHANGED <<status, task, aborted>>
    BY <1>m DEF SteerCheck, SteerSend, SteerNote, boardVars, taskVars
  <2>2. PICK next : call' = [call EXCEPT ![c] = next] /\ next.at # "mark"
    BY <1>m DEF SteerCheck, SteerSend, SteerNote, Goto, Idle
  <2>3. \A d \in Callers : Marking(d, t)' => Marking(d, t)
    BY <2>2 DEF Marking
  <2> QED
    BY <1>l, <2>1, <2>3, KillFrame
<1>o. ASSUME NEW old \in SUBSET Tasks, Cleanup(old)
      PROVE  KillLocal(t)'
  <2>1. /\ UNCHANGED <<task, aborted, call>>
        /\ status'[t] = status[t] \/ status'[t] = "absent"
    BY <1>o DEF Cleanup, taskVars
  <2> QED
    BY <1>l, <2>1, KillFrame DEF Marking
<1>t. ASSUME NEW s \in Tasks, TaskStep(s)
      PROVE  KillLocal(t)'
  <2>1. UNCHANGED <<call, aborted>>
    BY <1>t DEF TaskStep, TaskStart, TaskJoin, TaskTimeout, TaskRecord, TaskUntrack,
                TaskDrain, TaskAnnounce, TaskDropped
  <2>2. \A c \in Callers : Marking(c, t)' = Marking(c, t)
    BY <2>1 DEF Marking
  <2>3. CASE TaskRecord(s)
    <3>1. task'[s] = "recorded" /\ \A u \in Tasks \ {s} : task'[u] = task[u]
      BY <2>3 DEF TaskRecord, TaskGoto
    <3>2. /\ \A u \in Tasks \ {s} : status'[u] = status[u]
          /\ status'[s] # "Killed"
      BY <2>3, StatusOfFinished DEF TaskRecord, Finished
    <3>3. CASE t = s
      BY <3>1, <3>3 DEF KillLocal
    <3>4. CASE t # s
      BY <1>l, <2>1, <2>2, <3>1, <3>2, <3>4, KillFrame
    <3> QED
      BY <3>3, <3>4
  <2>4. CASE ~TaskRecord(s)
    <3>1. status' = status
      BY <1>t, <2>4 DEF TaskStep, TaskStart, TaskJoin, TaskTimeout, TaskUntrack, TaskDrain,
                        TaskAnnounce, TaskDropped, boardVars
    <3>2. \/ task'[t] = task[t] \/ task[t] \in {"spawned", "delegating"}
          \/ task'[t] \in {"recorded", "untracked", "drained", "ended", "dropped"}
      BY <1>t DEF TaskStep, TaskStart, TaskJoin, TaskTimeout, TaskRecord, TaskUntrack,
                  TaskDrain, TaskAnnounce, TaskDropped, TaskGoto
    <3> QED
      BY <1>l, <2>1, <2>2, <3>1, <3>2 DEF KillLocal
  <2> QED
    BY <2>3, <2>4
<1>w. ASSUME NEW s \in Tasks, WorkerStep(s)
      PROVE  KillLocal(t)'
  BY <1>w, <1>u DEF WorkerStep, boardVars, taskVars
<1>v. CASE UNCHANGED vars
  BY <1>v, <1>u DEF vars, taskVars, boardVars
<1> QED
  BY <1>1, <1>2, <1>3, <1>4, <1>5, <1>m, <1>o, <1>t, <1>w, <1>v
     DEF Next, CallStep, SpawnStep, KillStep, SteerStep

\* What may become of the status of a session.
StatusMove(s) ==
    \/ status[s] = "absent" /\ task[s] = "none" /\ status'[s] = "Running"
    \/ status[s] = "Running" /\ status'[s] \in Finished \cup {"Killed"}
    \/ status[s] \in Finished /\ status'[s] \in {"Killed", "absent"}
    \/ status[s] = "Killed" /\ status'[s] = "absent"
    \/ status[s] = "Killed" /\ s \in aborted /\ TaskRecord(s)

\* An outcome once recorded is never replaced by another, a session that cleanup has
\* forgotten never comes back, and "Killed" is only overwritten by a task that had
\* woken when kill took its handle (manager.rs writes the outcome without reading the
\* status): any other kill is final.
THEOREM StatusMovesOn ==
    Spec => [][\A s \in Tasks : status'[s] # status[s] => StatusMove(s)]_vars
<1>1. Init => KillInv
  <2> SUFFICES ASSUME Init, NEW s \in Tasks PROVE KillLocal(s)
    BY DEF KillInv
  <2>1. \A c \in Callers : ~Marking(c, s)
    BY DEF Init, Marking, Idle
  <2>2. status[s] = "absent"
    BY DEF Init
  <2> QED
    BY <2>1, <2>2 DEF KillLocal, Finished
<1>2. TypeOK /\ IInv /\ KillInv /\ [Next]_vars => KillInv'
  BY KillInvStep DEF IInv
<1>3. TypeOK /\ IInv /\ KillInv /\ [Next]_vars =>
          [\A s \in Tasks : status'[s] # status[s] => StatusMove(s)]_vars
  <2> SUFFICES ASSUME TypeOK, IInv, KillInv, Next, NEW t \in Tasks, status'[t] # status[t]
               PROVE  StatusMove(t)
    OBVIOUS
  <2>0. status \in [Tasks -> Statuses] /\ StatusLocal(t) /\ KillLocal(t)
    BY DEF TypeOK, IInv, StatusInv, KillInv
  <2>1. CASE \E c \in Callers, s \in Tasks : SpawnRegister(c, s)
    BY <2>0, <2>1 DEF SpawnRegister, StatusMove
  <2>2. ASSUME NEW c \in Callers, NEW s \in Tasks, KillMark(c, s)
        PROVE  StatusMove(t)
    <3>1. t = s /\ status[t] # "absent" /\ status'[t] = "Killed"
      BY <2>0, <2>2 DEF KillMark
    <3> QED
      BY <2>0, <3>1 DEF StatusMove, Statuses
  <2>3. ASSUME NEW s \in Tasks, TaskRecord(s)
        PROVE  StatusMove(t)
    <3>1. /\ t = s /\ status[t] # "absent" /\ task[t] = "woken"
          /\ status'[t] = StatusOf(result[t])
      BY <2>0, <2>3 DEF TaskRecord
    <3>2. status'[t] \in Finished
      BY <3>1, StatusOfFinished
    <3>3. status[t] \notin Finished
      BY <2>0, <3>1 DEF KillLocal
    <3> QED
      BY <2>0, <2>3, <3>1, <3>2, <3>3 DEF StatusMove, Statuses, KillLocal
  <2>4. ASSUME NEW old \in SUBSET Tasks, Cleanup(old)
        PROVE  StatusMove(t)
    <3>1. t \in old /\ status'[t] = "absent" /\ status[t] \in Finished \cup {"Killed"}
      BY <2>4 DEF Cleanup
    <3> QED
      BY <3>1 DEF StatusMove
  <2>5. CASE UNCHANGED status
    BY <2>5
  <2>6. ASSUME NEW c \in Callers, NEW s \in Tasks,
               KillTake(c, s) \/ SpawnStep(c, s) \/ KillUntrack(c, s)
        PROVE  StatusMove(t)
    BY <2>5, <2>6 DEF KillTake, SpawnStep, SpawnChannel, SpawnTask, SpawnHandle, KillUntrack,
                      boardVars
  <2>m. ASSUME NEW c \in Callers, NEW s \in Tasks, NEW m \in Msgs,
               SteerCheck(c, s, m) \/ SteerStep(c, s, m)
        PROVE  StatusMove(t)
    BY <2>5, <2>m DEF SteerCheck, SteerStep, SteerSend, SteerNote, boardVars
  <2>7. ASSUME NEW s \in Tasks, TaskStep(s), ~TaskRecord(s)
        PROVE  StatusMove(t)
    BY <2>5, <2>7 DEF TaskStep, TaskStart, TaskJoin, TaskTimeout, TaskUntrack, TaskDrain,
                      TaskAnnounce, TaskDropped, boardVars
  <2>8. CASE \E s \in Tasks : WorkerStep(s)
    BY <2>5, <2>8 DEF WorkerStep, boardVars
  <2> QED
    BY <2>1, <2>2, <2>3, <2>4, <2>6, <2>m, <2>7, <2>8 DEF Next, CallStep, KillStep
<1> QED
  BY <1>1, <1>2, <1>3, IInvHolds, PTL DEF Spec

-----------------------------------------------------------------------------
(* The manager implements SteeringContract. *)

\* What follows a prefix of a sequence is what was appended to it.
LEMMA TailOfConcat ==
    ASSUME NEW a \in Seq(Msgs), NEW b \in Seq(Msgs)
    PROVE  SubSeq(a \o b, Len(a) + 1, Len(a \o b)) = b
<1>1. Len(a \o b) = Len(a) + Len(b) /\ a \o b \in Seq(Msgs)
  BY ConcatProperties
<1>2. CASE b = <<>>
  BY <1>1, <1>2, SubSeqEmpty
<1>3. CASE b # <<>>
  <2>1. Len(b) \in Nat \ {0} /\ Len(a) \in Nat
    BY <1>3, EmptySeq
  <2>2. SubSeq(a \o b, Len(a) + 1, Len(a) + Len(b)) = SubSeq(b, 1, Len(b))
    <3>1. Len(a) + 1 \in Len(a) + 1 .. Len(a) + Len(b)
          /\ Len(a) + Len(b) \in Len(a) + 1 .. Len(a) + Len(b)
          /\ (Len(a) + 1) - Len(a) = 1 /\ (Len(a) + Len(b)) - Len(a) = Len(b)
      BY <2>1
    <3>2. SubSeq(a \o b, Len(a) + 1, Len(a) + Len(b))
             = SubSeq(b, (Len(a) + 1) - Len(a), (Len(a) + Len(b)) - Len(a))
      BY <3>1, SubSeqOfConcat2
    <3> QED
      BY <3>1, <3>2
  <2>3. SubSeq(b, 1, Len(b)) = b
    BY SubSeqFull
  <2> QED
    BY <1>1, <2>2, <2>3
<1> QED
  BY <1>2, <1>3

LEMMA ContractStart == Init => Contract!ContractInit
BY DEF Init, WorkerInit, Contract!ContractInit, Announced

\* Steps that touch neither the conversation nor what events hand back stutter.
LEMMA ContractStutter ==
    ASSUME UNCHANGED <<accepted, injected, events>>,
           \A s \in Tasks : Announced(s) => undelivered'[s] = undelivered[s]
    PROVE  UNCHANGED Contract!contractVars
BY DEF Contract!contractVars, Announced

LEMMA ContractStep ==
    TypeOK /\ IInv /\ [Next]_vars => [Contract!ContractNext]_Contract!contractVars
<1> SUFFICES ASSUME TypeOK, IInv, [Next]_vars
             PROVE  [Contract!ContractNext]_Contract!contractVars
  OBVIOUS
<1> task \in [Tasks -> TaskStates] /\ txs \subseteq Tasks /\ events \in Seq(Events)
    /\ queue \in [Tasks -> Seq(Msgs)] /\ injected \in [Tasks -> Seq(Msgs)]
    /\ undelivered \in [Tasks -> Seq(Msgs)] /\ accepted \in [Tasks -> Seq(Msgs)]
  BY DEF TypeOK, WorkerTypeOK
<1>a. \A s \in Tasks : Announced(s) =>
          task[s] = "ended" /\ s \notin txs /\ queue[s] = <<>>
  BY DEF Announced, IInv, EventInv, SteerInv
<1>i. \A s \in Tasks : accepted[s] = injected[s] \o undelivered[s] \o queue[s]
  BY DEF IInv, SteerInv, SteeringConserved
<1>u. CASE UNCHANGED <<accepted, injected, events, undelivered>>
  BY <1>u, ContractStutter
<1>c. ASSUME NEW c \in Callers, NEW s \in Tasks,
             SpawnRegister(c, s) \/ KillTake(c, s) \/ SpawnStep(c, s) \/ KillStep(c, s)
      PROVE  UNCHANGED Contract!contractVars
  BY <1>c, <1>u, ContractStutter
     DEF SpawnRegister, KillTake, SpawnStep, KillStep, SpawnChannel, SpawnTask, SpawnHandle,
         KillMark, KillUntrack, workerVars, taskVars
<1>m. ASSUME NEW c \in Callers, NEW s \in Tasks, NEW m \in Msgs,
             SteerCheck(c, s, m) \/ SteerStep(c, s, m)
      PROVE  [Contract!ContractNext]_Contract!contractVars
  <2>1. CASE SteerSend(c, s, m) /\ s \in txs
    <3>1. ~ Announced(s)
      BY <1>a, <2>1
    <3>2. /\ accepted' = [accepted EXCEPT ![s] = Append(@, m)]
          /\ UNCHANGED <<injected, events, undelivered>>
      BY <2>1 DEF SteerSend, taskVars
    <3>3. \A t \in Tasks : Announced(t)' = Announced(t)
      BY <3>2 DEF Announced
    <3>4. Contract!Say(s, m)
      BY <3>2, <3>3 DEF Contract!Say
    <3> QED
      BY <3>1, <3>4 DEF Contract!ContractNext
  <2>2. CASE ~ (SteerSend(c, s, m) /\ s \in txs)
    BY <1>m, <2>2, <1>u DEF SteerCheck, SteerStep, SteerSend, SteerNote, workerVars, taskVars
  <2> QED
    BY <2>1, <2>2
<1>o. ASSUME NEW old \in SUBSET Tasks, Cleanup(old)
      PROVE  UNCHANGED Contract!contractVars
  BY <1>o, <1>u, ContractStutter DEF Cleanup, workerVars, taskVars
<1>q. ASSUME NEW s \in Tasks, UNCHANGED <<accepted, events, undelivered>>,
             injected' = [injected EXCEPT ![s] = @ \o queue[s]]
      PROVE  [Contract!ContractNext]_Contract!contractVars
  <2>1. CASE queue[s] = <<>>
    <3>1. injected' = injected
      BY <1>q, <2>1, SeqFacts
    <3> QED
      BY <1>q, <1>u, <3>1
  <2>2. CASE queue[s] # <<>>
    <3>1. ~ Announced(s) /\ undelivered[s] = <<>>
      BY <1>a, <2>2 DEF IInv, SteerInv
    <3>2. injected[s] \o undelivered[s] = injected[s]
      BY <3>1, SeqFacts
    <3>3. injected' = [injected EXCEPT ![s] = accepted[s]]
      BY <1>q, <1>i, <3>2
    <3>4. \A t \in Tasks : Announced(t)' = Announced(t)
      BY <1>q DEF Announced
    <3>5. Contract!Hear(s)
      BY <1>q, <3>3, <3>4 DEF Contract!Hear
    <3> QED
      BY <3>1, <3>5 DEF Contract!ContractNext
  <2> QED
    BY <2>1, <2>2
<1>w. ASSUME NEW s \in Tasks, WorkerStep(s)
      PROVE  [Contract!ContractNext]_Contract!contractVars
  BY <1>w, <1>q, <1>u, WorkerQueue DEF WorkerStep, taskVars
<1>t. ASSUME NEW s \in Tasks, TaskStep(s)
      PROVE  [Contract!ContractNext]_Contract!contractVars
  <2>1. CASE TaskAnnounce(s)
    <3> DEFINE e == [s |-> s, result |-> result[s], undelivered |-> undelivered[s]]
    <3>1. /\ task[s] = "drained" /\ events' = Append(events, e)
          /\ UNCHANGED <<accepted, injected, undelivered>>
      BY <2>1 DEF TaskAnnounce, workerVars
    <3>2. ~ Announced(s) /\ queue[s] = <<>>
      BY <1>a, <3>1 DEF IInv, SteerInv
    <3>3. DOMAIN events' = 1..(Len(events) + 1) /\ events'[Len(events) + 1] = e
          /\ \A i \in DOMAIN events : events'[i] = events[i]
          /\ DOMAIN events = 1..Len(events) /\ Len(events) \in Nat
      BY <3>1
    <3>4. \A t \in Tasks : Announced(t)' <=> Announced(t) \/ t = s
      <4>1. events'[Len(events) + 1].s = s /\ Len(events) + 1 \in DOMAIN events'
        BY <3>3
      <4>2. Announced(s)'
        BY <4>1 DEF Announced
      <4>3. \A i \in DOMAIN events : i \in DOMAIN events' /\ events'[i] = events[i]
        BY <3>3
      <4>4. \A i \in DOMAIN events' : i \in DOMAIN events \/ events'[i].s = s
        BY <3>3, <4>1
      <4> QED
        BY <4>2, <4>3, <4>4 DEF Announced
    <3>5. accepted[s] = injected[s] \o undelivered[s]
      <4>1. injected[s] \o undelivered[s] \in Seq(Msgs)
        BY SeqFacts
      <4>2. accepted[s] = (injected[s] \o undelivered[s]) \o <<>>
        BY <1>i, <3>2
      <4> QED
        BY <4>1, <4>2, SeqFacts
    <3>6. Contract!Unheard(s) = undelivered[s]
      BY <3>5, TailOfConcat DEF Contract!Unheard
    <3>7. Contract!End(s)
      BY <3>1, <3>2, <3>4, <3>6 DEF Contract!End
    <3> QED
      BY <3>2, <3>7 DEF Contract!ContractNext
  <2>2. CASE TaskDrain(s)
    <3>1. ~ Announced(s)
      BY <1>a, <2>2 DEF TaskDrain
    <3> QED
      BY <2>2, <3>1, ContractStutter DEF TaskDrain
  <2>3. CASE TaskStart(s)
    BY <2>3, <1>u DEF TaskStart, StartWorker
  <2>4. CASE TaskJoin(s) \/ TaskTimeout(s) \/ TaskRecord(s) \/ TaskUntrack(s)
               \/ TaskDropped(s)
    BY <2>4, <1>u DEF TaskJoin, TaskTimeout, TaskRecord, TaskUntrack, TaskDropped, workerVars
  <2> QED
    BY <1>t, <2>1, <2>2, <2>3, <2>4 DEF TaskStep
<1> QED
  BY <1>u, <1>c, <1>m, <1>o, <1>t, <1>w DEF Next, CallStep, vars, taskVars, workerVars

\* The manager implements its steering contract: whatever its locks, tasks, kills
\* and timeouts do, messages are heard in the order they were accepted, and an
\* ended session has returned the rest and accepts no more.
THEOREM ManagerImplementsContract == Spec => ImplementsContract
BY ContractStart, ContractStep, IInvHolds, PTL
   DEF Spec, ImplementsContract, Contract!ContractSpec
=============================================================================

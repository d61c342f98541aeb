--------------------------- MODULE SchedulerProofs ---------------------------
(***************************************************************************)
(* Proofs about Scheduler, for any tasks and schedules, any number of      *)
(* clients and of runs in flight, any period of the timer and any MaxTime. *)
(***************************************************************************)
EXTENDS Scheduler, TLAPS

USE SchedulerAssumption

\* Nothing of the old process is left after a crash.
CrashInv ==
    /\ \A a \in Actors : job[a].pc = "idle" => job[a] = Idle
    /\ ~up => /\ \A a \in Actors : job[a] = Idle
              /\ due = {} /\ marking = NoTask
              /\ \A t \in Tasks : started[t] = {}

\* A delete on its way to the store is of a task the memory no longer has.
StoreInv ==
    /\ \A c \in Callers :
          (job[c].pc = "writing" /\ job[c].value = NoTask) => mem[job[c].task] = NoTask
    /\ RegisteredIsDurable

\* last_run is never older than the sweep that last started the task, once the
\* task is marked; until then that sweep is the current one.
SpaceInv ==
    \A t \in Tasks : \A before \in started[t] :
        /\ before <= sweepAt
        /\ marking = t => before = sweepAt
        /\ (mem[t] # NoTask /\ marking # t) =>
              mem[t].lastRun # {} /\ \A last \in mem[t].lastRun : before <= last
        /\ t \in due => Spaced(Schedule[t], before, sweepAt)

IInv == TypeOK /\ CrashInv /\ StoreInv /\ SpaceInv

-----------------------------------------------------------------------------
(* Options and records.                                                    *)

LEMMA OptionFacts ==
    /\ {} \in Options(0..MaxTime)
    /\ \A x \in 0..MaxTime : {x} \in Options(0..MaxTime)
    /\ \A o \in Options(0..MaxTime) : \A x \in o : x \in 0..MaxTime
BY DEF Options

LEMMA FreshIsRecord == Fresh \in Records
BY OptionFacts DEF Fresh, Records

LEMMA SaturatedType == \A n \in Nat : Saturated(n) \in 0..After
BY DEF Saturated

\* What the loop and the runs make of a record is a record.
LEMMA RecordUpdates ==
    ASSUME NEW v \in Records, NEW x \in 0..MaxTime, NEW f \in 0..After, NEW on \in BOOLEAN
    PROVE  /\ [v EXCEPT !.enabled = on] \in Records
           /\ [v EXCEPT !.lastRun = {x}] \in Records
           /\ [v EXCEPT !.lastRun = {x}, !.fails = f] \in Records
           /\ [[v EXCEPT !.lastRun = {x}, !.fails = f] EXCEPT !.lastAlert = {x}] \in Records
<1>1. {x} \in Options(0..MaxTime)
  BY OptionFacts
<1> QED
  BY <1>1 DEF Records

-----------------------------------------------------------------------------
(* Types.                                                                  *)

LEMMA IdleType == Idle \in Jobs /\ Idle.pc = "idle"
BY DEF Idle, Jobs

LEMMA TimeTypes == TypeOK => clock \in 0..MaxTime /\ sweepAt \in 0..MaxTime
<1> SUFFICES ASSUME TypeOK PROVE clock \in 0..MaxTime /\ sweepAt \in 0..MaxTime
  OBVIOUS
<1>1. clock \in 0..MaxTime /\ sweepAt \in 0..clock
  BY DEF TypeOK
<1> QED
  BY <1>1

LEMMA InitType == Init => TypeOK
<1> SUFFICES ASSUME Init PROVE TypeOK
  OBVIOUS
<1>1. clock = 0 /\ nextTick \in 0..(clock + Tick) /\ sweepAt \in 0..clock
  BY DEF Init
<1>2. started \in [Tasks -> Options(0..MaxTime)]
  BY OptionFacts DEF Init
<1> QED
  BY <1>1, <1>2, IdleType DEF Init, Nothing, TypeOK, Actors

\* What a client makes of a task is well typed.
LEMMA CallType ==
    ASSUME TypeOK, NEW c \in Callers, NEW t \in Tasks, NEW v \in Records \cup {NoTask},
           Call(c, t, v), started' \in [Tasks -> Options(0..MaxTime)]
    PROVE  TypeOK'
<1>1. Writing(t, v) \in Jobs
  BY DEF Writing, Jobs
<1> QED
  BY <1>1 DEF Call, TypeOK, loopVars, Writing, Actors

\* What the end of a run makes of its task is well typed.
LEMMA CommitType ==
    ASSUME TypeOK, NEW r \in Runs, NEW v \in Records, NEW next,
           next \in {Writing(job[r].task, v), Alerting(job[r].task, v)},
           Ended(r), Commit(r, v, next)
    PROVE  TypeOK'
<1>1. job[r].task \in Tasks
  BY DEF TypeOK, Ended, Actors
<1>2. /\ next \in Jobs /\ next.task \in Tasks
      /\ next.pc \in {"alerting", "writing"} /\ next.value \in Records
  BY <1>1 DEF Writing, Alerting, Jobs
<1> QED
  BY <1>1, <1>2 DEF Commit, TypeOK, loopVars, Actors

LEMMA NextType == TypeOK /\ [Next]_vars => TypeOK'
<1> SUFFICES ASSUME TypeOK, [Next]_vars PROVE TypeOK'
  OBVIOUS
<1>u. CASE UNCHANGED vars
  BY <1>u DEF vars, TypeOK
<1>1. CASE Advance
  BY <1>1 DEF Advance, loopVars, TypeOK
<1>2. ASSUME NEW c \in Callers, NEW t \in Tasks, Add(c, t)
      PROVE  TypeOK'
  <2>1. started' \in [Tasks -> Options(0..MaxTime)]
    BY <1>2, OptionFacts DEF Add, TypeOK
  <2> QED
    BY <1>2, <2>1, CallType, FreshIsRecord DEF Add
<1>3. ASSUME NEW c \in Callers, NEW t \in Tasks, Remove(c, t)
      PROVE  TypeOK'
  BY <1>3, CallType DEF Remove, TypeOK
<1>4. ASSUME NEW c \in Callers, NEW t \in Tasks, NEW on \in BOOLEAN, SetEnabled(c, t, on)
      PROVE  TypeOK'
  <2>1. mem[t] \in Records
    BY <1>4 DEF SetEnabled, TypeOK
  <2>2. [mem[t] EXCEPT !.enabled = on] \in Records
    BY <2>1 DEF Records
  <2> QED
    BY <1>4, <2>2, CallType DEF SetEnabled, TypeOK
<1>5. ASSUME NEW a \in Actors, Persist(a)
      PROVE  TypeOK'
  <2>1. job[a].task \in Tasks /\ job[a].value \in Records \cup {NoTask}
    BY <1>5 DEF Persist, TypeOK, Jobs
  <2> QED
    BY <1>5, <2>1, IdleType DEF Persist, loopVars, TypeOK, Actors
<1>6. CASE Sweep
  BY <1>6 DEF Sweep, TypeOK
<1>7. ASSUME NEW t \in Tasks, Start(t)
      PROVE  TypeOK'
  <2>1. {sweepAt} \in Options(0..MaxTime)
    BY OptionFacts, TimeTypes
  <2>2. Running(t) \in Jobs /\ Running(t).pc = "running" /\ Running(t).task \in Tasks
    BY DEF Running, Jobs
  <2> QED
    BY <1>7, <2>1, <2>2 DEF Start, TypeOK, Actors
<1>8. CASE Mark
  <2>0. marking \in Tasks /\ (mem[marking] # NoTask => mem[marking] \in Records)
    BY <1>8 DEF Mark, TypeOK
  <2>1. ASSUME mem[marking] # NoTask
        PROVE  marking \in Tasks /\ [mem[marking] EXCEPT !.lastRun = {sweepAt}] \in Records
    <3>1. {sweepAt} \in Options(0..MaxTime)
      BY TimeTypes, OptionFacts
    <3> QED
      BY <2>0, <2>1, <3>1 DEF Records
  <2> QED
    BY <1>8, <2>1 DEF Mark, TypeOK
<1>9. ASSUME NEW r \in Runs, Gone(r) \/ Choke(r)
      PROVE  TypeOK'
  BY <1>9, IdleType DEF Gone, Choke, loopVars, TypeOK, Actors
<1>10. ASSUME NEW r \in Runs, RecordSuccess(r)
       PROVE  TypeOK'
  <2> DEFINE t == job[r].task
             v == [mem[t] EXCEPT !.lastRun = {clock}, !.fails = 0]
  <2>1. t \in Tasks /\ mem[t] \in Records
    BY <1>10 DEF RecordSuccess, Ended, TypeOK, Actors
  <2>2. v \in Records
    <3>1. clock \in 0..MaxTime /\ 0 \in 0..After
      BY TimeTypes
    <3> QED
      BY <2>1, <3>1, RecordUpdates
  <2> QED
    BY <1>10, <2>2, CommitType DEF RecordSuccess
<1>11. ASSUME NEW r \in Runs, RecordFailure(r)
       PROVE  TypeOK'
  <2> DEFINE t == job[r].task
             fails == Saturated(mem[t].fails + 1)
             v == [mem[t] EXCEPT !.lastRun = {clock}, !.fails = fails]
             alerted == [v EXCEPT !.lastAlert = {clock}]
  <2>1. t \in Tasks /\ mem[t] \in Records
    BY <1>11 DEF RecordFailure, Ended, TypeOK, Actors
  <2>2. fails \in 0..After
    <3>1. mem[t].fails + 1 \in Nat
      BY <2>1 DEF Records
    <3> QED
      BY <3>1, SaturatedType
  <2>3. v \in Records /\ alerted \in Records
    <3>1. clock \in 0..MaxTime
      BY TimeTypes
    <3> QED
      BY <2>1, <2>2, <3>1, RecordUpdates
  <2> QED
    BY <1>11, <2>3, CommitType DEF RecordFailure
<1>12. ASSUME NEW r \in Runs, Alert(r)
       PROVE  TypeOK'
  BY <1>12 DEF Alert, Jobs, loopVars, TypeOK, Actors
<1>13. CASE Crash
  <2>1. started' \in [Tasks -> Options(0..MaxTime)]
    BY <1>13, OptionFacts DEF Crash
  <2> QED
    BY <1>13, <2>1, IdleType DEF Crash, Nothing, TypeOK, Actors
<1>14. CASE Restart
  BY <1>14 DEF Restart, TypeOK
<1> QED
  BY <1>u, <1>1, <1>2, <1>3, <1>4, <1>5, <1>6, <1>7, <1>8, <1>9, <1>10, <1>11,
     <1>12, <1>13, <1>14 DEF Next, Loop, Run

\* Every variable keeps its type: no clone, mark or stale write leaves a task with
\* anything but a record, and the timer is never more than a period ahead.
THEOREM TypeCorrect == Spec => []TypeOK
BY InitType, NextType, PTL DEF Spec

-----------------------------------------------------------------------------
(* The inductive invariant.                                                *)

LEMMA JobFacts ==
    /\ Idle.pc = "idle" /\ Idle.task = NoTask
    /\ \A t : Running(t).pc = "running" /\ Running(t).task = t
    /\ \A t, v : /\ Writing(t, v).pc = "writing"
                 /\ Writing(t, v).task = t /\ Writing(t, v).value = v
    /\ \A t, v : /\ Alerting(t, v).pc = "alerting"
                 /\ Alerting(t, v).task = t /\ Alerting(t, v).value = v
BY DEF Idle, Running, Writing, Alerting

LEMMA InitInv == Init => IInv
<1> SUFFICES ASSUME Init PROVE IInv
  OBVIOUS
<1>1. CrashInv
  BY DEF Init, CrashInv
<1>2. StoreInv
  BY JobFacts DEF Init, StoreInv, RegisteredIsDurable, Nothing, Actors
<1>3. SpaceInv
  BY DEF Init, SpaceInv
<1> QED
  BY <1>1, <1>2, <1>3, InitType DEF IInv

\* The mark changes last_run, and of a task that is there only.
LEMMA MarkEffect ==
    ASSUME TypeOK, Mark
    PROVE  /\ marking \in Tasks
           /\ \/ mem[marking] = NoTask /\ mem' = mem
              \/ \E v \in Records : /\ mem[marking] # NoTask /\ v.lastRun = {sweepAt}
                                    /\ mem' = [mem EXCEPT ![marking] = v]
<1>1. marking \in Tasks /\ mem[marking] \in Records \cup {NoTask}
  BY DEF Mark, TypeOK
<1>2. CASE mem[marking] = NoTask
  BY <1>1, <1>2 DEF Mark
<1>3. CASE mem[marking] \in Records
  <2> DEFINE v == [mem[marking] EXCEPT !.lastRun = {sweepAt}]
  <2>1. {sweepAt} \in Options(0..MaxTime)
    BY TimeTypes, OptionFacts
  <2>2. v \in Records /\ v.lastRun = {sweepAt}
    BY <1>3, <2>1 DEF Records
  <2>3. mem[marking] # NoTask
    BY <1>3
  <2>4. mem' = [mem EXCEPT ![marking] = v]
    BY <2>3 DEF Mark
  <2> QED
    BY <1>1, <2>2, <2>3, <2>4
<1> QED
  BY <1>1, <1>2, <1>3

\* The step of a run leaves the loop alone, and changes no other task than its own,
\* to a record that says it was run now.
LEMMA RunEffect ==
    ASSUME TypeOK, NEW r \in Runs, Run(r)
    PROVE  /\ UNCHANGED <<clock, up, store, due, marking, sweepAt, started>>
           /\ \A c \in Callers : job'[c] = job[c]
           /\ \/ mem' = mem
              \/ \E v \in Records : /\ mem[job[r].task] # NoTask /\ v.lastRun = {clock}
                                    /\ mem' = [mem EXCEPT ![job[r].task] = v]
<1> USE DEF Run, Gone, Alert, Choke, Commit, loopVars
<1>1. UNCHANGED <<clock, up, store, due, marking, sweepAt, started>>
  BY DEF RecordSuccess, RecordFailure
<1>2. \A c \in Callers : job'[c] = job[c]
  BY DEF RecordSuccess, RecordFailure, TypeOK, Actors
<1>3. \/ mem' = mem
      \/ \E v \in Records : /\ mem[job[r].task] # NoTask /\ v.lastRun = {clock}
                            /\ mem' = [mem EXCEPT ![job[r].task] = v]
  <2> DEFINE t == job[r].task
  <2>1. CASE Gone(r) \/ Alert(r) \/ Choke(r)
    BY <2>1
  <2>2. CASE RecordSuccess(r)
    <3> DEFINE v == [mem[t] EXCEPT !.lastRun = {clock}, !.fails = 0]
    <3>1. mem[t] # NoTask /\ mem' = [mem EXCEPT ![t] = v]
      BY <2>2 DEF RecordSuccess
    <3>2. t \in Tasks /\ mem[t] \in Records
      BY <2>2, <3>1 DEF RecordSuccess, Ended, TypeOK, Actors
    <3>3. clock \in 0..MaxTime /\ 0 \in 0..After
      BY TimeTypes
    <3>4. v \in Records
      BY <3>2, <3>3, RecordUpdates
    <3>5. v.lastRun = {clock}
      BY <3>2 DEF Records
    <3> QED
      BY <3>1, <3>4, <3>5
  <2>3. CASE RecordFailure(r)
    <3> DEFINE fails == Saturated(mem[t].fails + 1)
               v == [mem[t] EXCEPT !.lastRun = {clock}, !.fails = fails]
               alerted == [v EXCEPT !.lastAlert = {clock}]
    <3>1. mem[t] # NoTask /\ (mem' = [mem EXCEPT ![t] = v] \/ mem' = [mem EXCEPT ![t] = alerted])
      BY <2>3 DEF RecordFailure
    <3>2. t \in Tasks /\ mem[t] \in Records
      BY <2>3, <3>1 DEF RecordFailure, Ended, TypeOK, Actors
    <3>3. fails \in 0..After
      <4>1. mem[t].fails + 1 \in Nat
        BY <3>2 DEF Records
      <4> QED
        BY <4>1, SaturatedType
    <3>4. v \in Records /\ alerted \in Records
      <4>1. clock \in 0..MaxTime
        BY TimeTypes
      <4> QED
        BY <3>2, <3>3, <4>1, RecordUpdates
    <3>5. v.lastRun = {clock} /\ alerted.lastRun = {clock}
      BY <3>2 DEF Records
    <3> QED
      BY <3>1, <3>4, <3>5
  <2> QED
    BY <2>1, <2>2, <2>3
<1> QED
  BY <1>1, <1>2, <1>3

LEMMA CrashStep == TypeOK /\ CrashInv /\ [Next]_vars => CrashInv'
<1> SUFFICES ASSUME TypeOK, CrashInv, [Next]_vars PROVE CrashInv'
  OBVIOUS
<1> job \in [Actors -> Jobs] /\ started \in [Tasks -> Options(0..MaxTime)]
  BY DEF TypeOK
<1> USE JobFacts DEF CrashInv, loopVars
<1>u. CASE UNCHANGED vars
  BY <1>u DEF vars
<1>1. CASE Advance
  BY <1>1 DEF Advance
<1>2. ASSUME NEW c \in Callers, NEW t \in Tasks, NEW v, Call(c, t, v)
      PROVE  CrashInv'
  BY <1>2 DEF Call, Actors
<1>3. ASSUME NEW a \in Actors, Persist(a)
      PROVE  CrashInv'
  <2>1. up
    BY <1>3 DEF Persist
  <2> QED
    BY <1>3, <2>1 DEF Persist
<1>4. CASE Sweep
  BY <1>4 DEF Sweep
<1>5. ASSUME NEW t \in Tasks, Start(t)
      PROVE  CrashInv'
  <2>1. up
    BY <1>5 DEF Start
  <2> QED
    BY <1>5, <2>1 DEF Start, Actors
<1>6. CASE Mark
  BY <1>6 DEF Mark
<1>7. ASSUME NEW r \in Runs, Run(r)
      PROVE  CrashInv'
  <2>1. r \in Actors /\ job[r].pc # "idle"
    BY <1>7 DEF Run, Gone, RecordSuccess, RecordFailure, Alert, Choke, Ended, Actors
  <2>2. up
    BY <2>1
  <2>3. \/ job' = [job EXCEPT ![r] = Idle]
        \/ \E t, v : job' = [job EXCEPT ![r] = Writing(t, v)]
        \/ \E t, v : job' = [job EXCEPT ![r] = Alerting(t, v)]
        \/ job' = [job EXCEPT ![r].pc = "writing"]
    BY <1>7 DEF Run, Gone, RecordSuccess, RecordFailure, Alert, Choke, Commit
  <2>4. up' = up
    BY <1>7 DEF Run, Gone, RecordSuccess, RecordFailure, Alert, Choke, Commit
  <2>5. \A a \in Actors : job'[a].pc = "idle" => job'[a] = Idle
    BY <2>1, <2>3 DEF Jobs
  <2> QED
    BY <2>2, <2>4, <2>5
<1>8. CASE Crash
  BY <1>8 DEF Crash
<1>9. CASE Restart
  BY <1>9 DEF Restart
<1> QED
  BY <1>u, <1>1, <1>2, <1>3, <1>4, <1>5, <1>6, <1>7, <1>8, <1>9
     DEF Next, Loop, Add, Remove, SetEnabled

\* The end of a run only touches a task the memory still has.
LEMMA StoreStep == TypeOK /\ CrashInv /\ StoreInv /\ [Next]_vars => StoreInv'
<1> SUFFICES ASSUME TypeOK, CrashInv, StoreInv, [Next]_vars PROVE StoreInv'
  OBVIOUS
<1> /\ job \in [Actors -> Jobs] /\ Callers \subseteq Actors /\ Runs \subseteq Actors
    /\ mem \in [Tasks -> Records \cup {NoTask}]
    /\ store \in [Tasks -> Records \cup {NoTask}]
    /\ \A a \in Actors : job[a].pc # "idle" => job[a].task \in Tasks
    /\ \A r \in Runs : job[r].pc \in {"alerting", "writing"} => job[r].value \in Records
  BY DEF TypeOK, Actors
<1> USE JobFacts DEF StoreInv, RegisteredIsDurable, loopVars
<1>u. CASE UNCHANGED vars
  BY <1>u DEF vars
<1>1. CASE Advance
  BY <1>1 DEF Advance
<1>2. ASSUME NEW c \in Callers, NEW t \in Tasks, Add(c, t)
      PROVE  StoreInv'
  BY <1>2, FreshIsRecord DEF Add, IsNew, Call
<1>3. ASSUME NEW c \in Callers, NEW t \in Tasks, Remove(c, t)
      PROVE  StoreInv'
  BY <1>3 DEF Remove, Call
<1>4. ASSUME NEW c \in Callers, NEW t \in Tasks, NEW on \in BOOLEAN, SetEnabled(c, t, on)
      PROVE  StoreInv'
  <2>1. [mem[t] EXCEPT !.enabled = on] # NoTask
    BY <1>4 DEF SetEnabled, Records
  <2> QED
    BY <1>4, <2>1 DEF SetEnabled, Call
<1>5. ASSUME NEW a \in Actors, Persist(a)
      PROVE  StoreInv'
  <2>1. a \in Callers \/ (a \in Runs /\ job[a].value # NoTask)
    BY <1>5 DEF Persist, Actors
  <2>2. job[a].value = NoTask => mem[job[a].task] = NoTask
    BY <1>5, <2>1 DEF Persist
  <2> QED
    BY <1>5, <2>2 DEF Persist
<1>6. CASE Sweep
  BY <1>6 DEF Sweep
<1>7. ASSUME NEW t \in Tasks, Start(t)
      PROVE  StoreInv'
  BY <1>7 DEF Start
<1>8. CASE Mark
  <2>1. \A t \in Tasks : mem'[t] = NoTask <=> mem[t] = NoTask
    BY <1>8, MarkEffect
  <2> QED
    BY <1>8, <2>1 DEF Mark
<1>9. ASSUME NEW r \in Runs, Run(r)
      PROVE  StoreInv'
  <2>1. \A t \in Tasks : mem'[t] = NoTask <=> mem[t] = NoTask
    BY <1>9, RunEffect
  <2>2. (\A c \in Callers : job'[c] = job[c]) /\ store' = store
    BY <1>9, RunEffect
  <2> QED
    BY <2>1, <2>2
<1>10. CASE Crash
  BY <1>10 DEF Crash, Nothing
<1>11. CASE Restart
  BY <1>11 DEF Restart, CrashInv
<1> QED
  BY <1>u, <1>1, <1>2, <1>3, <1>4, <1>5, <1>6, <1>7, <1>8, <1>9, <1>10, <1>11
     DEF Next, Loop

\* A step that changes neither the loop nor last_run keeps the spacing.
LEMMA SpaceFrame ==
    ASSUME SpaceInv, sweepAt' = sweepAt, due' = due, marking' = marking,
           \A t \in Tasks :
               /\ started'[t] = {} \/ started'[t] = started[t]
               /\ started'[t] # {} /\ mem'[t] # NoTask =>
                      mem[t] # NoTask /\ mem'[t].lastRun = mem[t].lastRun
    PROVE  SpaceInv'
BY DEF SpaceInv, Spaced

LEMMA SpaceStep == TypeOK /\ CrashInv /\ SpaceInv /\ [Next]_vars => SpaceInv'
<1> SUFFICES ASSUME TypeOK, CrashInv, SpaceInv, [Next]_vars PROVE SpaceInv'
  OBVIOUS
<1> /\ mem \in [Tasks -> Records \cup {NoTask}]
    /\ started \in [Tasks -> Options(0..MaxTime)]
    /\ clock \in 0..MaxTime /\ sweepAt \in 0..clock
    /\ \A t \in Tasks : \A x \in started[t] : x \in 0..MaxTime
  BY OptionFacts DEF TypeOK
<1> USE DEF loopVars
<1>u. CASE UNCHANGED vars
  BY <1>u, SpaceFrame DEF vars
<1>1. CASE Advance
  BY <1>1, SpaceFrame DEF Advance
<1>2. ASSUME NEW c \in Callers, NEW t \in Tasks, Add(c, t)
      PROVE  SpaceInv'
  BY <1>2, SpaceFrame DEF Add, Call
<1>3. ASSUME NEW c \in Callers, NEW t \in Tasks, Remove(c, t)
      PROVE  SpaceInv'
  BY <1>3, SpaceFrame DEF Remove, Call
<1>4. ASSUME NEW c \in Callers, NEW t \in Tasks, NEW on \in BOOLEAN, SetEnabled(c, t, on)
      PROVE  SpaceInv'
  <2>1. mem[t] # NoTask /\ [mem[t] EXCEPT !.enabled = on].lastRun = mem[t].lastRun
    BY <1>4 DEF SetEnabled, Records
  <2> QED
    BY <1>4, <2>1, SpaceFrame DEF SetEnabled, Call
<1>5. ASSUME NEW a \in Actors, Persist(a)
      PROVE  SpaceInv'
  BY <1>5, SpaceFrame DEF Persist
<1>6. CASE Sweep
  <2> SUFFICES ASSUME NEW t \in Tasks, NEW before \in started[t]
               PROVE  /\ before <= clock
                      /\ mem[t] # NoTask =>
                            mem[t].lastRun # {} /\ \A last \in mem[t].lastRun : before <= last
                      /\ DueTask(t) => Spaced(Schedule[t], before, clock)
    BY <1>6 DEF Sweep, SpaceInv, Spaced
  <2>1. before <= clock
    BY DEF SpaceInv
  <2>2. mem[t] # NoTask =>
            mem[t].lastRun # {} /\ \A last \in mem[t].lastRun : before <= last
    BY <1>6 DEF SpaceInv, Sweep
  <2>3. ASSUME DueTask(t) PROVE Spaced(Schedule[t], before, clock)
    <3>1. PICK last \in mem[t].lastRun : before <= last
      BY <2>2, <2>3 DEF DueTask
    <3>2. last \in 0..MaxTime
      BY <2>3, <3>1, OptionFacts DEF DueTask, Records
    <3>3. IsDue(Schedule[t], mem[t].lastRun, clock) /\ mem[t].lastRun # {}
      BY <2>3, <3>1 DEF DueTask
    <3>4. CASE Schedule[t].kind = "interval"
      <4>1. Schedule[t].every \in Nat
        BY <3>4 DEF Schedules
      <4> QED
        BY <3>1, <3>2, <3>3, <3>4, <4>1 DEF IsDue, Spaced
    <3>5. CASE Schedule[t].kind = "cron"
      BY <3>1, <3>2, <3>3, <3>5 DEF IsDue, Spaced
    <3> QED
      BY <3>3, <3>4, <3>5 DEF IsDue
  <2> QED
    BY <2>1, <2>2, <2>3
<1>7. ASSUME NEW t \in Tasks, Start(t)
      PROVE  SpaceInv'
  BY <1>7 DEF Start, SpaceInv, Spaced
<1>8. CASE Mark
  <2>1. marking \in Tasks /\ marking' = NoTask /\ UNCHANGED <<due, sweepAt, started>>
    BY <1>8, MarkEffect DEF Mark
  <2>2. \A t \in Tasks : t # marking => mem'[t] = mem[t]
    BY <1>8, MarkEffect
  <2>3. mem'[marking] # NoTask => mem'[marking].lastRun = {sweepAt}
    BY <1>8, MarkEffect
  <2> QED
    BY <2>1, <2>2, <2>3 DEF SpaceInv, Spaced
<1>9. ASSUME NEW r \in Runs, Run(r)
      PROVE  SpaceInv'
  <2>1. UNCHANGED <<due, marking, sweepAt, started>>
    BY <1>9, RunEffect
  <2>2. \A t \in Tasks : mem'[t] = mem[t] \/ (mem[t] # NoTask /\ mem'[t].lastRun = {clock})
    BY <1>9, RunEffect
  <2>3. \A t \in Tasks : \A before \in started[t] : before <= clock
    BY DEF SpaceInv
  <2>4. ASSUME NEW t \in Tasks, NEW before \in started[t], mem'[t] # NoTask, marking # t
        PROVE  mem'[t].lastRun # {} /\ \A last \in mem'[t].lastRun : before <= last
    <3>1. CASE mem'[t] = mem[t]
      BY <2>4, <3>1 DEF SpaceInv
    <3>2. CASE mem'[t].lastRun = {clock}
      BY <2>3, <3>2
    <3> QED
      BY <2>2, <3>1, <3>2
  <2>5. ASSUME NEW t \in Tasks, NEW before \in started[t]
        PROVE  /\ before <= sweepAt
               /\ marking = t => before = sweepAt
               /\ t \in due => Spaced(Schedule[t], before, sweepAt)
    BY DEF SpaceInv
  <2>6. ASSUME NEW t \in Tasks, NEW before \in started[t], t \in due'
        PROVE  Spaced(Schedule[t], before, sweepAt')
    BY <2>1, <2>5, <2>6
  <2> QED
    BY <2>1, <2>4, <2>5, <2>6 DEF SpaceInv
<1>10. CASE Crash
  BY <1>10 DEF Crash, SpaceInv
<1>11. CASE Restart
  BY <1>11 DEF Restart, SpaceInv, CrashInv
<1> QED
  BY <1>u, <1>1, <1>2, <1>3, <1>4, <1>5, <1>6, <1>7, <1>8, <1>9, <1>10, <1>11
     DEF Next, Loop

LEMMA Invariance == Spec => []IInv
<1>1. IInv /\ [Next]_vars => IInv'
  BY NextType, CrashStep, StoreStep, SpaceStep DEF IInv
<1> QED
  BY InitInv, <1>1, PTL DEF Spec

-----------------------------------------------------------------------------
(* The theorems.                                                           *)

\* A task in memory that no client is still writing is in the store, whatever the
\* number of clients and of runs whose writes are under way.
THEOREM RegisteredSurvives == Spec => []RegisteredIsDurable
<1>1. IInv => RegisteredIsDurable
  BY DEF IInv, StoreInv
<1> QED
  BY Invariance, <1>1, PTL

\* No two sweeps of a process start a task closer together than its schedule says,
\* for any schedules and any number of overlapping runs.
THEOREM StartsSpaced == Spec => StartsAreSpaced
<1>1. IInv /\ [Next]_vars =>
        [\A t \in Tasks : Start(t) =>
            \A before \in started[t] : Spaced(Schedule[t], before, sweepAt)]_vars
  <2> SUFFICES ASSUME IInv, NEW t \in Tasks, Start(t), NEW before \in started[t]
               PROVE  Spaced(Schedule[t], before, sweepAt)
    OBVIOUS
  <2>1. t \in due
    BY DEF Start
  <2> QED
    BY <2>1 DEF IInv, SpaceInv
<1> QED
  BY Invariance, <1>1, PTL DEF Spec, StartsAreSpaced

-----------------------------------------------------------------------------
(* When the store follows the memory.                                      *)

\* Two records of a task tell the same of what StoreFollowsMemory compares.
Agrees(v, w) ==
    /\ v = NoTask <=> w = NoTask
    /\ v # NoTask => v.enabled = w.enabled

\* A is between its change of the memory and its write.
Pending(a) == job[a].pc \in {"alerting", "writing"}

\* The store has the task as the memory does, or a write of it is on its way.
WillFollow(t) ==
    \/ Agrees(store[t], mem[t])
    \/ \E a \in Actors :
          Pending(a) /\ job[a].task = t /\ Agrees(job[a].value, mem[t])

Diverges(t) == up /\ ~WillFollow(t)

\* A write of a clone that no longer is what the memory holds.
OldWrite(a) == Persist(a) /\ ~Agrees(job[a].value, mem[job[a].task])

\* What is neither written nor changed in the memory goes on to follow, whoever else
\* begins or ends a job.
LEMMA FollowFrame ==
    ASSUME NEW t \in Tasks, WillFollow(t), store'[t] = store[t],
           mem'[t] = mem[t] \/ (mem[t] # NoTask /\ mem'[t] # NoTask
                                  /\ mem'[t].enabled = mem[t].enabled),
           \A a \in Actors :
               Pending(a) /\ job[a].task = t =>
                   Pending(a)' /\ job'[a].task = t /\ job'[a].value = job[a].value
    PROVE  WillFollow(t)'
<1>1. \A v : Agrees(v, mem[t]) => Agrees(v, mem'[t])
  BY DEF Agrees
<1> QED
  BY <1>1 DEF WillFollow

\* A changes u to v in the memory and has v to write.
Changes(a, u, v, next) ==
    /\ ~Pending(a) /\ next.pc \in {"alerting", "writing"}
    /\ next.task = u /\ next.value = v
    /\ mem' = [mem EXCEPT ![u] = v]
    /\ job' = [job EXCEPT ![a] = next]
    /\ UNCHANGED store

\* Who changes a task in the memory is on its way to the store with what it made of it.
LEMMA ChangeFollows ==
    ASSUME TypeOK, NEW t \in Tasks, WillFollow(t),
           NEW a \in Actors, NEW u \in Tasks, NEW v, NEW next, Changes(a, u, v, next)
    PROVE  WillFollow(t)'
<1>0. /\ mem \in [Tasks -> Records \cup {NoTask}] /\ job \in [Actors -> Jobs]
  BY DEF TypeOK
<1>1. /\ job'[a] = next /\ mem'[u] = v
      /\ \A b \in Actors : b # a => job'[b] = job[b]
  BY <1>0 DEF Changes
<1>2. CASE t = u
  <2>1. Pending(a)' /\ job'[a].task = t /\ job'[a].value = mem'[t]
    BY <1>1, <1>2 DEF Pending, Changes
  <2> QED
    BY <2>1 DEF WillFollow, Agrees
<1>3. CASE t # u
  <2>1. mem'[t] = mem[t] /\ store'[t] = store[t]
    BY <1>0, <1>3 DEF Changes
  <2>2. \A b \in Actors :
            Pending(b) => Pending(b)' /\ job'[b].task = job[b].task
                                      /\ job'[b].value = job[b].value
    BY <1>1 DEF Pending, Changes
  <2> QED
    BY <2>1, <2>2, FollowFrame
<1> QED
  BY <1>2, <1>3

\* A write of what the memory holds, or of another task, leaves the task followed.
LEMMA WriteFollows ==
    ASSUME TypeOK, NEW a \in Actors, Persist(a), NEW t \in Tasks, WillFollow(t),
           job[a].task = t => Agrees(job[a].value, mem[t])
    PROVE  WillFollow(t)'
<1>0. /\ store \in [Tasks -> Records \cup {NoTask}] /\ job \in [Actors -> Jobs]
  BY DEF TypeOK
<1>1. /\ store' = [store EXCEPT ![job[a].task] = job[a].value] /\ mem' = mem
      /\ \A b \in Actors : b # a => job'[b] = job[b]
  BY <1>0 DEF Persist
<1>2. CASE job[a].task = t
  <2>1. store'[t] = job[a].value
    BY <1>0, <1>1, <1>2
  <2> QED
    BY <1>1, <1>2, <2>1 DEF WillFollow
<1>3. CASE job[a].task # t
  <2>1. store'[t] = store[t] /\ mem'[t] = mem[t]
    BY <1>0, <1>1, <1>3
  <2>2. \A b \in Actors :
            Pending(b) /\ job[b].task = t =>
                Pending(b)' /\ job'[b].task = t /\ job'[b].value = job[b].value
    BY <1>1, <1>3 DEF Pending
  <2> QED
    BY <2>1, <2>2, FollowFrame
<1> QED
  BY <1>2, <1>3

\* Only an old write makes the store diverge from the memory.
LEMMA DivergeStep ==
    ASSUME TypeOK, CrashInv, [Next]_vars, NEW t \in Tasks, ~Diverges(t),
           \A a \in Actors : ~(job[a].task = t /\ OldWrite(a))
    PROVE  ~Diverges(t)'
<1>d. CASE ~up
  <2>1. \A a \in Actors : job[a] = Idle
    BY <1>d DEF CrashInv
  <2>2. ~up' \/ Restart
    BY <1>d, <2>1 DEF Next, vars, Advance, Loop, Sweep, Mark, Start, Crash, Add, Remove,
                      SetEnabled, Call, Run, Gone, RecordSuccess, RecordFailure, Ended,
                      Commit, Alert, Choke, Persist, Idle, Actors
  <2>3. CASE Restart
    BY <2>3 DEF Restart, Diverges, WillFollow, Agrees
  <2> QED
    BY <2>2, <2>3 DEF Diverges
<1>1. CASE up
  <2> SUFFICES WillFollow(t)' \/ ~up'
    BY DEF Diverges
  <2> WillFollow(t)
    BY <1>1 DEF Diverges
  <2>0. /\ mem \in [Tasks -> Records \cup {NoTask}] /\ job \in [Actors -> Jobs]
        /\ \A a \in Actors : job[a].pc # "idle" => job[a].task \in Tasks
    BY DEF TypeOK
  <2>u. CASE UNCHANGED vars \/ Advance \/ Sweep
    BY <2>u, FollowFrame DEF vars, Advance, Sweep, Pending
  <2>2. ASSUME NEW c \in Callers, NEW u \in Tasks, NEW v, Call(c, u, v)
        PROVE  WillFollow(t)'
    <3>1. c \in Actors /\ Changes(c, u, v, Writing(u, v))
      BY <2>2 DEF Call, Idle, Pending, Actors, Writing, Changes
    <3> QED
      BY <2>2, <3>1, ChangeFollows
  <2>3. ASSUME NEW r \in Runs, NEW v, NEW next,
               next \in {Writing(job[r].task, v), Alerting(job[r].task, v)},
               Ended(r), Commit(r, v, next)
        PROVE  WillFollow(t)'
    <3>1. r \in Actors /\ ~Pending(r) /\ job[r].task \in Tasks
      BY <2>0, <2>3 DEF Ended, Pending, Actors
    <3>2. Changes(r, job[r].task, v, next)
      BY <2>3, <3>1 DEF Commit, Changes, Writing, Alerting
    <3> QED
      BY <3>1, <3>2, ChangeFollows
  <2>4. ASSUME NEW a \in Actors, Persist(a)
        PROVE  WillFollow(t)'
    BY <2>4, WriteFollows DEF OldWrite
  <2>5. ASSUME NEW r \in Runs, ~Pending(r), NEW next, job' = [job EXCEPT ![r] = next],
               UNCHANGED <<mem, store>>
        PROVE  WillFollow(t)'
    <3>1. \A a \in Actors : Pending(a) => job'[a] = job[a]
      BY <2>0, <2>5
    <3> QED
      BY <2>5, <3>1, FollowFrame DEF Pending
  <2>6. ASSUME NEW u \in Tasks, Start(u)
        PROVE  WillFollow(t)'
    <3>1. PICK r \in Runs : job[r] = Idle /\ job' = [job EXCEPT ![r] = Running(u)]
      BY <2>6 DEF Start
    <3>2. ~Pending(r)
      BY <3>1 DEF Pending, Idle
    <3>3. UNCHANGED <<mem, store>>
      BY <2>6 DEF Start
    <3> QED
      BY <2>5, <3>1, <3>2, <3>3
  <2>7. CASE Mark
    <3>1. UNCHANGED <<job, store>>
      BY <2>7 DEF Mark
    <3>2. mem'[t] = mem[t] \/ (mem[t] # NoTask /\ mem'[t] # NoTask
                                 /\ mem'[t].enabled = mem[t].enabled)
      <4>1. CASE mem' = mem
        BY <4>1
      <4>2. CASE /\ mem[marking] # NoTask
                 /\ mem' = [mem EXCEPT ![marking] = [mem[marking] EXCEPT !.lastRun = {sweepAt}]]
        <5>1. CASE t = marking
          <6>1. /\ mem[t] \in Records /\ t \in Tasks
                /\ mem'[t] = [mem[t] EXCEPT !.lastRun = {sweepAt}]
            BY <2>0, <4>2, <5>1
          <6>2. mem'[t].enabled = mem[t].enabled /\ mem'[t].lastRun = {sweepAt}
            BY <6>1 DEF Records
          <6>3. sweepAt \in 0..MaxTime
            BY TimeTypes
          <6>4. mem'[t] \in Records
            BY <6>1, <6>3, OptionFacts DEF Records
          <6> QED
            BY <4>2, <5>1, <6>2, <6>4, SchedulerAssumption
        <5>2. CASE t # marking
          BY <2>0, <4>2, <5>2
        <5> QED
          BY <5>1, <5>2
      <4> QED
        BY <2>7, <4>1, <4>2 DEF Mark
    <3> QED
      BY <3>1, <3>2, FollowFrame DEF Pending
  <2>8. ASSUME NEW r \in Runs, Run(r)
        PROVE  WillFollow(t)'
    <3>1. CASE Gone(r) \/ Choke(r)
      BY <2>5, <3>1 DEF Gone, Choke, Ended, Pending
    <3>2. CASE RecordSuccess(r)
      BY <2>3, <3>2 DEF RecordSuccess
    <3>3. CASE RecordFailure(r)
      BY <2>3, <3>3 DEF RecordFailure
    <3>4. CASE Alert(r)
      <4>1. UNCHANGED <<mem, store>> /\ job[r].pc = "alerting"
        BY <3>4 DEF Alert
      <4>2. \A a \in Actors : a # r => job'[a] = job[a]
        BY <2>0, <3>4 DEF Alert
      <4>3. /\ r \in Actors /\ job'[r].pc = "writing" /\ job'[r].task = job[r].task
            /\ job'[r].value = job[r].value
        BY <2>0, <3>4 DEF Alert, Jobs, Actors
      <4> QED
        BY <4>1, <4>2, <4>3, FollowFrame DEF Pending
    <3> QED
      BY <2>8, <3>1, <3>2, <3>3, <3>4 DEF Run
  <2>9. CASE Crash \/ Restart
    BY <1>1, <2>9 DEF Crash, Restart
  <2>10. ASSUME NEW c \in Callers, NEW u \in Tasks,
                Add(c, u) \/ Remove(c, u) \/ \E on \in BOOLEAN : SetEnabled(c, u, on)
         PROVE  WillFollow(t)'
    BY <2>2, <2>10 DEF Add, Remove, SetEnabled
  <2> QED
    BY <2>u, <2>4, <2>6, <2>7, <2>8, <2>9, <2>10 DEF Next, Loop
<1> QED
  BY <1>d, <1>1

\* A task the store is not about to follow becomes so in one way only: a clone that a
\* run or a client took before the last change of the task is written after it.
THEOREM OnlyOldWritesDiverge ==
    Spec => [][\A t \in Tasks : ~Diverges(t) /\ Diverges(t)' =>
                  \E a \in Actors : job[a].task = t /\ OldWrite(a)]_vars
<1>1. IInv /\ [Next]_vars =>
        [\A t \in Tasks : ~Diverges(t) /\ Diverges(t)' =>
            \E a \in Actors : job[a].task = t /\ OldWrite(a)]_vars
  BY DivergeStep DEF IInv
<1> QED
  BY Invariance, <1>1, PTL DEF Spec

\* What the module docs promise of a restart holds as long as nobody writes an old
\* clone: with no write under way, store and memory agree.
THEOREM StoreFollowsFreshWrites ==
    Spec /\ [][\A a \in Actors : ~OldWrite(a)]_vars => []StoreFollowsMemory
<1> DEFINE Follows == \A t \in Tasks : ~Diverges(t)
<1>1. Init => Follows
  BY DEF Init, Nothing, Diverges, WillFollow, Agrees
<1>2. IInv /\ [Next]_vars /\ [\A a \in Actors : ~OldWrite(a)]_vars /\ Follows => Follows'
  <2> SUFFICES ASSUME IInv, Follows, [Next]_vars, [\A a \in Actors : ~OldWrite(a)]_vars,
                      NEW t \in Tasks
               PROVE  ~Diverges(t)'
    OBVIOUS
  <2>1. CASE UNCHANGED vars
    BY <2>1 DEF vars, Diverges, WillFollow, Pending
  <2>2. CASE \A a \in Actors : ~OldWrite(a)
    BY <2>2, DivergeStep DEF IInv
  <2> QED
    BY <2>1, <2>2
<1>3. Follows => StoreFollowsMemory
  BY DEF Diverges, WillFollow, Agrees, Pending, StoreFollowsMemory
<1> HIDE DEF Follows
<1> QED
  BY Invariance, <1>1, <1>2, <1>3, PTL DEF Spec
=============================================================================

------------------------------ MODULE Scheduler ------------------------------
(***************************************************************************)
(* The agenda scheduler: tasks in memory behind a RwLock, a loop that      *)
(* checks every Tick seconds which of them are due and starts a run of     *)
(* each in a tokio task of its own, and the TaskStore the tasks are        *)
(* written to after the lock is released.                                  *)
(*                                                                         *)
(* Whoever changes a task in memory (a client's call, a run that ends)     *)
(* takes a clone under the lock and writes it to the store afterwards, in  *)
(* a step of its own.  The loop's own last_run mark is never written.      *)
(*                                                                         *)
(* Times are natural numbers; an Option of one is a set of at most one     *)
(* element.  The id of a new task is a fresh UUID, so a model id is only   *)
(* added when nothing refers to it any more.                               *)
(***************************************************************************)
EXTENDS Integers

CONSTANTS
    Tasks,      \* task ids
    Schedule,   \* the schedule of each id
    Runs,       \* slots of the runs in flight at once (a bound)
    Callers,    \* clients of the scheduler: the /cron commands, the agent tools
    After,      \* FailureAlert.after; 0 stands for no policy too
    Cooldown,   \* FailureAlert.cooldown_secs
    Tick,       \* period of the loop's timer
    Minute,     \* length of a minute of cron time
    MaxTime,    \* the clock stops here (a bound)
    NoTask      \* no task under this id

Schedules ==
    [kind : {"interval"}, every : Nat]
        \cup [kind : {"once"}, at : Nat]
        \cup [kind : {"cron"}, minutes : SUBSET Nat]   \* the minutes that match

Options(S) == {{}} \cup {{x} : x \in S}

\* A stored streak is only compared with After, so it saturates there.
Records ==
    [enabled : BOOLEAN, lastRun : Options(0..MaxTime),
     fails : 0..After, lastAlert : Options(0..MaxTime)]

ASSUME SchedulerAssumption ==
    /\ Schedule \in [Tasks -> Schedules]
    /\ After \in Nat /\ Cooldown \in Nat /\ MaxTime \in Nat
    /\ Tick \in Nat \ {0} /\ Minute \in Nat \ {0}
    /\ NoTask \notin Tasks /\ NoTask \notin Records
    /\ Runs \cap Callers = {}

VARIABLES
    clock,      \* Utc::now
    up,         \* the process is running, its store loaded
    mem,        \* Scheduler.tasks
    store,      \* the TaskStore, which survives a crash
    job,        \* what each run and each client is in the middle of
    due,        \* tasks of the current sweep still to be started
    marking,    \* the task just started, whose last_run is about to be marked
    sweepAt,    \* the loop's now
    nextTick,   \* the next instant of the loop's timer
    started     \* history: the sweep that last started the task in this process

vars == <<clock, up, mem, store, job, due, marking, sweepAt, nextTick, started>>

Actors == Runs \cup Callers

Jobs ==
    [pc : {"idle", "running", "alerting", "writing"},
     task : Tasks \cup {NoTask}, value : Records \cup {NoTask}]

Idle == [pc |-> "idle", task |-> NoTask, value |-> NoTask]
Running(t) == [pc |-> "running", task |-> t, value |-> NoTask]
Writing(t, v) == [pc |-> "writing", task |-> t, value |-> v]
Alerting(t, v) == [pc |-> "alerting", task |-> t, value |-> v]

Fresh == [enabled |-> TRUE, lastRun |-> {}, fails |-> 0, lastAlert |-> {}]
Nothing == [t \in Tasks |-> NoTask]

TypeOK ==
    /\ clock \in 0..MaxTime
    /\ up \in BOOLEAN
    /\ mem \in [Tasks -> Records \cup {NoTask}]
    /\ store \in [Tasks -> Records \cup {NoTask}]
    /\ job \in [Actors -> Jobs]
    /\ \A a \in Actors : job[a].pc # "idle" => job[a].task \in Tasks
    /\ \A c \in Callers : job[c].pc \in {"idle", "writing"}
    /\ \A r \in Runs : job[r].pc \in {"alerting", "writing"} => job[r].value \in Records
    /\ due \subseteq Tasks
    /\ marking \in Tasks \cup {NoTask}
    /\ sweepAt \in 0..clock
    /\ nextTick \in 0..(clock + Tick)
    /\ started \in [Tasks -> Options(0..MaxTime)]

Init ==
    /\ clock = 0 /\ up = TRUE
    /\ mem = Nothing /\ store = Nothing
    /\ job = [a \in Actors |-> Idle]
    /\ due = {} /\ marking = NoTask
    /\ sweepAt = 0 /\ nextTick = 0
    /\ started = [t \in Tasks |-> {}]

loopVars == <<due, marking, sweepAt, nextTick>>

Advance ==
    /\ clock < MaxTime
    /\ clock' = clock + 1
    /\ UNCHANGED <<up, mem, store, job, loopVars, started>>

-----------------------------------------------------------------------------
(* A client's calls: each changes the memory, then writes to the store.     *)

Call(c, t, v) ==
    /\ up /\ job[c] = Idle
    /\ mem' = [mem EXCEPT ![t] = v]
    /\ job' = [job EXCEPT ![c] = Writing(t, v)]
    /\ UNCHANGED <<clock, up, store, loopVars>>

IsNew(t) ==
    /\ mem[t] = NoTask /\ store[t] = NoTask
    /\ \A a \in Actors : job[a].task # t
    /\ t \notin due /\ marking # t

\* Mutant: the new task is only kept in memory.
AddUnpersisted(c, t) ==
    /\ up /\ job[c] = Idle /\ IsNew(t)
    /\ mem' = [mem EXCEPT ![t] = Fresh]
    /\ started' = [started EXCEPT ![t] = {}]
    /\ UNCHANGED <<clock, up, store, job, loopVars>>

Add(c, t) ==
    /\ IsNew(t)
    /\ Call(c, t, Fresh)
    /\ started' = [started EXCEPT ![t] = {}]

\* The store is told to delete even a task the memory does not have.
Remove(c, t) ==
    /\ Call(c, t, NoTask)
    /\ UNCHANGED started

SetEnabled(c, t, on) ==
    /\ mem[t] # NoTask
    /\ Call(c, t, [mem[t] EXCEPT !.enabled = on])
    /\ UNCHANGED started

\* TaskStore.upsert or delete, after the lock was released.
Persist(a) ==
    /\ job[a].pc = "writing"
    /\ store' = [store EXCEPT ![job[a].task] = job[a].value]
    /\ job' = [job EXCEPT ![a] = Idle]
    /\ UNCHANGED <<clock, up, mem, loopVars, started>>

-----------------------------------------------------------------------------
(* The loop.                                                               *)

IsDue(s, lastRun, now) ==
    \/ s.kind = "interval" /\ \A last \in lastRun : now - last >= s.every
    \/ s.kind = "once" /\ lastRun = {} /\ now >= s.at
    \/ /\ s.kind = "cron" /\ now \div Minute \in s.minutes
       /\ \A last \in lastRun : now - last >= Minute

DueTask(t) ==
    mem[t] # NoTask /\ mem[t].enabled /\ IsDue(Schedule[t], mem[t].lastRun, clock)

\* Mutant: the loop does not wait for its timer.
SweepEarly ==
    /\ up /\ due = {} /\ marking = NoTask
    /\ nextTick' = nextTick + Tick
    /\ sweepAt' = clock
    /\ due' = {t \in Tasks : DueTask(t)}
    /\ UNCHANGED <<clock, up, mem, store, job, marking, started>>

\* The timer fires, late instants in a burst; the due tasks are collected.
Sweep ==
    /\ up /\ due = {} /\ marking = NoTask
    /\ clock >= nextTick
    /\ nextTick' = nextTick + Tick
    /\ sweepAt' = clock
    /\ due' = {t \in Tasks : DueTask(t)}
    /\ UNCHANGED <<clock, up, mem, store, job, marking, started>>

\* Mutant: only the first due task of a sweep is started.
StartFirst(t) ==
    /\ t \in due /\ marking = NoTask
    /\ \E r \in Runs : job[r] = Idle /\ job' = [job EXCEPT ![r] = Running(t)]
    /\ due' = {}
    /\ marking' = t
    /\ started' = [started EXCEPT ![t] = {sweepAt}]
    /\ UNCHANGED <<clock, up, mem, store, sweepAt, nextTick>>

\* The run is spawned from the sweep's clone, whatever became of the task since.
Start(t) ==
    /\ t \in due /\ marking = NoTask
    /\ \E r \in Runs : job[r] = Idle /\ job' = [job EXCEPT ![r] = Running(t)]
    /\ due' = due \ {t}
    /\ marking' = t
    /\ started' = [started EXCEPT ![t] = {sweepAt}]
    /\ UNCHANGED <<clock, up, mem, store, sweepAt, nextTick>>

\* Mutant: last_run is left to the run, which sets it when it ends.
MarkByRun ==
    /\ marking # NoTask
    /\ marking' = NoTask
    /\ UNCHANGED <<clock, up, mem, store, job, due, sweepAt, nextTick, started>>

\* Only now is the task marked as run, if it is still there.
Mark ==
    /\ marking # NoTask
    /\ mem' = IF mem[marking] = NoTask THEN mem
              ELSE [mem EXCEPT ![marking].lastRun = {sweepAt}]
    /\ marking' = NoTask
    /\ UNCHANGED <<clock, up, store, job, due, sweepAt, nextTick, started>>

-----------------------------------------------------------------------------
(* A run: the executor, then the task's record under the lock, then the     *)
(* alert, then the store.                                                   *)

Ended(r) == job[r].pc = "running"

Gone(r) ==
    /\ Ended(r) /\ mem[job[r].task] = NoTask
    /\ job' = [job EXCEPT ![r] = Idle]
    /\ UNCHANGED <<clock, up, mem, store, loopVars, started>>

Commit(r, v, next) ==
    /\ mem' = [mem EXCEPT ![job[r].task] = v]
    /\ job' = [job EXCEPT ![r] = next]
    /\ UNCHANGED <<clock, up, store, loopVars, started>>

RecordSuccess(r) ==
    LET t == job[r].task
        v == [mem[t] EXCEPT !.lastRun = {clock}, !.fails = 0]
    IN  /\ Ended(r) /\ mem[t] # NoTask
        /\ Commit(r, v, Writing(t, v))

Saturated(n) == IF n < After THEN n ELSE After

\* record_failure asks for an alert.
Alerts(v, fails) ==
    /\ After > 0 /\ fails >= After
    /\ \A last \in v.lastAlert : clock - last >= Cooldown

RecordFailure(r) ==
    LET t == job[r].task
        fails == Saturated(mem[t].fails + 1)
        v == [mem[t] EXCEPT !.lastRun = {clock}, !.fails = fails]
        alerted == [v EXCEPT !.lastAlert = {clock}]
    IN  /\ Ended(r) /\ mem[t] # NoTask
        /\ IF Alerts(mem[t], fails)
           THEN Commit(r, alerted, Alerting(t, alerted))
           ELSE Commit(r, v, Writing(t, v))

\* The alert sink is called outside the lock.
Alert(r) ==
    /\ job[r].pc = "alerting"
    /\ job' = [job EXCEPT ![r].pc = "writing"]
    /\ UNCHANGED <<clock, up, mem, store, loopVars, started>>

\* A result cut inside a character panics before anything is recorded.
Choke(r) ==
    /\ Ended(r)
    /\ job' = [job EXCEPT ![r] = Idle]
    /\ UNCHANGED <<clock, up, mem, store, loopVars, started>>

-----------------------------------------------------------------------------
Crash ==
    /\ up
    /\ up' = FALSE
    /\ mem' = Nothing
    /\ job' = [a \in Actors |-> Idle]
    /\ due' = {} /\ marking' = NoTask
    /\ started' = [t \in Tasks |-> {}]
    /\ UNCHANGED <<clock, store, sweepAt, nextTick>>

\* load_persisted, then start.
Restart ==
    /\ ~up
    /\ up' = TRUE
    /\ mem' = store
    /\ nextTick' = clock
    /\ UNCHANGED <<clock, store, job, due, marking, sweepAt, started>>

Loop == Sweep \/ Mark \/ \E t \in Tasks : Start(t)

Run(r) == Gone(r) \/ RecordSuccess(r) \/ RecordFailure(r) \/ Alert(r) \/ Choke(r)

Next ==
    \/ Advance \/ Loop \/ Crash \/ Restart
    \/ \E c \in Callers, t \in Tasks :
          Add(c, t) \/ Remove(c, t) \/ \E on \in BOOLEAN : SetEnabled(c, t, on)
    \/ \E r \in Runs : Run(r)
    \/ \E a \in Actors : Persist(a)

Spec == Init /\ [][Next]_vars

\* Time passes and the loop is polled; nothing is assumed of clients and runs.
FairSpec == Spec /\ WF_vars(Advance) /\ WF_vars(Loop)

-----------------------------------------------------------------------------
Spaced(s, before, now) ==
    \/ s.kind = "interval" /\ now - before >= s.every
    \/ s.kind = "cron" /\ now - before >= Minute

\* As long as the process lives, two sweeps that start a task are as far apart as
\* its schedule says, and a Once task is started once: runs that overlap, and a mark
\* that overwrites the time a run has just recorded, do not make the task due early.
StartsAreSpaced ==
    [][\A t \in Tasks : Start(t) =>
          \A before \in started[t] : Spaced(Schedule[t], before, sweepAt)]_vars

\* A task in memory that no client is still writing is in the store, so that a crash
\* does not lose it, however the writes of clients and runs are ordered.
RegisteredIsDurable ==
    \A t \in Tasks :
        (mem[t] # NoTask /\ \A c \in Callers : job[c].task # t) => store[t] # NoTask

InFlight(t) == \E r \in Runs : job[r].pc = "running" /\ job[r].task = t
SlotsTaken == \A r \in Runs : job[r] # Idle

Waiting(t) ==
    /\ up /\ marking # t
    /\ DueTask(t) /\ Schedule[t].kind # "cron"
    /\ ~InFlight(t)
    /\ clock + Tick <= MaxTime

\* A task that is due and not running is started, unless it is disabled or removed,
\* the process crashes, or runs that never end hold all the slots of the model.
DueIsStarted ==
    \A t \in Tasks : Waiting(t) ~>
        \/ InFlight(t) \/ []SlotsTaken
        \/ ~up \/ mem[t] = NoTask \/ ~mem[t].enabled

\* scheduler.rs, module docs: tasks are persisted so that schedules survive
\* restarts.  With no write in flight, memory and store agree on which tasks exist
\* and which are enabled.
StoreFollowsMemory ==
    (up /\ \A a \in Actors : job[a].pc \in {"idle", "running"}) =>
        \A t \in Tasks :
            /\ mem[t] = NoTask <=> store[t] = NoTask
            /\ mem[t] # NoTask => store[t].enabled = mem[t].enabled
=============================================================================

--------------------------- MODULE SubAgentManager ---------------------------
(***************************************************************************)
(* SubAgentManager: sessions that run one sub-task in the background and   *)
(* that other tool calls list, kill and steer while it runs.  The session  *)
(* map, the handle map and the steering-sender map have a lock each, so a  *)
(* call is a sequence of steps, one per lock it takes, and the background  *)
(* task is another: every interleaving of them is a behaviour.             *)
(*                                                                         *)
(* A session id is a fresh UUID; here it is the identity of its sub-task.  *)
(* Calls that return false change nothing and are stuttering steps.        *)
(***************************************************************************)
EXTENDS SubTask

CONSTANT Callers    \* tool calls in flight at the same time

VARIABLES
    status,         \* SessionInfo.status, "absent" when not in the map
    pending,        \* SessionInfo.pending_messages
    timed,          \* SpawnOptions.timeout is Some
    handles,        \* keys of the JoinHandle map
    txs,            \* keys of the steering sender map
    task,           \* where the spawned future of the session stands
    aborted,        \* tasks aborted while inside a poll
    result,         \* the future's local `result`
    undelivered,    \* the future's local `undelivered`
    events,         \* the completion channel, as ever sent
    call,           \* the API call each caller is in
    accepted        \* history: messages steer() has put on the channel

boardVars == <<status, pending, timed, handles, txs>>
taskVars == <<task, aborted, result, undelivered, events>>
vars == <<workerVars, boardVars, taskVars, call, accepted>>

Finished == {"Completed", "Failed", "TimedOut"}
Statuses == Finished \cup {"absent", "Running", "Killed"}

\* "elapsed" is the error text of tokio::time::timeout.
Results == Outcomes \cup {"elapsed"}

TaskStates == {"none", "spawned", "delegating", "woken", "recorded",
               "untracked", "drained", "ended", "dropped"}

Idle == [at |-> "idle"]
Calls ==
    {Idle}
        \cup [at : {"channel", "task", "handle", "mark", "untrack"}, s : Tasks]
        \cup [at : {"send", "note"}, s : Tasks, m : Msgs]

Events == [s : Tasks, result : Results, undelivered : Seq(Msgs)]

TypeOK ==
    /\ WorkerTypeOK
    /\ status \in [Tasks -> Statuses]
    /\ pending \in [Tasks -> Seq(Msgs)]
    /\ timed \in [Tasks -> BOOLEAN]
    /\ handles \subseteq Tasks
    /\ txs \subseteq Tasks
    /\ task \in [Tasks -> TaskStates]
    /\ aborted \subseteq Tasks
    /\ result \in [Tasks -> Results \cup {"none"}]
    /\ \A s \in Tasks : task[s] \in {"woken", "recorded", "untracked", "drained"}
                         => result[s] \in Results
    /\ undelivered \in [Tasks -> Seq(Msgs)]
    /\ events \in Seq(Events)
    /\ call \in [Callers -> Calls]
    /\ accepted \in [Tasks -> Seq(Msgs)]

Init ==
    /\ WorkerInit
    /\ status = [s \in Tasks |-> "absent"]
    /\ pending = [s \in Tasks |-> <<>>]
    /\ timed = [s \in Tasks |-> FALSE]
    /\ handles = {}
    /\ txs = {}
    /\ task = [s \in Tasks |-> "none"]
    /\ aborted = {}
    /\ result = [s \in Tasks |-> "none"]
    /\ undelivered = [s \in Tasks |-> <<>>]
    /\ events = <<>>
    /\ call = [c \in Callers |-> Idle]
    /\ accepted = [s \in Tasks |-> <<>>]

-----------------------------------------------------------------------------
(* The calls. *)

Goto(c, next) == call' = [call EXCEPT ![c] = next]

\* kill keeps the session map locked from its write of the status to its return.
SessionsFree == \A c \in Callers : call[c].at # "untrack"

\* spawn: insert the session under a fresh id.
SpawnRegister(c, s) ==
    /\ SessionsFree
    /\ call[c] = Idle
    /\ status[s] = "absent" /\ task[s] = "none"
    /\ status' = [status EXCEPT ![s] = "Running"]
    /\ \E limited \in BOOLEAN : timed' = [timed EXCEPT ![s] = limited]
    /\ Goto(c, [at |-> "channel", s |-> s])
    /\ UNCHANGED <<workerVars, pending, handles, txs, taskVars, accepted>>

\* spawn: insert the steering sender.
SpawnChannel(c, s) ==
    /\ call[c] = [at |-> "channel", s |-> s]
    /\ txs' = txs \cup {s}
    /\ Goto(c, [at |-> "task", s |-> s])
    /\ UNCHANGED <<workerVars, status, pending, timed, handles, taskVars,
                   accepted>>

\* spawn: tokio::spawn; from here on the task runs beside the caller.
SpawnTask(c, s) ==
    /\ call[c] = [at |-> "task", s |-> s]
    /\ task' = [task EXCEPT ![s] = "spawned"]
    /\ Goto(c, [at |-> "handle", s |-> s])
    /\ UNCHANGED <<workerVars, boardVars, aborted, result, undelivered, events,
                   accepted>>

\* Mutant: the handle is dropped, which detaches the task.
SpawnHandleDetached(c, s) ==
    /\ call[c] = [at |-> "handle", s |-> s]
    /\ Goto(c, Idle)
    /\ UNCHANGED <<workerVars, boardVars, taskVars, accepted>>

\* spawn: insert the join handle and return the id.
SpawnHandle(c, s) ==
    /\ call[c] = [at |-> "handle", s |-> s]
    /\ handles' = handles \cup {s}
    /\ Goto(c, Idle)
    /\ UNCHANGED <<workerVars, status, pending, timed, txs, taskVars, accepted>>

\* kill: take the handle and abort.  A task parked at its await never runs
\* again; one inside a poll goes on until an await has to wait.
KillTake(c, s) ==
    /\ call[c] = Idle
    /\ s \in handles
    /\ handles' = handles \ {s}
    /\ task' = IF task[s] \in {"spawned", "delegating"}
               THEN [task EXCEPT ![s] = "dropped"] ELSE task
    /\ aborted' = IF task[s] \in {"woken", "recorded", "untracked"}
                  THEN aborted \cup {s} ELSE aborted
    /\ Goto(c, [at |-> "mark", s |-> s])
    /\ UNCHANGED <<workerVars, status, pending, timed, txs, result,
                   undelivered, events, accepted>>

\* Mutant: kill aborts without writing the status.
KillMarkSilently(c, s) ==
    /\ SessionsFree
    /\ call[c] = [at |-> "mark", s |-> s]
    /\ Goto(c, [at |-> "untrack", s |-> s])
    /\ UNCHANGED <<workerVars, boardVars, taskVars, accepted>>

\* kill: overwrite the status, if the session is still in the map.
KillMark(c, s) ==
    /\ SessionsFree
    /\ call[c] = [at |-> "mark", s |-> s]
    /\ status' = IF status[s] = "absent" THEN status
                 ELSE [status EXCEPT ![s] = "Killed"]
    /\ Goto(c, [at |-> "untrack", s |-> s])
    /\ UNCHANGED <<workerVars, pending, timed, handles, txs, taskVars, accepted>>

\* kill: drop the steering sender and return true.
KillUntrack(c, s) ==
    /\ call[c] = [at |-> "untrack", s |-> s]
    /\ txs' = txs \ {s}
    /\ Goto(c, Idle)
    /\ UNCHANGED <<workerVars, status, pending, timed, handles, taskVars,
                   accepted>>

\* steer: the session must be Running when its status is read.  Each message
\* is accepted at most once, which bounds the number of steer calls.
SteerCheck(c, s, m) ==
    /\ SessionsFree
    /\ call[c] = Idle
    /\ status[s] = "Running"
    /\ \A d \in Callers : "m" \in DOMAIN call[d] => call[d].m # m
    /\ \A t \in Tasks : \A i \in DOMAIN accepted[t] : accepted[t][i] # m
    /\ Goto(c, [at |-> "send", s |-> s, m |-> m])
    /\ UNCHANGED <<workerVars, boardVars, taskVars, accepted>>

\* Mutant: the sender is cloned when the status is read, and used later.
SteerSendCloned(c, s, m) ==
    /\ call[c] = [at |-> "send", s |-> s, m |-> m]
    /\ queue' = [queue EXCEPT ![s] = Append(@, m)]
    /\ accepted' = [accepted EXCEPT ![s] = Append(@, m)]
    /\ Goto(c, [at |-> "note", s |-> s, m |-> m])
    /\ UNCHANGED <<worker, turn, outcome, injected, boardVars, taskVars>>

\* steer: push while the sender map is read-locked, if the sender is there.
SteerSend(c, s, m) ==
    /\ call[c] = [at |-> "send", s |-> s, m |-> m]
    /\ IF s \in txs
       THEN /\ queue' = [queue EXCEPT ![s] = Append(@, m)]
            /\ accepted' = [accepted EXCEPT ![s] = Append(@, m)]
            /\ Goto(c, [at |-> "note", s |-> s, m |-> m])
       ELSE /\ Goto(c, Idle)
            /\ UNCHANGED <<queue, accepted>>
    /\ UNCHANGED <<worker, turn, outcome, injected, boardVars, taskVars>>

\* steer: record the message for observability and return true.
SteerNote(c, s, m) ==
    /\ SessionsFree
    /\ call[c] = [at |-> "note", s |-> s, m |-> m]
    /\ pending' = IF status[s] = "absent" THEN pending
                  ELSE [pending EXCEPT ![s] = Append(@, m)]
    /\ Goto(c, Idle)
    /\ UNCHANGED <<workerVars, status, timed, handles, txs, taskVars, accepted>>

\* cleanup: forget sessions that are not running and older than max_age.  Ages
\* are abstracted: any of them may be old enough.
Cleanup(old) ==
    /\ SessionsFree
    /\ old # {}
    /\ \A s \in old : status[s] \in Finished \cup {"Killed"}
    /\ status' = [s \in Tasks |-> IF s \in old THEN "absent" ELSE status[s]]
    /\ pending' = [s \in Tasks |-> IF s \in old THEN <<>> ELSE pending[s]]
    /\ UNCHANGED <<workerVars, timed, handles, txs, taskVars, call, accepted>>

-----------------------------------------------------------------------------
(* The background task of a session. *)

TaskGoto(s, next) == task' = [task EXCEPT ![s] = next]

\* First poll: broker.delegate spawns the sub-task into a JoinSet.
TaskStart(s) ==
    /\ task[s] = "spawned"
    /\ TaskGoto(s, "delegating")
    /\ StartWorker(s)
    /\ UNCHANGED <<boardVars, aborted, result, undelivered, events, call,
                   accepted>>

\* The JoinSet yields the sub-task's result.
TaskJoin(s) ==
    /\ task[s] = "delegating"
    /\ worker[s] = "done"
    /\ TaskGoto(s, "woken")
    /\ result' = [result EXCEPT ![s] = outcome[s]]
    /\ UNCHANGED <<workerVars, boardVars, aborted, undelivered, events, call,
                   accepted>>

\* The timer fires first: the delegate future, and its JoinSet, are dropped.
TaskTimeout(s) ==
    /\ task[s] = "delegating"
    /\ timed[s]
    /\ TaskGoto(s, "woken")
    /\ result' = [result EXCEPT ![s] = "elapsed"]
    /\ UNCHANGED <<workerVars, boardVars, aborted, undelivered, events, call,
                   accepted>>

\* Any error text that contains "timed out" counts as a timeout.
StatusOf(res) ==
    CASE res \in {"text", "blank"}   -> "Completed"
      [] res \in {"late", "elapsed"} -> "TimedOut"
      [] OTHER                       -> "Failed"

\* Mutant: only successes are recorded.
TaskRecordSuccess(s) ==
    /\ SessionsFree
    /\ task[s] = "woken"
    /\ status' = IF status[s] = "absent" \/ StatusOf(result[s]) # "Completed"
                 THEN status ELSE [status EXCEPT ![s] = "Completed"]
    /\ TaskGoto(s, "recorded")
    /\ UNCHANGED <<workerVars, pending, timed, handles, txs, aborted, result,
                   undelivered, events, call, accepted>>

\* Write the outcome to the session, if it is still in the map.
TaskRecord(s) ==
    /\ SessionsFree
    /\ task[s] = "woken"
    /\ status' = IF status[s] = "absent" THEN status
                 ELSE [status EXCEPT ![s] = StatusOf(result[s])]
    /\ TaskGoto(s, "recorded")
    /\ UNCHANGED <<workerVars, pending, timed, handles, txs, aborted, result,
                   undelivered, events, call, accepted>>

\* Remove the steering sender.
TaskUntrack(s) ==
    /\ task[s] = "recorded"
    /\ txs' = txs \ {s}
    /\ TaskGoto(s, "untracked")
    /\ UNCHANGED <<workerVars, status, pending, timed, handles, aborted, result,
                   undelivered, events, call, accepted>>

\* Collect the steering messages nobody consumed.
TaskDrain(s) ==
    /\ task[s] = "untracked"
    /\ undelivered' = [undelivered EXCEPT ![s] = queue[s]]
    /\ queue' = [queue EXCEPT ![s] = <<>>]
    /\ TaskGoto(s, "drained")
    /\ UNCHANGED <<worker, turn, outcome, injected, boardVars, aborted, result,
                   events, call, accepted>>

\* Mutant: no event for a session that cleanup has already forgotten.
TaskAnnounceKnown(s) ==
    /\ task[s] = "drained"
    /\ events' = IF status[s] = "absent" THEN events
                 ELSE Append(events, [s |-> s, result |-> result[s],
                                      undelivered |-> undelivered[s]])
    /\ TaskGoto(s, "ended")
    /\ UNCHANGED <<workerVars, boardVars, aborted, result, undelivered, call,
                   accepted>>

\* Push the completion event.
TaskAnnounce(s) ==
    /\ task[s] = "drained"
    /\ events' = Append(events, [s |-> s, result |-> result[s],
                                 undelivered |-> undelivered[s]])
    /\ TaskGoto(s, "ended")
    /\ UNCHANGED <<workerVars, boardVars, aborted, result, undelivered, call,
                   accepted>>

\* A task aborted inside a poll reaches an await that has to wait.
TaskDropped(s) ==
    /\ s \in aborted
    /\ task[s] \in {"woken", "recorded", "untracked"}
    /\ TaskGoto(s, "dropped")
    /\ UNCHANGED <<workerVars, boardVars, aborted, result, undelivered, events,
                   call, accepted>>

\* The sub-task, which runs on its own while its JoinSet exists, and which the
\* runtime destroys once the session's task has dropped the JoinSet.
WorkerStep(s) ==
    /\ \/ task[s] = "delegating" /\ Resume(s)
       \/ Continue(s)
       \/ task[s] # "delegating" /\ Reap(s)
    /\ UNCHANGED <<boardVars, taskVars, call, accepted>>

-----------------------------------------------------------------------------
SpawnStep(c, s) == SpawnChannel(c, s) \/ SpawnTask(c, s) \/ SpawnHandle(c, s)
KillStep(c, s) == KillMark(c, s) \/ KillUntrack(c, s)
SteerStep(c, s, m) == SteerSend(c, s, m) \/ SteerNote(c, s, m)

CallStep(c) ==
    \E s \in Tasks :
        \/ SpawnStep(c, s) \/ KillStep(c, s)
        \/ \E m \in Msgs : SteerStep(c, s, m)

TaskStep(s) ==
    \/ TaskStart(s) \/ TaskJoin(s) \/ TaskTimeout(s) \/ TaskRecord(s)
    \/ TaskUntrack(s) \/ TaskDrain(s) \/ TaskAnnounce(s) \/ TaskDropped(s)

Next ==
    \/ \E c \in Callers, s \in Tasks :
        \/ SpawnRegister(c, s) \/ KillTake(c, s)
        \/ \E m \in Msgs : SteerCheck(c, s, m)
    \/ \E c \in Callers : CallStep(c)
    \/ \E old \in SUBSET Tasks : Cleanup(old)
    \/ \E s \in Tasks : TaskStep(s) \/ WorkerStep(s)

\* A call that has begun, the runtime's polls and the timer of a session go on;
\* nobody has to begin a call, and a worker may wait for its model or tools for
\* ever, so only the steps of a worker that wait for neither are fair.
Fairness ==
    /\ \A c \in Callers : WF_vars(CallStep(c))
    /\ \A s \in Tasks : WF_vars(TaskStep(s))
    /\ \A s \in Tasks : WF_vars(WorkerStep(s) /\ ~Parked(s))
    /\ \A s \in Tasks : WF_vars(WorkerStep(s) /\ task[s] # "delegating")

Spec == Init /\ [][Next]_vars
FairSpec == Spec /\ Fairness

-----------------------------------------------------------------------------
(* Properties. *)

Announced(s) == \E i \in DOMAIN events : events[i].s = s

\* A steering message steer() accepted is never lost, doubled or reordered: in
\* the order of acceptance it went to the agent's context, to the completion
\* event, or still waits in the channel (steering.rs send/drain, manager.rs).
SteeringConserved ==
    \A s \in Tasks : accepted[s] = injected[s] \o undelivered[s] \o queue[s]

\* A completion event tells the parent exactly which accepted messages its
\* sub-agent never saw, and none can be accepted once it is sent: the sender is
\* removed before the final drain, under the lock that steer() sends under.
EventsAccountForSteering ==
    \A i \in DOMAIN events :
        LET e == events[i] IN accepted[e.s] = injected[e.s] \o e.undelivered

\* A session has at most one completion event, and the session map agrees with
\* it unless a kill has overwritten the status or cleanup has dropped it.
EventsMatchSessions ==
    \A i \in DOMAIN events :
        /\ status[events[i].s] \in
               {StatusOf(events[i].result), "Killed", "absent"}
        /\ \A j \in DOMAIN events : events[i].s = events[j].s => i = j

\* The manager implements the steering contract, for every session at once.
Contract == INSTANCE SteeringContract WITH
    Sessions <- Tasks,
    said <- accepted,
    heard <- injected,
    returned <- [s \in Tasks |-> IF Announced(s) THEN undelivered[s] ELSE <<>>],
    ended <- {s \in Tasks : Announced(s)}

ImplementsContract == Contract!ContractSpec

\* A session listed as Running has a task that can still record an outcome, or
\* a spawn or a kill of it is under way: no session is stuck at Running.
RunningIsLive ==
    \A s \in Tasks : status[s] = "Running" =>
        \/ task[s] \in {"spawned", "delegating", "woken"}
        \/ \E c \in Callers : call[c] \in [at : {"channel", "task", "mark"}, s : {s}]

\* A Running session whose spawn has returned can be killed, or is being killed.
RunningIsKillable ==
    \A s \in Tasks : status[s] = "Running" =>
        \/ s \in handles
        \/ \E c \in Callers :
               call[c] \in [at : {"channel", "task", "handle", "mark"}, s : {s}]

\* A session with a timeout stops Running whatever its model and tools do, and its
\* outcome is announced to the parent unless a kill stopped the task before.
TimedSessionsAnnounce ==
    \A s \in Tasks : timed[s] ~>
        (status[s] # "Running" /\ (Announced(s) \/ task[s] = "dropped"))

\* No sub-task outlives its session: a kill or a timeout ends it too.
WorkersStop == \A s \in Tasks : (task[s] \in {"ended", "dropped"}) ~> ~Live(s)
=============================================================================

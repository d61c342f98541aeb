# A formal model of pares-agens

TLA+ modules for the concurrent core of pares-agens, for the turns of its agent
and for its MCP servers; TLC configurations that check them on small instances,
and TLAPS proofs of the main invariants for every value of the constants.

    tlc -workers 2 -config SubAgents_sessions.cfg MCSubAgentManager
    tlapm SubAgentManagerProofs.tla

1. [The system](#1-the-system)
2. [Order and composition](#2-order-and-composition)
3. [The modules and the code](#3-the-modules-and-the-code)
4. [Runs](#4-runs)
5. [Bounds](#5-bounds)
6. [Fairness](#6-fairness)
7. [Proofs](#7-proofs)
8. [Where the code disagrees with its documentation](#8-where-the-code-disagrees-with-its-documentation)
9. [What is not modelled](#9-what-is-not-modelled)

## 1. The system

pares-agens is the host and the cognition layer of a personal agent: channels
(Telegram, HTTP, a desktop window, a terminal) bring messages in, the agent
answers them with a model, its tools, its memory and sub-agents, and timers let
it act on its own. It is a set of Rust crates on tokio; the platform under it
(event spine, state store, procedure engine) is the external `pares-radix-core`.
Paths below are relative to `src/crates/`.

| component | state | operations | talks to |
|---|---|---|---|
| sub-agent sessions, `core/src/delegation/manager.rs`, `steering.rs` | three maps behind a lock each: session info, join handles, steering senders; a channel of completion events; a queue per session | `spawn`, `list`, `get`, `kill`, `steer`, `cleanup`; one background task per session | starts the broker's sub-tasks; called by the tools of `mcp-server/src/radix_handler.rs` |
| delegation broker, `broker.rs`, `aggregator.rs` | a `JoinSet` per batch; turn counter and context of each worker | `delegate`, `run_sub_task`, `aggregate_by_agent` | model client, tool registry, agent registry; called by `Agent::handle_delegation` and the sessions |
| agenda scheduler, `agenda/src/scheduler.rs` | tasks behind a `RwLock`; the `TaskStore` on disk; the loop's timer | `add`, `remove`, `set_enabled`, `load_persisted`, `start`; runs in tasks of their own | executor (the agent), alert sink, `/cron` commands and tools |
| HTTP spine, `channels/src/http_spine.rs` | `PendingResponses`: session to oneshot sender | `handle_chat`, `run_delivery_loop` | event spine: emits `Inbound`, receives `DeliveryRequest` off a broadcast channel |
| controlled forgetting, `core/src/memory/forgetting/` | holding area of soft-deleted ids, audit log | `dry_run`, `execute`, `restore`, `hard_purge_expired`, `run_scheduled_purge` | `MemoryStore`, approval gate |
| memory, `core/src/memory/` | entries with embeddings; learned corrections | capture, recall, `ingest_document`, corrections | agent, PluresDB |
| agent, `core/src/agent.rs` | branches per channel label, a window of turns per branch in memory, the turn store behind it, the current turns | `handle_event`: commands, history, prompt, model and tool loop, persist | everything above; channels, `/reset` of the host |
| compaction, `core/src/headroom.rs` (`select_by_importance`) | the selection it is making | which messages of a long window stay | agent |
| Telegram, `channels/src/telegram.rs`, `active_turns.rs`, `turn_ux.rs` | active turn per chat, approvals, message ids | dispatch, turn with timeout, Stop, steer, callbacks | agent, teloxide |
| device sync, `sync/src/` | offline queue, device registry, pairing sessions, topics | enqueue, flush, merge, pair, revoke | transport (external) |
| MCP client, `mcp-client/src/`, and its owner, `tauri-app/src/mcp.rs` | request counter, the child's pipes; all clients behind one mutex, the listed tools behind another lock | initialize, list, call; start and restart of all servers | MCP servers, the agent's tool calls |
| MCP server, `mcp-server/src/` | the request it handles, a channel of notifications; tool tables, child processes, a browser | requests one after the other, notifications in between | tools, sessions |
| orchestrator, prompt compression, personality, model chain | topics and context items, caches | classify, route, compress, choose a model | agent, .px procedures |
| heartbeat, `core/src/heartbeat.rs` | daily count, tick counter, configuration | a timer's `tick` | state store, spine, agent |
| agenda issues, audit log, model router, marketplace, privacy, sync pairing | maps and files of one caller each | CRUD, filters | |
| desktop app, TUI, CLI, host runtime, inference bindings, packaging | settings, widgets | wiring and rendering | everything |

### What is hard in it

Locks are held for one access and, but for a few places, not across an `await`, so
an operation that touches two maps, or a map and a store, is a sequence of atomic
steps with all the others between them. On top of that

- tokio cancels: `abort` and a dropped future take effect at the next await that
  has to wait, and not at all inside a poll that is running;
- tasks end by a panic, an error, a timeout, an answer or a kill, in any race;
- answers come late, twice removed from the request they belong to, or never;
- the scheduler, the memories and the turns outlive the process, their markers and
  the list of a channel's branches do not;
- the programs at the other end (MCP servers) answer late, speak unasked or go away,
  and a caller holds a lock while it waits for them;
- two events of one channel are handled at the same time (two Telegram chats share
  the label "telegram", the terminal accepts a message while one is answered), and
  a command can switch the branch under a turn that waits for its model.

`PROJECT.json` lists every hazard with its line and the properties that would
catch it.

### What makes each component correct

- **Sessions**: a steering message that was accepted is never lost, doubled or
  reordered, and the completion event says exactly which were not seen; a
  session is not left `Running` without something that will end it; it can be
  killed as long as it runs; its outcome is reported once and agrees with the
  list; a session with a timeout ends whatever its model does; no sub-task
  outlives its session.
- **Broker**: one result per task, no text lost, no failure hidden, and no worker
  left over when the batch is given up.
- **Scheduler**: no task is started earlier than its schedule allows, every due
  task is started, a registered task survives a crash, and the store ends up as
  the memory is.
- **HTTP spine**: an answer does not go to another request than its own, every
  accepted request ends, and a finished request does not block its session.
- **Forgetting**: nothing that a report did not count as excess, and that is not
  excess when it is executed, is deleted; the audit log tells the truth, and what
  lapses is purged.
- **Turns**: every tool call is answered before the model is called again, no
  compaction separates a result from its call, what is kept fits the budget, and
  the turn that is kept is the one that was answered.
- **Conversations**: a turn is kept once, with the conversation it was asked in; a
  window shows all of its branch's turns; `/clear` really starts afresh.
- **MCP**: a call returns the answer to its own request or an error, whatever is
  started, restarted or notified beside it; starts, calls and notifications come to
  an end; overlapping starts leave neither tools without a client nor processes
  without an owner.

## 2. Order and composition

The order is by how much of the system depends on the behaviour and how badly a
test can reach it.

| # | module | of | composes | abstract specification | proved |
|---|---|---|---|---|---|
| 1 | `SubTask`, `SubAgentManager` | worker, sessions | extends `SubTask` | `SteeringContract`, a refinement | types, five invariants, the refinement, the moves of a status |
| 2 | `DelegationBroker` | batch | extends `SubTask` | | types, one result each, complete reply, nobody waited for in vain |
| 3 | `Scheduler` | agenda | | | types, durability, spacing, when the store follows the memory |
| 4 | `HttpSpine` | HTTP channel | | | types, no bypass, no leak, no answer twice, when answers match |
| 5 | `ForgettingEngine` | memory retention | | | types, only excess is held, log |
| 6 | `ContextCompaction` | `select_by_importance` of headroom | | is the abstract specification of a window's selection | pairs, budget, threshold |
| 7 | `AgentTurn` | a conversation's turns one after another | extends `ContextCompaction` | implements the specification of `ContextCompaction` | types, the selection's theorems carried over, whole turns, prompts without orphans, which pairs stay whole |
| 8 | `Conversations` | a channel's branches and concurrent turns | | | all five properties of its run |
| 9 | `McpServer`, `McpHost` | MCP server loop; clients, starts and calls | extends `McpServer` | | all four invariants of its run; no lost event, no orphaned lock |

Each module takes its parameters as CONSTANTS with a named assumption, has one
action per operation or step between two awaits, and no RECURSIVE operator, so
that it can be proved about. The runs are few and large: one passing run per
component with all its properties, and one run for each of the disagreements with
the documentation that matter most.

`AgentTurn` and `Conversations` divide `agent.rs` between them. The first has the
inside of a turn (messages, tools, the deep pass, compaction, the hydrate limit)
and one turn at a time; in the second a turn is one message, every window is
within the budget and the limit, and what matters is who writes which window when.

## 3. The modules and the code

`PROJECT.json` ("map") gives for each definition the lines it stands for.

### SubTask — one worker of `run_sub_task`

| TLA+ | code |
|---|---|
| `worker` | where `run_sub_task` stands: spawned, at the start of a turn, waiting for the model, waiting for the tools, done, destroyed |
| `turn`, `MaxTurns` | the `for turn in 0..max_turns` loop |
| `queue` | the `Vec` shared by `SteeringTx` and `SteeringRx` |
| `injected` | steering messages pushed into the sub-agent's context, in order |
| `outcome` | the text (non-blank or blank), an error, an error that contains "timed out", or a panic |

`BeginTurn` drains the queue and calls the model; `ModelAnswers`,
`ModelCallsTools`, `ToolsReturn`, `ExhaustTurns` and `Panic` are the ways on.
`Reap` destroys a worker whose `JoinSet` has gone: at once if it is parked at an
await, otherwise after the step it is in. The two modules that own `JoinSet`s say
when it is enabled.

### SubAgentManager — sessions

| TLA+ | code |
|---|---|
| `status`, `pending`, `timed` | `SessionInfo` in `sessions`; "absent" when it is not in the map |
| `handles`, `txs` | keys of `handles` and `steering_txs` |
| `task`, `result`, `undelivered` | the future given to `tokio::spawn`, and its locals |
| `aborted` | tasks aborted while inside a poll |
| `events` | everything ever sent on the completion channel |
| `call` | how far each caller is in its call |
| `accepted` | history: the messages `steer` has pushed |

`spawn` is `SpawnRegister`, `SpawnChannel`, `SpawnTask`, `SpawnHandle`; `kill` is
`KillTake`, `KillMark`, `KillUntrack`; `steer` is `SteerCheck`, `SteerSend`,
`SteerNote`; `cleanup` is one step, under one lock. `kill` keeps the session map
locked from its write of the status until it has dropped the sender, so nobody
else reads or writes a session in between (`SessionsFree`). The background task is
`TaskStart`, then `TaskJoin` or `TaskTimeout`, then `TaskRecord`, `TaskUntrack`,
`TaskDrain`, `TaskAnnounce`, and `TaskDropped` where an abort catches it. Calls
that return false change nothing.

`SteeringContract` is the promise without locks and tasks: messages are said,
heard in order, and at the end the rest is handed back. `ImplementsContract` maps
`said` to `accepted`, `heard` to `injected`, and `ended` to the sessions whose
event has been sent.

### DelegationBroker — a batch

`phase` is the progress of the future that awaits the batch, `joining` the workers
its `JoinSet` has not yielded yet, `results` the vector it collects, `reply` what `Agent::handle_delegation` makes of it: whose texts it
joins and whose failures it lists. `Drop` gives the batch up at its await.
Results are collected in the order of arrival, and `Return` waits for the `JoinSet` to
be empty and for nothing else, both as the code does: that the results are then those
of the whole batch is what `OneResultEach` has to show.

### Scheduler — agenda

| TLA+ | code |
|---|---|
| `mem`, `store` | `Scheduler.tasks`, `TaskStore` |
| `job` | what each run and each client is in the middle of, with the clone it will write |
| `due`, `marking`, `sweepAt`, `nextTick` | locals of the loop and the interval timer, which fires missed instants in a burst |
| `started` | history: the sweep that last started each task |

`Schedule` gives each id its `Interval`, `Once` or `Cron`; a cron expression is
the set of minutes it matches. A client's call changes the memory under the lock
and is then `writing`; `Persist` is the write. The loop's `Sweep` takes clones of
the due tasks, `Start` spawns a run from a clone, and only then `Mark` sets
`last_run`, in memory only. A run ends as `Gone` (its task was removed),
`RecordSuccess`, `RecordFailure` (with `Alert` when the streak and the cooldown
ask for it) or `Choke` (the slice of a long result panics). `Crash` keeps the
store only; `Restart` is `load_persisted` and `start`.

### HttpSpine — HTTP channel

| TLA+ | code |
|---|---|
| `phase` | where `handle_chat` stands |
| `pending` | `PendingResponses`, session to the request whose sender it holds |
| `got`, `cut` | the oneshot channel of a request: a value arrived, or the sender was dropped |
| `bus` | the broadcast channel, which loses its oldest event when it is full |
| `carrying` | the sender the loop has taken and not used yet |
| `asked`, `notes` | what the pipeline (external) still has to answer, and what it sends unasked |

### ForgettingEngine — retention

| TLA+ | code |
|---|---|
| `store`, `born`, `created` | the `MemoryStore`, and the dates of all memories so far |
| `held` | `soft_deleted`: when the recovery window of a held memory closes |
| `last` | the latest action on a memory in the audit log |
| `phase`, `listed`, `report`, `started`, `purged` | locals of the calls in progress |
| `basis` | history: the entries that a caller's report counted |

`List` and `Report` are `dry_run`, `Approve` and `SoftDelete` are `execute`,
`HardPurge`, `LogPurge` and then the same two are `run_scheduled_purge`. Which of
several equally old memories the sort puts first, and what the gate decides, is
left open.

### ContextCompaction — what stays in a window

`Select` takes a history that is over the budget, keeps the newest message and its
partner, and leaves the rest to `Visit`, which walks the candidates by descending
score until one does not fit (`Stop`). `Partner` is `partner[i]` of the code: the
nearest earlier assistant message with calls, for a tool message; the *first* of
its results, for an assistant message. `Leave` takes the plan.

A score is any number, chosen anew at each selection: the code's weights, the recency
and the embeddings are left out, so what holds, holds for every scoring. The
code estimates tokens in two ways (`estimate_tokens` and headroom's count); the
model has one measure. Call ids are positions, as the code matches by position.

### AgentTurn — a turn inside

| TLA+ | code |
|---|---|
| `cache`, `store` | one channel's entry of `conversation_history`; its turns in the store |
| `snapshot`, `fresh` | `history_snapshot`, and `messages[start..]`, what this turn adds |
| `round`, `standard`, `reply` | locals of `run_model_loop` and of the deep escalation |
| `pc` | where the turn stands |

`Hear`, `Load` (or `LoadFails`), then `CallTools`, `RunTool`, `Reply`, `ReplyEmpty`
or `Fail` until the pass ends; an answer of low confidence starts the deep pass,
whose failure is `FailDeep`. `Persist` extends the window and compacts it where it
must, `Insert` stores the turn. A tool blocked by a hook answers its call like one
that ran.

### Conversations — branches and concurrent turns

| TLA+ | code |
|---|---|
| `active`, `branches` | `ChannelBranches` of the channel in `branch_state` |
| `cache`, `store` | `conversation_history` and the turn store, by branch |
| `turn` | of each message: where its handling stands, whether it is on the dataflow path, the model's path or is a `/branch`, the branch it resolved, the history in its hands |
| `sources` | history: from which branches each was forked since the process started |
| `earlier` | history: the messages whose handling began before the last restart or reset |

`load_history` is `Look`, then `Read` and `Fill` with an await between them;
`persist_turn` is `Keep`, then `Insert` or `InsertFails`. The dataflow pipeline and
the model's path both load and keep, and `FallThrough` is the second `load_history`
of a message whose pipeline delivered nothing. `ModelFails`, `RouteElsewhere` and
`DropTurn` (the 120 s timeout of the terminal) are the ends that keep nothing.
`/session`, `/switch` and `/clear` are one step each, `/branch` is `ReceiveFork`,
`ForkBranch` and `SeedBranch`, with the history it loads in between. `Restart`
keeps the store only. `Reset` is the host's `reset_runtime`: a new agent over the
same store, while the old one's turns go on and may yet reach the store
(`StrayFallThrough`, `StrayInsert`, `StrayEnds`).

### McpServer and McpHost — tool servers

| TLA+ | code |
|---|---|
| `alive`, `stdin`, `stdout` | the child processes and their pipes |
| `busy`, `notes` | the request `run_with_io` handles; the channel of `ServerNotification`s it selects on beside stdin |
| `completions`, `Forward` | the completion events of the sub-agents, and `spawn_completion_forwarder` |
| `clients`, `lock` | `mcp_clients` and its mutex, in `AppState` |
| `tools` | the listed tools, by server |
| `nextId` | the request counter of each `McpClient` |
| `starter`, `call` | how far each `start_mcp_servers` and each `call_tool` is |
| `sent`, `written` | history: notifications a process has produced and written |

A start reads which servers the settings enable (`ReadConfigs`, any set, since the
settings may change at any time), takes the mutex and keeps it through
`Spawn`, `Initialize` and `Connect` of one server after the other, to `ListTools`;
`SpawnFails` and `GiveUp` skip a server. A configuration is known by its place in
the settings (`Order`, which may name a server twice), and each start spawns a process
of its own for it: a process is a pair of a start and a place. A restart drops the clients (`StopAll`),
clears the list (`Unlist`) and is a start from there. A call looks its server up
(`Route`), takes the mutex and keeps it from `Send` to `Receive`, which takes the next line
of the server for the answer. Dropping a client kills its process (`Drop`).

The server is the one of this repository, with its channel of notifications, which
is an option of the library that the plugin's host does not take
(`host_runtime/mod.rs:391`); any other configured server may notify as well. What
is left out: the capacity of pipes, the pages of `tools/list` and the client's
cache of them, lines that are not JSON, a server that never answers `initialize`,
and the HTTP transport.

In these modules a definition introduced by "Mutant:" is a plausible bug in the
one that follows it and is no part of the specification; the mutants in
`PROJECT.json` name them, and each breaks the property it is there for.

## 4. Runs

| run | configuration | states | question |
|---|---|---|---|
| `subagents` | `SubAgents_sessions` | 230 k | Is the session manager right in every interleaving of two callers, the session's task and its worker? |
| `broker_batch` | `Broker_batch` | 19 k | Does a batch of three lose nothing? |
| `scheduler_loop` | `Scheduler_loop` | 647 k | Spacing, durability and progress of a task beside one that is due in every sweep, with a client, runs and crashes |
| `http_delivery` | `HttpSpine_delivery` | 114 k | Two requests of one session and one of another, a lossy bus and an unasked message |
| `forgetting` | `Forgetting_purges` | 1.23 M | Users, the timer, restores, removals and restarts over two memories |
| `agent_window` | `AgentTurn_window` | 332 k | Two turns with up to two rounds of up to two tools, under every scoring, in a window that they overrun |
| `conversations` | `Conversations_branches` | 1.58 M | Three messages, as turns or forks, on three branches, with commands, a failing store and a restart or reset |
| `mcp_server` | `McpHost_server` | 151 k | Two calls to a server that notifies, exits or runs a tool for ever, with a launch and a restart that overlap |
| `scheduler_store`, `http_misrouted`, `forgetting_hard_purge`, `compaction_splits_pairs` | one property each | | A statement of the documentation that the code does not keep; TLC's trace is the shortest way there (section 8) |

What the passing runs show:

- `SteeringConserved`: the order "remove the sender,
  then drain" and the lock under which `steer` sends make the hand-over of
  undelivered messages complete, even when the worker of a timed-out session is
  still draining the same queue.
- `ImplementsContract`: the same as one statement about every session.
- `RunningIsLive`, `RunningIsKillable`: an abort at any point, before the first
  poll included, leaves no session at `Running` for good, because `kill` itself
  writes the status.
- `EventsMatchSessions`: one event per session; only a kill or a cleanup can make
  the list disagree with it.
- `TimedSessionsAnnounce`, `WorkersStop`: a worker that
  waits for its model for ever does not hold up a session with a timeout, and is
  destroyed with it.
- `OneResultEach`, `ReplyIsComplete`: when the `JoinSet` is empty every task has given
  its own result, those that panicked included, and the reply has all of them.
- `BatchEnds`: a batch whose workers have ended is answered, and a dropped one stops its
  workers.
- `StartsAreSpaced`: although `Mark` overwrites what a fast run has recorded and
  runs overlap, the loop never starts a task early within a process. The run is
  small; the theorem `StartsSpaced` says it of every schedule, cron included.
- `RegisteredIsDurable`: every race between clients, runs and crashes leaves a
  registered task in the store. The converse is false: `scheduler_store`.
- `DueIsStarted`: hash order and one lock per task starve nobody.
- `AnswersDoNotBypass`: an answer reaches another request only after its own has
  given up, which is exactly how far the routing by session goes
  (`http_misrouted` shows the rest).
- `ReturnedIsUnregistered`, `RequestsFinish`: only a client that hung up leaves a
  sender behind, and every accepted request ends.
- `OnlyExcessIsHeld`: a memory that a report has `execute` soft-delete is too old or
  outnumbered by newer *live* memories at that very moment, whatever was inserted,
  restored or held since the report. One case is left, and the property names it: a
  newer memory that the report counted has been removed, or soft-deleted by another
  call, since. Checked without that exception TLC finds it violated (section 8).
- `LogFollowsHolding`, `LapsedIsPurged`.
- `PromptHasNoOrphans`: although calls and results are
  matched by position and a window is compacted over and over, no prompt shows a
  result without its call. The other direction is false: `compaction_splits_pairs`.
- `KeptFits`, `ValueThreshold`: the tokens counted are those of the messages kept, and
  over the budget only as the newest message and its partner; nothing is dropped for
  something of less value.
- `TurnIsWhole`: rounds, blocked tools and a failed deep pass leave no call without
  a result, and what is kept is what was answered.
- `NoTurnTwice`: a fill replaces the window and a turn reaches the store only after
  the window, so neither order shows a turn twice.
- `KeptWhereAsked`: the branch is resolved once and used for loading and keeping,
  so a switch in between moves nothing; a turn of a replaced agent is stored on the
  branch that its own agent resolved.
- `WindowsStayWhole` says precisely when a kept turn disappears from the model's
  sight: a fill with rows read before the turn was kept (`StaleFill`); a turn that
  starts a window of its own where there are turns already, because the store could
  not be read, a fork emptied the window under it or a stray turn was stored
  meanwhile (`BlindKeep`); a `/branch` onto a branch that has turns
  (`SeedOver`); a turn that outlives its agent (`StrayInsert`). Each of the four was
  seen to happen by checking the property without it. In none of them
  does the turn leave the store, so a restart shows it again.
- `ClearIsFresh`: `/clear` chooses a session that nothing of this life of the agent has
  used: no window, no turn or fork bound to it, nothing forked onto it, and no stored
  turn but those of before the last restart or reset. It speaks of that moment. A message
  received before may still turn to the session afterwards, if its dataflow pipeline
  delivers nothing and the model's path looks the branch up again, and so may a
  `/branch` that names it; by `KeptWhereAsked` what the session then shows was asked
  there or in a branch forked onto it (section 8).
- `OwnAnswers`: although a notification puts a client one line behind for good, the
  comparison of ids turns that into errors, never into another call's answer.
- `EverythingEnds`: a call keeps the mutex of all clients while it waits, so one tool
  that never returns stops every call, start and restart, and nothing else does.
- `NotesAreWritten`: the `select!` of the server drops the future of the branch it
  does not take, and neither a line nor a notification goes with it.
- `ListedAreConnected`, `NoStrayServer`: a launch and a restart that overlap start
  servers twice, but the second client replaces and kills the first, and the list is
  written under the mutex, so both agree in the end.

Deadlock is checked where the system cannot stop: in forgetting the timer goes on
for ever, an agent can always be restarted, and a session command is always
accepted. The other models end when the bounded inputs are used up or the clock
stands still.

## 5. Bounds

| bound | where | why it is enough |
|---|---|---|
| one session | sessions | sessions share no state but the maps, whose entries are independent; the proofs are for any set of sessions |
| two callers, two messages | sessions | every race of the code is between two parties: two calls, or a call and the task; two messages are the least that can be reordered. Proved for any number |
| `MaxTurns` = 2 | sessions | one turn before a message and one after it |
| one use of each message | sessions | bounds the calls of `steer`, named at `SteerCheck` |
| batch of three, one turn | broker | an answer, a blank and a failure in one batch; the loop of turns is checked with the sessions |
| `MaxTime` | scheduler, forgetting | the clock stops. In `scheduler_loop` after one period, which has two sweeps of a task that is due in both; 4 with period 2 and schedule 3 in `scheduler_store`, a late sweep and a burst. What needs more time or a cron schedule is left to the proofs |
| `Tick`, `Minute`, `After`, `Cooldown` | scheduler | shrunk from 10 s, 60 s and the task's own policy |
| `Runs` | scheduler | slots for runs in flight; the code has no limit. One in `scheduler_loop`, where two tasks compete for it; two overlap in `scheduler_store` |
| fresh ids | scheduler | an id is used again only when nothing refers to it, as a UUID would not be |
| `After` saturates the streak | scheduler | it is only ever compared with `After` |
| three requests, `BusCap` 2, `Notes` 1 | HTTP | an old answer, a new request and one of another session; the capacity is reached |
| two turns, two rounds, two calls, `HydrateLimit` 1 | agent turn | a second turn sees the first one's compacted window, or the store's last turn; a call follows another one and a round another one |
| `Budget` 4, `MaxTokens` 5, a tool result of size 4 | agent turn | less than one turn with a tool: nearly every window is compacted, and a pair may not fit |
| `Scores` of two values | compaction | every order of the candidates that two classes and recency make |
| three messages, three branches | conversations | a turn in flight, one that overtakes it and a fork; main, a session and a name that `/clear` chooses next. Proved for any number |
| `MaxRestarts` 1 | conversations | restarts and resets together; the second forgets what the first did |
| a process for each start and configuration | MCP | a start spawns a configuration at most once (`SpawnInv`, proved); its pipes begin empty |
| two calls, one server, `MaxEvents` 1 | MCP | a call behind a call, one line out of step. All servers share the mutex and the list, so that a second server in the same start adds another round of the same steps, not another party |
| two memories, window 1, age 1, count 1 | forgetting | one memory outnumbers the other, both grow old, a window closes and is given again |

## 6. Fairness

The specification `Spec` of each module has none; liveness is checked under
`FairSpec`.

- **Sessions**: a call that has begun, the polls of a session's task, its timer, a
  worker inside a poll and the runtime's destruction of an aborted worker go on;
  that is what tokio does with everything that is ready. Nobody has to begin a
  call, and a worker that waits for its model or tools may wait for ever.
- **Broker**: the same; without a timeout of its own the broker may wait for ever,
  so `BatchEnds` starts from workers that have finished.
- **Scheduler**: time passes and the loop is polled. Clients, executors and store
  writes owe nothing. `DueIsStarted` names the ways out: disabled, removed,
  crashed, or all slots of the model held by runs that never end.
- **HTTP**: the server polls its handlers and the loop, and its timer fires.
  Clients and the pipeline owe nothing. Strong fairness is nowhere needed.
- **Forgetting**: the scheduled purge is called again and again and its steps are
  taken. The code has no such timer itself; whoever uses the engine must call it,
  and `LapsedIsPurged` says what that buys.
- **MCP**: a start and a call in progress go on when they can, the server's loop takes
  lines, answers everything but tool calls and writes notifications, all weakly
  fair: a mutex of tokio is first come, first served, and a loop whose branches are
  polled in random order (`select!` without `biased`) neglects none of them. A tool
  may run for ever, and the properties say what it holds up. Nobody has to start,
  call or exit.
- **Turns and conversations**: no liveness is claimed; a model or a tool may never
  answer, and the agent has no timeout of its own.

## 7. Proofs

Each proof module extends its component and proves the invariants of its run for
every value of the constants: any sets of sessions, callers, messages, tasks,
schedules, requests and memories, any capacity, window or limit. The only
assumptions are the named ones the component declares, which say what kind of
thing each constant is, and which TLC evaluates in the runs.

| theorem | module | argument |
|---|---|---|
| `TypeCorrect`, `AgentTypeCorrect` | all | by cases on the actions; in the sessions it needs that a turn only begins below `MaxTurns`, in the scheduler that a sweep waits for its timer, in forgetting that an execute's clock is not ahead of the present, in the conversations that a branch is listed before it is activated, in MCP that an event is counted in one place (`CountInv`) |
| `SteeringIsConserved`, `EventsAreComplete` | sessions | `SteerInv`: the sender is out of the map before the last drain, so after it the queue stays empty and no send follows |
| `EventsAgree` | sessions | `EventInv` and `StatusInv`: an event is the last step of its task and carries its locals; from the record on the status is the task's outcome, "Killed" or "absent" |
| `RunningHasATask`, `RunningCanBeKilled` | sessions | `SpawnInv` and `StatusInv`: for each `Running` session a named witness, the caller that is spawning or killing it, when its task cannot record any more |
| `ManagerImplementsContract` | sessions | from the same invariant every step is a `Say`, a `Hear`, an `End` or a stutter of `SteeringContract` |
| `StatusMovesOn` | sessions | `KillInv`: a session that is killed, or about to be marked so, has a task that can no longer wake, unless it had when the abort came; one with an outcome has a task that has written it |
| `RegisteredSurvives` | scheduler | `StoreInv`: a delete on its way is of a task the memory has no more, and a run writes the clone of a task that was in the memory |
| `StartsSpaced` | scheduler | `SpaceInv`: `last_run` in memory is never older than the sweep that last started the task, once marked, and a task that is due was spaced when collected. `CrashInv` keeps the old process out of the new one |
| `OnlyOldWritesDiverge`, `StoreFollowsFreshWrites` | scheduler | a task follows if the store agrees with the memory or somebody who agrees with the memory has yet to write. Who changes the memory has the changed clone to write (`ChangeFollows`), a write of what the memory holds makes the store agree (`WriteFollows`), and nothing else touches either; a restart loads the memory from the store (`DivergeStep`, with `CrashInv`) |
| `NoBypass`, `ReturnedUnregistered` | HTTP | `ReachInv` and `PendingInv`: a waiting request whose sender is not registered has been served, cut or is being served; `BusInv` and `BypassInv` follow an answer from the bus to a request |
| `AnswersGoToOne` | HTTP | `OnePlaceInv`: the answer to a request is with the pipeline, in one place of the channel, in the loop's hand or with one request, and each step takes it from one to the next |
| `OneAtATimeMatches` | HTTP | `AloneInv`, with `BusInv`: as long as an outstanding request is its session's only one, the sender registered for the session is its own or none |
| `NewestAreSafe` | forgetting | `ReportInv`: what a report lists is too old, or outnumbered by what the report counted, and stays so, since time goes forward and dates do not change (`ExcessStays`). If the newer ones of those are all live, the live ones outnumber it too (`MoreOutnumber`); both, and that the excess of a category is outnumbered (`ExcessOutnumbered`), are counts on finite sets |
| `LogCorrect` | forgetting | `PurgedInv`: the purge logs all it took before it lists again |
| `SomebodyIsWaitedFor` | broker | `AwaitedInv`: while a batch is awaited none of its workers is aborted, so each that its `JoinSet` still has is live or done |
| `EveryTaskHasItsResult`, `NothingIsLost` | broker | `StartInv`, `ResultInv`, `JoinInv`, `ReplyInv`: every result is that of a worker that is done, each worker gives one, and as long as the batch is not given up a task of it is either still in the `JoinSet` or has its result; that results and batch have the same length is a count |
| `AgentImplementsSelection` | agent turn | every step of the agent is a step of `ContextCompaction` or leaves the selection alone |
| `NoOrphanIsKept`, `BudgetIsKept`, `ThresholdHolds` | agent turn | `SelectionInv` of the selection on its own: a message comes with its partner, the mandatory pair is the only one added unweighed, and the walk is in the order of the scores. Carried over by the implementation |
| `CallKeepsAResult`, `SinglePairsStayWhole` | agent turn | an assistant message is only kept together with its partner, or as the partner of one of its results (`PairBringsResult`), and what is kept stays; if there is but one result that is all of them |
| `NoOrphanIsShown` | agent turn | `SoundInv`: every history anywhere (the window, the stored turns, the prompt, the messages of the turn) is `Sound`: behind each call only its results, in order. Joining, appending and taking whole turns keep it so; a compaction does because it keeps the partner of all it keeps and the old order. The order is that of ranks, and that each rank has one kept message (`EveryRank`) is a count on finite sets |
| `TurnsAreWhole` | agent turn | `LoopInv`: only the last assistant message with calls may lack results, and those it has are the first ones |
| `TurnsAreKeptOnce`, `TurnsStayInTheirConversation` | conversations | `UnkeptIsNowhere`, `HandsEmpty`, `OwnSource`, `SeenOnce`: a turn is in no window, store or prompt before it is kept, and what a step has read is as good as what it read it from. One lemma for the steps that only change a message's record, one for those that write a window or the store |
| `ClearStartsFresh` | conversations | `UsedIsListed`: a branch with a window, a turn or a fork is listed, so `/clear` does not choose it; what an unlisted one has in the store, and every turn of a replaced agent, is of before the last restart or reset |
| `WholeUnlessExcepted` | conversations | from the same invariant: no other step than the four exceptions takes a turn out of a window that has it |
| `AnswersAreOwn` | MCP | `IdInv`: a client gives an id out once, so the only request and the only line of its process with the id of a call that waits are that call's |
| `NoServerIsStray` | MCP | `SpawnInv`: a start comes to a configuration once, so the process it spawns is new; `Connect` replaces and kills in one step |
| `ListedHaveClients` | MCP | `ToolInv`, with `LockInv`: what a start has found has a client as long as it holds the mutex, and a restart that has taken clients away clears the list next |
| `CallsKeepTheirServer` | MCP | `LockInv` and `KeptInv`: clients change only under the mutex, and that is the call's |
| `NoEventIsLost` | MCP | `EventInv`: completions, notifications and written lines add up to what happened |
| `MutexHasAHolder` | MCP | `LockInv`: it is locked exactly by the phases between taking and releasing it |

None of these invariants is inductive alone. `SteeringConserved`, for example,
says nothing of a message sent after the drain: the strengthening has to rule out
that the sender is still there.

`AgentTurn` speaks of folds and sums (`FlattenSeq`, `SumFunctionOnSet`, which the
community modules define by recursive functions) and counts. What these compute for
every input would be an induction over data, and the library's induction theorems
cannot be instantiated here. `AgentTurnProofs` does without: that every nonempty set
of naturals has a least element (`LeastNat`) follows from the library's theorem that
strict inclusion of finite sets is well-founded, and a claim about all prefixes or
all finite sets is proved by contradiction from the smallest one for which it fails
(`FlattenClosed`, `SumsAgree`, `SumsAdd`).

Only model-checked: the liveness properties (`TimedSessionsAnnounce`, `WorkersStop`,
`BatchEnds`, `DueIsStarted`, `RequestsFinish`, `LapsedIsPurged`, `EverythingEnds`,
`NotesAreWritten`), for the arguments from fairness need ENABLED, which TLAPS does
not support. Every other property of a passing run is a theorem. The runs of
section 8 are counterexamples; three theorems say how far those reach.

Fourteen theorems are of no passing run. `EventsAreComplete` says of the end of a
session what `ImplementsContract` says of its course, `NoOrphanIsKept` of one
selection what `PromptHasNoOrphans` says of all of them, and
`AgentImplementsSelection` is the step from the one to the other. `NoEventIsLost` and
`MutexHasAHolder` are the safety halves of `NotesAreWritten` and `EverythingEnds`:
nothing that has to be written is lost, and nobody waits for a lock that no one
holds. `CallsKeepTheirServer` is why a call may use the client it has looked up.
`SomebodyIsWaitedFor` is the safety half of `BatchEnds`, `AnswersGoToOne` complements
`AnswersDoNotBypass`, which says when an answer may go astray: it never goes to two.
`StatusMovesOn` lists all a status may do, the overwritten "Killed" of section 8
included, and so says that nothing else happens to it. `CallKeepsAResult` is what
is left of the documented pairs when calls have several results.

The other four are about the documented statements that section 8 refutes. A
counterexample says that a statement fails; these say why, and when it holds:

- `OnlyOldWritesDiverge`: the store leaves the course of the memory in one way only,
  by a write of a clone on which the memory has moved on.
- `StoreFollowsFreshWrites`: without such writes `StoreFollowsMemory` holds, through
  failing runs, clients at once and crashes.
- `OneAtATimeMatches`: if a request is only accepted when nothing of an earlier one
  of its session is outstanding, `AnswersMatch` holds, whatever times out or is lost.
- `SinglePairsStayWhole`: where every assistant message has at most one result,
  `PairsStayWhole` holds.

The conditions of the second and third are temporal, on the steps of a behaviour, and
are not fairness: they leave out old writes and overlapping requests, and nothing
else. Before the proofs TLC checked both statements on the specifications restricted
to such steps (273 thousand and 65 thousand states with the bounds of
`scheduler_store` and `http_delivery`), in which tasks are removed, runs overlap with
clients, processes crash and requests time out, and the other new invariants on the
passing runs of their components.

## 8. Where the code disagrees with its documentation

Each has a run whose property is the documented statement.

| run | the code | the documentation |
|---|---|---|
| `scheduler_store` | a run writes an old clone after a `remove` or `set_enabled`, which is undone at the next start (`scheduler.rs:449`); the only cause (`OnlyOldWritesDiverge`) | tasks persist "so that schedules survive restarts" |
| `http_misrouted` | the loop routes by session and the late answer to a timed-out request is given to the next one (`http_spine.rs:89`); only with an overlap (`OneAtATimeMatches`) | "request_id = unique per request (for response routing)" |
| `forgetting_hard_purge` | a hard purge never removes the memory from the store (`engine.rs:480`) | "permanently purged from the store" |
| `compaction_splits_pairs` | an assistant message is linked to the first of its results only, and a kept result does not bring the others (`headroom.rs:1345`); only with several results (`SinglePairsStayWhole`) | "tool/assistant pairs are never split" (`headroom.rs:1290`) |

Seen while modelling and not given a run:

- A task that was aborted inside a poll writes its own status over "Killed"
  (`manager.rs:247`), although `kill` has returned true, for a session "found and
  killed". `StatusMovesOn` proves that no other task does.
- A client takes the next line of its MCP server for the answer, a notification
  included, and is then one line behind for good: every later call fails
  (`stdio.rs:83`). The documentation has it wait for "the matching response line"
  (`stdio.rs:18`).
- `broker.rs:113` promises results in the order of submission; they come in the
  order of arrival.
- `kill` of a session that has finished reports success and overwrites its
  outcome, since its join handle stays in the map (`manager.rs:319`).
- A kill between the write of the status and the event loses the event that
  `manager.rs:162` promises.
- A `Once` task whose run was cut short by a crash runs again: the mark that it was
  started is in memory only (`scheduler.rs:493`).
- `delegate` has no timeout: a model call that never returns holds up its batch
  (`broker.rs:139`).
- A task removed or disabled during a sweep is still started once, from the sweep's
  clone (`scheduler.rs:414`).
- After a restart every soft-deleted memory is live again: the holding area is in
  memory (`engine.rs:162`).
- A report is executed as it was made: remove the newer of two memories after a dry
  run under `max_count` 1 has listed the older one, and `execute` soft-deletes the only
  memory left, which is within the limits (`engine.rs:314`).
- A message received before `/clear` on the dataflow path, whose pipeline delivers
  nothing, is answered with the cleared session's history and kept there, since the
  model's path looks the active branch up again (`agent.rs:1061`). After a restart
  `/clear` chooses `session-1` again and its old turns are the history of what
  `telegram.rs:102` calls "a fresh conversation session".
- A turn whose model fails in a later round has run its tools and is in no history
  (`agent.rs:1117`).
- A client that hangs up leaves its sender registered, and its session answers 429
  until something is delivered to it (`http_spine.rs:194`).
- A result of more than 500 bytes with a character across the 500th panics in the
  run (`scheduler.rs:436`), which then records nothing.

## 9. What is not modelled

- Of the modelled components: parsing of cron fields and of `/cron`; a scheduler
  without an executor; errors of the task store, which the code logs and ignores;
  the closing of the broadcast channel when the process stops; the drill of
  `forgetting/simulation.rs`; the clock that `dry_run` and `hard_purge_expired`
  read just before they take the lock is read in one step with it (`execute`,
  whose clock may be older, keeps it in `started`); the texts of prompts, answers,
  reports and logs.
- Of the agent: the text of prompts, promises and skills, the choice of a model,
  the streaming of deltas. A history is always loaded: `clear_history` is never set
  (`orchestrator/mod.rs:595`). `/resume` and `/sessions` need a session manager,
  which only the terminal interface has. Branch names are told apart by identity:
  the spelling of "main" and names that contain the separator are left out.
- Telegram turns. Their timeout, their Stop button and their steering are guards
  around one call of the agent; whether two updates of a chat are ever handled at
  the same time is decided by teloxide's distribution, which is not in the
  repository, and under its default (kept at `telegram.rs:3174`) they are not, so
  that Stop and steering wait for the turn they are meant for. In the plugin host
  the timeout only detaches the turn, which runs in a task of its own
  (`runtime.rs:3254`), is kept as usual and is then a turn of `Conversations`.
  `/branch`, `/clear` and `/session` reach the agent from the other channels.
- Device sync: nothing in the repository uses the crate or carries its events, so a
  model would have to invent the application and the transport. Its
  last-writer-wins merge swaps values of the same timestamp (`conflict.rs:62`)
  where "a single authoritative value" is meant (`conflict.rs:3`).
- Of MCP: the tools themselves, the HTTP transport and what section 3 names.
- Document ingestion, heartbeat, issues and pull requests, audit log, model router,
  marketplace, pairing: sequential code over maps and files of one caller, or of
  one lock, whose tests reach its cases.
- The .px procedures and the orchestrator's heuristics (text in, text
  out, executed by an external engine), embeddings and ranking, headroom's
  compression of prompts, the privacy filter's expressions, the inference bindings,
  user interfaces, command lines, packaging. They are sequential, or their
  correctness is about text and numbers a model checker does not reach.
- `ForgettingEngine` is a library component: nothing in the repository constructs
  it outside its own tests and drill, so its callers in the model are the ones its
  interface allows.

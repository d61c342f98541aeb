------------------------------- MODULE SubTask -------------------------------
(***************************************************************************)
(* run_sub_task of the DelegationBroker: the model loop one delegated task *)
(* runs in a tokio task of its own, and the steering queue it drains at    *)
(* the start of every turn.                                                *)
(*                                                                         *)
(* The modules that start sub-tasks (SubAgentManager, DelegationBroker)    *)
(* extend this one.  They own the JoinSet, so they say when a worker may   *)
(* still run: a worker whose JoinSet was dropped is aborted at its next    *)
(* await (Reap), which a worker inside a poll has not reached yet.         *)
(***************************************************************************)
EXTENDS Naturals, Sequences

CONSTANTS
    Tasks,      \* identities of the sub-tasks
    Msgs,       \* steering messages, told apart by identity only
    MaxTurns    \* capabilities.max_turns of the agent definition

ASSUME MaxTurnsAssumption == MaxTurns \in Nat

VARIABLES
    worker,     \* where run_sub_task stands
    turn,       \* index of the model turn
    outcome,    \* SubTaskResult.output, once the worker is "done"
    queue,      \* the steering channel's shared Vec
    injected    \* steering messages pushed into the agent's context

workerVars == <<worker, turn, outcome, queue, injected>>

\* "text" and "blank" are Ok(output), blank meaning empty once trimmed; "late"
\* is a model error whose text contains "timed out"; "panic" is a JoinError.
Outcomes == {"text", "blank", "error", "late", "panic"}

WorkerStates ==
    {"none", "spawned", "turn", "model", "tools", "done", "gone"}

WorkerTypeOK ==
    /\ worker \in [Tasks -> WorkerStates]
    /\ turn \in [Tasks -> 0..MaxTurns]
    /\ \A t \in Tasks : worker[t] \in {"model", "tools"} => turn[t] < MaxTurns
    /\ outcome \in [Tasks -> Outcomes \cup {"none"}]
    /\ \A t \in Tasks : worker[t] = "done" => outcome[t] \in Outcomes
    /\ queue \in [Tasks -> Seq(Msgs)]
    /\ injected \in [Tasks -> Seq(Msgs)]

WorkerInit ==
    /\ worker = [t \in Tasks |-> "none"]
    /\ turn = [t \in Tasks |-> 0]
    /\ outcome = [t \in Tasks |-> "none"]
    /\ queue = [t \in Tasks |-> <<>>]
    /\ injected = [t \in Tasks |-> <<>>]

Live(t) == worker[t] \in {"spawned", "turn", "model", "tools"}

\* Suspended at an await: an abort takes effect before the next step.
Parked(t) == worker[t] \in {"spawned", "model", "tools"}

Finish(t, out) ==
    /\ worker' = [worker EXCEPT ![t] = "done"]
    /\ outcome' = [outcome EXCEPT ![t] = out]
    /\ UNCHANGED <<turn, queue, injected>>

\* JoinSet::spawn in delegate.
StartWorker(t) ==
    /\ worker[t] = "none"
    /\ worker' = [worker EXCEPT ![t] = "spawned"]
    /\ UNCHANGED <<turn, outcome, queue, injected>>

\* registry.get finds no such agent.
UnknownAgent(t) == worker[t] = "spawned" /\ Finish(t, "error")

\* The agent is known and tools.available_tools() has answered.
PrepareContext(t) ==
    /\ worker[t] = "spawned"
    /\ worker' = [worker EXCEPT ![t] = "turn"]
    /\ UNCHANGED <<turn, outcome, queue, injected>>

\* Mutant: the drain clones the queue instead of taking it.
BeginTurnClones(t) ==
    /\ worker[t] = "turn"
    /\ turn[t] < MaxTurns
    /\ injected' = [injected EXCEPT ![t] = @ \o queue[t]]
    /\ worker' = [worker EXCEPT ![t] = "model"]
    /\ UNCHANGED <<turn, outcome, queue>>

\* Mutant: one turn too many.
BeginTurnInclusive(t) ==
    /\ worker[t] = "turn"
    /\ turn[t] <= MaxTurns
    /\ injected' = [injected EXCEPT ![t] = @ \o queue[t]]
    /\ queue' = [queue EXCEPT ![t] = <<>>]
    /\ worker' = [worker EXCEPT ![t] = "model"]
    /\ UNCHANGED <<turn, outcome>>

\* Turn start: drain the steering queue into the context, call the model.
BeginTurn(t) ==
    /\ worker[t] = "turn"
    /\ turn[t] < MaxTurns
    /\ injected' = [injected EXCEPT ![t] = @ \o queue[t]]
    /\ queue' = [queue EXCEPT ![t] = <<>>]
    /\ worker' = [worker EXCEPT ![t] = "model"]
    /\ UNCHANGED <<turn, outcome>>

\* The for loop is over without a final answer.
ExhaustTurns(t) == worker[t] = "turn" /\ turn[t] = MaxTurns /\ Finish(t, "error")

\* The model gives its final text, or fails.
ModelAnswers(t) ==
    /\ worker[t] = "model"
    /\ \E out \in {"text", "blank", "error", "late"} : Finish(t, out)

\* The model asks for tools, which run before the next turn.
ModelCallsTools(t) ==
    /\ worker[t] = "model"
    /\ worker' = [worker EXCEPT ![t] = "tools"]
    /\ UNCHANGED <<turn, outcome, queue, injected>>

ToolsReturn(t) ==
    /\ worker[t] = "tools"
    /\ worker' = [worker EXCEPT ![t] = "turn"]
    /\ turn' = [turn EXCEPT ![t] = @ + 1]
    /\ UNCHANGED <<outcome, queue, injected>>

\* A model or tool implementation panics inside the worker.
Panic(t) == worker[t] \in {"model", "tools"} /\ Finish(t, "panic")

\* Mutant: dropping the set only cancels workers that have not started.
ReapUnstarted(t) ==
    /\ worker[t] = "spawned"
    /\ worker' = [worker EXCEPT ![t] = "gone"]
    /\ UNCHANGED <<turn, outcome, queue, injected>>

\* The JoinSet was dropped and the runtime destroys the worker.
Reap(t) ==
    /\ Live(t)
    /\ worker' = [worker EXCEPT ![t] = "gone"]
    /\ UNCHANGED <<turn, outcome, queue, injected>>

\* Steps of a worker that begin by resuming from an await.
Resume(t) ==
    \/ UnknownAgent(t) \/ PrepareContext(t)
    \/ ModelAnswers(t) \/ ModelCallsTools(t) \/ ToolsReturn(t) \/ Panic(t)

\* Steps taken inside a poll that is already running.
Continue(t) == BeginTurn(t) \/ ExhaustTurns(t)
=============================================================================

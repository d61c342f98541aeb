---------------------------- MODULE Conversations ----------------------------
(***************************************************************************)
(* The conversations of one channel label: the branches its commands open  *)
(* and switch between, the history the agent keeps of each in memory, the  *)
(* turn store behind it, and the turns that run over them concurrently.    *)
(* Every lock is taken for one step only, so turns and commands interleave *)
(* between their looks at the branches, the cache and the store.           *)
(*                                                                         *)
(* A turn is represented by the message it answers.  What the model and    *)
(* the tools do in it, and the compaction of a long window, are in         *)
(* AgentTurn; here every window is within the token budget.                *)
(***************************************************************************)
EXTENDS Integers, FiniteSets, SequencesExt

CONSTANTS
    Messages,       \* the messages sent to the channel
    Names,          \* names of branches
    Main,           \* the branch "main"
    Sessions,       \* "session-1", "session-2", ... : what /clear chooses from
    MaxRestarts     \* restarts and resets in a behaviour (a bound)

ASSUME ConversationsAssumption ==
    /\ Main \in Names
    /\ Sessions \in Seq(Names)
    /\ MaxRestarts \in Nat

VARIABLES
    active,     \* branch_state: the active branch
    branches,   \* branch_state: the branches that are listed
    cache,      \* conversation_history: the turns of each branch's window
    store,      \* the turn store's turns of each branch, oldest first
    turn,       \* the handling of each message
    sources,    \* history: the branches whose turns each branch may show
    restarts,   \* restarts and resets so far
    earlier     \* history: the messages of before the last restart or reset

vars == <<active, branches, cache, store, turn, sources, restarts, earlier>>

States ==
    {"new", "reading", "filling", "model", "seeding", "inserting", "stray", "done"}
Paths == {"dataflow", "model", "fork"}

Turns == [pc : States, path : Paths, branch : Names, seen : Seq(Messages)]

Idle(state, b) == [pc |-> state, path |-> "model", branch |-> b, seen |-> <<>>]

Init ==
    /\ active = Main /\ branches = {Main}
    /\ cache = [b \in Names |-> <<>>]
    /\ store = [b \in Names |-> <<>>]
    /\ turn = [m \in Messages |-> Idle("new", Main)]
    /\ sources = [b \in Names |-> {b}]
    /\ restarts = 0 /\ earlier = {}

-----------------------------------------------------------------------------
(* load_history: the cache's window, or else the store's turns.            *)

\* An empty window counts as none.
Look(m, path, b) ==
    turn' = [turn EXCEPT ![m] =
        [pc |-> IF cache[b] = <<>> THEN "reading" ELSE "model",
         path |-> path, branch |-> b, seen |-> cache[b]]]

\* A store that has no turns of the branch leaves the cache alone.
Read(m) ==
    LET rows == store[turn[m].branch]
    IN  /\ turn[m].pc = "reading"
        /\ turn' = [turn EXCEPT ![m].pc = IF rows = <<>> THEN "model" ELSE "filling",
                                ![m].seen = rows]
        /\ UNCHANGED <<active, branches, cache, store, sources, restarts, earlier>>

ReadFails(m) ==
    /\ turn[m].pc = "reading"
    /\ turn' = [turn EXCEPT ![m].pc = "model"]
    /\ UNCHANGED <<active, branches, cache, store, sources, restarts, earlier>>

\* Mutant: the rows are added to the window.
FillBehind(m) ==
    /\ turn[m].pc = "filling"
    /\ cache' = [cache EXCEPT ![turn[m].branch] = @ \o turn[m].seen]
    /\ turn' = [turn EXCEPT ![m].pc = "model"]
    /\ UNCHANGED <<active, branches, store, sources, restarts, earlier>>

Fill(m) ==
    /\ turn[m].pc = "filling"
    /\ cache' = [cache EXCEPT ![turn[m].branch] = turn[m].seen]
    /\ turn' = [turn EXCEPT ![m].pc = "model"]
    /\ UNCHANGED <<active, branches, store, sources, restarts, earlier>>

-----------------------------------------------------------------------------
(* A turn.                                                                 *)

\* The message joins the branch that is active when its handling starts.
\* The dataflow pipeline is asked first where it is configured.
Receive(m) ==
    /\ turn[m].pc = "new"
    /\ \E path \in {"dataflow", "model"} : Look(m, path, active)
    /\ UNCHANGED <<active, branches, cache, store, sources, restarts, earlier>>

\* The pipeline delivers nothing: the model's path looks the branch up again.
FallThrough(m) ==
    /\ turn[m].pc = "model" /\ turn[m].path = "dataflow"
    /\ Look(m, "model", active)
    /\ UNCHANGED <<active, branches, cache, store, sources, restarts, earlier>>

\* Mutant: the branch is looked up when the turn is kept.
KeepOnActive(m) ==
    /\ turn[m].pc = "model" /\ turn[m].path # "fork"
    /\ cache' = [cache EXCEPT ![active] = Append(@, m)]
    /\ turn' = [turn EXCEPT ![m].pc = "inserting", ![m].path = "model"]
    /\ UNCHANGED <<active, branches, store, sources, restarts, earlier>>

\* Mutant: the window starts anew with every turn.
KeepAlone(m) ==
    LET b == turn[m].branch
    IN  /\ turn[m].pc = "model" /\ turn[m].path # "fork"
        /\ cache' = [cache EXCEPT ![b] = <<m>>]
        /\ turn' = [turn EXCEPT ![m] = Idle("inserting", b)]
        /\ UNCHANGED <<active, branches, store, sources, restarts, earlier>>

\* persist_turn, first the cache and then the store.
Keep(m) ==
    LET b == turn[m].branch
    IN  /\ turn[m].pc = "model" /\ turn[m].path # "fork"
        /\ cache' = [cache EXCEPT ![b] = Append(@, m)]
        /\ turn' = [turn EXCEPT ![m] = Idle("inserting", b)]
        /\ UNCHANGED <<active, branches, store, sources, restarts, earlier>>

Insert(m) ==
    LET b == turn[m].branch
    IN  /\ turn[m].pc = "inserting"
        /\ store' = [store EXCEPT ![b] = Append(@, m)]
        /\ turn' = [turn EXCEPT ![m].pc = "done"]
        /\ UNCHANGED <<active, branches, cache, sources, restarts, earlier>>

\* The failure is logged only.
InsertFails(m) ==
    /\ turn[m].pc = "inserting"
    /\ turn' = [turn EXCEPT ![m].pc = "done"]
    /\ UNCHANGED <<active, branches, cache, store, sources, restarts, earlier>>

\* The model fails: the error is answered and the turn is not kept.
ModelFails(m) ==
    /\ turn[m].pc = "model" /\ turn[m].path = "model"
    /\ turn' = [turn EXCEPT ![m] = Idle("done", Main)]
    /\ UNCHANGED <<active, branches, cache, store, sources, restarts, earlier>>

\* The orchestrator drops the message, gives it to a procedure or delegates
\* it: no history is loaded and nothing is kept.
RouteElsewhere(m) ==
    /\ \/ turn[m].pc = "new"
       \/ turn[m].pc = "model" /\ turn[m].path = "dataflow"
    /\ turn' = [turn EXCEPT ![m] = Idle("done", Main)]
    /\ UNCHANGED <<active, branches, cache, store, sources, restarts, earlier>>

\* The caller's timeout drops the turn while it waits for the model.
DropTurn(m) ==
    /\ turn[m].pc = "model" /\ turn[m].path # "fork"
    /\ turn' = [turn EXCEPT ![m] = Idle("done", Main)]
    /\ UNCHANGED <<active, branches, cache, store, sources, restarts, earlier>>

-----------------------------------------------------------------------------
(* Commands.                                                               *)

\* Mutant: the session is not listed.
OpenUnlisted(name) ==
    /\ active' = name
    /\ UNCHANGED <<branches, cache, store, turn, sources, restarts, earlier>>

\* /session new and /session switch: any name, listed from now on.
OpenSession(name) ==
    /\ branches' = branches \union {name}
    /\ active' = name
    /\ UNCHANGED <<cache, store, turn, sources, restarts, earlier>>

\* /switch: only a name that is listed.
SwitchBranch(name) ==
    /\ name \in branches
    /\ active' = name
    /\ UNCHANGED <<branches, cache, store, turn, sources, restarts, earlier>>

\* Mutant: the number is the count of the branches.
NextByCount(k) == k = Cardinality(branches)

FirstUnlisted(k) ==
    /\ Sessions[k] \notin branches
    /\ \A j \in 1..(k - 1) : Sessions[j] \in branches

\* /clear: the first session-N that is not listed.
Clear ==
    \E k \in DOMAIN Sessions :
        /\ FirstUnlisted(k)
        /\ branches' = branches \union {Sessions[k]}
        /\ active' = Sessions[k]
        /\ UNCHANGED <<cache, store, turn, sources, restarts, earlier>>

\* /branch loads the active branch's history, ...
ReceiveFork(m) ==
    /\ turn[m].pc = "new"
    /\ Look(m, "fork", active)
    /\ UNCHANGED <<active, branches, cache, store, sources, restarts, earlier>>

\* ... then activates the new branch, ...
ForkBranch(m) ==
    /\ turn[m].pc = "model" /\ turn[m].path = "fork"
    /\ \E name \in Names :
        /\ branches' = branches \union {name}
        /\ active' = name
        /\ sources' = [sources EXCEPT ![name] = @ \union sources[turn[m].branch]]
        /\ turn' = [turn EXCEPT ![m].pc = "seeding", ![m].branch = name]
    /\ UNCHANGED <<cache, store, restarts, earlier>>

\* ... and gives it the history that was loaded.
SeedBranch(m) ==
    /\ turn[m].pc = "seeding"
    /\ cache' = [cache EXCEPT ![turn[m].branch] = turn[m].seen]
    /\ turn' = [turn EXCEPT ![m] = Idle("done", Main)]
    /\ UNCHANGED <<active, branches, store, sources, restarts, earlier>>

-----------------------------------------------------------------------------

\* What is in memory starts anew.
Forget ==
    /\ restarts < MaxRestarts
    /\ restarts' = restarts + 1
    /\ active' = Main /\ branches' = {Main}
    /\ cache' = [b \in Names |-> <<>>]
    /\ sources' = [b \in Names |-> {b}]
    /\ earlier' = {m \in Messages : turn[m].pc # "new"}
    /\ UNCHANGED store

\* The process restarts: only the store survives.
Restart ==
    /\ Forget
    /\ turn' = [m \in Messages |->
        IF turn[m].pc \in {"new", "done"} THEN turn[m]
        ELSE IF turn[m].pc = "inserting" THEN Idle("done", turn[m].branch)
        ELSE Idle("done", Main)]

\* /reset puts a new agent in the place of the old one, over the same store.
\* The turns in flight go on with the old agent's memory.
Reset ==
    /\ Forget
    /\ turn' = [m \in Messages |->
        IF turn[m].pc \in {"new", "done", "stray"} THEN turn[m]
        ELSE IF turn[m].path = "fork" THEN Idle("done", Main)
        ELSE [turn[m] EXCEPT !.pc = "stray", !.seen = <<>>]]

\* A turn of a replaced agent looks up that agent's active branch, which may
\* be any, if its pipeline delivered nothing, ...
StrayFallThrough(m) ==
    /\ turn[m].pc = "stray" /\ turn[m].path = "dataflow"
    /\ \E b \in Names :
        turn' = [turn EXCEPT ![m].path = "model", ![m].branch = b]
    /\ UNCHANGED <<active, branches, cache, store, sources, restarts, earlier>>

\* ... and reaches the store that both agents have.
StrayInsert(m) ==
    LET b == turn[m].branch
    IN  /\ turn[m].pc = "stray"
        /\ store' = [store EXCEPT ![b] = Append(@, m)]
        /\ turn' = [turn EXCEPT ![m] = Idle("done", b)]
        /\ UNCHANGED <<active, branches, cache, sources, restarts, earlier>>

StrayEnds(m) ==
    /\ turn[m].pc = "stray"
    /\ turn' = [turn EXCEPT ![m] = Idle("done", Main)]
    /\ UNCHANGED <<active, branches, cache, store, sources, restarts, earlier>>

HandleTurn(m) ==
    \/ Receive(m) \/ Read(m) \/ ReadFails(m) \/ Fill(m) \/ FallThrough(m)
    \/ Keep(m) \/ Insert(m) \/ InsertFails(m)
    \/ ModelFails(m) \/ RouteElsewhere(m) \/ DropTurn(m)
    \/ StrayFallThrough(m) \/ StrayInsert(m) \/ StrayEnds(m)

Next ==
    \/ \E m \in Messages : HandleTurn(m)
    \/ \E m \in Messages : ReceiveFork(m) \/ ForkBranch(m) \/ SeedBranch(m)
    \/ \E name \in Names : OpenSession(name) \/ SwitchBranch(name)
    \/ Clear
    \/ Restart \/ Reset

Spec == Init /\ [][Next]_vars

-----------------------------------------------------------------------------
(* Properties                                                              *)

\* Every variable stays in its type; in particular the active branch is
\* always one that the lists show.
TypeOK ==
    /\ branches \in SUBSET Names /\ active \in branches
    /\ cache \in [Names -> Seq(Messages)]
    /\ store \in [Names -> Seq(Messages)]
    /\ turn \in [Messages -> Turns]
    /\ sources \in [Names -> SUBSET Names]
    /\ restarts \in 0..MaxRestarts /\ earlier \in SUBSET Messages

Shown(b) == Range(cache[b])
Stored(b) == Range(store[b])

\* No history holds a turn twice, although load_history may read the store
\* and fill the window while a turn is between the cache and the store.
NoTurnTwice ==
    \A b \in Names : IsInjective(cache[b]) /\ IsInjective(store[b])

\* A turn is kept with the conversation it was asked in: persist_turn stores
\* it on the branch whose history its prompt was built from, whatever branch
\* is active by then and also if its agent was replaced meanwhile, and a window
\* or a prompt shows only turns of its branch and of those it was forked from.
KeptWhereAsked ==
    /\ \A b \in Names :
        /\ \A m \in Stored(b) : turn[m].branch = b
        /\ \A m \in Shown(b) : turn[m].branch \in sources[b]
    /\ \A m \in Messages : \A n \in Range(turn[m].seen) :
        turn[n].branch \in sources[turn[m].branch]

\* The turns that b has in the store or is about to have.
Kept(b) ==
    Stored(b) \union
    {m \in Messages : turn[m].pc = "inserting" /\ turn[m].branch = b}

Whole(b) == cache[b] = <<>> \/ Kept(b) \subseteq Shown(b)

\* The window is filled with rows that were read before a turn was kept.
StaleFill(m) == Fill(m) /\ ~(Kept(turn[m].branch) \subseteq Range(turn[m].seen))

\* A turn that was started without the history, or before a fork emptied the
\* window, makes a window of its own.
BlindKeep(m) == Keep(m) /\ cache[turn[m].branch] = <<>>

\* /branch gives a branch that has turns already the history of another one.
SeedOver(m) == SeedBranch(m) /\ Kept(turn[m].branch) # {}

\* A window shows every turn its branch keeps, and stops doing so in four cases
\* only: a fill that overlaps a turn, a turn that starts a window of its own, a
\* /branch onto a branch that has turns, and a turn that outlives its agent.
\* load_history and persist_turn never lose a turn from a window otherwise.
WindowsStayWhole ==
    [][\A b \in Names : Whole(b) /\ ~Whole(b)' =>
        \E m \in Messages :
            StaleFill(m) \/ BlindKeep(m) \/ SeedOver(m) \/ StrayInsert(m)]_vars

\* The turns and forks in progress that read or write b's window.  A turn that
\* falls through, and a fork that has not activated its branch yet, may still
\* turn to another branch.
Bound(b) ==
    {m \in Messages :
        turn[m].branch = b /\ turn[m].pc \notin {"new", "stray", "done"}}

\* /clear starts a session that nothing of this life of the agent has used, after
\* whatever switches, named sessions and forks: it has no window, no turn or fork
\* in progress is bound to it, nothing was forked onto it, and the turns it has
\* in the store, if any, are of before the last restart or reset, which forgets
\* the list of sessions.  Those come back (load_history), and a turn or a fork in
\* progress may still turn to the session afterwards.
ClearIsFresh ==
    [][Clear => /\ cache[active'] = <<>> /\ Bound(active') = {}
                /\ sources[active'] = {active'}
                /\ Stored(active') \subseteq earlier]_vars

=============================================================================

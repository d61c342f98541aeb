------------------------------ MODULE McpHost ------------------------------
(***************************************************************************)
(* The desktop application's MCP servers: start_mcp_servers at launch and  *)
(* at every restart, and the tool calls of the agent and of the window,    *)
(* through one McpClient per server over StdioTransport.                   *)
(*                                                                         *)
(* All clients are behind one mutex.  A start holds it while it spawns and *)
(* initialises one server after the other, a call while it waits for its   *)
(* answer.  The list of tools has a lock of its own, and which servers are *)
(* enabled is read before the mutex is taken; the settings may change at   *)
(* any time.  A client takes the next line of its server for the answer    *)
(* and compares the ids.                                                   *)
(***************************************************************************)
EXTENDS McpServer

CONSTANTS
    Servers, Order,    \* names of servers, and the name of each configuration
    Starters, Startup, \* runs of start_mcp_servers: at launch, and restarts
    Calls, ToolOf,     \* tool calls and the tool each asks for
    Provides           \* tools of each server

ASSUME McpHostAssumption ==
    /\ Order \in Seq(Servers)
    /\ Startup \in Starters
    /\ Procs = Starters \X DOMAIN Order
    /\ Askers = Starters \cup Calls /\ Starters \cap Calls = {}
    /\ DOMAIN ToolOf = Calls /\ DOMAIN Provides = Servers
    /\ None \notin Servers \cup Procs

VARIABLES
    clients,  \* the process each server's client is connected to
    tools,    \* servers whose tools are listed, in order
    lock,     \* who holds the mutex of the clients
    nextId,   \* next request id of each process's client
    starter,  \* where each start stands
    call      \* where each call stands

hostVars == <<clients, tools, lock, nextId, starter, call>>
vars == <<serverVars, hostVars>>

StartPhases == {"idle", "stop", "unlist", "configs", "lock", "spawn", "init", "list", "done"}
CallPhases == {"new", "lock", "wait", "ok", "mismatch", "broken", "not_connected", "no_tool"}

TypeOK ==
    /\ ServerTypeOK
    /\ clients \in [Servers -> Procs \cup {None}]
    /\ tools \in Seq(Servers)
    /\ lock \in Askers \cup {None}
    /\ nextId \in [Procs -> Nat]
    /\ starter \in [Starters -> [pc : StartPhases, todo : SUBSET DOMAIN Order,
                               at : DOMAIN Order \cup {0}, found : Seq(Servers)]]
    /\ call \in [Calls -> [pc : CallPhases, server : Servers \cup {None},
                           proc : Procs \cup {None}, id : Nat, got : Askers \cup {None}]]

Init ==
    /\ ServerInit
    /\ clients = [s \in Servers |-> None]
    /\ tools = <<>>
    /\ lock = None
    /\ nextId = [p \in Procs |-> 1]
    /\ starter = [r \in Starters |->
          [pc |-> IF r = Startup THEN "configs" ELSE "idle", todo |-> {}, at |-> 0, found |-> <<>>]]
    /\ call = [c \in Calls |->
          [pc |-> "new", server |-> None, proc |-> None, id |-> 0, got |-> None]]

-----------------------------------------------------------------------------
(* The client's end of the pipes.                                          *)

\* What is left of a value per process once the transports of ps are dropped:
\* the processes are killed and their pipes are gone.
Dropped(f, ps, empty) == [p \in Procs |-> IF p \in ps THEN empty ELSE f[p]]

Drop(ps) ==
    /\ alive' = alive \ ps
    /\ stdin' = Dropped(stdin, ps, <<>>)
    /\ stdout' = Dropped(stdout, ps, <<>>)
    /\ busy' = Dropped(busy, ps, None)
    /\ completions' = Dropped(completions, ps, 0)
    /\ notes' = Dropped(notes, ps, 0)
    /\ UNCHANGED <<sent, written>>

Connected == {clients[s] : s \in Servers} \ {None}

\* Mutant: the end of the output is not taken for an error.
WaitsPastEof(p) == stdout[p] # <<>>

\* read_line returns a line, or zero bytes once the process is gone.
LineRead(p) == stdout[p] # <<>> \/ p \notin alive

\* Mutant: the ids are not compared.
AnswersAny(p, id) == stdout[p] # <<>> /\ Head(stdout[p]) # NoteLine

\* The line is a response and has the id of the request.
Answers(p, id) == stdout[p] # <<>> /\ Head(stdout[p]).id = id

-----------------------------------------------------------------------------
(* restart_mcp_servers and start_mcp_servers.                              *)

At(r, pc) == starter[r].pc = pc
Goto(r, pc) == starter' = [starter EXCEPT ![r].pc = pc]
Current(r) == <<r, starter[r].at>>

\* The configuration that is next in the order of the settings.
NextConfig(r, i) == i \in starter[r].todo /\ \A j \in starter[r].todo : i <= j

BeginRestart(r) ==
    /\ At(r, "idle")
    /\ Goto(r, "stop")
    /\ UNCHANGED <<serverVars, clients, tools, lock, nextId, call>>

StopAll(r) ==
    /\ At(r, "stop") /\ lock = None
    /\ Drop(Connected)
    /\ clients' = [s \in Servers |-> None]
    /\ Goto(r, "unlist")
    /\ UNCHANGED <<tools, lock, nextId, call>>

Unlist(r) ==
    /\ At(r, "unlist")
    /\ tools' = <<>>
    /\ Goto(r, "configs")
    /\ UNCHANGED <<serverVars, clients, lock, nextId, call>>

\* The enabled configurations.  Without one start_mcp_servers returns here.
ReadConfigs(r) ==
    /\ At(r, "configs")
    /\ \E enabled \in SUBSET DOMAIN Order :
          starter' = [starter EXCEPT
              ![r].pc = IF enabled = {} THEN "done" ELSE "lock", ![r].todo = enabled]
    /\ UNCHANGED <<serverVars, clients, tools, lock, nextId, call>>

LockClients(r) ==
    /\ At(r, "lock") /\ lock = None
    /\ lock' = r
    /\ Goto(r, "spawn")
    /\ UNCHANGED <<serverVars, clients, tools, nextId, call>>

\* The process is spawned and the initialize request written.
Spawn(r) ==
    /\ At(r, "spawn")
    /\ \E i \in DOMAIN Order :
          /\ NextConfig(r, i)
          /\ LET p == <<r, i>> IN
                /\ alive' = alive \cup {p}
                /\ stdin' = [stdin EXCEPT ![p] = <<Request(nextId[p], "initialize", r)>>]
                /\ nextId' = [nextId EXCEPT ![p] = @ + 1]
          /\ starter' = [starter EXCEPT ![r].pc = "init", ![r].at = i, ![r].todo = @ \ {i}]
    /\ UNCHANGED <<stdout, busy, completions, notes, sent, written,
                   clients, tools, lock, call>>

SpawnFails(r) ==
    /\ At(r, "spawn")
    /\ \E i \in DOMAIN Order :
          NextConfig(r, i) /\ starter' = [starter EXCEPT ![r].todo = @ \ {i}]
    /\ UNCHANGED <<serverVars, clients, tools, lock, nextId, call>>

\* The answer to initialize; the notification and the request for the tools
\* are written.
Initialize(r) ==
    /\ At(r, "init")
    /\ LET p == Current(r) IN
          /\ Answers(p, nextId[p] - 1) /\ p \in alive
          /\ stdout' = [stdout EXCEPT ![p] = Tail(@)]
          /\ stdin' = [stdin EXCEPT ![p] = @ \o
                <<Request(0, "notifications/initialized", r), Request(nextId[p], "tools/list", r)>>]
          /\ nextId' = [nextId EXCEPT ![p] = @ + 1]
    /\ Goto(r, "list")
    /\ UNCHANGED <<alive, busy, completions, notes, sent, written,
                   clients, tools, lock, call>>

\* Mutant: the client a server already has is kept and the new one lost.
ConnectBeside(r) ==
    /\ At(r, "list")
    /\ LET p == Current(r)  s == Order[starter[r].at] IN
          /\ Answers(p, nextId[p] - 1)
          /\ clients' = [clients EXCEPT ![s] = IF @ = None THEN p ELSE @]
          /\ stdout' = [stdout EXCEPT ![p] = Tail(@)]
          /\ starter' = [starter EXCEPT ![r].pc = "spawn", ![r].found = Append(@, s)]
    /\ UNCHANGED <<alive, stdin, busy, completions, notes, sent, written,
                   tools, lock, nextId, call>>

\* The tools are known: the client is inserted, and the one it replaces, which
\* a concurrent start has inserted, is dropped.
Connect(r) ==
    /\ At(r, "list")
    /\ LET p == Current(r)  s == Order[starter[r].at]  old == {clients[s]} IN
          /\ Answers(p, nextId[p] - 1)
          /\ clients' = [clients EXCEPT ![s] = p]
          /\ alive' = alive \ old
          /\ stdin' = Dropped(stdin, old, <<>>)
          /\ stdout' = Dropped([stdout EXCEPT ![p] = Tail(@)], old, <<>>)
          /\ busy' = Dropped(busy, old, None)
          /\ completions' = Dropped(completions, old, 0)
          /\ notes' = Dropped(notes, old, 0)
          /\ starter' = [starter EXCEPT ![r].pc = "spawn", ![r].found = Append(@, s)]
    /\ UNCHANGED <<sent, written, tools, lock, nextId, call>>

\* Another line, or none: the server is given up, and its process killed.
GiveUp(r) ==
    /\ At(r, "init") \/ At(r, "list")
    /\ LET p == Current(r) IN
          /\ LineRead(p)
          /\ ~Answers(p, nextId[p] - 1) \/ (At(r, "init") /\ p \notin alive)
          /\ Drop({p})
    /\ Goto(r, "spawn")
    /\ UNCHANGED <<clients, tools, lock, nextId, call>>

\* Mutant: the mutex is released before the tools are listed.
ReleaseFirst(r) ==
    \/ /\ At(r, "spawn") /\ starter[r].todo = {} /\ lock = r
       /\ lock' = None
       /\ UNCHANGED <<serverVars, clients, tools, nextId, starter, call>>
    \/ /\ At(r, "spawn") /\ starter[r].todo = {} /\ lock # r
       /\ tools' = starter[r].found
       /\ Goto(r, "done")
       /\ UNCHANGED <<serverVars, clients, lock, nextId, call>>

\* The tools are listed, still under the mutex of the clients.
ListTools(r) ==
    /\ At(r, "spawn") /\ starter[r].todo = {}
    /\ tools' = starter[r].found
    /\ lock' = None
    /\ Goto(r, "done")
    /\ UNCHANGED <<serverVars, clients, nextId, call>>

-----------------------------------------------------------------------------
(* call_tool.                                                              *)

Owners(t) == {i \in DOMAIN tools : t \in Provides[tools[i]]}

\* The first listed server that provides the tool.  Without one a call of the
\* window returns, and one of the agent still waits for the mutex.
Route(c) ==
    /\ call[c].pc = "new"
    /\ LET owners == Owners(ToolOf[c]) IN
          \/ \E i \in owners :
                /\ \A j \in owners : i <= j
                /\ call' = [call EXCEPT ![c].pc = "lock", ![c].server = tools[i]]
          \/ /\ owners = {}
             /\ \E pc \in {"no_tool", "lock"} : call' = [call EXCEPT ![c].pc = pc]
    /\ UNCHANGED <<serverVars, clients, tools, lock, nextId, starter>>

HasClient(c) == call[c].server # None /\ clients[call[c].server] # None

\* The mutex is taken, but there is no client to ask.
CannotSend(c) ==
    /\ call[c].pc = "lock" /\ lock = None
    /\ ~HasClient(c)
    /\ call' = [call EXCEPT ![c].pc = IF call[c].server = None THEN "no_tool" ELSE "not_connected"]
    /\ UNCHANGED <<serverVars, clients, tools, lock, nextId, starter>>

\* The request is written; to a process that is gone it cannot be.
Send(c) ==
    /\ call[c].pc = "lock" /\ lock = None
    /\ HasClient(c)
    /\ LET p == clients[call[c].server] IN
          /\ nextId' = [nextId EXCEPT ![p] = @ + 1]
          /\ IF p \in alive
             THEN /\ stdin' = [stdin EXCEPT ![p] = Append(@, Request(nextId[p], "tools/call", c))]
                  /\ lock' = c
                  /\ call' = [call EXCEPT ![c].pc = "wait", ![c].proc = p, ![c].id = nextId[p]]
             ELSE /\ call' = [call EXCEPT ![c].pc = "broken"]
                  /\ UNCHANGED <<stdin, lock>>
    /\ UNCHANGED <<alive, stdout, busy, completions, notes, sent, written,
                   clients, tools, starter>>

\* One line is read, whatever it is.
Receive(c) ==
    /\ call[c].pc = "wait"
    /\ LET p == call[c].proc IN
          /\ LineRead(p)
          /\ IF stdout[p] = <<>>
             THEN call' = [call EXCEPT ![c].pc = "broken"] /\ UNCHANGED stdout
             ELSE /\ stdout' = [stdout EXCEPT ![p] = Tail(@)]
                  /\ call' = [call EXCEPT ![c].got = Head(stdout[p]).of,
                        ![c].pc = IF Answers(p, call[c].id) THEN "ok" ELSE "mismatch"]
    /\ lock' = None
    /\ UNCHANGED <<alive, stdin, busy, completions, notes, sent, written,
                   clients, tools, nextId, starter>>

-----------------------------------------------------------------------------
StartStep(r) ==
    \/ StopAll(r) \/ Unlist(r) \/ ReadConfigs(r) \/ LockClients(r)
    \/ Spawn(r) \/ SpawnFails(r) \/ Initialize(r) \/ Connect(r) \/ GiveUp(r) \/ ListTools(r)

CallStep(c) == CannotSend(c) \/ Send(c) \/ Receive(c)

Next ==
    \/ \E p \in Procs : ServerStep(p) /\ UNCHANGED hostVars
    \/ \E r \in Starters : BeginRestart(r) \/ StartStep(r)
    \/ \E c \in Calls : Route(c) \/ CallStep(c)

Spec == Init /\ [][Next]_vars

\* What has begun goes on; servers handle what is not a tool call, and write
\* what they have.  A tool may run for ever, and nobody has to begin anything.
Fairness ==
    /\ \A r \in Starters : WF_vars(StartStep(r))
    /\ \A c \in Calls : WF_vars(CallStep(c))
    /\ \A p \in Procs :
          /\ WF_vars(UNCHANGED hostVars /\ TakeLine(p))
          /\ WF_vars(UNCHANGED hostVars /\ PushNote(p))
          /\ WF_vars(UNCHANGED hostVars /\ Forward(p))
          /\ WF_vars(UNCHANGED hostVars /\ Respond(p) /\ busy[p].method # "tools/call")

FairSpec == Spec /\ Fairness

-----------------------------------------------------------------------------
(* Properties.                                                             *)

\* A call that succeeds has the answer to its own request, however many lines
\* its client is behind: the id is compared in McpClient::call.
OwnAnswers == \A c \in Calls : call[c].pc = "ok" => call[c].got = c

UnderWay == {r \in Starters : starter[r].pc \notin {"idle", "done"}}

\* Once no start is under way every listed tool belongs to a server that has a
\* client, however starts and restarts have overlapped: the list is replaced
\* under the mutex of the clients (mcp.rs:76).
ListedAreConnected ==
    UnderWay = {} => \A i \in DOMAIN tools : clients[tools[i]] # None

\* A process that runs belongs to a client, or to the start that initialises
\* it: overlapping starts leave no server behind (StdioTransport::drop).
NoStrayServer ==
    alive \subseteq Connected \cup
        {Current(r) : r \in {x \in Starters : At(x, "init") \/ At(x, "list")}}

ToolRuns == \E p \in alive : busy[p] # None /\ busy[p].method = "tools/call"

\* Starts and calls that have begun end, whatever servers fail, fall behind or
\* exit, unless a tool runs for ever: then its call keeps the mutex.
EverythingEnds ==
    []<>~ToolRuns =>
        /\ \A r \in Starters : (starter[r].pc # "idle") ~> At(r, "done")
        /\ \A c \in Calls : (call[c].pc = "lock") ~> (call[c].pc \notin {"lock", "wait"})

\* A completion event or a change of the tools is written to the client, unless
\* the process ends before or a tool runs for ever (server.rs:137).
NotesAreWritten ==
    []<>~ToolRuns =>
        \A p \in Procs : \A n \in 1..MaxEvents :
            (p \in alive /\ sent[p] = n) ~> (written[p] >= n \/ p \notin alive)
=============================================================================

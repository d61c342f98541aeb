---------------------------- MODULE McpHostProofs ----------------------------
(***************************************************************************)
(* Proofs about McpHost, for any configurations, starts, calls and tools,  *)
(* and any number of notifications.  Everything rests on the mutex of the  *)
(* clients and on what a process has not had yet: before its start spawns  *)
(* it its pipes are empty, and a line never has an id of its future.       *)
(***************************************************************************)
EXTENDS McpHost, SequenceTheorems, TLAPS

USE McpServerAssumption

Initialising == {"init", "list"}
Holding == {"spawn"} \cup Initialising
Before == {"idle", "stop", "unlist", "configs"}

\* The mutex is held by the start that connects servers, or by the call that
\* waits for its answer.
LockInv ==
    /\ \A r \in Starters : starter[r].pc \in Holding <=> lock = r
    /\ \A c \in Calls : call[c].pc = "wait" <=> lock = c

\* Every event is on its way or written: the counters cannot exceed their bound.
CountInv == \A p \in Procs : completions[p] + notes[p] + written[p] <= sent[p]

\* The start of p has not come to its configuration yet.
Unspawned(p) == starter[p[1]].pc \in Before \/ p[2] \in starter[p[1]].todo

\* Such a process does not exist, and one that is initialised has no client.
SpawnInv ==
    /\ \A p \in Procs : Unspawned(p) =>
          /\ p \notin alive /\ p \notin Connected
          /\ stdin[p] = <<>> /\ stdout[p] = <<>> /\ busy[p] = None
    /\ \A r \in Starters : At(r, "init") \/ At(r, "list") =>
          /\ starter[r].at \in DOMAIN Order \ starter[r].todo
          /\ Current(r) \notin Connected

Elements(s) == {s[i] : i \in DOMAIN s}

\* The requests the server of p has not answered, and the lines it has written.
Pending(p) == Elements(stdin[p]) \cup ({busy[p]} \ {None})
Unread(p) == Elements(stdout[p])

\* No line has an id that is still to be given out, and the id of a call that
\* waits is on no line but its own request and the answer to it.
LineIds ==
    \A p \in Procs :
        /\ nextId[p] > 0
        /\ \A q \in Pending(p) : q.id < nextId[p]
        /\ \A l \in Unread(p) : l.id < nextId[p]

CallIds ==
    \A c \in Calls : call[c].pc = "wait" =>
        /\ call[c].id \in 1..(nextId[call[c].proc] - 1)
        /\ \A q \in Pending(call[c].proc) : q.id = call[c].id => q.by = c
        /\ \A l \in Unread(call[c].proc) : l.id = call[c].id => l.of = c

IdInv == LineIds /\ CallIds

\* The clients of the servers found so far are there, and those of the listed
\* ones unless a restart has cleared them and clears the list next.
ToolInv ==
    /\ \A r \in Starters : starter[r].pc \in Before \cup {"lock"} => starter[r].found = <<>>
    /\ \A r \in Starters : starter[r].pc \in Holding =>
          \A i \in DOMAIN starter[r].found : clients[starter[r].found[i]] # None
    /\ \/ \E r \in Starters : At(r, "unlist")
       \/ \A i \in DOMAIN tools : clients[tools[i]] # None

\* A call waits for the process its server's client is connected to.
KeptInv ==
    \A c \in Calls : call[c].pc = "wait" =>
        /\ call[c].server \in Servers /\ call[c].proc \in Procs
        /\ clients[call[c].server] = call[c].proc

IInv == /\ TypeOK /\ LockInv /\ CountInv /\ SpawnInv /\ IdInv /\ ToolInv /\ KeptInv
        /\ OwnAnswers /\ NoStrayServer

-----------------------------------------------------------------------------
(* Types.                                                                  *)

LEMMA InitType == Init => TypeOK
BY DEF Init, ServerInit, TypeOK, ServerTypeOK, StartPhases, CallPhases

LEMMA RequestType ==
    ASSUME NEW id \in Nat, NEW method \in Methods, NEW by \in Askers
    PROVE  Request(id, method, by) \in Requests
BY DEF Request, Requests

LEMMA AnswerType ==
    /\ \A q \in Requests : AnswerTo(q) \in Lines /\ q \in [id : Nat, method : Methods, by : Askers]
    /\ NoteLine \in Lines
BY DEF AnswerTo, NoteLine, Requests, Lines

\* Dropping transports keeps the pipes well typed.
LEMMA DropType ==
    ASSUME NEW ps, ServerTypeOK, Drop(ps)
    PROVE  ServerTypeOK'
BY DEF ServerTypeOK, Drop, Dropped

\* A step of a server keeps its pipes and counters well typed.
LEMMA ServerType ==
    ASSUME ServerTypeOK, CountInv, NEW p \in Procs, ServerStep(p)
    PROVE  ServerTypeOK' /\ CountInv'
<1> USE DEF ServerTypeOK, CountInv
<1>1. CASE TakeLine(p)
  <2>1. Tail(stdin[p]) \in Seq(Requests) /\ Head(stdin[p]) \in Requests
    BY <1>1, HeadTailProperties DEF TakeLine
  <2> QED
    BY <1>1, <2>1 DEF TakeLine
<1>n. /\ notes[p] \in 0..MaxEvents /\ completions[p] \in 0..MaxEvents
      /\ sent[p] \in 0..MaxEvents /\ written[p] \in 0..MaxEvents
      /\ completions[p] + notes[p] + written[p] <= sent[p]
  OBVIOUS
<1>2. CASE Respond(p)
  <2>1. AnswerTo(busy[p]) \in Lines
    BY <1>2, AnswerType DEF Respond
  <2>2. Append(stdout[p], AnswerTo(busy[p])) \in Seq(Lines)
    BY <2>1
  <2>3. PICK changes \in 0..1 :
          /\ changes = 1 => sent[p] < MaxEvents
          /\ notes' = [notes EXCEPT ![p] = @ + changes]
          /\ sent' = [sent EXCEPT ![p] = @ + changes]
    BY <1>2 DEF Respond
  <2>4. /\ stdout' \in [Procs -> Seq(Lines)] /\ busy' \in [Procs -> Requests \cup {None}]
        /\ UNCHANGED <<alive, stdin, completions, written>>
    BY <1>2, <2>2 DEF Respond
  <2>5. sent[p] + changes \in 0..MaxEvents /\ notes[p] + changes \in 0..MaxEvents
    BY <2>3, <1>n
  <2>6. ServerTypeOK'
    BY <2>3, <2>4, <2>5
  <2>7. CountInv'
    BY <2>3, <2>4, <1>n
  <2> QED
    BY <2>6, <2>7
<1>3. CASE PushNote(p)
  <2>1. Append(stdout[p], NoteLine) \in Seq(Lines)
    BY AnswerType
  <2>2. notes[p] - 1 \in 0..MaxEvents /\ written[p] + 1 \in 0..MaxEvents
    BY <1>3, <1>n DEF PushNote
  <2>3. /\ notes' = [notes EXCEPT ![p] = notes[p] - 1]
        /\ stdout' = [stdout EXCEPT ![p] = Append(stdout[p], NoteLine)]
        /\ written' = [written EXCEPT ![p] = written[p] + 1]
        /\ UNCHANGED <<alive, stdin, busy, completions, sent>>
    BY <1>3 DEF PushNote
  <2>4. ServerTypeOK'
    BY <2>1, <2>2, <2>3
  <2>5. CountInv'
    BY <2>3, <1>n
  <2> QED
    BY <2>4, <2>5
<1>4. CASE Complete(p)
  <2>1. completions[p] + 1 \in 0..MaxEvents /\ sent[p] + 1 \in 0..MaxEvents
    BY <1>4, <1>n DEF Complete
  <2>2. /\ completions' = [completions EXCEPT ![p] = completions[p] + 1]
        /\ sent' = [sent EXCEPT ![p] = sent[p] + 1]
        /\ UNCHANGED <<alive, stdin, stdout, busy, notes, written>>
    BY <1>4 DEF Complete
  <2>3. ServerTypeOK'
    BY <2>1, <2>2
  <2>4. CountInv'
    BY <2>2, <1>n
  <2> QED
    BY <2>3, <2>4
<1>5. CASE Forward(p)
  <2>1. completions[p] - 1 \in 0..MaxEvents /\ notes[p] + 1 \in 0..MaxEvents
    BY <1>5, <1>n DEF Forward
  <2>2. /\ completions' = [completions EXCEPT ![p] = completions[p] - 1]
        /\ notes' = [notes EXCEPT ![p] = notes[p] + 1]
        /\ UNCHANGED <<alive, stdin, stdout, busy, sent, written>>
    BY <1>5 DEF Forward
  <2>3. ServerTypeOK'
    BY <2>1, <2>2
  <2>4. CountInv'
    BY <2>2, <1>n
  <2> QED
    BY <2>3, <2>4
<1>6. CASE Exit(p)
  BY <1>6 DEF Exit
<1> QED
  BY <1>1, <1>2, <1>3, <1>4, <1>5, <1>6 DEF ServerStep

StarterType == [pc : StartPhases, todo : SUBSET DOMAIN Order,
                at : DOMAIN Order \cup {0}, found : Seq(Servers)]
CallType == [pc : CallPhases, server : Servers \cup {None},
             proc : Procs \cup {None}, id : Nat, got : Askers \cup {None}]

\* A start changes only its own record, and a call its own.
LEMMA StarterType1 ==
    ASSUME NEW r \in Starters, starter \in [Starters -> StarterType]
    PROVE  /\ \A pc \in StartPhases : [starter EXCEPT ![r].pc = pc] \in [Starters -> StarterType]
           /\ \A pc \in StartPhases, todo \in SUBSET DOMAIN Order :
                 [starter EXCEPT ![r].pc = pc, ![r].todo = todo] \in [Starters -> StarterType]
           /\ \A pc \in StartPhases, at \in DOMAIN Order, todo \in SUBSET DOMAIN Order :
                 [starter EXCEPT ![r].pc = pc, ![r].at = at, ![r].todo = todo]
                    \in [Starters -> StarterType]
           /\ \A todo \in SUBSET DOMAIN Order :
                 [starter EXCEPT ![r].todo = todo] \in [Starters -> StarterType]
           /\ \A pc \in StartPhases, s \in Servers :
                 [starter EXCEPT ![r].pc = pc, ![r].found = Append(@, s)]
                    \in [Starters -> StarterType]
<1> DEFINE x == starter[r]
<1>1. x \in StarterType
  OBVIOUS
<1>2. /\ \A pc \in StartPhases : [x EXCEPT !.pc = pc] \in StarterType
      /\ \A pc \in StartPhases, todo \in SUBSET DOMAIN Order :
            [x EXCEPT !.pc = pc, !.todo = todo] \in StarterType
  BY <1>1 DEF StarterType
<1>3. \A pc \in StartPhases, at \in DOMAIN Order, todo \in SUBSET DOMAIN Order :
         [x EXCEPT !.pc = pc, !.at = at, !.todo = todo] \in StarterType
  BY <1>1 DEF StarterType
<1>4. \A todo \in SUBSET DOMAIN Order : [x EXCEPT !.todo = todo] \in StarterType
  BY <1>1 DEF StarterType
<1>5. \A pc \in StartPhases, s \in Servers :
         [x EXCEPT !.pc = pc, !.found = Append(@, s)] \in StarterType
  <2>1. \A s \in Servers : Append(x.found, s) \in Seq(Servers)
    BY <1>1 DEF StarterType
  <2>2. \A pc \in StartPhases, found \in Seq(Servers) :
           [x EXCEPT !.pc = pc, !.found = found] \in StarterType
    BY <1>1 DEF StarterType
  <2> QED
    BY <2>1, <2>2
<1> QED
  BY <1>2, <1>3, <1>4, <1>5

\* Every step of a start keeps the variables well typed.
LEMMA StartType ==
    ASSUME TypeOK, SpawnInv, NEW r \in Starters, BeginRestart(r) \/ StartStep(r)
    PROVE  TypeOK'
<1>t. /\ ServerTypeOK /\ clients \in [Servers -> Procs \cup {None}] /\ tools \in Seq(Servers)
      /\ lock \in Askers \cup {None} /\ nextId \in [Procs -> Nat]
      /\ starter \in [Starters -> StarterType] /\ call \in [Calls -> CallType]
  BY DEF TypeOK, StarterType, CallType
<1>r. starter \in [Starters -> StarterType]
  BY <1>t
<1>p. /\ starter[r].todo \in SUBSET DOMAIN Order /\ starter[r].found \in Seq(Servers)
  BY <1>t DEF StarterType
<1>o. /\ \A i \in DOMAIN Order : Order[i] \in Servers /\ <<r, i>> \in Procs
      /\ r \in Askers
  BY McpHostAssumption
<1> SUFFICES /\ ServerTypeOK' /\ clients' \in [Servers -> Procs \cup {None}]
             /\ tools' \in Seq(Servers) /\ lock' \in Askers \cup {None}
             /\ nextId' \in [Procs -> Nat] /\ starter' \in [Starters -> StarterType]
             /\ call' \in [Calls -> CallType]
  BY DEF TypeOK, StarterType, CallType
<1> DEFINE Same == UNCHANGED <<alive, stdin, stdout, busy, completions, notes, sent, written>>
<1>s. Same => ServerTypeOK'
  BY <1>t DEF ServerTypeOK
<1>u. ASSUME NEW pc \in StartPhases, Goto(r, pc) PROVE starter' \in [Starters -> StarterType]
  <2>1. starter' = [starter EXCEPT ![r].pc = pc]
    BY <1>u DEF Goto
  <2>2. [starter EXCEPT ![r].pc = pc] \in [Starters -> StarterType]
    BY <1>t, StarterType1
  <2> QED
    BY <2>1, <2>2
<1>1. CASE BeginRestart(r)
  BY <1>1, <1>t, <1>s, <1>u DEF BeginRestart, serverVars, StartPhases
<1>2. CASE StopAll(r)
  BY <1>2, <1>t, <1>u, DropType DEF StopAll, StartPhases
<1>3. CASE Unlist(r)
  BY <1>3, <1>t, <1>s, <1>u DEF Unlist, serverVars, StartPhases
<1>4. CASE ReadConfigs(r)
  <2>1. PICK enabled \in SUBSET DOMAIN Order :
           starter' = [starter EXCEPT
              ![r].pc = IF enabled = {} THEN "done" ELSE "lock", ![r].todo = enabled]
    BY <1>4 DEF ReadConfigs
  <2> DEFINE pc == IF enabled = {} THEN "done" ELSE "lock"
  <2>2. pc \in StartPhases /\ starter' = [starter EXCEPT ![r].pc = pc, ![r].todo = enabled]
    BY <2>1 DEF StartPhases
  <2> HIDE DEF pc
  <2>3. [starter EXCEPT ![r].pc = pc, ![r].todo = enabled] \in [Starters -> StarterType]
    BY <2>2, <1>r, StarterType1
  <2>4. starter' \in [Starters -> StarterType]
    BY <2>2, <2>3
  <2> QED
    BY <1>4, <1>t, <1>s, <2>4 DEF ReadConfigs, serverVars
<1>5. CASE LockClients(r)
  BY <1>5, <1>t, <1>s, <1>u, <1>o DEF LockClients, serverVars, StartPhases
<1>6. CASE Spawn(r)
  <2>1. PICK i \in DOMAIN Order :
          LET p == <<r, i>> IN
          /\ alive' = alive \cup {p}
          /\ stdin' = [stdin EXCEPT ![p] = <<Request(nextId[p], "initialize", r)>>]
          /\ nextId' = [nextId EXCEPT ![p] = @ + 1]
          /\ starter' = [starter EXCEPT ![r].pc = "init", ![r].at = i, ![r].todo = @ \ {i}]
    BY <1>6 DEF Spawn
  <2> DEFINE p == <<r, i>>  q == Request(nextId[p], "initialize", r)
             todo == starter[r].todo \ {i}
  <2>2. p \in Procs
    BY <1>o
  <2>3. /\ alive' = alive \cup {p} /\ stdin' = [stdin EXCEPT ![p] = <<q>>]
        /\ nextId' = [nextId EXCEPT ![p] = nextId[p] + 1]
        /\ starter' = [starter EXCEPT ![r].pc = "init", ![r].at = i, ![r].todo = todo]
        /\ UNCHANGED <<stdout, busy, completions, notes, sent, written,
                       clients, tools, lock, call>>
    BY <1>6, <2>1 DEF Spawn
  <2>4. q \in Requests
    BY <1>t, <1>o, <2>2, RequestType DEF Methods
  <2>5. todo \in SUBSET DOMAIN Order
    BY <1>p
  <2> HIDE DEF p, q, todo
  <2>6. <<q>> \in Seq(Requests)
    BY <2>4
  <2>7. ServerTypeOK' /\ nextId' \in [Procs -> Nat]
    BY <1>t, <2>2, <2>3, <2>6 DEF ServerTypeOK
  <2>8. starter' \in [Starters -> StarterType]
    <3>1. "init" \in StartPhases
      BY DEF StartPhases
    <3>2. [starter EXCEPT ![r].pc = "init", ![r].at = i, ![r].todo = todo]
             \in [Starters -> StarterType]
      BY <3>1, <2>5, <1>r, StarterType1
    <3> QED
      BY <2>3, <3>2
  <2> QED
    BY <1>t, <2>3, <2>7, <2>8
<1>7. CASE SpawnFails(r)
  <2>1. PICK i \in DOMAIN Order : starter' = [starter EXCEPT ![r].todo = @ \ {i}]
    BY <1>7 DEF SpawnFails
  <2>2. starter' = [starter EXCEPT ![r].todo = starter[r].todo \ {i}]
    BY <2>1
  <2>3. starter' \in [Starters -> StarterType]
    BY <2>2, <1>r, <1>p, StarterType1
  <2> QED
    BY <1>7, <1>t, <1>s, <2>3 DEF SpawnFails, serverVars
<1>8. CASE Initialize(r)
  <2> DEFINE p == Current(r)
  <2>1. p \in Procs
    BY <1>8, <1>o DEF Initialize, SpawnInv, At, Current
  <2> DEFINE q1 == Request(0, "notifications/initialized", r)
             q2 == Request(nextId[p], "tools/list", r)
  <2>2. q1 \in Requests /\ q2 \in Requests
    BY <1>t, <1>o, <2>1, RequestType DEF Methods
  <2>3. /\ stdin' = [stdin EXCEPT ![p] = stdin[p] \o <<q1, q2>>]
        /\ stdout[p] # <<>> /\ stdout' = [stdout EXCEPT ![p] = Tail(stdout[p])]
        /\ nextId' = [nextId EXCEPT ![p] = nextId[p] + 1]
        /\ UNCHANGED <<alive, busy, completions, notes, sent, written>>
    BY <1>8 DEF Initialize, Answers
  <2> HIDE DEF p, q1, q2
  <2>4. stdin[p] \o <<q1, q2>> \in Seq(Requests)
    BY <1>t, <2>1, <2>2 DEF ServerTypeOK
  <2>5. Tail(stdout[p]) \in Seq(Lines)
    BY <1>t, <2>1, <2>3, HeadTailProperties DEF ServerTypeOK
  <2>6. ServerTypeOK'
    BY <1>t, <2>1, <2>3, <2>4, <2>5 DEF ServerTypeOK
  <2>7. nextId' \in [Procs -> Nat]
    BY <1>t, <2>1, <2>3
  <2>8. /\ starter' \in [Starters -> StarterType]
        /\ UNCHANGED <<clients, tools, lock, call>>
    BY <1>8, <1>u DEF Initialize, StartPhases
  <2> QED
    BY <1>t, <2>6, <2>7, <2>8
<1>9. CASE Connect(r)
  <2> DEFINE p == Current(r)  s == Order[starter[r].at]  old == {clients[s]}
  <2>1. p \in Procs /\ s \in Servers
    BY <1>9, <1>o DEF Connect, SpawnInv, At, Current
  <2>2. /\ stdout[p] # <<>>
        /\ clients' = [clients EXCEPT ![s] = p]
        /\ alive' = alive \ old
        /\ stdin' = Dropped(stdin, old, <<>>)
        /\ stdout' = Dropped([stdout EXCEPT ![p] = Tail(stdout[p])], old, <<>>)
        /\ busy' = Dropped(busy, old, None)
        /\ completions' = Dropped(completions, old, 0)
        /\ notes' = Dropped(notes, old, 0)
        /\ UNCHANGED <<sent, written>>
    BY <1>9 DEF Connect, Answers
  <2>3. starter' = [starter EXCEPT ![r].pc = "spawn", ![r].found = Append(@, s)]
    BY <1>9 DEF Connect
  <2> HIDE DEF p, s, old
  <2>4. Tail(stdout[p]) \in Seq(Lines)
    BY <1>t, <2>1, <2>2, HeadTailProperties DEF ServerTypeOK
  <2>5. ServerTypeOK'
    BY <1>t, <2>1, <2>2, <2>4 DEF ServerTypeOK, Dropped
  <2>6. starter' \in [Starters -> StarterType]
    <3>1. "spawn" \in StartPhases
      BY DEF StartPhases
    <3> QED
      BY <3>1, <2>1, <2>3, <1>r, StarterType1
  <2> QED
    BY <1>9, <1>t, <2>1, <2>2, <2>5, <2>6 DEF Connect
<1>10. CASE GiveUp(r)
  BY <1>10, <1>t, <1>u, DropType DEF GiveUp, StartPhases
<1>11. CASE ListTools(r)
  BY <1>11, <1>t, <1>s, <1>u, <1>p DEF ListTools, serverVars, StartPhases
<1> QED
  BY <1>1, <1>2, <1>3, <1>4, <1>5, <1>6, <1>7, <1>8, <1>9, <1>10, <1>11 DEF StartStep

LEMMA CallType1 ==
    ASSUME NEW c \in Calls, call \in [Calls -> CallType]
    PROVE  /\ \A pc \in CallPhases : [call EXCEPT ![c].pc = pc] \in [Calls -> CallType]
           /\ \A s \in Servers :
                 [call EXCEPT ![c].pc = "lock", ![c].server = s] \in [Calls -> CallType]
           /\ \A p \in Procs, n \in Nat :
                 [call EXCEPT ![c].pc = "wait", ![c].proc = p, ![c].id = n]
                    \in [Calls -> CallType]
<1> DEFINE x == call[c]
<1>1. x \in CallType
  OBVIOUS
<1>2. \A p \in Procs, n \in Nat :
         [x EXCEPT !.pc = "wait", !.proc = p, !.id = n] \in CallType
  BY <1>1 DEF CallType, CallPhases
<1>3. \A s \in Servers : [x EXCEPT !.pc = "lock", !.server = s] \in CallType
  BY <1>1 DEF CallType, CallPhases
<1>4. \A pc \in CallPhases : [x EXCEPT !.pc = pc] \in CallType
  BY <1>1 DEF CallType
<1> QED
  BY <1>2, <1>3, <1>4

\* Every step of a call keeps the variables well typed.
LEMMA CallStepType ==
    ASSUME TypeOK, KeptInv, NEW c \in Calls, Route(c) \/ CallStep(c)
    PROVE  TypeOK'
<1>t. /\ ServerTypeOK /\ clients \in [Servers -> Procs \cup {None}] /\ tools \in Seq(Servers)
      /\ lock \in Askers \cup {None} /\ nextId \in [Procs -> Nat]
      /\ starter \in [Starters -> StarterType] /\ call \in [Calls -> CallType]
  BY DEF TypeOK, StarterType, CallType
<1> SUFFICES /\ ServerTypeOK' /\ lock' \in Askers \cup {None}
             /\ nextId' \in [Procs -> Nat] /\ call' \in [Calls -> CallType]
             /\ UNCHANGED <<clients, tools, starter>>
  BY <1>t DEF TypeOK, StarterType, CallType
<1> DEFINE Same == UNCHANGED <<alive, stdin, stdout, busy, completions, notes, sent, written>>
<1>s. Same => ServerTypeOK'
  BY <1>t DEF ServerTypeOK
<1>u. \A pc \in CallPhases : [call EXCEPT ![c].pc = pc] \in [Calls -> CallType]
  BY <1>t, CallType1
<1>1. CASE Route(c)
  <2>1. \A i \in DOMAIN tools : tools[i] \in Servers
    BY <1>t
  <2>2. \/ \E i \in DOMAIN tools :
              call' = [call EXCEPT ![c].pc = "lock", ![c].server = tools[i]]
        \/ \E pc \in CallPhases : call' = [call EXCEPT ![c].pc = pc]
    BY <1>1 DEF Route, Owners, CallPhases
  <2>3. call' \in [Calls -> CallType]
    <3>1. CASE \E pc \in CallPhases : call' = [call EXCEPT ![c].pc = pc]
      BY <3>1, <1>u
    <3>2. ASSUME NEW i \in DOMAIN tools,
                 call' = [call EXCEPT ![c].pc = "lock", ![c].server = tools[i]]
          PROVE  call' \in [Calls -> CallType]
      BY <1>t, <2>1, <3>2, CallType1
    <3> QED
      BY <2>2, <3>1, <3>2
  <2> QED
    BY <1>1, <1>t, <1>s, <2>3 DEF Route, serverVars
<1>2. CASE CannotSend(c)
  <2>1. call' \in [Calls -> CallType]
    <3>1. PICK pc \in {"no_tool", "not_connected"} : call' = [call EXCEPT ![c].pc = pc]
      BY <1>2 DEF CannotSend
    <3>2. pc \in CallPhases
      BY DEF CallPhases
    <3> QED
      BY <3>1, <3>2, <1>u
  <2> QED
    BY <1>2, <1>t, <1>s, <2>1 DEF CannotSend, serverVars
<1>3. CASE Send(c)
  <2> DEFINE p == clients[call[c].server]  q == Request(nextId[p], "tools/call", c)
  <2>1. p \in Procs /\ c \in Askers
    BY <1>3, <1>t, McpHostAssumption DEF Send, HasClient, CallType
  <2>2. q \in Requests
    BY <1>t, <2>1, RequestType DEF Methods
  <2>3. /\ nextId' = [nextId EXCEPT ![p] = nextId[p] + 1]
        /\ IF p \in alive
           THEN /\ stdin' = [stdin EXCEPT ![p] = Append(stdin[p], q)]
                /\ lock' = c
                /\ call' = [call EXCEPT ![c].pc = "wait", ![c].proc = p, ![c].id = nextId[p]]
           ELSE /\ call' = [call EXCEPT ![c].pc = "broken"]
                /\ UNCHANGED <<stdin, lock>>
        /\ UNCHANGED <<alive, stdout, busy, completions, notes, sent, written,
                       clients, tools, starter>>
    BY <1>3 DEF Send
  <2> HIDE DEF p, q
  <2>4. Append(stdin[p], q) \in Seq(Requests)
    BY <1>t, <2>1, <2>2 DEF ServerTypeOK
  <2>5. nextId[p] \in Nat
    BY <1>t, <2>1
  <2>6. CASE p \in alive
    <3>1. /\ stdin' = [stdin EXCEPT ![p] = Append(stdin[p], q)] /\ lock' = c
          /\ call' = [call EXCEPT ![c].pc = "wait", ![c].proc = p, ![c].id = nextId[p]]
      BY <2>3, <2>6
    <3>2. ServerTypeOK'
      BY <1>t, <2>1, <2>3, <2>4, <3>1 DEF ServerTypeOK
    <3>3. call' \in [Calls -> CallType]
      BY <1>t, <2>1, <2>5, <3>1, CallType1
    <3> QED
      BY <1>t, <2>1, <2>3, <2>5, <3>1, <3>2, <3>3
  <2>7. CASE p \notin alive
    <3>1. call' = [call EXCEPT ![c].pc = "broken"] /\ UNCHANGED <<stdin, lock>>
      BY <2>3, <2>7
    <3> QED
      BY <1>t, <1>s, <1>u, <2>1, <2>3, <2>5, <3>1 DEF CallPhases
  <2> QED
    BY <2>6, <2>7
<1>4. CASE Receive(c)
  <2> DEFINE p == call[c].proc
  <2>1. p \in Procs \cup {None} /\ call[c].id \in Nat
    BY <1>t DEF CallType
  <2>2. CASE stdout[p] = <<>>
    <3>1. call' = [call EXCEPT ![c].pc = "broken"]
      BY <1>4, <2>2 DEF Receive
    <3>2. call' \in [Calls -> CallType]
      BY <3>1, <1>u DEF CallPhases
    <3> QED
      BY <1>4, <1>t, <1>s, <2>2, <3>2 DEF Receive
  <2>3. CASE stdout[p] # <<>>
    <3>1. p \in Procs
      BY <1>4 DEF Receive, KeptInv
    <3>2. Tail(stdout[p]) \in Seq(Lines) /\ Head(stdout[p]) \in Lines
      BY <1>t, <2>3, <3>1, HeadTailProperties DEF ServerTypeOK
    <3>3. Head(stdout[p]).of \in Askers \cup {None}
      BY <3>2 DEF Lines
    <3>4. /\ stdout' = [stdout EXCEPT ![p] = Tail(stdout[p])]
          /\ UNCHANGED <<alive, stdin, busy, completions, notes, sent, written,
                         clients, tools, nextId, starter>>
          /\ \E pc \in {"ok", "mismatch"} :
                call' = [call EXCEPT ![c].got = Head(stdout[p]).of, ![c].pc = pc]
          /\ lock' = None
      BY <1>4, <2>3 DEF Receive
    <3> HIDE DEF p
    <3>5. ServerTypeOK'
      BY <1>t, <3>1, <3>2, <3>4 DEF ServerTypeOK
    <3>6. call' \in [Calls -> CallType]
      <4> DEFINE of == Head(stdout[p]).of
      <4>1. PICK pc \in CallPhases : call' = [call EXCEPT ![c].got = of, ![c].pc = pc]
        BY <3>4 DEF CallPhases
      <4>2. of \in Askers \cup {None}
        BY <3>3
      <4>3. call \in [Calls -> CallType]
        BY <1>t
      <4> HIDE DEF of
      <4> DEFINE x == [call[c] EXCEPT !.got = of, !.pc = pc]
      <4>4. x \in CallType
        BY <4>2, <4>3 DEF CallType
      <4>5. call' = [call EXCEPT ![c] = x]
        BY <4>1, <4>3
      <4> HIDE DEF x
      <4> QED
        BY <4>3, <4>4, <4>5
    <3> QED
      BY <1>t, <3>4, <3>5, <3>6
  <2> QED
    BY <2>2, <2>3
<1> QED
  BY <1>1, <1>2, <1>3, <1>4 DEF CallStep

-----------------------------------------------------------------------------
(* What a step leaves alone, and what it does to the lines of a process.   *)

LEMMA SeqElements ==
    ASSUME NEW S, NEW s \in Seq(S)
    PROVE  /\ \A e \in S : Elements(Append(s, e)) = Elements(s) \cup {e}
           /\ \A e, f \in S : Elements(s \o <<e, f>>) = Elements(s) \cup {e, f}
           /\ s # <<>> => Elements(Tail(s)) \subseteq Elements(s) /\ Head(s) \in Elements(s)
           /\ Elements(s) \subseteq S
<1> USE DEF Elements
<1>1. ASSUME NEW e \in S PROVE Elements(Append(s, e)) = Elements(s) \cup {e}
  <2> DEFINE t == Append(s, e)
  <2>1. /\ DOMAIN t = 1..(Len(s) + 1) /\ DOMAIN s = 1..Len(s) /\ Len(s) \in Nat
        /\ \A i \in 1..Len(s) : t[i] = s[i]
        /\ t[Len(s) + 1] = e
    BY AppendProperties
  <2> HIDE DEF t
  <2>2. Elements(t) \subseteq Elements(s) \cup {e}
    BY <2>1
  <2>3. Elements(s) \subseteq Elements(t) /\ e \in Elements(t)
    BY <2>1
  <2> QED
    BY <2>2, <2>3 DEF t
<1>2. ASSUME NEW e \in S, NEW f \in S
      PROVE  Elements(s \o <<e, f>>) = Elements(s) \cup {e, f}
  <2> DEFINE t == s \o <<e, f>>
  <2>1. t = Append(Append(s, e), f) /\ Append(s, e) \in Seq(S)
    OBVIOUS
  <2> QED
    BY <2>1
<1>3. ASSUME s # <<>> PROVE Elements(Tail(s)) \subseteq Elements(s) /\ Head(s) \in Elements(s)
  <2>1. /\ DOMAIN Tail(s) = 1..(Len(s) - 1) /\ DOMAIN s = 1..Len(s) /\ Len(s) \in Nat \ {0}
        /\ \A i \in 1..(Len(s) - 1) : Tail(s)[i] = s[i + 1]
        /\ Head(s) = s[1]
    BY <1>3, HeadTailProperties, EmptySeq
  <2> QED
    BY <2>1
<1>4. Elements(s) \subseteq S
  OBVIOUS
<1> QED
  BY <1>1, <1>2, <1>3, <1>4

\* A start changes its own record only, and no call.
LEMMA StartFrame ==
    ASSUME TypeOK, NEW r \in Starters, BeginRestart(r) \/ StartStep(r)
    PROVE  /\ \A x \in Starters \ {r} : starter'[x] = starter[x]
           /\ call' = call
BY DEF TypeOK, StartStep, BeginRestart, StopAll, Unlist, ReadConfigs, LockClients, Spawn,
       SpawnFails, Initialize, Connect, GiveUp, ListTools, Goto

LEMMA GotoEffect ==
    ASSUME TypeOK, NEW r \in Starters, NEW pc, Goto(r, pc)
    PROVE  /\ starter'[r].pc = pc /\ starter'[r].at = starter[r].at
           /\ starter'[r].todo = starter[r].todo /\ starter'[r].found = starter[r].found
BY DEF TypeOK, Goto

\* A call changes its own record only, and no start, client or list of tools.
LEMMA CallFrame ==
    ASSUME TypeOK, NEW c \in Calls, Route(c) \/ CallStep(c)
    PROVE  /\ \A x \in Calls \ {c} : call'[x] = call[x]
           /\ UNCHANGED <<alive, busy, completions, notes, sent, written, clients, tools, starter>>
<1>1. CASE Route(c)
  BY <1>1 DEF TypeOK, Route, serverVars
<1>2. CASE CannotSend(c)
  BY <1>2 DEF TypeOK, CannotSend, serverVars
<1>3. CASE Send(c)
  BY <1>3 DEF TypeOK, Send
<1>4. CASE Receive(c)
  BY <1>4 DEF TypeOK, Receive
<1> QED
  BY <1>1, <1>2, <1>3, <1>4 DEF CallStep

\* A server's step takes requests and adds lines: a notification, or the answer
\* to a request it had.
LEMMA ServerLines ==
    ASSUME ServerTypeOK, NEW p \in Procs, ServerStep(p), NEW x \in Procs
    PROVE  /\ Pending(x)' \subseteq Pending(x)
           /\ \A l \in Unread(x)' :
                 l \in Unread(x) \/ l = NoteLine \/ \E q \in Pending(x) : l = AnswerTo(q)
<1>t. /\ stdin[x] \in Seq(Requests) /\ stdout[x] \in Seq(Lines)
      /\ busy[x] \in Requests \cup {None}
  BY DEF ServerTypeOK
<1>1. CASE x # p
  <2>1. stdin'[x] = stdin[x] /\ stdout'[x] = stdout[x] /\ busy'[x] = busy[x]
    BY <1>1 DEF ServerTypeOK, ServerStep, TakeLine, Respond, PushNote, Complete, Forward, Exit
  <2> QED
    BY <2>1 DEF Pending, Unread
<1>2. CASE x = p /\ TakeLine(p)
  <2>1. /\ stdin[x] # <<>> /\ stdin'[x] = Tail(stdin[x]) /\ stdout'[x] = stdout[x]
        /\ busy'[x] \in {None, Head(stdin[x])}
    BY <1>2 DEF ServerTypeOK, TakeLine
  <2>2. Elements(stdin'[x]) \subseteq Elements(stdin[x]) /\ Head(stdin[x]) \in Elements(stdin[x])
    BY <1>t, <2>1, SeqElements
  <2> QED
    BY <2>1, <2>2 DEF Pending, Unread
<1>3. CASE x = p /\ Respond(p)
  <2>1. /\ busy[x] # None /\ busy'[x] = None /\ stdin'[x] = stdin[x]
        /\ stdout'[x] = Append(stdout[x], AnswerTo(busy[x]))
    BY <1>3 DEF ServerTypeOK, Respond
  <2>2. AnswerTo(busy[x]) \in Lines
    BY <1>t, <2>1, AnswerType
  <2>3. Elements(stdout'[x]) = Elements(stdout[x]) \cup {AnswerTo(busy[x])}
    BY <1>t, <2>1, <2>2, SeqElements
  <2> QED
    BY <2>1, <2>3 DEF Pending, Unread
<1>4. CASE x = p /\ PushNote(p)
  <2>1. /\ busy'[x] = busy[x] /\ stdin'[x] = stdin[x]
        /\ stdout'[x] = Append(stdout[x], NoteLine)
    BY <1>4 DEF ServerTypeOK, PushNote
  <2>2. Elements(stdout'[x]) = Elements(stdout[x]) \cup {NoteLine}
    BY <1>t, <2>1, AnswerType, SeqElements
  <2> QED
    BY <2>1, <2>2 DEF Pending, Unread
<1>5. CASE Complete(p) \/ Forward(p) \/ Exit(p)
  BY <1>5 DEF Complete, Forward, Exit, Pending, Unread
<1> QED
  BY <1>1, <1>2, <1>3, <1>4, <1>5 DEF ServerStep

\* Dropping transports takes lines only.
LEMMA DropLines ==
    ASSUME ServerTypeOK, NEW ps, Drop(ps), NEW x \in Procs
    PROVE  Pending(x)' \subseteq Pending(x) /\ Unread(x)' \subseteq Unread(x)
<1>1. /\ stdin'[x] \in {stdin[x], <<>>} /\ stdout'[x] \in {stdout[x], <<>>}
      /\ busy'[x] \in {busy[x], None}
  BY DEF Drop, Dropped
<1>2. Elements(<<>>) = {}
  BY DEF Elements
<1> QED
  BY <1>1, <1>2 DEF Pending, Unread

\* A start gives its requests the next ids of the process, and reads a line.
LEMMA StartLines ==
    ASSUME TypeOK, SpawnInv, IdInv, NEW r \in Starters, BeginRestart(r) \/ StartStep(r),
           NEW x \in Procs
    PROVE  /\ nextId'[x] > 0
           /\ \A q \in Pending(x)' : q.id < nextId'[x]
           /\ \A l \in Unread(x)' : l.id < nextId'[x]
<1>t. /\ ServerTypeOK /\ stdin[x] \in Seq(Requests) /\ stdout[x] \in Seq(Lines)
      /\ nextId[x] \in Nat /\ nextId \in [Procs -> Nat] /\ r \in Askers
  BY McpHostAssumption DEF TypeOK, ServerTypeOK
<1>i. /\ nextId[x] > 0
      /\ \A q \in Pending(x) : q \in Requests /\ q.id \in Nat /\ q.id < nextId[x]
      /\ \A l \in Unread(x) : l \in Lines /\ l.id \in Nat /\ l.id < nextId[x]
  <2>1. Pending(x) \subseteq Requests /\ Unread(x) \subseteq Lines
    BY <1>t, SeqElements DEF Pending, Unread, ServerTypeOK
  <2> QED
    BY <2>1 DEF IdInv, LineIds, CallIds, Requests, Lines
<1>l. ASSUME Pending(x)' \subseteq Pending(x), Unread(x)' \subseteq Unread(x),
             nextId'[x] = nextId[x] \/ nextId'[x] = nextId[x] + 1
      PROVE  /\ nextId'[x] > 0
             /\ \A q \in Pending(x)' : q.id < nextId'[x]
             /\ \A l \in Unread(x)' : l.id < nextId'[x]
  BY <1>t, <1>i, <1>l
<1>s. ASSUME stdin'[x] = stdin[x], stdout'[x] = stdout[x], busy'[x] = busy[x],
             nextId'[x] = nextId[x]
      PROVE  /\ nextId'[x] > 0
             /\ \A q \in Pending(x)' : q.id < nextId'[x]
             /\ \A l \in Unread(x)' : l.id < nextId'[x]
  BY <1>s, <1>l DEF Pending, Unread
<1>1. CASE BeginRestart(r) \/ Unlist(r) \/ ReadConfigs(r) \/ LockClients(r) \/ SpawnFails(r)
           \/ ListTools(r)
  BY <1>1, <1>s DEF BeginRestart, Unlist, ReadConfigs, LockClients, SpawnFails, ListTools,
                    serverVars
<1>2. CASE StopAll(r) \/ GiveUp(r)
  <2>1. PICK ps : Drop(ps)
    BY <1>2 DEF StopAll, GiveUp
  <2>2. nextId' = nextId
    BY <1>2 DEF StopAll, GiveUp
  <2> QED
    BY <1>t, <1>l, <2>1, <2>2, DropLines
<1>3. CASE Spawn(r)
  <2>1. PICK i \in DOMAIN Order :
          LET p == <<r, i>> IN
          /\ stdin' = [stdin EXCEPT ![p] = <<Request(nextId[p], "initialize", r)>>]
          /\ nextId' = [nextId EXCEPT ![p] = @ + 1]
          /\ busy' = busy /\ stdout' = stdout
          /\ i \in starter[r].todo
    BY <1>3 DEF Spawn, NextConfig
  <2> DEFINE p == <<r, i>>  q == Request(nextId[p], "initialize", r)
  <2>2. /\ p \in Procs /\ stdin' = [stdin EXCEPT ![p] = <<q>>]
        /\ nextId' = [nextId EXCEPT ![p] = nextId[p] + 1]
    BY <2>1, McpHostAssumption
  <2>3. q.id = nextId[p]
    BY DEF Request
  <2>4. busy[p] = None
    BY <2>1, <2>2 DEF SpawnInv, Unspawned
  <2> HIDE DEF p, q
  <2>5. CASE x # p
    BY <1>t, <1>s, <2>1, <2>2, <2>5 DEF TypeOK, ServerTypeOK
  <2>6. CASE x = p
    <3>1. stdin'[x] = <<q>> /\ nextId'[x] = nextId[x] + 1
      BY <1>t, <2>2, <2>6 DEF ServerTypeOK
    <3>2. Pending(x)' = {q} /\ Unread(x)' = Unread(x)
      <4>1. Elements(<<q>>) = {q}
        BY DEF Elements
      <4> QED
        BY <4>1, <3>1, <2>1, <2>4, <2>6 DEF Pending, Unread
    <3> QED
      BY <1>t, <1>i, <2>3, <2>6, <3>1, <3>2
  <2> QED
    BY <2>5, <2>6
<1>4. CASE Initialize(r)
  <2> DEFINE p == Current(r)
             q1 == Request(0, "notifications/initialized", r)
             q2 == Request(nextId[p], "tools/list", r)
  <2>1. p \in Procs
    BY <1>4, McpHostAssumption DEF Initialize, SpawnInv, At, Current
  <2>2. /\ stdin' = [stdin EXCEPT ![p] = stdin[p] \o <<q1, q2>>]
        /\ stdout[p] # <<>> /\ stdout' = [stdout EXCEPT ![p] = Tail(stdout[p])]
        /\ nextId' = [nextId EXCEPT ![p] = nextId[p] + 1] /\ busy' = busy
    BY <1>4 DEF Initialize, Answers
  <2>3. q1 \in Requests /\ q2 \in Requests /\ q1.id = 0 /\ q2.id = nextId[p]
    BY <1>t, <2>1, RequestType DEF Methods, Request
  <2> HIDE DEF p, q1, q2
  <2>4. CASE x # p
    BY <1>t, <1>s, <2>2, <2>4 DEF ServerTypeOK
  <2>5. CASE x = p
    <3>1. /\ stdin'[x] = stdin[x] \o <<q1, q2>> /\ stdout'[x] = Tail(stdout[x])
          /\ nextId'[x] = nextId[x] + 1 /\ busy'[x] = busy[x] /\ stdout[x] # <<>>
      BY <1>t, <2>2, <2>5 DEF ServerTypeOK
    <3>2. Pending(x)' = Pending(x) \cup {q1, q2} /\ Unread(x)' \subseteq Unread(x)
      <4>1. Elements(stdin[x] \o <<q1, q2>>) = Elements(stdin[x]) \cup {q1, q2}
        BY <1>t, <2>3, SeqElements
      <4>2. Elements(Tail(stdout[x])) \subseteq Elements(stdout[x])
        BY <1>t, <3>1, SeqElements
      <4> QED
        BY <4>1, <4>2, <3>1 DEF Pending, Unread
    <3> QED
      BY <1>t, <1>i, <2>3, <2>5, <3>1, <3>2
  <2> QED
    BY <2>4, <2>5
<1>5. CASE Connect(r)
  <2> DEFINE p == Current(r)  old == {clients[Order[starter[r].at]]}
  <2>1. /\ stdout[p] # <<>> /\ nextId' = nextId
        /\ stdin' = Dropped(stdin, old, <<>>)
        /\ stdout' = Dropped([stdout EXCEPT ![p] = Tail(stdout[p])], old, <<>>)
        /\ busy' = Dropped(busy, old, None)
    BY <1>5 DEF Connect, Answers
  <2> HIDE DEF p, old
  <2>2. /\ stdin'[x] \in {stdin[x], <<>>} /\ busy'[x] \in {busy[x], None}
        /\ \/ stdout'[x] \in {stdout[x], <<>>}
           \/ stdout[x] # <<>> /\ stdout'[x] = Tail(stdout[x])
    BY <1>t, <2>1 DEF Dropped, ServerTypeOK
  <2>3. Pending(x)' \subseteq Pending(x) /\ Unread(x)' \subseteq Unread(x)
    <3>1. Elements(<<>>) = {}
      BY DEF Elements
    <3>2. stdout[x] # <<>> => Elements(Tail(stdout[x])) \subseteq Elements(stdout[x])
      BY <1>t, SeqElements
    <3> QED
      BY <2>2, <3>1, <3>2 DEF Pending, Unread
  <2> QED
    BY <1>l, <2>1, <2>3
<1> QED
  BY <1>1, <1>2, <1>3, <1>4, <1>5 DEF StartStep

-----------------------------------------------------------------------------
(* The invariant, kept by the servers, the calls and the starts.           *)

LEMMA ConnectedType ==
    ASSUME TypeOK
    PROVE  /\ \A p : p \in Connected <=> p # None /\ \E s \in Servers : clients[s] = p
           /\ Connected \subseteq Procs
BY DEF Connected, TypeOK

LEMMA LineTypes ==
    ASSUME ServerTypeOK, NEW x \in Procs
    PROVE  /\ \A q \in Pending(x) : q.id \in Nat /\ AnswerTo(q).id = q.id /\ AnswerTo(q).of = q.by
           /\ \A l \in Unread(x) : l.id \in Nat
           /\ NoteLine.id = 0
<1>1. stdin[x] \in Seq(Requests) /\ stdout[x] \in Seq(Lines) /\ busy[x] \in Requests \cup {None}
  BY DEF ServerTypeOK
<1>2. Pending(x) \subseteq Requests /\ Unread(x) \subseteq Lines
  BY <1>1, SeqElements DEF Pending, Unread
<1> QED
  BY <1>2 DEF Requests, Lines, AnswerTo, NoteLine

LEMMA ServerKeepsIInv ==
    ASSUME IInv, NEW p \in Procs, ServerStep(p), UNCHANGED hostVars
    PROVE  IInv'
<1>h. UNCHANGED <<clients, tools, lock, nextId, starter, call>>
  BY DEF hostVars
<1>t. TypeOK /\ ServerTypeOK
  BY DEF IInv, TypeOK
<1>1. TypeOK' /\ CountInv'
  <2>1. ServerTypeOK' /\ CountInv'
    BY <1>t, ServerType DEF IInv
  <2> QED
    BY <2>1, <1>h, <1>t DEF TypeOK
<1>2. LockInv' /\ ToolInv' /\ KeptInv' /\ OwnAnswers'
  BY <1>h DEF IInv, LockInv, ToolInv, KeptInv, OwnAnswers, At
<1>3. p \in alive /\ alive' \subseteq alive
  BY DEF ServerStep, TakeLine, Respond, PushNote, Complete, Forward, Exit, Selecting
<1>4. SpawnInv' /\ NoStrayServer'
  <2>1. Connected' = Connected
    BY <1>h DEF Connected
  <2>2. \A x \in Procs \ {p} : /\ stdin'[x] = stdin[x] /\ stdout'[x] = stdout[x]
                               /\ busy'[x] = busy[x]
    BY <1>t DEF ServerTypeOK, ServerStep, TakeLine, Respond, PushNote, Complete, Forward, Exit
  <2>3. SpawnInv'
    BY <1>h, <1>3, <2>1, <2>2 DEF IInv, SpawnInv, Unspawned, At, Current
  <2>4. NoStrayServer'
    BY <1>h, <1>3, <2>1 DEF IInv, NoStrayServer, At, Current
  <2> QED
    BY <2>3, <2>4
<1>5. IdInv'
  <2>1. ASSUME NEW x \in Procs
        PROVE  /\ nextId'[x] > 0
               /\ \A q \in Pending(x)' : q.id < nextId'[x]
               /\ \A l \in Unread(x)' : l.id < nextId'[x]
    BY <1>t, <1>h, ServerLines, LineTypes DEF IInv, IdInv, LineIds, CallIds
  <2>2. ASSUME NEW c \in Calls, NEW x \in Procs, call[c].pc = "wait", x = call[c].proc
        PROVE  /\ call[c].id \in 1..(nextId[x] - 1)
               /\ \A q \in Pending(x)' : q.id = call[c].id => q.by = c
               /\ \A l \in Unread(x)' : l.id = call[c].id => l.of = c
    <3>1. /\ call[c].id \in 1..(nextId[x] - 1)
          /\ \A q \in Pending(x) : q.id = call[c].id => q.by = c
          /\ \A l \in Unread(x) : l.id = call[c].id => l.of = c
      BY <2>2 DEF IInv, IdInv, LineIds, CallIds
    <3>2. nextId[x] \in Nat
      BY <1>t DEF TypeOK
    <3>3. \A l \in Unread(x)' : l.id = call[c].id => l.of = c
      BY <1>t, <3>1, <3>2, ServerLines, LineTypes
    <3> QED
      BY <1>t, <3>1, <3>3, ServerLines
  <2>3. \A c \in Calls : call[c].pc = "wait" => call[c].proc \in Procs
    BY DEF IInv, KeptInv
  <2> QED
    BY <1>h, <2>1, <2>2, <2>3 DEF IdInv, LineIds, CallIds
<1> QED
  BY <1>1, <1>2, <1>4, <1>5 DEF IInv

\* What each step of a call does to its own record, to the lines and to the ids.
LEMMA CallEffects ==
    ASSUME TypeOK, KeptInv, NEW c \in Calls
    PROVE  /\ Route(c) \/ CannotSend(c) =>
                /\ call[c].pc \in {"new", "lock"} /\ call'[c].pc \notin {"wait", "ok"}
                /\ UNCHANGED <<stdin, stdout, nextId, lock>>
           /\ Send(c) =>
                /\ lock = None /\ call[c].server \in Servers
                /\ LET p == clients[call[c].server] IN
                    /\ p \in Connected /\ stdout' = stdout
                    /\ nextId' = [nextId EXCEPT ![p] = nextId[p] + 1]
                    /\ \/ /\ stdin' = [stdin EXCEPT ![p] =
                                   Append(stdin[p], Request(nextId[p], "tools/call", c))]
                          /\ lock' = c /\ call'[c].pc = "wait" /\ call'[c].proc = p
                          /\ call'[c].id = nextId[p] /\ call'[c].server = call[c].server
                       \/ /\ call'[c].pc = "broken"
                          /\ UNCHANGED <<stdin, lock>>
           /\ Receive(c) =>
                /\ call[c].pc = "wait" /\ lock' = None /\ UNCHANGED <<stdin, nextId>>
                /\ LET p == call[c].proc IN
                    /\ p \in Connected
                    /\ \/ stdout' = stdout /\ call'[c].pc = "broken"
                       \/ /\ stdout[p] # <<>>
                          /\ stdout' = [stdout EXCEPT ![p] = Tail(stdout[p])]
                          /\ call'[c].pc # "wait" /\ call'[c].got = Head(stdout[p]).of
                          /\ call'[c].pc = "ok" => Head(stdout[p]).id = call[c].id
<1>t. /\ call \in [Calls -> CallType] /\ clients \in [Servers -> Procs \cup {None}]
      /\ call[c].server \in Servers \cup {None} /\ None \notin Procs
  BY McpHostAssumption DEF TypeOK, CallType
<1>1. ASSUME Route(c) \/ CannotSend(c)
      PROVE  /\ call[c].pc \in {"new", "lock"} /\ call'[c].pc \notin {"wait", "ok"}
             /\ UNCHANGED <<stdin, stdout, nextId, lock>>
  <2>1. CASE Route(c)
    BY <2>1, <1>t DEF Route, serverVars, CallType
  <2>2. CASE CannotSend(c)
    BY <2>2, <1>t DEF CannotSend, serverVars, CallType
  <2> QED
    BY <1>1, <2>1, <2>2
<1>2. ASSUME Send(c)
      PROVE  /\ lock = None /\ call[c].server \in Servers
             /\ LET p == clients[call[c].server] IN
                  /\ p \in Connected /\ stdout' = stdout
                  /\ nextId' = [nextId EXCEPT ![p] = nextId[p] + 1]
                  /\ \/ /\ stdin' = [stdin EXCEPT ![p] =
                                 Append(stdin[p], Request(nextId[p], "tools/call", c))]
                        /\ lock' = c /\ call'[c].pc = "wait" /\ call'[c].proc = p
                        /\ call'[c].id = nextId[p] /\ call'[c].server = call[c].server
                     \/ /\ call'[c].pc = "broken"
                        /\ UNCHANGED <<stdin, lock>>
  <2> DEFINE p == clients[call[c].server]
  <2>1. lock = None /\ call[c].server \in Servers /\ p # None /\ stdout' = stdout
    BY <1>2, <1>t DEF Send, HasClient
  <2>2. p \in Connected
    BY <2>1, <1>t, ConnectedType
  <2>3. nextId' = [nextId EXCEPT ![p] = nextId[p] + 1]
    BY <1>2 DEF Send
  <2>4. CASE p \in alive
    <3>1. /\ stdin' = [stdin EXCEPT ![p] = Append(stdin[p], Request(nextId[p], "tools/call", c))]
          /\ lock' = c
          /\ call' = [call EXCEPT ![c].pc = "wait", ![c].proc = p, ![c].id = nextId[p]]
      BY <1>2, <2>4 DEF Send
    <3> HIDE DEF p
    <3>2. /\ call'[c].pc = "wait" /\ call'[c].proc = p
          /\ call'[c].id = nextId[p] /\ call'[c].server = call[c].server
      BY <1>t, <3>1 DEF CallType
    <3> QED
      BY <2>1, <2>2, <2>3, <3>1, <3>2 DEF p
  <2>5. CASE p \notin alive
    <3>1. call' = [call EXCEPT ![c].pc = "broken"] /\ UNCHANGED <<stdin, lock>>
      BY <1>2, <2>5 DEF Send
    <3>2. call'[c].pc = "broken"
      BY <1>t, <3>1 DEF CallType
    <3> QED
      BY <2>1, <2>2, <2>3, <3>1, <3>2
  <2> QED
    BY <2>4, <2>5
<1>3. ASSUME Receive(c)
      PROVE  /\ call[c].pc = "wait" /\ lock' = None /\ UNCHANGED <<stdin, nextId>>
             /\ LET p == call[c].proc IN
                  /\ p \in Connected
                  /\ \/ stdout' = stdout /\ call'[c].pc = "broken"
                     \/ /\ stdout[p] # <<>>
                        /\ stdout' = [stdout EXCEPT ![p] = Tail(stdout[p])]
                        /\ call'[c].pc # "wait" /\ call'[c].got = Head(stdout[p]).of
                        /\ call'[c].pc = "ok" => Head(stdout[p]).id = call[c].id
  <2>1. call[c].pc = "wait" /\ lock' = None /\ UNCHANGED <<stdin, nextId>>
    BY <1>3 DEF Receive
  <2>2. call[c].proc \in Connected
    BY <1>t, <2>1, ConnectedType DEF KeptInv
  <2>3. CASE stdout[call[c].proc] = <<>>
    BY <1>3, <1>t, <2>1, <2>2, <2>3 DEF Receive, CallType
  <2>4. CASE stdout[call[c].proc] # <<>>
    BY <1>3, <1>t, <2>1, <2>2, <2>4 DEF Receive, CallType, Answers
  <2> QED
    BY <2>3, <2>4
<1> QED
  BY <1>1, <1>2, <1>3

LEMMA CallKeepsIInv ==
    ASSUME IInv, NEW c \in Calls, Route(c) \/ CallStep(c)
    PROVE  IInv'
<1>i. /\ TypeOK /\ LockInv /\ CountInv /\ SpawnInv /\ IdInv /\ ToolInv /\ KeptInv
      /\ OwnAnswers /\ NoStrayServer /\ ServerTypeOK
  BY DEF IInv, TypeOK
<1>f. /\ \A x \in Calls \ {c} : call'[x] = call[x]
      /\ UNCHANGED <<alive, busy, completions, notes, sent, written, clients, tools, starter>>
  BY <1>i, CallFrame
<1>c. Connected' = Connected /\ Connected \subseteq Procs
  BY <1>f, <1>i, ConnectedType DEF Connected
<1>1. TypeOK' /\ CountInv' /\ ToolInv' /\ NoStrayServer'
  <2>1. TypeOK'
    BY <1>i, CallStepType
  <2> QED
    BY <1>i, <1>f, <1>c, <2>1 DEF CountInv, ToolInv, NoStrayServer, At, Current
<1>n. None \notin Starters \cup Calls /\ Starters \cap Calls = {}
  BY McpHostAssumption
<1>2. CASE Route(c) \/ CannotSend(c)
  <2>1. /\ call[c].pc \in {"new", "lock"} /\ call'[c].pc \notin {"wait", "ok"}
        /\ UNCHANGED <<stdin, stdout, nextId, lock>>
    BY <1>2, <1>i, CallEffects
  <2>2. \A x \in Calls : /\ call'[x].pc = "wait" <=> call[x].pc = "wait"
                        /\ call'[x].pc \in {"wait", "ok"} => call'[x] = call[x]
    BY <1>f, <2>1
  <2>3. LockInv' /\ KeptInv' /\ OwnAnswers'
    BY <1>i, <1>f, <2>1, <2>2 DEF LockInv, KeptInv, OwnAnswers
  <2>4. SpawnInv'
    BY <1>i, <1>f, <1>c, <2>1 DEF SpawnInv, Unspawned, At, Current
  <2>5. IdInv'
    BY <1>i, <1>f, <2>1, <2>2 DEF IdInv, LineIds, CallIds, Pending, Unread
  <2> QED
    BY <1>1, <2>3, <2>4, <2>5 DEF IInv
<1>3. CASE Send(c)
  <2>1. PICK p \in Procs :
          /\ p = clients[call[c].server] /\ p \in Connected /\ stdout' = stdout
          /\ lock = None /\ call[c].server \in Servers
          /\ nextId' = [nextId EXCEPT ![p] = nextId[p] + 1]
          /\ \/ /\ stdin' = [stdin EXCEPT ![p] =
                         Append(stdin[p], Request(nextId[p], "tools/call", c))]
                /\ lock' = c /\ call'[c].pc = "wait" /\ call'[c].proc = p
                /\ call'[c].id = nextId[p] /\ call'[c].server = call[c].server
             \/ /\ call'[c].pc = "broken"
                /\ UNCHANGED <<stdin, lock>>
    BY <1>3, <1>i, <1>c, CallEffects
  <2>2. /\ \A x \in Calls : call[x].pc # "wait"
        /\ \A x \in Calls \ {c} : call'[x].pc # "wait"
    BY <1>i, <1>f, <1>n, <2>1 DEF LockInv
  <2>3. LockInv' /\ KeptInv' /\ OwnAnswers'
    <3>0. /\ lock = None
          /\ \/ lock' = c /\ call'[c].pc = "wait"
             \/ lock' = lock /\ call'[c].pc = "broken"
      BY <2>1
    <3>s. starter' = starter
      BY <1>f
    <3>a. \A x \in Starters : starter'[x].pc \in Holding <=> lock' = x
      BY <1>i, <1>n, <3>0, <3>s DEF LockInv
    <3>b. \A x \in Calls : call'[x].pc = "wait" <=> lock' = x
      BY <1>n, <2>2, <3>0
    <3>1. LockInv'
      BY <3>a, <3>b DEF LockInv
    <3>2. KeptInv'
      BY <1>i, <1>f, <2>1, <2>2 DEF KeptInv
    <3>3. OwnAnswers'
      BY <1>i, <1>f, <2>1, <2>2 DEF OwnAnswers
    <3> QED
      BY <3>1, <3>2, <3>3
  <2>4. \A x \in Procs \ {p} : stdin'[x] = stdin[x] /\ nextId'[x] = nextId[x]
    BY <1>i, <2>1 DEF TypeOK, ServerTypeOK
  <2>5. SpawnInv'
    BY <1>i, <1>f, <1>c, <2>1, <2>4 DEF SpawnInv, Unspawned, At, Current
  <2>6. nextId[p] \in Nat /\ nextId[p] > 0 /\ nextId'[p] = nextId[p] + 1
    BY <1>i, <2>1 DEF TypeOK, IdInv, LineIds, CallIds
  <2> DEFINE q == Request(nextId[p], "tools/call", c)
  <2>7. q \in Requests /\ q.id = nextId[p] /\ q.by = c
    BY <2>6, RequestType, McpHostAssumption DEF Methods, Request
  <2>8. Unread(p)' = Unread(p) /\ Pending(p)' \subseteq Pending(p) \cup {q}
    <3>1. stdin[p] \in Seq(Requests)
      BY <1>i DEF ServerTypeOK
    <3>2. Elements(Append(stdin[p], q)) = Elements(stdin[p]) \cup {q}
      BY <2>7, <3>1, SeqElements
    <3>3. stdin'[p] = stdin[p] \/ stdin'[p] = Append(stdin[p], q)
      BY <1>i, <2>1 DEF ServerTypeOK
    <3> QED
      BY <1>f, <2>1, <3>2, <3>3 DEF Pending, Unread
  <2> HIDE DEF q
  <2>9. /\ \A r \in Pending(p) : r.id \in Nat /\ r.id < nextId[p]
        /\ \A l \in Unread(p) : l.id \in Nat /\ l.id < nextId[p]
    BY <1>i, LineTypes DEF IdInv, LineIds, CallIds
  <2>10. \A x \in Procs \ {p} : Pending(x)' = Pending(x) /\ Unread(x)' = Unread(x)
    BY <1>f, <2>1, <2>4 DEF Pending, Unread
  <2>11. /\ nextId'[p] > 0
         /\ \A r \in Pending(p)' : r.id < nextId'[p]
         /\ \A l \in Unread(p)' : l.id < nextId'[p]
    <3>1. ASSUME NEW r \in Pending(p)' PROVE r.id < nextId'[p]
      <4>1. r \in Pending(p) \/ r = q
        BY <3>1, <2>8
      <4> QED
        BY <4>1, <2>6, <2>7, <2>9
    <3>2. ASSUME NEW l \in Unread(p)' PROVE l.id < nextId'[p]
      BY <3>2, <2>6, <2>8, <2>9
    <3> QED
      BY <3>1, <3>2, <2>6
  <2>12. call'[c].pc = "wait" =>
           /\ call'[c].id \in 1..(nextId'[p] - 1) /\ call'[c].proc = p
           /\ \A r \in Pending(p)' : r.id = call'[c].id => r.by = c
           /\ \A l \in Unread(p)' : l.id = call'[c].id => l.of = c
    <3> SUFFICES ASSUME call'[c].pc = "wait"
                 PROVE  /\ call'[c].id \in 1..(nextId'[p] - 1) /\ call'[c].proc = p
                        /\ \A r \in Pending(p)' : r.id = call'[c].id => r.by = c
                        /\ \A l \in Unread(p)' : l.id = call'[c].id => l.of = c
      OBVIOUS
    <3>1. call'[c].proc = p /\ call'[c].id = nextId[p]
      BY <2>1
    <3>2. call'[c].id \in 1..(nextId'[p] - 1)
      BY <3>1, <2>6
    <3>3. ASSUME NEW r \in Pending(p)', r.id = call'[c].id PROVE r.by = c
      BY <3>1, <3>3, <2>6, <2>7, <2>8, <2>9
    <3>4. ASSUME NEW l \in Unread(p)', l.id = call'[c].id PROVE l.of = c
      BY <3>1, <3>4, <2>6, <2>8, <2>9
    <3> QED
      BY <3>1, <3>2, <3>3, <3>4
  <2>13. IdInv'
    BY <1>i, <2>2, <2>4, <2>10, <2>11, <2>12 DEF IdInv, LineIds, CallIds
  <2> QED
    BY <1>1, <2>3, <2>5, <2>13 DEF IInv
<1>4. CASE Receive(c)
  <2>1. PICK p \in Procs :
          /\ p = call[c].proc /\ p \in Connected
          /\ call[c].pc = "wait" /\ lock' = None /\ UNCHANGED <<stdin, nextId>>
          /\ \/ stdout' = stdout /\ call'[c].pc = "broken"
             \/ /\ stdout[p] # <<>>
                /\ stdout' = [stdout EXCEPT ![p] = Tail(stdout[p])]
                /\ call'[c].pc # "wait" /\ call'[c].got = Head(stdout[p]).of
                /\ call'[c].pc = "ok" => Head(stdout[p]).id = call[c].id
    BY <1>4, <1>i, <1>c, CallEffects
  <2>2. \A x \in Calls : call'[x].pc # "wait"
    BY <1>i, <1>f, <1>n, <2>1 DEF LockInv
  <2>3. LockInv' /\ KeptInv'
    BY <1>i, <1>f, <1>n, <2>1, <2>2 DEF LockInv, KeptInv
  <2>4. /\ \A x \in Procs \ {p} : stdout'[x] = stdout[x]
        /\ stdout'[p] = stdout[p] \/ (stdout[p] # <<>> /\ stdout'[p] = Tail(stdout[p]))
    <3>1. CASE stdout' = stdout
      BY <3>1
    <3>2. CASE stdout[p] # <<>> /\ stdout' = [stdout EXCEPT ![p] = Tail(stdout[p])]
      BY <1>i, <3>2 DEF ServerTypeOK
    <3> QED
      BY <2>1, <3>1, <3>2
  <2>5. SpawnInv'
    BY <1>i, <1>f, <1>c, <2>1, <2>4 DEF SpawnInv, Unspawned, At, Current
  <2>6. \A x \in Procs : Pending(x)' = Pending(x) /\ Unread(x)' \subseteq Unread(x)
    <3>1. stdout[p] # <<>> => Elements(Tail(stdout[p])) \subseteq Elements(stdout[p])
      BY <1>i, SeqElements DEF ServerTypeOK
    <3> QED
      BY <1>f, <2>1, <2>4, <3>1 DEF Pending, Unread
  <2>7. IdInv'
    BY <1>i, <2>1, <2>2, <2>6 DEF IdInv, LineIds, CallIds
  <2>8. OwnAnswers'
    <3>1. stdout[p] # <<>> => Head(stdout[p]) \in Unread(p)
      BY <1>i, SeqElements DEF ServerTypeOK, Unread
    <3>2. call'[c].pc = "ok" => call'[c].got = c
      BY <1>i, <2>1, <3>1 DEF IdInv, LineIds, CallIds
    <3> QED
      BY <1>i, <1>f, <3>2 DEF OwnAnswers
  <2> QED
    BY <1>1, <2>3, <2>5, <2>7, <2>8 DEF IInv
<1> QED
  BY <1>2, <1>3, <1>4 DEF CallStep

\* A start moves only under the mutex once it has it; what it has found and
\* what is left to do change only there.
LEMMA StartKeepsLock ==
    ASSUME TypeOK, LockInv, NEW r \in Starters, BeginRestart(r) \/ StartStep(r)
    PROVE  LockInv'
<1>n. None \notin Starters \cup Calls /\ Starters \cap Calls = {}
  BY McpHostAssumption
<1>f. (\A x \in Starters \ {r} : starter'[x] = starter[x]) /\ call' = call
  BY StartFrame
<1>t. starter \in [Starters -> StarterType]
  BY DEF TypeOK, StarterType
<1> DEFINE H(p) == p \in Holding
<1>k. ASSUME lock' = lock, H(starter'[r].pc) <=> H(starter[r].pc)
      PROVE  LockInv'
  BY <1>f, <1>k DEF LockInv
<1>1. CASE BeginRestart(r)
  BY <1>1, <1>k, GotoEffect DEF BeginRestart, At, Holding, Initialising
<1>2. CASE StopAll(r)
  BY <1>2, <1>k, GotoEffect DEF StopAll, At, Holding, Initialising
<1>3. CASE Unlist(r)
  BY <1>3, <1>k, GotoEffect DEF Unlist, At, Holding, Initialising
<1>4. CASE ReadConfigs(r)
  BY <1>4, <1>k, <1>t DEF ReadConfigs, At, Holding, Initialising, StarterType
<1>5. CASE LockClients(r)
  <2>1. starter'[r].pc = "spawn" /\ lock = None /\ lock' = r
    BY <1>5, GotoEffect DEF LockClients
  <2> QED
    BY <1>f, <1>n, <2>1 DEF LockInv, Holding, Initialising
<1>6. CASE Spawn(r)
  BY <1>6, <1>k, <1>t DEF Spawn, At, Holding, Initialising, StarterType
<1>7. CASE SpawnFails(r)
  BY <1>7, <1>k, <1>t DEF SpawnFails, At, Holding, Initialising, StarterType
<1>8. CASE Initialize(r)
  BY <1>8, <1>k, GotoEffect DEF Initialize, At, Holding, Initialising
<1>9. CASE Connect(r)
  BY <1>9, <1>k, <1>t DEF Connect, At, Holding, Initialising, StarterType
<1>10. CASE GiveUp(r)
  BY <1>10, <1>k, GotoEffect DEF GiveUp, At, Holding, Initialising
<1>11. CASE ListTools(r)
  <2>1. starter'[r].pc = "done" /\ lock = r /\ lock' = None
    BY <1>11, GotoEffect DEF ListTools, LockInv, At, Holding
  <2> QED
    BY <1>f, <1>n, <2>1 DEF LockInv, Holding, Initialising
<1> QED
  BY <1>1, <1>2, <1>3, <1>4, <1>5, <1>6, <1>7, <1>8, <1>9, <1>10, <1>11 DEF StartStep

\* While a call waits no start touches a client, a line or an id.
LEMMA StartIsQuiet ==
    ASSUME LockInv, NEW r \in Starters, BeginRestart(r) \/ StartStep(r),
           NEW c \in Calls, call[c].pc = "wait"
    PROVE  UNCHANGED <<clients, stdin, stdout, busy, nextId>>
<1>1. lock = c /\ c # None /\ r # c
  BY McpHostAssumption DEF LockInv
<1>2. ~StopAll(r) /\ starter[r].pc \notin Holding
  BY <1>1 DEF StopAll, LockInv
<1>3. ~Spawn(r) /\ ~Initialize(r) /\ ~Connect(r) /\ ~GiveUp(r)
  BY <1>2 DEF Spawn, Initialize, Connect, GiveUp, At, Holding, Initialising
<1> QED
  BY <1>2, <1>3 DEF StartStep, BeginRestart, Unlist, ReadConfigs, LockClients, SpawnFails,
                    ListTools, serverVars

\* Calls that wait keep their process, and the ids stay theirs.
LEMMA StartKeepsCalls ==
    ASSUME IInv, NEW r \in Starters, BeginRestart(r) \/ StartStep(r)
    PROVE  IdInv' /\ KeptInv' /\ OwnAnswers'
<1>i. /\ TypeOK /\ LockInv /\ SpawnInv /\ IdInv /\ KeptInv /\ OwnAnswers
  BY DEF IInv
<1>f. call' = call
  BY <1>i, StartFrame
<1>q. ASSUME NEW c \in Calls, call[c].pc = "wait"
      PROVE  UNCHANGED <<clients, stdin, stdout, busy, nextId>>
  BY <1>i, <1>q, StartIsQuiet
<1>1. KeptInv' /\ OwnAnswers'
  BY <1>i, <1>f, <1>q DEF KeptInv, OwnAnswers
<1>2. ASSUME NEW x \in Procs
      PROVE  /\ nextId'[x] > 0
             /\ \A q \in Pending(x)' : q.id < nextId'[x]
             /\ \A l \in Unread(x)' : l.id < nextId'[x]
  BY <1>i, StartLines
<1>3. ASSUME NEW c \in Calls, call[c].pc = "wait", NEW x \in Procs, x = call[c].proc
      PROVE  /\ call[c].id \in 1..(nextId'[x] - 1)
             /\ \A q \in Pending(x)' : q.id = call[c].id => q.by = c
             /\ \A l \in Unread(x)' : l.id = call[c].id => l.of = c
  <2>1. Pending(x)' = Pending(x) /\ Unread(x)' = Unread(x) /\ nextId' = nextId
    BY <1>q, <1>3 DEF Pending, Unread
  <2> QED
    BY <1>i, <1>3, <2>1 DEF IdInv, LineIds, CallIds
<1>4. \A c \in Calls : call[c].pc = "wait" => call[c].proc \in Procs
  BY <1>i DEF KeptInv
<1>5. LineIds'
  BY <1>2 DEF LineIds
<1>6. CallIds'
  BY <1>f, <1>3, <1>4 DEF CallIds, Pending, Unread
<1> QED
  BY <1>1, <1>5, <1>6 DEF IdInv

\* Dropping a process drops its events, never adds one.
LEMMA StartKeepsCount ==
    ASSUME TypeOK, CountInv, NEW r \in Starters, BeginRestart(r) \/ StartStep(r)
    PROVE  CountInv'
<1>1. \/ UNCHANGED <<completions, notes, sent, written>>
      \/ \E ps : /\ completions' = Dropped(completions, ps, 0)
                 /\ notes' = Dropped(notes, ps, 0)
                 /\ UNCHANGED <<sent, written>>
  BY DEF StartStep, BeginRestart, StopAll, Unlist, ReadConfigs, LockClients, Spawn, SpawnFails,
         Initialize, Connect, GiveUp, ListTools, Drop, serverVars
<1>2. CASE UNCHANGED <<completions, notes, sent, written>>
  BY <1>2 DEF CountInv
<1>3. ASSUME NEW ps, completions' = Dropped(completions, ps, 0), notes' = Dropped(notes, ps, 0),
             UNCHANGED <<sent, written>>
      PROVE  CountInv'
  <2>1. ASSUME NEW x \in Procs PROVE completions'[x] + notes'[x] + written'[x] <= sent'[x]
    <3>1. /\ completions[x] \in Nat /\ notes[x] \in Nat /\ written[x] \in Nat /\ sent[x] \in Nat
          /\ completions[x] + notes[x] + written[x] <= sent[x]
      BY DEF TypeOK, ServerTypeOK, CountInv
    <3>2. \/ completions'[x] = completions[x] /\ notes'[x] = notes[x]
          \/ completions'[x] = 0 /\ notes'[x] = 0
      BY <1>3 DEF Dropped
    <3> QED
      BY <1>3, <3>1, <3>2
  <2> QED
    BY <2>1 DEF CountInv
<1> QED
  BY <1>1, <1>2, <1>3

\* A process that is not spawned yet stays as it is, and one that is
\* initialised is one of its start's configurations, and has no client.
LEMMA StartKeepsSpawned ==
    ASSUME TypeOK, SpawnInv, LockInv, NEW r \in Starters, BeginRestart(r) \/ StartStep(r)
    PROVE  SpawnInv'
<1>f. \A x \in Starters \ {r} : starter'[x] = starter[x]
  BY StartFrame
<1>t. /\ starter \in [Starters -> StarterType] /\ ServerTypeOK
      /\ clients \in [Servers -> Procs \cup {None}]
      /\ Procs = Starters \X DOMAIN Order /\ None \notin Procs
      /\ \A i \in DOMAIN Order : Order[i] \in Servers
  BY McpHostAssumption DEF TypeOK, StarterType
\* No process loses what it has before it is spawned, none becomes unspawned.
<1>k. ASSUME \A x \in Procs : Unspawned(x)' =>
                /\ Unspawned(x)
                /\ x \in alive' => x \in alive
                /\ x \in Connected' => x \in Connected
                /\ stdin'[x] \in {stdin[x], <<>>} /\ stdout'[x] \in {stdout[x], <<>>}
                /\ busy'[x] \in {busy[x], None},
             \A x \in Starters \ {r} : At(x, "init") \/ At(x, "list") => Current(x) \notin Connected',
             starter'[r].pc \in Initialising =>
                /\ starter'[r].at \in DOMAIN Order \ starter'[r].todo
                /\ <<r, starter'[r].at>> \notin Connected'
      PROVE  SpawnInv'
  <2>1. ASSUME NEW x \in Procs, Unspawned(x)'
        PROVE  /\ x \notin alive' /\ x \notin Connected'
               /\ stdin'[x] = <<>> /\ stdout'[x] = <<>> /\ busy'[x] = None
    <3>1. /\ x \notin alive /\ x \notin Connected
          /\ stdin[x] = <<>> /\ stdout[x] = <<>> /\ busy[x] = None
      BY <1>k, <2>1 DEF SpawnInv
    <3> QED
      BY <1>k, <2>1, <3>1
  <2>2. ASSUME NEW x \in Starters, starter'[x].pc \in Initialising
        PROVE  /\ starter'[x].at \in DOMAIN Order \ starter'[x].todo
               /\ <<x, starter'[x].at>> \notin Connected'
    BY <1>f, <1>k, <2>2 DEF SpawnInv, At, Current, Initialising
  <2> QED
    BY <2>1, <2>2 DEF SpawnInv, At, Current, Initialising
<1>c. Connected' = Connected =>
        \A x \in Starters \ {r} : At(x, "init") \/ At(x, "list") => Current(x) \notin Connected'
  BY DEF SpawnInv
\* Of the other starts nothing is spawned, and of this one's what is not.
<1>u. ASSUME \/ starter[r].pc \in Before
             \/ starter'[r].pc \notin Before /\ starter'[r].todo \subseteq starter[r].todo
      PROVE  \A x \in Procs : Unspawned(x)' => Unspawned(x)
  BY <1>f, <1>t, <1>u DEF Unspawned
<1>1. CASE BeginRestart(r) \/ Unlist(r)
  <2>1. starter[r].pc \in Before /\ starter'[r].pc \notin Initialising
    BY <1>1, GotoEffect DEF BeginRestart, Unlist, At, Before, Initialising
  <2>2. Connected' = Connected /\ UNCHANGED <<alive, stdin, stdout, busy>>
    BY <1>1 DEF BeginRestart, Unlist, Connected, serverVars
  <2> QED
    BY <1>k, <1>c, <1>u, <2>1, <2>2
<1>2. CASE StopAll(r)
  <2>1. starter[r].pc \in Before /\ starter'[r].pc \notin Initialising
    BY <1>2, GotoEffect DEF StopAll, At, Before, Initialising
  <2>2. Connected' = {}
    BY <1>2 DEF StopAll, Connected
  <2>3. /\ alive' \subseteq alive
        /\ \A x \in Procs : /\ stdin'[x] \in {stdin[x], <<>>} /\ stdout'[x] \in {stdout[x], <<>>}
                           /\ busy'[x] \in {busy[x], None}
    BY <1>2 DEF StopAll, Drop, Dropped
  <2> QED
    BY <1>k, <1>u, <2>1, <2>2, <2>3
<1>3. CASE ReadConfigs(r)
  <2>1. starter[r].pc \in Before /\ starter'[r].pc \notin Initialising
    BY <1>3, <1>t DEF ReadConfigs, At, Before, Initialising, StarterType
  <2>2. Connected' = Connected /\ UNCHANGED <<alive, stdin, stdout, busy>>
    BY <1>3 DEF ReadConfigs, Connected, serverVars
  <2> QED
    BY <1>k, <1>c, <1>u, <2>1, <2>2
<1>4. CASE LockClients(r) \/ ListTools(r)
  <2>1. /\ starter'[r].pc \notin Initialising \cup Before
        /\ starter'[r].todo = starter[r].todo
    BY <1>4, GotoEffect DEF LockClients, ListTools, At, Before, Initialising
  <2>2. Connected' = Connected /\ UNCHANGED <<alive, stdin, stdout, busy>>
    BY <1>4 DEF LockClients, ListTools, Connected, serverVars
  <2> QED
    BY <1>k, <1>c, <1>u, <2>1, <2>2
<1>5. CASE Spawn(r)
  <2>1. PICK i \in starter[r].todo :
          LET p == <<r, i>> IN
          /\ alive' = alive \cup {p} /\ stdin' = [stdin EXCEPT ![p] =
                                             <<Request(nextId[p], "initialize", r)>>]
          /\ busy' = busy /\ stdout' = stdout /\ clients' = clients
          /\ starter' = [starter EXCEPT ![r].pc = "init", ![r].at = i, ![r].todo = @ \ {i}]
    BY <1>5 DEF Spawn, NextConfig
  <2>2. i \in DOMAIN Order /\ <<r, i>> \in Procs
    BY <1>t, <2>1 DEF StarterType
  <2>3. /\ starter'[r].pc = "init" /\ starter'[r].at = i
        /\ starter'[r].todo = starter[r].todo \ {i}
    BY <1>t, <2>1 DEF StarterType
  <2>4. \A x \in Procs : Unspawned(x)' => Unspawned(x) /\ x # <<r, i>>
    BY <1>u, <2>3 DEF Unspawned, Before
  <2>5. Connected' = Connected
    BY <2>1 DEF Connected
  <2>6. <<r, i>> \notin Connected
    BY <2>1, <2>2 DEF SpawnInv, Unspawned
  <2>7. \A x \in Procs \ {<<r, i>>} : stdin'[x] = stdin[x] /\ (x \in alive' => x \in alive)
    BY <1>t, <2>1 DEF ServerTypeOK
  <2>8. \A x \in Procs : Unspawned(x)' =>
          /\ Unspawned(x)
          /\ x \in alive' => x \in alive
          /\ x \in Connected' => x \in Connected
          /\ stdin'[x] \in {stdin[x], <<>>} /\ stdout'[x] \in {stdout[x], <<>>}
          /\ busy'[x] \in {busy[x], None}
    BY <2>1, <2>4, <2>5, <2>7
  <2>9. /\ starter'[r].at \in DOMAIN Order \ starter'[r].todo
        /\ <<r, starter'[r].at>> \notin Connected'
    BY <2>2, <2>3, <2>5, <2>6
  <2> QED
    BY <1>k, <1>c, <2>5, <2>8, <2>9
<1>6. CASE SpawnFails(r)
  <2>1. /\ starter'[r].pc = "spawn" /\ starter'[r].todo \subseteq starter[r].todo
    BY <1>6, <1>t DEF SpawnFails, At, StarterType
  <2>2. Connected' = Connected /\ UNCHANGED <<alive, stdin, stdout, busy>>
    BY <1>6 DEF SpawnFails, Connected, serverVars
  <2> QED
    BY <1>k, <1>c, <1>u, <2>1, <2>2 DEF Before, Initialising
<1>p. ASSUME At(r, "init") \/ At(r, "list")
      PROVE  /\ Current(r) \in Procs /\ ~Unspawned(Current(r))
             /\ starter[r].at \in DOMAIN Order \ starter[r].todo
             /\ Current(r) \notin Connected
  BY <1>p, <1>t DEF SpawnInv, Current, Unspawned, At, Before
<1>7. CASE Initialize(r)
  <2> DEFINE p == Current(r)
  <2>1. /\ starter'[r].pc = "list" /\ starter'[r].todo = starter[r].todo
        /\ starter'[r].at = starter[r].at /\ At(r, "init")
    BY <1>7, GotoEffect DEF Initialize
  <2>2. \A x \in Procs : Unspawned(x)' => Unspawned(x)
    BY <1>u, <2>1 DEF Before
  <2>3. /\ \A x \in Procs : x # p => stdin'[x] = stdin[x] /\ stdout'[x] = stdout[x]
        /\ alive' = alive /\ busy' = busy /\ Connected' = Connected
    BY <1>7, <1>t DEF Initialize, ServerTypeOK, Connected
  <2>4. ~Unspawned(p) /\ p \notin Connected /\ p = <<r, starter[r].at>>
        /\ starter[r].at \in DOMAIN Order \ starter[r].todo
    BY <1>p, <2>1 DEF Current
  <2> HIDE DEF p
  <2> QED
    BY <1>k, <1>c, <2>1, <2>2, <2>3, <2>4
<1>8. CASE Connect(r)
  <2> DEFINE p == Current(r)  s == Order[starter[r].at]  old == {clients[s]}
  <2>1. /\ At(r, "list") /\ clients' = [clients EXCEPT ![s] = p]
        /\ alive' = alive \ old
        /\ stdin' = Dropped(stdin, old, <<>>)
        /\ stdout' = Dropped([stdout EXCEPT ![p] = Tail(stdout[p])], old, <<>>)
        /\ busy' = Dropped(busy, old, None)
    BY <1>8 DEF Connect
  <2>2. p \in Procs /\ ~Unspawned(p) /\ s \in Servers /\ p[1] = r
    BY <1>p, <1>t, <2>1 DEF Current
  <2>3. /\ starter'[r].pc = "spawn" /\ starter'[r].todo = starter[r].todo
    BY <1>8, <1>t DEF Connect, StarterType
  <2>4. \A x \in Starters \ {r} : Current(x) # p
    BY DEF Current
  <2> HIDE DEF p, s, old
  <2>5. \A x \in Procs : Unspawned(x)' => Unspawned(x)
    BY <1>u, <2>3 DEF Before
  <2>6. Connected' \subseteq Connected \cup {p}
    BY <1>t, <2>1, <2>2 DEF Connected
  <2>7. \A x \in Procs \ {p} : /\ stdin'[x] \in {stdin[x], <<>>} /\ stdout'[x] \in {stdout[x], <<>>}
                              /\ busy'[x] \in {busy[x], None}
    BY <1>t, <2>1 DEF Dropped, ServerTypeOK
  <2>8. \A x \in Starters \ {r} : At(x, "init") \/ At(x, "list") => Current(x) \notin Connected'
    BY <2>4, <2>6 DEF SpawnInv
  <2> QED
    BY <1>k, <2>1, <2>2, <2>3, <2>5, <2>6, <2>7, <2>8 DEF Initialising
<1>9. CASE GiveUp(r)
  <2>1. starter'[r].pc = "spawn" /\ starter'[r].todo = starter[r].todo
    BY <1>9, GotoEffect DEF GiveUp
  <2>2. Connected' = Connected
    BY <1>9 DEF GiveUp, Connected
  <2>3. /\ alive' \subseteq alive
        /\ \A x \in Procs : /\ stdin'[x] \in {stdin[x], <<>>} /\ stdout'[x] \in {stdout[x], <<>>}
                           /\ busy'[x] \in {busy[x], None}
    BY <1>9 DEF GiveUp, Drop, Dropped
  <2> QED
    BY <1>k, <1>c, <1>u, <2>1, <2>2, <2>3 DEF Before, Initialising
<1> QED
  BY <1>1, <1>2, <1>3, <1>4, <1>5, <1>6, <1>7, <1>8, <1>9 DEF StartStep

\* What a start has found has a client until the mutex is released, and a list
\* that is not about to be cleared names such servers only.
LEMMA StartKeepsTools ==
    ASSUME TypeOK, LockInv, SpawnInv, ToolInv, NEW r \in Starters,
           BeginRestart(r) \/ StartStep(r)
    PROVE  ToolInv'
<1>f. \A x \in Starters \ {r} : starter'[x] = starter[x]
  BY StartFrame
<1>t. /\ starter \in [Starters -> StarterType] /\ clients \in [Servers -> Procs \cup {None}]
      /\ None \notin Procs /\ tools \in Seq(Servers) /\ starter[r].found \in Seq(Servers)
      /\ Procs = Starters \X DOMAIN Order /\ None \notin Starters
      /\ \A i \in DOMAIN Order : Order[i] \in Servers
  BY McpHostAssumption DEF TypeOK, StarterType
<1>x. \A x \in Starters : starter[x].found \in Seq(Servers)
  BY <1>t DEF StarterType
\* No client is lost, and this start's record keeps the invariant.
<1>k. ASSUME \A s \in Servers : clients[s] # None => clients'[s] # None,
             starter'[r].pc \in Before \cup {"lock"} => starter'[r].found = <<>>,
             starter'[r].pc \in Holding =>
                \A i \in DOMAIN starter'[r].found : clients'[starter'[r].found[i]] # None,
             \/ tools' = tools /\ (At(r, "unlist") => starter'[r].pc = "unlist")
             \/ \A i \in DOMAIN tools' : clients'[tools'[i]] # None
      PROVE  ToolInv'
  <2>1. ASSUME NEW x \in Starters, starter'[x].pc \in Holding
        PROVE  \A i \in DOMAIN starter'[x].found : clients'[starter'[x].found[i]] # None
    <3>1. CASE x = r
      BY <1>k, <2>1, <3>1
    <3>2. CASE x # r
      <4>1. starter'[x] = starter[x]
        BY <1>f, <3>2
      <4>2. \A i \in DOMAIN starter[x].found : /\ clients[starter[x].found[i]] # None
                                              /\ starter[x].found[i] \in Servers
        BY <1>x, <2>1, <4>1 DEF ToolInv
      <4> QED
        BY <1>k, <4>1, <4>2
    <3> QED
      BY <3>1, <3>2
  <2>2. \A x \in Starters : starter'[x].pc \in Before \cup {"lock"} => starter'[x].found = <<>>
    BY <1>f, <1>k DEF ToolInv
  <2>3. \/ \E x \in Starters : starter'[x].pc = "unlist"
        \/ \A i \in DOMAIN tools' : clients'[tools'[i]] # None
    <3>1. CASE \A i \in DOMAIN tools' : clients'[tools'[i]] # None
      BY <3>1
    <3>2. CASE tools' = tools /\ (At(r, "unlist") => starter'[r].pc = "unlist")
      <4>1. \A i \in DOMAIN tools : tools[i] \in Servers
        BY <1>t
      <4> QED
        BY <1>f, <1>k, <3>2, <4>1 DEF ToolInv, At
    <3> QED
      BY <1>k, <3>1, <3>2
  <2> QED
    BY <2>1, <2>2, <2>3 DEF ToolInv, At
<1>1. CASE BeginRestart(r)
  BY <1>1, <1>k, GotoEffect DEF BeginRestart, At, ToolInv, Before, Holding, Initialising
<1>2. CASE StopAll(r)
  <2>1. starter'[r].pc = "unlist" /\ starter'[r].found = <<>>
    BY <1>2, GotoEffect DEF StopAll, At, ToolInv, Before
  <2>2. \A x \in Starters : starter'[x].pc \notin Holding
    BY <1>2, <1>f, <1>t, <2>1 DEF StopAll, LockInv, Holding, Initialising
  <2>3. \A x \in Starters : starter'[x].pc \in Before \cup {"lock"} => starter'[x].found = <<>>
    BY <1>f, <2>1 DEF ToolInv
  <2> QED
    BY <2>1, <2>2, <2>3 DEF ToolInv, At
<1>3. CASE Unlist(r)
  BY <1>3, <1>k, GotoEffect DEF Unlist, At, ToolInv, Before, Holding, Initialising
<1>4. CASE ReadConfigs(r)
  <2>1. /\ starter'[r].pc \in {"lock", "done"} /\ starter'[r].found = starter[r].found
        /\ At(r, "configs") /\ tools' = tools /\ clients' = clients
    BY <1>4, <1>t DEF ReadConfigs, At, StarterType
  <2> QED
    BY <1>k, <2>1 DEF At, ToolInv, Before, Holding, Initialising
<1>5. CASE LockClients(r)
  BY <1>5, <1>k, GotoEffect DEF LockClients, At, ToolInv, Before, Holding, Initialising
<1>6. CASE Spawn(r) \/ SpawnFails(r) \/ Initialize(r) \/ GiveUp(r)
  <2>1. /\ starter[r].pc \in Holding /\ starter'[r].pc \in Holding
        /\ starter'[r].found = starter[r].found
    <3>1. CASE Spawn(r) \/ SpawnFails(r)
      <4>1. CASE Spawn(r)
        BY <4>1, <1>t DEF Spawn, At, Holding, Initialising, StarterType
      <4>2. CASE SpawnFails(r)
        BY <4>2, <1>t DEF SpawnFails, At, Holding, Initialising, StarterType
      <4> QED
        BY <3>1, <4>1, <4>2
    <3>2. CASE Initialize(r) \/ GiveUp(r)
      BY <3>2, GotoEffect DEF Initialize, GiveUp, At, Holding, Initialising
    <3> QED
      BY <1>6, <3>1, <3>2
  <2>2. tools' = tools /\ clients' = clients
    BY <1>6 DEF Spawn, SpawnFails, Initialize, GiveUp
  <2> QED
    BY <1>k, <2>1, <2>2 DEF At, ToolInv, Before, Holding, Initialising
<1>7. CASE Connect(r)
  <2> DEFINE p == Current(r)  s == Order[starter[r].at]
  <2>1. /\ p \in Procs /\ s \in Servers /\ At(r, "list")
        /\ clients' = [clients EXCEPT ![s] = p] /\ tools' = tools
    BY <1>7, <1>t DEF Connect, SpawnInv, At, Current
  <2>2. /\ starter'[r].pc = "spawn" /\ starter'[r].found = Append(starter[r].found, s)
    <3>1. starter' = [starter EXCEPT ![r].pc = "spawn", ![r].found = Append(@, s)]
      BY <1>7 DEF Connect
    <3>2. starter \in [Starters -> StarterType]
      BY <1>t
    <3> HIDE DEF s
    <3> QED
      BY <3>1, <3>2 DEF StarterType
  <2> HIDE DEF p, s
  <2>3. /\ clients'[s] # None
        /\ \A x \in Servers : clients[x] # None => clients'[x] # None
    BY <1>t, <2>1
  <2>4. \A i \in DOMAIN starter[r].found : /\ clients[starter[r].found[i]] # None
                                          /\ starter[r].found[i] \in Servers
    BY <1>t, <2>1 DEF ToolInv, At, Holding, Initialising
  <2>5. ASSUME NEW i \in DOMAIN starter'[r].found
        PROVE  clients'[starter'[r].found[i]] # None
    <3>1. starter'[r].found[i] = s \/ (i \in DOMAIN starter[r].found
                                     /\ starter'[r].found[i] = starter[r].found[i])
      BY <1>t, <2>1, <2>2, AppendProperties
    <3> QED
      BY <2>3, <2>4, <3>1
  <2> QED
    BY <1>k, <2>1, <2>2, <2>3, <2>5 DEF At, Before
<1>8. CASE ListTools(r)
  <2>1. /\ starter'[r].pc = "done" /\ tools' = starter[r].found /\ clients' = clients
        /\ starter[r].pc = "spawn"
    BY <1>8, GotoEffect DEF ListTools, At
  <2> QED
    BY <1>k, <2>1 DEF ToolInv, Before, Holding, Initialising
<1> QED
  BY <1>1, <1>2, <1>3, <1>4, <1>5, <1>6, <1>7, <1>8 DEF StartStep

\* A start makes one process at a time, which gets a client or is killed, and a
\* client that is replaced is killed with its process.
LEMMA StartKeepsStray ==
    ASSUME TypeOK, LockInv, SpawnInv, NoStrayServer, NEW r \in Starters,
           BeginRestart(r) \/ StartStep(r)
    PROVE  NoStrayServer'
<1>f. \A x \in Starters \ {r} : starter'[x] = starter[x]
  BY StartFrame
<1>t. /\ starter \in [Starters -> StarterType] /\ clients \in [Servers -> Procs \cup {None}]
      /\ None \notin Procs /\ None \notin Starters /\ alive \subseteq Procs
      /\ Procs = Starters \X DOMAIN Order
      /\ \A i \in DOMAIN Order : Order[i] \in Servers
  BY McpHostAssumption DEF TypeOK, ServerTypeOK, StarterType
<1>n. \A p \in alive : \/ p \in Connected
                      \/ \E x \in Starters : /\ starter[x].pc \in Initialising
                                            /\ p = <<x, starter[x].at>>
  BY DEF NoStrayServer, At, Current, Initialising
<1> SUFFICES ASSUME NEW p \in alive'
             PROVE  \/ p \in Connected'
                    \/ \E x \in Starters : /\ starter'[x].pc \in Initialising
                                          /\ p = <<x, starter'[x].at>>
  BY DEF NoStrayServer, At, Current, Initialising
<1>1. CASE StopAll(r)
  <2>1. p \in alive /\ p \notin Connected
    BY <1>1 DEF StopAll, Drop
  <2>2. \A x \in Starters : starter[x].pc \notin Initialising
    BY <1>1, <1>t DEF StopAll, LockInv, Holding
  <2> QED
    BY <1>n, <2>1, <2>2
<1>2. CASE BeginRestart(r) \/ Unlist(r) \/ LockClients(r) \/ ListTools(r)
  <2>1. p \in alive /\ Connected' = Connected
    BY <1>2 DEF BeginRestart, Unlist, LockClients, ListTools, Connected, serverVars
  <2>2. starter[r].pc \notin Initialising
    BY <1>2 DEF BeginRestart, Unlist, LockClients, ListTools, At, Initialising
  <2> QED
    BY <1>f, <1>n, <2>1, <2>2
<1>3. CASE ReadConfigs(r) \/ SpawnFails(r)
  <2>1. p \in alive /\ Connected' = Connected
    BY <1>3 DEF ReadConfigs, SpawnFails, Connected, serverVars
  <2>2. starter[r].pc \notin Initialising
    BY <1>3 DEF ReadConfigs, SpawnFails, At, Initialising
  <2> QED
    BY <1>f, <1>n, <2>1, <2>2
<1>4. CASE Spawn(r)
  <2>1. PICK i \in DOMAIN Order :
          /\ alive' = alive \cup {<<r, i>>} /\ clients' = clients
          /\ starter' = [starter EXCEPT ![r].pc = "init", ![r].at = i, ![r].todo = @ \ {i}]
    BY <1>4 DEF Spawn
  <2>2. starter'[r].pc = "init" /\ starter'[r].at = i /\ Connected' = Connected
    BY <1>t, <2>1 DEF StarterType, Connected
  <2>3. starter[r].pc \notin Initialising
    BY <1>4 DEF Spawn, At, Initialising
  <2> QED
    BY <1>f, <1>n, <2>1, <2>2, <2>3 DEF Initialising
<1>5. CASE Initialize(r)
  <2>1. /\ p \in alive /\ Connected' = Connected /\ starter'[r].pc = "list"
        /\ starter'[r].at = starter[r].at
    BY <1>5, GotoEffect DEF Initialize, Connected
  <2> QED
    BY <1>f, <1>n, <2>1 DEF Initialising
<1>6. CASE Connect(r)
  <2> DEFINE q == Current(r)  s == Order[starter[r].at]
  <2>1. /\ q \in Procs /\ s \in Servers /\ q = <<r, starter[r].at>>
        /\ p \in alive /\ p # clients[s] /\ clients' = [clients EXCEPT ![s] = q]
    BY <1>6, <1>t DEF Connect, SpawnInv, At, Current
  <2> HIDE DEF q, s
  <2>2. q \in Connected' /\ (p \in Connected => p \in Connected')
    BY <1>t, <2>1 DEF Connected
  <2> QED
    BY <1>f, <1>n, <2>1, <2>2
<1>7. CASE GiveUp(r)
  <2>1. /\ p \in alive /\ p # <<r, starter[r].at>> /\ Connected' = Connected
    BY <1>7 DEF GiveUp, Drop, Connected, Current
  <2> QED
    BY <1>f, <1>n, <2>1
<1> QED
  BY <1>1, <1>2, <1>3, <1>4, <1>5, <1>6, <1>7 DEF StartStep

-----------------------------------------------------------------------------
(* The theorems.                                                           *)

LEMMA InitIInv == Init => IInv
<1> SUFFICES ASSUME Init PROVE IInv
  OBVIOUS
<1>1. TypeOK
  BY InitType
<1>2. /\ alive = {} /\ lock = None /\ tools = <<>>
      /\ \A p \in Procs : /\ stdin[p] = <<>> /\ stdout[p] = <<>> /\ busy[p] = None
                         /\ completions[p] = 0 /\ notes[p] = 0 /\ written[p] = 0 /\ sent[p] = 0
                         /\ nextId[p] = 1
      /\ \A r \in Starters : /\ starter[r].pc \in {"idle", "configs"} /\ starter[r].found = <<>>
      /\ \A c \in Calls : call[c].pc = "new"
      /\ \A s \in Servers : clients[s] = None
  BY DEF Init, ServerInit
<1>3. Connected = {}
  BY <1>2 DEF Connected
<1>4. LockInv
  BY <1>2, McpHostAssumption DEF LockInv, Holding, Initialising
<1>5. \A p \in Procs : Pending(p) = {} /\ Unread(p) = {}
  <2>1. Elements(<<>>) = {}
    BY DEF Elements
  <2> QED
    BY <1>2, <2>1 DEF Pending, Unread
<1>6. IdInv /\ KeptInv /\ OwnAnswers
  BY <1>2, <1>5 DEF IdInv, LineIds, CallIds, KeptInv, OwnAnswers
<1>7. CountInv /\ ToolInv /\ NoStrayServer
  BY <1>2 DEF CountInv, ToolInv, NoStrayServer, At, Holding, Initialising
<1>8. SpawnInv
  BY <1>2, <1>3 DEF SpawnInv, At
<1> QED
  BY <1>1, <1>4, <1>6, <1>7, <1>8 DEF IInv

LEMMA NextIInv == IInv /\ [Next]_vars => IInv'
<1> SUFFICES ASSUME IInv, [Next]_vars PROVE IInv'
  OBVIOUS
<1>1. CASE UNCHANGED vars
  <2>1. /\ UNCHANGED <<alive, stdin, stdout, busy, completions, notes, sent, written>>
        /\ UNCHANGED <<clients, tools, lock, nextId, starter, call>>
    BY <1>1 DEF vars, serverVars, hostVars
  <2> QED
    BY <2>1 DEF IInv, TypeOK, ServerTypeOK, LockInv, CountInv, SpawnInv, Unspawned, IdInv, LineIds,
                CallIds, Pending, Unread, ToolInv, KeptInv, OwnAnswers, NoStrayServer, Connected,
                At, Current
<1>2. ASSUME NEW p \in Procs, ServerStep(p), UNCHANGED hostVars
      PROVE  IInv'
  BY <1>2, ServerKeepsIInv
<1>3. ASSUME NEW r \in Starters, BeginRestart(r) \/ StartStep(r)
      PROVE  IInv'
  <2>1. TypeOK'
    BY <1>3, StartType DEF IInv
  <2>2. LockInv' /\ CountInv' /\ SpawnInv'
    BY <1>3, StartKeepsLock, StartKeepsCount, StartKeepsSpawned DEF IInv
  <2>3. IdInv' /\ KeptInv' /\ OwnAnswers'
    BY <1>3, StartKeepsCalls
  <2>4. ToolInv' /\ NoStrayServer'
    BY <1>3, StartKeepsTools, StartKeepsStray DEF IInv
  <2> QED
    BY <2>1, <2>2, <2>3, <2>4 DEF IInv
<1>4. ASSUME NEW c \in Calls, Route(c) \/ CallStep(c)
      PROVE  IInv'
  BY <1>4, CallKeepsIInv
<1> QED
  BY <1>1, <1>2, <1>3, <1>4 DEF Next

LEMMA Invariance == Spec => []IInv
BY InitIInv, NextIInv, PTL DEF Spec

-----------------------------------------------------------------------------
(* Notifications.                                                          *)

Waiting(p) == completions[p] + notes[p]

\* A process that was never spawned has had no event, and every event of one
\* that runs is on its way or written.
EventInv ==
    /\ \A p \in Procs : Unspawned(p) => sent[p] = 0
    /\ \A p \in alive : written[p] + Waiting(p) = sent[p]

LEMMA CountTypes ==
    ASSUME IInv
    PROVE  /\ alive \subseteq Procs
           /\ \A p \in Procs :
                 /\ completions[p] \in Nat /\ notes[p] \in Nat
                 /\ written[p] \in Nat /\ sent[p] \in Nat
                 /\ completions[p] + notes[p] + written[p] <= sent[p]
           /\ \A p \in Procs : Unspawned(p) => p \notin alive
BY DEF IInv, TypeOK, ServerTypeOK, CountInv, SpawnInv

LEMMA ServerKeepsEvents ==
    ASSUME IInv, EventInv, NEW p \in Procs, ServerStep(p), UNCHANGED hostVars
    PROVE  EventInv'
<1>t. /\ completions \in [Procs -> 0..MaxEvents] /\ notes \in [Procs -> 0..MaxEvents]
      /\ sent \in [Procs -> 0..MaxEvents] /\ written \in [Procs -> 0..MaxEvents]
  BY DEF IInv, TypeOK, ServerTypeOK
<1>1. p \in alive /\ alive' \subseteq alive /\ starter' = starter
  BY DEF ServerStep, TakeLine, Respond, PushNote, Complete, Forward, Exit, Selecting, hostVars
<1>2. \A x \in Procs \ {p} : /\ completions'[x] = completions[x] /\ notes'[x] = notes[x]
                             /\ written'[x] = written[x] /\ sent'[x] = sent[x]
  BY <1>t DEF ServerStep, TakeLine, Respond, PushNote, Complete, Forward, Exit
<1>3. ~Unspawned(p)
  BY <1>1, CountTypes
<1>4. ASSUME p \in alive' PROVE written'[p] + (completions'[p] + notes'[p]) = sent'[p]
  <2>1. /\ written[p] + (completions[p] + notes[p]) = sent[p]
        /\ completions[p] \in Int /\ notes[p] \in Int /\ written[p] \in Int /\ sent[p] \in Int
    BY <1>1, CountTypes DEF EventInv, Waiting
  <2>2. \/ UNCHANGED <<completions, notes, written, sent>>
        \/ /\ UNCHANGED <<completions, written>>
           /\ \E n \in 0..1 : notes'[p] = notes[p] + n /\ sent'[p] = sent[p] + n
        \/ /\ UNCHANGED <<completions, sent>>
           /\ notes'[p] = notes[p] - 1 /\ written'[p] = written[p] + 1
        \/ /\ UNCHANGED <<notes, written>>
           /\ completions'[p] = completions[p] + 1 /\ sent'[p] = sent[p] + 1
        \/ /\ UNCHANGED <<written, sent>>
           /\ completions'[p] = completions[p] - 1 /\ notes'[p] = notes[p] + 1
    <3>1. CASE TakeLine(p) \/ Exit(p)
      BY <3>1 DEF TakeLine, Exit
    <3>2. CASE Respond(p)
      BY <1>t, <3>2 DEF Respond
    <3>3. CASE PushNote(p)
      BY <1>t, <3>3 DEF PushNote
    <3>4. CASE Complete(p)
      BY <1>t, <3>4 DEF Complete
    <3>5. CASE Forward(p)
      BY <1>t, <3>5 DEF Forward
    <3> QED
      BY <3>1, <3>2, <3>3, <3>4, <3>5 DEF ServerStep
  <2> QED
    BY <2>1, <2>2
<1>5. ASSUME NEW x \in Procs, Unspawned(x)' PROVE sent'[x] = 0
  BY <1>1, <1>2, <1>3, <1>5 DEF EventInv, Unspawned
<1>6. ASSUME NEW x \in alive' PROVE written'[x] + Waiting(x)' = sent'[x]
  BY <1>1, <1>2, <1>4, CountTypes DEF EventInv, Waiting
<1> QED
  BY <1>5, <1>6 DEF EventInv

LEMMA StartKeepsEvents ==
    ASSUME IInv, EventInv, NEW r \in Starters, BeginRestart(r) \/ StartStep(r)
    PROVE  EventInv'
<1>1. UNCHANGED <<sent, written>>
  BY DEF BeginRestart, StartStep, StopAll, Unlist, ReadConfigs, LockClients, Spawn, SpawnFails,
         Initialize, Connect, GiveUp, ListTools, Drop, serverVars
\* A start never goes back to where a configuration of it is unspawned.
<1>2. ASSUME NEW x \in Procs, Unspawned(x)' PROVE Unspawned(x)
  <2>t. starter \in [Starters -> StarterType] /\ x[1] \in Starters
    BY McpHostAssumption DEF IInv, TypeOK, StarterType
  <2>0. CASE x[1] # r
    <3>1. starter'[x[1]] = starter[x[1]]
      BY <2>t, <2>0, StartFrame DEF IInv
    <3> QED
      BY <1>2, <3>1 DEF Unspawned
  <2>1. CASE x[1] = r
    <3>1. CASE starter[r].pc \in Before
      BY <2>1, <3>1 DEF Unspawned
    <3>2. CASE starter[r].pc \notin Before
      <4> DEFINE Later == starter'[r].pc \notin Before /\ starter'[r].todo \subseteq starter[r].todo
      <4> SUFFICES Later
        BY <1>2, <2>1 DEF Unspawned
      <4> HIDE DEF Later
      <4>0. starter[r] \in StarterType /\ TypeOK
        BY <2>t DEF IInv
      <4>1. CASE LockClients(r) \/ Initialize(r) \/ GiveUp(r) \/ ListTools(r)
        <5>1. PICK pc \in {"spawn", "list", "done"} : Goto(r, pc)
          BY <4>1 DEF LockClients, Initialize, GiveUp, ListTools
        <5>2. starter'[r].pc = pc /\ starter'[r].todo = starter[r].todo
          BY <4>0, <5>1, GotoEffect
        <5> QED
          BY <5>1, <5>2 DEF Before, Later
      <4>2. CASE Spawn(r)
        BY <2>t, <4>2 DEF Spawn, Before, StarterType, Later
      <4>3. CASE SpawnFails(r)
        BY <2>t, <3>2, <4>3 DEF SpawnFails, StarterType, Later
      <4>4. CASE Connect(r)
        BY <2>t, <4>4 DEF Connect, Before, StarterType, Later
      <4>5. ~(BeginRestart(r) \/ StopAll(r) \/ Unlist(r) \/ ReadConfigs(r))
        BY <3>2 DEF BeginRestart, StopAll, Unlist, ReadConfigs, At, Before
      <4> QED
        BY <4>1, <4>2, <4>3, <4>4, <4>5 DEF StartStep
    <3> QED
      BY <3>1, <3>2
  <2> QED
    BY <2>0, <2>1
<1>3. ASSUME NEW x \in alive' PROVE written'[x] + Waiting(x)' = sent'[x]
  <2>1. CASE x \in alive /\ completions'[x] = completions[x] /\ notes'[x] = notes[x]
    BY <1>1, <2>1 DEF EventInv, Waiting
  <2>2. CASE Spawn(r)
    <3>1. PICK i \in DOMAIN Order :
             NextConfig(r, i) /\ alive' = alive \cup {<<r, i>>}
      BY <2>2 DEF Spawn
    <3>2. UNCHANGED <<completions, notes>>
      BY <2>2 DEF Spawn
    <3>3. CASE x \in alive
      BY <2>1, <3>2, <3>3
    <3>4. CASE x = <<r, i>>
      <4>1. x \in Procs /\ Unspawned(x)
        BY <3>1, <3>4, McpHostAssumption DEF NextConfig, Unspawned
      <4>2. /\ sent[x] = 0 /\ completions[x] \in Nat /\ notes[x] \in Nat /\ written[x] \in Nat
            /\ completions[x] + notes[x] + written[x] <= sent[x]
        BY <4>1, CountTypes DEF EventInv
      <4>3. written[x] + (completions[x] + notes[x]) = sent[x]
        BY <4>2
      <4> QED
        BY <1>1, <3>2, <4>3 DEF Waiting
    <3> QED
      BY <3>1, <3>3, <3>4
  <2>3. CASE ~Spawn(r)
    <3>1. \/ UNCHANGED <<alive, completions, notes>>
          \/ \E ps : /\ alive' = alive \ ps
                     /\ completions' = Dropped(completions, ps, 0)
                     /\ notes' = Dropped(notes, ps, 0)
      BY <2>3 DEF BeginRestart, StartStep, StopAll, Unlist, ReadConfigs, LockClients, SpawnFails,
         Initialize, Connect, GiveUp, ListTools, Drop, serverVars
    <3>2. ASSUME NEW ps, alive' = alive \ ps, completions' = Dropped(completions, ps, 0),
                 notes' = Dropped(notes, ps, 0)
          PROVE  x \in alive /\ completions'[x] = completions[x] /\ notes'[x] = notes[x]
      <4>1. x \in alive /\ x \notin ps /\ x \in Procs
        BY <3>2, CountTypes
      <4> QED
        BY <3>2, <4>1 DEF Dropped
    <3> QED
      BY <2>1, <3>1, <3>2
  <2> QED
    BY <2>2, <2>3
<1>4. ASSUME NEW x \in Procs, Unspawned(x)' PROVE sent'[x] = 0
  BY <1>1, <1>2, <1>4 DEF EventInv
<1> QED
  BY <1>3, <1>4 DEF EventInv

LEMMA NextEvents == IInv /\ EventInv /\ [Next]_vars => EventInv'
<1> SUFFICES ASSUME IInv, EventInv, [Next]_vars PROVE EventInv'
  OBVIOUS
<1>1. CASE UNCHANGED <<alive, completions, notes, sent, written, starter>>
  BY <1>1 DEF EventInv, Waiting, Unspawned
<1>2. UNCHANGED vars => UNCHANGED <<alive, completions, notes, sent, written, starter>>
  BY DEF vars, serverVars, hostVars
<1>3. ASSUME NEW c \in Calls, Route(c) \/ CallStep(c)
      PROVE  UNCHANGED <<alive, completions, notes, sent, written, starter>>
  BY <1>3 DEF Route, CallStep, CannotSend, Send, Receive, serverVars
<1> QED
  BY <1>1, <1>2, <1>3, ServerKeepsEvents, StartKeepsEvents DEF Next

\* The variables are well typed; no counter of events exceeds its bound, because
\* every event is forwarded once and written once (server.rs).
THEOREM TypeCorrect == Spec => []TypeOK
BY Invariance, PTL DEF IInv

\* A call that succeeds has the answer to its own request: McpClient::call
\* compares the ids, and no other line of the process has the id.
THEOREM AnswersAreOwn == Spec => []OwnAnswers
BY Invariance, PTL DEF IInv

\* Overlapping starts leave no server process behind (mcp.rs, StdioTransport::drop).
THEOREM NoServerIsStray == Spec => []NoStrayServer
BY Invariance, PTL DEF IInv

\* Every listed tool has a client once no start is under way (mcp.rs:76).
THEOREM ListedHaveClients == Spec => []ListedAreConnected
<1>1. IInv => ListedAreConnected
  BY DEF IInv, ToolInv, ListedAreConnected, UnderWay, At
<1> QED
  BY <1>1, Invariance, PTL

\* A call that waits holds the mutex, and the client it asked is still its
\* server's: nobody replaces or drops it meanwhile (mcp.rs:137).
THEOREM CallsKeepTheirServer ==
    Spec => [](\A c \in Calls : call[c].pc = "wait" =>
                    lock = c /\ clients[call[c].server] = call[c].proc)
<1>1. IInv => \A c \in Calls : call[c].pc = "wait" =>
                 lock = c /\ clients[call[c].server] = call[c].proc
  BY DEF IInv, LockInv, KeptInv
<1> QED
  BY <1>1, Invariance, PTL

\* While a process runs each of its events is in the channel of completions, in
\* the channel of notifications or written, and in one place only: the branch of
\* the select! that is not taken loses nothing (server.rs:137).
THEOREM NoEventIsLost ==
    Spec => [](\A p \in alive : written[p] + (completions[p] + notes[p]) = sent[p])
<1>1. Init => EventInv
  BY DEF Init, ServerInit, EventInv, Waiting
<1>2. EventInv => \A p \in alive : written[p] + (completions[p] + notes[p]) = sent[p]
  BY DEF EventInv, Waiting
<1> QED
  BY <1>1, <1>2, Invariance, NextEvents, PTL DEF Spec

\* The mutex of the clients is never left locked: its holder is a start between
\* its first server and its list, or a call that waits for its answer (mcp.rs:50,
\* mcp.rs:137).
THEOREM MutexHasAHolder ==
    Spec => [](lock # None =>
                  \/ lock \in Starters /\ starter[lock].pc \in Holding
                  \/ lock \in Calls /\ call[lock].pc = "wait")
<1>1. IInv => (lock # None =>
                  \/ lock \in Starters /\ starter[lock].pc \in Holding
                  \/ lock \in Calls /\ call[lock].pc = "wait")
  BY McpHostAssumption DEF IInv, TypeOK, LockInv
<1> QED
  BY <1>1, Invariance, PTL
=============================================================================

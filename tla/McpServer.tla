----------------------------- MODULE McpServer -----------------------------
(***************************************************************************)
(* The MCP server on stdio and its two pipes.  run_with_io selects between *)
(* the next line of stdin and the next ServerNotification; a request is    *)
(* handled to its end before it selects again, and every answer and every  *)
(* notification is one line on stdout.  A task beside it forwards the      *)
(* completion events of the sub-agents as notifications.                   *)
(*                                                                         *)
(* Each spawned process is one of Procs.  What its pipes hold is not       *)
(* bounded by their capacity, and of a notification only its number is     *)
(* kept.  The caller at the other end is McpHost.                          *)
(***************************************************************************)
EXTENDS Naturals, Sequences

CONSTANTS
    Procs,      \* server processes
    Askers,     \* who sends requests
    MaxEvents,  \* bound on the notifications of a process
    None

ASSUME McpServerAssumption == MaxEvents \in Nat /\ None \notin Askers

VARIABLES
    alive,        \* processes that run
    stdin,        \* lines the server has not read
    stdout,       \* lines the client has not read
    busy,         \* the request being handled
    completions,  \* completion events not forwarded yet
    notes,        \* ServerNotifications not written yet
    sent,         \* events and notifications so far
    written       \* notifications written so far

serverVars == <<alive, stdin, stdout, busy, completions, notes, sent, written>>

Methods == {"initialize", "notifications/initialized", "tools/list", "tools/call"}

\* A notification has no id: 0.
Requests == [id : Nat, method : Methods, by : Askers]
Request(id, method, by) == [id |-> id, method |-> method, by |-> by]

\* An answer carries the id of its request and what was computed for it.
Lines == [id : Nat, of : Askers \cup {None}]
AnswerTo(q) == [id |-> q.id, of |-> q.by]
NoteLine == [id |-> 0, of |-> None]

ServerTypeOK ==
    /\ alive \subseteq Procs
    /\ stdin \in [Procs -> Seq(Requests)]
    /\ stdout \in [Procs -> Seq(Lines)]
    /\ busy \in [Procs -> Requests \cup {None}]
    /\ completions \in [Procs -> 0..MaxEvents]
    /\ notes \in [Procs -> 0..MaxEvents]
    /\ sent \in [Procs -> 0..MaxEvents]
    /\ written \in [Procs -> 0..MaxEvents]

ServerInit ==
    /\ alive = {}
    /\ stdin = [p \in Procs |-> <<>>]
    /\ stdout = [p \in Procs |-> <<>>]
    /\ busy = [p \in Procs |-> None]
    /\ completions = [p \in Procs |-> 0]
    /\ notes = [p \in Procs |-> 0]
    /\ sent = [p \in Procs |-> 0]
    /\ written = [p \in Procs |-> 0]

Selecting(p) == p \in alive /\ busy[p] = None

\* Mutant: both branches of the select are polled to their end, and the
\* notification that came with the line is lost.
TakeLineAndNote(p) ==
    /\ Selecting(p) /\ stdin[p] # <<>>
    /\ stdin' = [stdin EXCEPT ![p] = Tail(@)]
    /\ busy' = [busy EXCEPT ![p] = IF Head(stdin[p]).id = 0 THEN None ELSE Head(stdin[p])]
    /\ notes' = [notes EXCEPT ![p] = IF @ > 0 THEN @ - 1 ELSE 0]
    /\ UNCHANGED <<alive, stdout, completions, sent, written>>

\* The next line of stdin; a notification is read and forgotten.
TakeLine(p) ==
    /\ Selecting(p) /\ stdin[p] # <<>>
    /\ stdin' = [stdin EXCEPT ![p] = Tail(@)]
    /\ busy' = [busy EXCEPT ![p] = IF Head(stdin[p]).id = 0 THEN None ELSE Head(stdin[p])]
    /\ UNCHANGED <<alive, stdout, completions, notes, sent, written>>

\* The handler returns and the answer is written.  A tool that registers or
\* deactivates a plugin has sent a list_changed notification before.
Respond(p) ==
    /\ p \in alive /\ busy[p] # None
    /\ stdout' = [stdout EXCEPT ![p] = Append(@, AnswerTo(busy[p]))]
    /\ busy' = [busy EXCEPT ![p] = None]
    /\ \E changes \in 0..1 :
          /\ changes = 1 => busy[p].method = "tools/call" /\ sent[p] < MaxEvents
          /\ notes' = [notes EXCEPT ![p] = @ + changes]
          /\ sent' = [sent EXCEPT ![p] = @ + changes]
    /\ UNCHANGED <<alive, stdin, completions, written>>

\* Mutant: the notification is written but stays in the channel.
PushNoteAgain(p) ==
    /\ Selecting(p) /\ notes[p] > 0
    /\ stdout' = [stdout EXCEPT ![p] = Append(@, NoteLine)]
    /\ written' = [written EXCEPT ![p] = @ + 1]
    /\ UNCHANGED <<alive, stdin, busy, completions, notes, sent>>

PushNote(p) ==
    /\ Selecting(p) /\ notes[p] > 0
    /\ notes' = [notes EXCEPT ![p] = @ - 1]
    /\ stdout' = [stdout EXCEPT ![p] = Append(@, NoteLine)]
    /\ written' = [written EXCEPT ![p] = @ + 1]
    /\ UNCHANGED <<alive, stdin, busy, completions, sent>>

\* A sub-agent of the server ends: SubAgentManager sends its event.
Complete(p) ==
    /\ p \in alive /\ sent[p] < MaxEvents
    /\ completions' = [completions EXCEPT ![p] = @ + 1]
    /\ sent' = [sent EXCEPT ![p] = @ + 1]
    /\ UNCHANGED <<alive, stdin, stdout, busy, notes, written>>

\* spawn_completion_forwarder.
Forward(p) ==
    /\ p \in alive /\ completions[p] > 0
    /\ completions' = [completions EXCEPT ![p] = @ - 1]
    /\ notes' = [notes EXCEPT ![p] = @ + 1]
    /\ UNCHANGED <<alive, stdin, stdout, busy, sent, written>>

\* The process ends by itself; what it has written can still be read.
Exit(p) ==
    /\ p \in alive
    /\ alive' = alive \ {p}
    /\ UNCHANGED <<stdin, stdout, busy, completions, notes, sent, written>>

ServerStep(p) ==
    TakeLine(p) \/ Respond(p) \/ PushNote(p) \/ Complete(p) \/ Forward(p) \/ Exit(p)
=============================================================================

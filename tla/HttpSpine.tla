------------------------------ MODULE HttpSpine ------------------------------
(***************************************************************************)
(* The HTTP spine channel: handle_chat registers a oneshot sender under    *)
(* the session of its request, emits the message and waits; the delivery   *)
(* loop reads DeliveryRequests off a lossy broadcast channel and hands     *)
(* each to whoever is registered for its session.                          *)
(*                                                                         *)
(* PendingResponses is locked for one insert or take at a time, so between *)
(* two of them other handlers and the loop run.  The pipeline between the  *)
(* two is external: it answers an emitted message once, late or never, and *)
(* its tools may send a session a message nobody asked for.                *)
(***************************************************************************)
EXTENDS Naturals, Sequences

CONSTANTS
    Requests,   \* POST /v1/chat requests with a message
    Sessions,
    SessionOf,  \* session_id of each request
    BusCap,     \* capacity of the broadcast channel
    Notes,      \* unsolicited messages of the pipeline (a bound)
    None

ASSUME SpineAssumption ==
    /\ SessionOf \in [Requests -> Sessions]
    /\ BusCap \in Nat \ {0} /\ Notes \in Nat
    /\ None \notin Requests

VARIABLES
    phase,      \* where handle_chat stands
    pending,    \* PendingResponses: the request whose sender is registered
    got,        \* what arrived in a request's oneshot channel
    cut,        \* requests whose sender was dropped unused
    asked,      \* emitted messages the pipeline has not answered
    notes,      \* unsolicited messages so far
    bus,        \* DeliveryRequests the loop has not received
    carrying    \* sender the loop has taken and not used yet

vars == <<phase, pending, got, cut, asked, notes, bus, carrying>>

\* A delivery's content is the request it answers, or None for an unsolicited one.
Deliveries == [session : Sessions, answer : Requests \cup {None}]

Nobody == [to |-> None, answer |-> None]
Unanswered == <<>>

Phases == {"new", "emit", "wait", "expired", "answered", "rejected", "failed", "timeout", "gone"}

TypeOK ==
    /\ phase \in [Requests -> Phases]
    /\ pending \in [Sessions -> Requests \cup {None}]
    /\ got \in [Requests -> {Unanswered} \cup {<<a>> : a \in Requests \cup {None}}]
    /\ cut \subseteq Requests
    /\ asked \subseteq Requests
    /\ notes \in 0..Notes
    /\ bus \in Seq(Deliveries) /\ Len(bus) <= BusCap
    /\ carrying \in [to : Requests \cup {None}, answer : Requests \cup {None}]

Init ==
    /\ phase = [q \in Requests |-> "new"]
    /\ pending = [s \in Sessions |-> None]
    /\ got = [q \in Requests |-> Unanswered]
    /\ cut = {} /\ asked = {} /\ notes = 0
    /\ bus = <<>>
    /\ carrying = Nobody

-----------------------------------------------------------------------------
(* handle_chat.                                                            *)

\* Register, unless another request of the session is registered.
Post(q) ==
    /\ phase[q] = "new"
    /\ IF pending[SessionOf[q]] # None
       THEN phase' = [phase EXCEPT ![q] = "rejected"] /\ UNCHANGED pending
       ELSE /\ phase' = [phase EXCEPT ![q] = "emit"]
            /\ pending' = [pending EXCEPT ![SessionOf[q]] = q]
    /\ UNCHANGED <<got, cut, asked, notes, bus, carrying>>

Emit(q) ==
    /\ phase[q] = "emit"
    /\ phase' = [phase EXCEPT ![q] = "wait"]
    /\ asked' = asked \cup {q}
    /\ UNCHANGED <<pending, got, cut, notes, bus, carrying>>

Receive(q) ==
    /\ phase[q] = "wait" /\ got[q] # Unanswered
    /\ phase' = [phase EXCEPT ![q] = "answered"]
    /\ UNCHANGED <<pending, got, cut, asked, notes, bus, carrying>>

\* The sender was dropped: an internal server error.
Fail(q) ==
    /\ phase[q] = "wait" /\ got[q] = Unanswered /\ q \in cut
    /\ phase' = [phase EXCEPT ![q] = "failed"]
    /\ UNCHANGED <<pending, got, cut, asked, notes, bus, carrying>>

\* Mutant: the timeout only starts once the pipeline has answered.
ExpireLate(q) ==
    /\ phase[q] = "wait" /\ got[q] = Unanswered /\ q \notin cut
    /\ q \notin asked
    /\ phase' = [phase EXCEPT ![q] = "expired"]
    /\ UNCHANGED <<pending, got, cut, asked, notes, bus, carrying>>

\* The timeout elapses with nothing received, and the receiver is dropped.
Expire(q) ==
    /\ phase[q] = "wait" /\ got[q] = Unanswered /\ q \notin cut
    /\ phase' = [phase EXCEPT ![q] = "expired"]
    /\ UNCHANGED <<pending, got, cut, asked, notes, bus, carrying>>

\* Mutant: the handler returns without cleaning up.
CleanUpNothing(q) ==
    /\ phase[q] = "expired"
    /\ phase' = [phase EXCEPT ![q] = "timeout"]
    /\ UNCHANGED <<pending, got, cut, asked, notes, bus, carrying>>

\* Clean up pending: whichever sender the session has now is taken and dropped.
CleanUp(q) ==
    LET s == SessionOf[q]
    IN  /\ phase[q] = "expired"
        /\ phase' = [phase EXCEPT ![q] = "timeout"]
        /\ cut' = cut \cup ({pending[s]} \ {None})
        /\ pending' = [pending EXCEPT ![s] = None]
        /\ UNCHANGED <<got, asked, notes, bus, carrying>>

\* The client hangs up and the handler's future is dropped at an await.
Disconnect(q) ==
    /\ phase[q] \in {"emit", "wait", "expired"}
    /\ phase' = [phase EXCEPT ![q] = "gone"]
    /\ UNCHANGED <<pending, got, cut, asked, notes, bus, carrying>>

Handle(q) == Post(q) \/ Emit(q) \/ Receive(q) \/ Fail(q) \/ Expire(q) \/ CleanUp(q)

-----------------------------------------------------------------------------
(* The pipeline (external) and the broadcast channel, which drops its       *)
(* oldest event when it is full.                                           *)

\* Mutant: the channel grows without bound.
BroadcastAll(d) == bus' = Append(bus, d)

Broadcast(d) == bus' = Append(IF Len(bus) = BusCap THEN Tail(bus) ELSE bus, d)

Answer(q) ==
    /\ q \in asked
    /\ asked' = asked \ {q}
    /\ Broadcast([session |-> SessionOf[q], answer |-> q])
    /\ UNCHANGED <<phase, pending, got, cut, notes, carrying>>

SendMessage(s) ==
    /\ notes < Notes
    /\ notes' = notes + 1
    /\ Broadcast([session |-> s, answer |-> None])
    /\ UNCHANGED <<phase, pending, got, cut, asked, carrying>>

-----------------------------------------------------------------------------
(* run_delivery_loop.                                                      *)

\* Mutant: the response goes to some registered request.
TakeAny ==
    /\ carrying = Nobody /\ bus # <<>>
    /\ bus' = Tail(bus)
    /\ \E s \in Sessions :
          /\ pending[s] # None
          /\ carrying' = [to |-> pending[s], answer |-> Head(bus).answer]
          /\ pending' = [pending EXCEPT ![s] = None]
    /\ UNCHANGED <<phase, got, cut, asked, notes>>

\* Receive the next delivery and take the sender of its session, if there is one.
Take ==
    LET d == Head(bus)
    IN  /\ carrying = Nobody /\ bus # <<>>
        /\ bus' = Tail(bus)
        /\ IF pending[d.session] = None
           THEN UNCHANGED <<pending, carrying>>
           ELSE /\ carrying' = [to |-> pending[d.session], answer |-> d.answer]
                /\ pending' = [pending EXCEPT ![d.session] = None]
        /\ UNCHANGED <<phase, got, cut, asked, notes>>

\* tx.send, whose failure is ignored: the receiver may be gone.
Send ==
    LET q == carrying.to
    IN  /\ carrying # Nobody
        /\ carrying' = Nobody
        /\ got' = IF phase[q] \in {"emit", "wait"} THEN [got EXCEPT ![q] = <<carrying.answer>>]
                  ELSE got
        /\ UNCHANGED <<phase, pending, cut, asked, notes, bus>>

Loop == Take \/ Send

-----------------------------------------------------------------------------
Next ==
    \/ \E q \in Requests : Handle(q) \/ Disconnect(q) \/ Answer(q)
    \/ \E s \in Sessions : SendMessage(s)
    \/ Loop

\* The server polls its handlers and the loop; clients and pipeline owe nothing.
Fairness ==
    /\ \A q \in Requests :
           WF_vars(Emit(q) \/ Receive(q) \/ Fail(q) \/ Expire(q) \/ CleanUp(q))
    /\ WF_vars(Loop)

Spec == Init /\ [][Next]_vars
FairSpec == Spec /\ Fairness

-----------------------------------------------------------------------------
Open(q) == phase[q] \in {"emit", "wait"}

\* Nothing more will be delivered to the request.
Forsaken(q) == ~Open(q) \/ got[q] # Unanswered \/ carrying.to = q \/ q \in cut

\* The answer to a request goes to another one only when the first has given up or
\* been served: while its handler waits with its sender registered, nobody else of
\* the session can be handed its answer (PendingResponses::insert, take).
AnswersDoNotBypass ==
    \A q, r \in Requests : (got[q] = <<r>> /\ q # r) => Forsaken(r)

\* A handler that has returned leaves no sender behind, so that only a client that
\* hung up can keep its session busy.
ReturnedIsUnregistered ==
    \A s \in Sessions :
        pending[s] # None => phase[pending[s]] \in {"emit", "wait", "expired", "gone"}

\* Every accepted request is answered with something, by its timeout at the latest.
RequestsFinish ==
    \A q \in Requests : Open(q) ~> phase[q] \in {"answered", "failed", "timeout", "gone"}

\* http_spine.rs, handle_chat: a request_id unique per request routes the response, so
\* a request never gets the answer to another one.
AnswersMatch == \A q, r \in Requests : got[q] = <<r>> => q = r
=============================================================================

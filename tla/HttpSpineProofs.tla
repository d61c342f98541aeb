--------------------------- MODULE HttpSpineProofs ---------------------------
(***************************************************************************)
(* Proofs about HttpSpine, for any requests, sessions and capacity of the  *)
(* broadcast channel.                                                      *)
(***************************************************************************)
EXTENDS HttpSpine, SequenceTheorems, TLAPS

USE SpineAssumption

\* A registered sender is its session's, unused and in nobody else's hands.
PendingInv ==
    \A s \in Sessions : \A q \in Requests : pending[s] = q =>
        /\ SessionOf[q] = s
        /\ phase[q] \in {"emit", "wait", "expired", "gone"}
        /\ got[q] = Unanswered /\ q \notin cut /\ carrying.to # q

\* A request that was not posted yet is nowhere to be found.
NewInv ==
    \A q \in Requests :
        /\ phase[q] = "new" => got[q] = Unanswered /\ q \notin cut /\ carrying.to # q
        /\ q \in asked => phase[q] # "new"

\* An answer travels under the session of its request, after it was posted.
BusInv ==
    \A i \in 1..Len(bus) : \A r \in Requests :
        bus[i].answer = r => bus[i].session = SessionOf[r] /\ phase[r] # "new"

\* A waiting request can still be woken: its sender is registered, on its way in the
\* loop, used or dropped.
ReachInv == \A q \in Requests : pending[SessionOf[q]] = q \/ Forsaken(q)

\* An answer is on its way to, or with, another request only if its own is forsaken.
BypassInv ==
    \A r \in Requests :
        /\ (carrying.answer = r /\ carrying.to # None) => phase[r] # "new"
        /\ (carrying.answer = r /\ carrying.to \notin {None, r}) => Forsaken(r)
        /\ \A q \in Requests : got[q] = <<r>> => phase[r] # "new" /\ (q # r => Forsaken(r))

IInv == TypeOK /\ PendingInv /\ NewInv /\ BusInv /\ ReachInv /\ BypassInv

-----------------------------------------------------------------------------
\* A broadcast keeps the channel within its capacity and adds one delivery.
LEMMA BroadcastFacts ==
    ASSUME bus \in Seq(Deliveries), Len(bus) <= BusCap, NEW d \in Deliveries, Broadcast(d)
    PROVE  /\ bus' \in Seq(Deliveries) /\ Len(bus') <= BusCap
           /\ \A i \in 1..Len(bus') : bus'[i] = d \/ \E j \in 1..Len(bus) : bus'[i] = bus[j]
<1>1. CASE Len(bus) = BusCap
  <2>1. bus # <<>>
    BY <1>1
  <2>2. /\ Tail(bus) \in Seq(Deliveries) /\ Len(Tail(bus)) = Len(bus) - 1
        /\ \A i \in 1..Len(Tail(bus)) : Tail(bus)[i] = bus[i + 1]
    BY <2>1, HeadTailProperties
  <2>3. bus' = Append(Tail(bus), d)
    BY <1>1 DEF Broadcast
  <2>4. /\ bus' \in Seq(Deliveries) /\ Len(bus') = Len(bus)
        /\ \A i \in 1..Len(bus') :
              bus'[i] = IF i = Len(bus) THEN d ELSE Tail(bus)[i]
    <3> DEFINE rest == Tail(bus)
    <3>1. rest \in Seq(Deliveries) /\ Len(rest) + 1 = Len(bus) /\ bus' = Append(rest, d)
      BY <2>2, <2>3
    <3> HIDE DEF rest
    <3>2. /\ bus' \in Seq(Deliveries) /\ Len(bus') = Len(rest) + 1
          /\ \A i \in 1..Len(rest) + 1 :
                bus'[i] = IF i = Len(rest) + 1 THEN d ELSE rest[i]
      BY <3>1, AppendProperties
    <3> QED
      BY <3>1, <3>2 DEF rest
  <2> QED
    BY <1>1, <2>2, <2>4
<1>2. CASE Len(bus) # BusCap
  <2>1. bus' = Append(bus, d)
    BY <1>2 DEF Broadcast
  <2>2. /\ bus' \in Seq(Deliveries) /\ Len(bus') = Len(bus) + 1
        /\ \A i \in 1..Len(bus') :
              bus'[i] = IF i = Len(bus) + 1 THEN d ELSE bus[i]
    BY <2>1, AppendProperties
  <2> QED
    BY <1>2, <2>2
<1> QED
  BY <1>1, <1>2

\* Receiving takes the first delivery off.
LEMMA ReceiveFacts ==
    ASSUME bus \in Seq(Deliveries), Len(bus) <= BusCap, bus # <<>>, bus' = Tail(bus)
    PROVE  /\ bus' \in Seq(Deliveries) /\ Len(bus') <= BusCap
           /\ 1 \in 1..Len(bus) /\ Head(bus) = bus[1] /\ Head(bus) \in Deliveries
           /\ \A i \in 1..Len(bus') : \E j \in 1..Len(bus) : bus'[i] = bus[j]
BY HeadTailProperties, EmptySeq

LEMMA InitInv == Init => IInv
BY DEF Init, IInv, TypeOK, Phases, Nobody, Unanswered, PendingInv, NewInv, BusInv,
       ReachInv, BypassInv, Forsaken, Open

LEMMA NextType == TypeOK /\ [Next]_vars => TypeOK'
<1> SUFFICES ASSUME TypeOK, [Next]_vars PROVE TypeOK'
  OBVIOUS
<1> USE DEF TypeOK, Phases
<1>u. CASE UNCHANGED vars
  BY <1>u DEF vars
<1>1. ASSUME NEW q \in Requests, Handle(q) \/ Disconnect(q)
      PROVE  TypeOK'
  <2>1. CASE CleanUp(q)
    BY <2>1 DEF CleanUp
  <2> QED
    BY <1>1, <2>1 DEF Handle, Post, Emit, Receive, Fail, Expire, Disconnect
<1>2. ASSUME NEW q \in Requests, Answer(q)
      PROVE  TypeOK'
  <2>1. [session |-> SessionOf[q], answer |-> q] \in Deliveries
    BY DEF Deliveries
  <2>2. bus' \in Seq(Deliveries) /\ Len(bus') <= BusCap
    BY <1>2, <2>1, BroadcastFacts DEF Answer
  <2> QED
    BY <1>2, <2>2 DEF Answer
<1>3. ASSUME NEW s \in Sessions, SendMessage(s)
      PROVE  TypeOK'
  <2>1. [session |-> s, answer |-> None] \in Deliveries
    BY DEF Deliveries
  <2>2. bus' \in Seq(Deliveries) /\ Len(bus') <= BusCap
    BY <1>3, <2>1, BroadcastFacts DEF SendMessage
  <2> QED
    BY <1>3, <2>2 DEF SendMessage
<1>4. CASE Take
  <2>1. bus' \in Seq(Deliveries) /\ Len(bus') <= BusCap /\ Head(bus) \in Deliveries
    BY <1>4, ReceiveFacts DEF Take
  <2> QED
    BY <1>4, <2>1 DEF Take, Deliveries
<1>5. CASE Send
  <2>1. carrying.answer \in Requests \cup {None}
    OBVIOUS
  <2> QED
    BY <1>5, <2>1 DEF Send, Nobody
<1> QED
  BY <1>u, <1>1, <1>2, <1>3, <1>4, <1>5 DEF Next, Loop

\* A handler's step.
LEMMA HandlerStep ==
    ASSUME IInv, NEW q \in Requests, Handle(q) \/ Disconnect(q)
    PROVE  PendingInv' /\ NewInv' /\ BusInv' /\ ReachInv' /\ BypassInv'
<1> TypeOK /\ PendingInv /\ NewInv /\ BusInv /\ ReachInv /\ BypassInv
  BY DEF IInv
<1>0. \A r \in Requests : (phase'[r] = "new" => phase[r] = "new") /\ got' = got
      /\ carrying' = carrying /\ bus' = bus
  BY DEF TypeOK, Handle, Post, Emit, Receive, Fail, Expire, CleanUp, Disconnect
<1>f. \A r \in Requests : phase[r] # "new" /\ Forsaken(r) => Forsaken(r)'
  BY DEF TypeOK, Forsaken, Open, Handle, Post, Emit, Receive, Fail, Expire, CleanUp, Disconnect
<1>1. PendingInv'
  <2>1. CASE Post(q)
    BY <2>1 DEF PendingInv, NewInv, TypeOK, Post
  <2>2. CASE CleanUp(q)
    BY <2>2 DEF PendingInv, TypeOK, CleanUp
  <2>3. CASE Emit(q) \/ Expire(q) \/ Disconnect(q)
    BY <2>3 DEF PendingInv, TypeOK, Emit, Expire, Disconnect
  <2>4. CASE Receive(q) \/ Fail(q)
    BY <2>4 DEF PendingInv, TypeOK, Receive, Fail
  <2> QED
    BY <2>1, <2>2, <2>3, <2>4 DEF Handle
<1>2. NewInv'
  BY DEF PendingInv, NewInv, TypeOK, Handle, Post, Emit, Receive, Fail, Expire, CleanUp,
         Disconnect
<1>3. BusInv'
  BY <1>0 DEF BusInv
<1>4. ReachInv'
  BY <1>f DEF ReachInv, Forsaken, Open, PendingInv, TypeOK, Handle, Post, Emit, Receive,
         Fail, Expire, CleanUp, Disconnect
<1>5. BypassInv'
  BY <1>0, <1>f DEF BypassInv
<1> QED
  BY <1>1, <1>2, <1>3, <1>4, <1>5

\* A step of the pipeline only changes the channel and what was asked.
LEMMA PipelineStep ==
    ASSUME IInv, (\E q \in Requests : Answer(q)) \/ (\E s \in Sessions : SendMessage(s))
    PROVE  PendingInv' /\ NewInv' /\ BusInv' /\ ReachInv' /\ BypassInv'
<1> TypeOK /\ PendingInv /\ NewInv /\ BusInv /\ ReachInv /\ BypassInv
  BY DEF IInv
<1>0. UNCHANGED <<phase, pending, got, cut, carrying>> /\ asked' \subseteq asked
  BY DEF Answer, SendMessage
<1>1. BusInv'
  <2>1. ASSUME NEW q \in Requests, Answer(q)
        PROVE  BusInv'
    <3> DEFINE d == [session |-> SessionOf[q], answer |-> q]
    <3>1. d \in Deliveries /\ d.answer = q /\ d.session = SessionOf[q] /\ phase[q] # "new"
      BY <2>1 DEF Deliveries, NewInv, Answer
    <3>2. \A i \in 1..Len(bus') : bus'[i] = d \/ \E j \in 1..Len(bus) : bus'[i] = bus[j]
      BY <2>1, <3>1, BroadcastFacts DEF Answer, TypeOK
    <3> HIDE DEF d
    <3> QED
      BY <1>0, <3>1, <3>2 DEF BusInv
  <2>2. ASSUME NEW s \in Sessions, SendMessage(s)
        PROVE  BusInv'
    <3> DEFINE d == [session |-> s, answer |-> None]
    <3>1. d \in Deliveries /\ d.answer = None
      BY DEF Deliveries
    <3>2. \A i \in 1..Len(bus') : bus'[i] = d \/ \E j \in 1..Len(bus) : bus'[i] = bus[j]
      BY <2>2, <3>1, BroadcastFacts DEF SendMessage, TypeOK
    <3> HIDE DEF d
    <3> QED
      BY <1>0, <3>1, <3>2 DEF BusInv
  <2> QED
    BY <2>1, <2>2
<1> QED
  BY <1>0, <1>1 DEF PendingInv, NewInv, ReachInv, BypassInv, Forsaken, Open

\* The loop takes a sender: the answer it goes with is its own, or one whose request
\* is forsaken, because no other sender of the session is registered.
LEMMA TakeStep ==
    ASSUME IInv, Take
    PROVE  PendingInv' /\ NewInv' /\ BusInv' /\ ReachInv' /\ BypassInv'
<1> TypeOK /\ PendingInv /\ NewInv /\ BusInv /\ ReachInv /\ BypassInv
  BY DEF IInv
<1> DEFINE d == Head(bus)
<1>0. UNCHANGED <<phase, got, cut, asked>> /\ carrying = Nobody
  BY DEF Take
<1>1. /\ 1 \in 1..Len(bus) /\ d = bus[1] /\ d \in Deliveries
      /\ \A i \in 1..Len(bus') : \E j \in 1..Len(bus) : bus'[i] = bus[j]
  BY ReceiveFacts DEF Take, TypeOK
<1>2. BusInv'
  <2>1. ASSUME NEW i \in 1..Len(bus'), NEW r \in Requests, bus'[i].answer = r
        PROVE  bus'[i].session = SessionOf[r] /\ phase[r] # "new"
    <3>1. PICK j \in 1..Len(bus) : bus'[i] = bus[j]
      BY <1>1
    <3> QED
      BY <2>1, <3>1 DEF BusInv
  <2> QED
    BY <1>0, <2>1 DEF BusInv
<1>3. CASE pending[d.session] = None
  <2>1. UNCHANGED <<pending, carrying>>
    BY <1>3 DEF Take
  <2> QED
    BY <1>0, <1>2, <2>1 DEF PendingInv, NewInv, ReachInv, BypassInv, Forsaken, Open
<1>4. CASE pending[d.session] # None
  <2> DEFINE to == pending[d.session]
  <2>1. /\ carrying' = [to |-> to, answer |-> d.answer]
        /\ pending' = [pending EXCEPT ![d.session] = None]
    BY <1>4 DEF Take
  <2>2. /\ d.session \in Sessions /\ to \in Requests /\ to # None
        /\ SessionOf[to] = d.session /\ phase[to] # "new"
    BY <1>1, <1>4 DEF Deliveries, TypeOK, PendingInv
  <2>3. carrying'.to = to /\ carrying'.answer = d.answer /\ carrying.to = None
    BY <1>0, <2>1 DEF Nobody
  <2>4. ASSUME NEW r \in Requests, d.answer = r, r # to
        PROVE  Forsaken(r)
    <3>1. d.session = SessionOf[r]
      BY <1>1, <2>4 DEF BusInv
    <3>2. pending[SessionOf[r]] # r
      BY <2>2, <2>4, <3>1
    <3> QED
      BY <3>2 DEF ReachInv
  <2>5. \A r \in Requests : Forsaken(r) => Forsaken(r)'
    BY <1>0, <2>3 DEF Forsaken, Open
  <2>6. \A r \in Requests : d.answer = r => phase[r] # "new"
    BY <1>1 DEF BusInv
  <2> HIDE DEF d, to
  <2>7. PendingInv'
    BY <1>0, <2>1, <2>2, <2>3 DEF PendingInv, TypeOK
  <2>8. NewInv'
    BY <1>0, <2>2, <2>3 DEF NewInv
  <2>9. ReachInv'
    <3> SUFFICES ASSUME NEW q \in Requests
                 PROVE  (pending[SessionOf[q]] = q)' \/ Forsaken(q)'
      BY DEF ReachInv
    <3>1. CASE q = to
      BY <2>3, <3>1 DEF Forsaken
    <3>2. CASE q # to /\ pending[SessionOf[q]] = q
      <4>1. SessionOf[q] # d.session
        BY <3>2 DEF to
      <4> QED
        BY <2>1, <3>2, <4>1 DEF TypeOK
    <3> QED
      BY <2>5, <3>1, <3>2 DEF ReachInv
  <2>10. BypassInv'
    <3> SUFFICES ASSUME NEW r \in Requests
                 PROVE  /\ d.answer = r => phase[r] # "new"
                        /\ (d.answer = r /\ to # r) => Forsaken(r)'
                        /\ \A q \in Requests : got[q] = <<r>> =>
                              phase[r] # "new" /\ (q # r => Forsaken(r)')
      BY <1>0, <2>2, <2>3 DEF BypassInv
    <3> QED
      BY <2>4, <2>5, <2>6 DEF BypassInv
  <2> QED
    BY <1>2, <2>7, <2>8, <2>9, <2>10
<1> QED
  BY <1>3, <1>4

\* The loop uses the sender it holds.
LEMMA SendStep ==
    ASSUME IInv, Send
    PROVE  PendingInv' /\ NewInv' /\ BusInv' /\ ReachInv' /\ BypassInv'
<1> TypeOK /\ PendingInv /\ NewInv /\ BusInv /\ ReachInv /\ BypassInv
  BY DEF IInv
<1> DEFINE q == carrying.to
<1>0. UNCHANGED <<phase, pending, cut, asked, bus>> /\ carrying' = Nobody
  BY DEF Send
<1>1. /\ \A r \in Requests : r # q => got'[r] = got[r]
      /\ q \in Requests => got'[q] = got[q] \/ got'[q] = <<carrying.answer>>
      /\ (q \in Requests /\ Open(q)) => got'[q] = <<carrying.answer>>
  BY DEF Send, Open, TypeOK
<1>2. q \in Requests => phase[q] # "new" /\ \A s \in Sessions : pending[s] # q
  BY DEF NewInv, PendingInv
<1>3. carrying'.to = None
  BY <1>0 DEF Nobody
<1>4. \A r \in Requests : Forsaken(r) => Forsaken(r)'
  <2> SUFFICES ASSUME NEW r \in Requests, Forsaken(r) PROVE Forsaken(r)'
    OBVIOUS
  <2>1. CASE r = q
    BY <1>0, <1>1, <2>1 DEF Forsaken, Open, Unanswered
  <2>2. CASE r # q
    BY <1>0, <1>1, <2>2 DEF Forsaken, Open
  <2> QED
    BY <2>1, <2>2
<1> HIDE DEF q
<1>5. PendingInv'
  BY <1>0, <1>1, <1>2, <1>3 DEF PendingInv
<1>6. NewInv'
  BY <1>0, <1>1, <1>2, <1>3 DEF NewInv
<1>7. BusInv' /\ ReachInv'
  BY <1>0, <1>4 DEF BusInv, ReachInv
<1>8. BypassInv'
  <2> SUFFICES ASSUME NEW r \in Requests, NEW p \in Requests, got'[p] = <<r>>
               PROVE  phase[r] # "new" /\ (p # r => Forsaken(r)')
    BY <1>0, <1>3 DEF BypassInv
  <2>1. CASE got[p] = <<r>>
    BY <1>4, <2>1 DEF BypassInv
  <2>2. CASE p = q /\ carrying.answer = r
    BY <1>4, <2>2 DEF BypassInv, q
  <2> QED
    BY <1>1, <2>1, <2>2
<1> QED
  BY <1>5, <1>6, <1>7, <1>8

LEMMA Invariance == Spec => []IInv
<1>1. ASSUME IInv, [Next]_vars PROVE IInv'
  <2>1. TypeOK'
    BY <1>1, NextType DEF IInv
  <2>2. CASE UNCHANGED vars
    BY <1>1, <2>2 DEF vars, IInv, TypeOK, PendingInv, NewInv, BusInv, ReachInv, BypassInv,
                      Forsaken, Open
  <2>3. CASE Next
    BY <1>1, <2>1, <2>3, HandlerStep, PipelineStep, TakeStep, SendStep DEF Next, Loop, IInv
  <2> QED
    BY <1>1, <2>2, <2>3
<1> QED
  BY InitInv, <1>1, PTL DEF Spec

-----------------------------------------------------------------------------
\* Every variable keeps its type; the broadcast channel keeps to its capacity.
THEOREM TypeCorrect == Spec => []TypeOK
<1>1. IInv => TypeOK
  BY DEF IInv
<1> QED
  BY Invariance, <1>1, PTL

\* While a request waits with its sender registered no other request gets its answer,
\* for any number of requests of a session and any losses of the channel.
THEOREM NoBypass == Spec => []AnswersDoNotBypass
<1>1. IInv => AnswersDoNotBypass
  BY DEF IInv, BypassInv, AnswersDoNotBypass
<1> QED
  BY Invariance, <1>1, PTL

\* A handler that has returned has left no sender behind.
THEOREM ReturnedUnregistered == Spec => []ReturnedIsUnregistered
<1>1. IInv => ReturnedIsUnregistered
  BY DEF IInv, TypeOK, PendingInv, ReturnedIsUnregistered
<1> QED
  BY Invariance, <1>1, PTL

-----------------------------------------------------------------------------
(* When answers reach the request they are for.                            *)

\* The pipeline owes the request an answer, or one of its answers is on its way.
Outstanding(r) ==
    \/ phase[r] = "emit" \/ r \in asked
    \/ \E i \in 1..Len(bus) : bus[i].answer = r
    \/ carrying.answer = r

\* The request is accepted while an earlier one of its session is outstanding.
Joins(q) ==
    /\ Post(q) /\ phase'[q] = "emit"
    /\ \E r \in Requests : SessionOf[r] = SessionOf[q] /\ Outstanding(r)

\* An outstanding request is its session's only one: nobody else is registered.
AloneInv ==
    /\ \A r \in Requests : Outstanding(r) => pending[SessionOf[r]] \in {r, None}
    /\ \A r \in Requests : carrying.answer = r => carrying.to = r
    /\ AnswersMatch

\* A request that becomes outstanding does so by being accepted.
LEMMA AloneHandler ==
    ASSUME IInv, AloneInv, NEW q \in Requests, Handle(q) \/ Disconnect(q), ~Joins(q)
    PROVE  AloneInv'
<1> TypeOK /\ UNCHANGED <<got, bus, carrying>>
  BY DEF IInv, Handle, Post, Emit, Receive, Fail, Expire, CleanUp, Disconnect
<1>0. phase \in [Requests -> Phases] /\ pending \in [Sessions -> Requests \cup {None}]
  BY DEF TypeOK
<1>1. (\A r \in Requests : carrying'.answer = r => carrying'.to = r) /\ AnswersMatch'
  BY DEF AloneInv, AnswersMatch
<1>2. ASSUME NEW r \in Requests, Outstanding(r)'
      PROVE  pending'[SessionOf[r]] \in {r, None}
  <2>1. CASE Post(q)
    <3>1. CASE pending[SessionOf[q]] # None
      <4>1. pending' = pending /\ phase' = [phase EXCEPT ![q] = "rejected"] /\ asked' = asked
        BY <2>1, <3>1 DEF Post
      <4>2. Outstanding(r)
        BY <1>0, <1>2, <4>1 DEF Outstanding
      <4> QED
        BY <4>1, <4>2 DEF AloneInv
    <3>2. CASE pending[SessionOf[q]] = None
      <4>1. /\ pending' = [pending EXCEPT ![SessionOf[q]] = q] /\ asked' = asked
            /\ phase' = [phase EXCEPT ![q] = "emit"]
        BY <2>1, <3>2 DEF Post
      <4>2. CASE r = q
        BY <1>0, <4>1, <4>2
      <4>3. CASE r # q
        <5>1. Outstanding(r)
          BY <1>0, <1>2, <4>1, <4>3 DEF Outstanding
        <5>2. SessionOf[r] # SessionOf[q]
          BY <1>0, <2>1, <4>1, <5>1 DEF Joins
        <5> QED
          BY <1>0, <4>1, <5>1, <5>2 DEF AloneInv
      <4> QED
        BY <4>2, <4>3
    <3> QED
      BY <3>1, <3>2
  <2>2. CASE Emit(q)
    <3>1. pending' = pending /\ (Outstanding(r)' => Outstanding(r))
      BY <1>0, <2>2 DEF Emit, Outstanding
    <3> QED
      BY <1>2, <3>1 DEF AloneInv
  <2>3. CASE Receive(q) \/ Fail(q) \/ Expire(q) \/ Disconnect(q)
    <3>1. pending' = pending /\ asked' = asked /\ (phase'[r] = "emit" => phase[r] = "emit")
      BY <1>0, <2>3 DEF Receive, Fail, Expire, Disconnect
    <3>2. Outstanding(r)
      BY <1>2, <3>1 DEF Outstanding
    <3> QED
      BY <3>1, <3>2 DEF AloneInv
  <2>4. CASE CleanUp(q)
    <3>1. /\ pending' = [pending EXCEPT ![SessionOf[q]] = None] /\ asked' = asked
          /\ phase'[r] = "emit" => phase[r] = "emit"
      BY <1>0, <2>4 DEF CleanUp
    <3>2. Outstanding(r)
      BY <1>2, <3>1 DEF Outstanding
    <3> QED
      BY <1>0, <3>1, <3>2 DEF AloneInv
  <2> QED
    BY <2>1, <2>2, <2>3, <2>4 DEF Handle
<1> QED
  BY <1>1, <1>2 DEF AloneInv

\* The pipeline moves what it was asked to the channel.
LEMMA AlonePipeline ==
    ASSUME IInv, AloneInv,
           (\E q \in Requests : Answer(q)) \/ (\E s \in Sessions : SendMessage(s))
    PROVE  AloneInv'
<1> TypeOK /\ UNCHANGED <<phase, pending, got, carrying>>
  BY DEF IInv, Answer, SendMessage
<1>1. ASSUME NEW r \in Requests, Outstanding(r)'
      PROVE  Outstanding(r)
  <2>1. ASSUME NEW q \in Requests, Answer(q)
        PROVE  Outstanding(r)
    <3> DEFINE d == [session |-> SessionOf[q], answer |-> q]
    <3>1. d \in Deliveries /\ d.answer = q /\ asked' \subseteq asked /\ q \in asked
      BY <2>1 DEF Deliveries, Answer
    <3>2. \A i \in 1..Len(bus') : bus'[i] = d \/ \E j \in 1..Len(bus) : bus'[i] = bus[j]
      BY <2>1, <3>1, BroadcastFacts DEF Answer, TypeOK
    <3> HIDE DEF d
    <3> QED
      BY <1>1, <3>1, <3>2 DEF Outstanding
  <2>2. ASSUME NEW s \in Sessions, SendMessage(s)
        PROVE  Outstanding(r)
    <3> DEFINE d == [session |-> s, answer |-> None]
    <3>1. d \in Deliveries /\ d.answer # r /\ asked' = asked
      BY <2>2 DEF Deliveries, SendMessage
    <3>2. \A i \in 1..Len(bus') : bus'[i] = d \/ \E j \in 1..Len(bus) : bus'[i] = bus[j]
      BY <2>2, <3>1, BroadcastFacts DEF SendMessage, TypeOK
    <3> HIDE DEF d
    <3> QED
      BY <1>1, <3>1, <3>2 DEF Outstanding
  <2> QED
    BY <2>1, <2>2
<1> QED
  BY <1>1 DEF AloneInv, AnswersMatch

\* The loop hands an answer to the request it is for, or to nobody.
LEMMA AloneLoop ==
    ASSUME IInv, AloneInv, Take \/ Send
    PROVE  AloneInv'
<1> TypeOK /\ BusInv
  BY DEF IInv
<1>0. pending \in [Sessions -> Requests \cup {None}]
  BY DEF TypeOK
<1>1. CASE Take
  <2> DEFINE d == Head(bus)
  <2>0. UNCHANGED <<phase, got, asked>> /\ carrying = Nobody
    BY <1>1 DEF Take
  <2>1. /\ 1 \in 1..Len(bus) /\ d = bus[1] /\ d \in Deliveries
        /\ \A i \in 1..Len(bus') : \E j \in 1..Len(bus) : bus'[i] = bus[j]
    BY <1>1, ReceiveFacts DEF Take, TypeOK
  <2>2. d.session \in Sessions
    BY <2>1 DEF Deliveries
  <2>3. \/ /\ pending[d.session] = None /\ UNCHANGED <<pending, carrying>>
        \/ /\ pending[d.session] # None
           /\ carrying' = [to |-> pending[d.session], answer |-> d.answer]
           /\ pending' = [pending EXCEPT ![d.session] = None]
    BY <1>1 DEF Take
  <2>4. \/ carrying' = carrying
        \/ carrying'.answer = d.answer /\ carrying'.to = pending[d.session]
    BY <2>3
  <2>5. \A r \in Requests : d.answer = r => Outstanding(r) /\ d.session = SessionOf[r]
    BY <2>1 DEF Outstanding, BusInv
  <2>6. ASSUME NEW r \in Requests, Outstanding(r)'
        PROVE  Outstanding(r)
    <3>1. CASE \E i \in 1..Len(bus') : bus'[i].answer = r
      BY <2>1, <3>1 DEF Outstanding
    <3>2. CASE carrying'.answer = r
      BY <2>4, <2>5, <3>2 DEF Outstanding
    <3> QED
      BY <2>0, <2>6, <3>1, <3>2 DEF Outstanding
  <2>7. \A s \in Sessions : pending'[s] \in {pending[s], None}
    BY <1>0, <2>2, <2>3
  <2>8. ASSUME NEW r \in Requests, carrying'.answer = r
        PROVE  carrying'.to = r
    <3>1. CASE carrying' = carrying
      BY <2>8, <3>1 DEF AloneInv
    <3>2. CASE /\ pending[d.session] # None
               /\ carrying'.answer = d.answer /\ carrying'.to = pending[d.session]
      BY <2>5, <2>8, <3>2 DEF AloneInv
    <3> QED
      BY <2>3, <2>4, <3>1, <3>2
  <2> HIDE DEF d
  <2> QED
    BY <2>0, <2>6, <2>7, <2>8 DEF AloneInv, AnswersMatch
<1>2. CASE Send
  <2>0. UNCHANGED <<phase, pending, asked, bus>> /\ carrying' = Nobody
    BY <1>2 DEF Send
  <2>1. carrying'.answer = None
    BY <2>0 DEF Nobody
  <2>2. \A r \in Requests : Outstanding(r)' => Outstanding(r)
    BY <2>0, <2>1 DEF Outstanding
  <2>3. ASSUME NEW q \in Requests, NEW r \in Requests, got'[q] = <<r>>
        PROVE  q = r
    <3>1. got'[q] = got[q] \/ (q = carrying.to /\ got'[q] = <<carrying.answer>>)
      BY <1>2 DEF Send, TypeOK
    <3> QED
      BY <2>3, <3>1 DEF AloneInv, AnswersMatch
  <2> QED
    BY <2>0, <2>1, <2>2, <2>3 DEF AloneInv, AnswersMatch
<1> QED
  BY <1>1, <1>2

\* What handle_chat's request_id is for holds as long as a session's next request is
\* only accepted once nothing of the earlier ones is outstanding: every request then
\* gets the answer to itself or none, whatever times out and whatever is lost.
THEOREM OneAtATimeMatches ==
    Spec /\ [][\A q \in Requests : ~Joins(q)]_vars => []AnswersMatch
<1>1. Init => AloneInv
  BY DEF Init, AloneInv, AnswersMatch, Outstanding, Nobody, Unanswered
<1>2. IInv /\ [Next]_vars /\ [\A q \in Requests : ~Joins(q)]_vars /\ AloneInv => AloneInv'
  <2> SUFFICES ASSUME IInv, AloneInv, [Next]_vars, [\A q \in Requests : ~Joins(q)]_vars
               PROVE  AloneInv'
    OBVIOUS
  <2>1. CASE UNCHANGED vars
    BY <2>1 DEF vars, AloneInv, AnswersMatch, Outstanding
  <2>2. CASE Next /\ \A q \in Requests : ~Joins(q)
    BY <2>2, AloneHandler, AlonePipeline, AloneLoop DEF Next, Loop
  <2> QED
    BY <2>1, <2>2
<1>3. AloneInv => AnswersMatch
  BY DEF AloneInv
<1> QED
  BY Invariance, <1>1, <1>2, <1>3, PTL DEF Spec

-----------------------------------------------------------------------------
(* An answer is in one place.                                              *)

InBus(r) == \E i \in 1..Len(bus) : bus[i].answer = r
InHand(r) == carrying.answer = r
Given(r) == \E p \in Requests : got[p] = <<r>>

\* The answer to r does not exist, is owed by the pipeline, is in the channel, in the
\* loop's hand or with one request.
OnePlace(r) ==
    /\ phase[r] \in {"new", "emit"} => r \notin asked /\ ~InBus(r) /\ ~InHand(r) /\ ~Given(r)
    /\ r \in asked => ~InBus(r) /\ ~InHand(r) /\ ~Given(r)
    /\ InBus(r) => ~InHand(r) /\ ~Given(r)
    /\ InHand(r) => ~Given(r)
    /\ \A i, j \in 1..Len(bus) : bus[i].answer = r /\ bus[j].answer = r => i = j
    /\ \A p, q \in Requests : got[p] = <<r>> /\ got[q] = <<r>> => p = q

OnePlaceInv == \A r \in Requests : OnePlace(r)

\* Where the deliveries of the channel come from when one is added.
LEMMA BroadcastPlaces ==
    ASSUME bus \in Seq(Deliveries), Len(bus) <= BusCap, NEW d \in Deliveries, Broadcast(d)
    PROVE  \E k \in {0, 1} :
               \A i \in 1..Len(bus') :
                   \/ i = Len(bus') /\ bus'[i] = d
                   \/ i + k \in 1..Len(bus) /\ bus'[i] = bus[i + k]
<1>1. CASE Len(bus) = BusCap
  <2>1. bus # <<>>
    BY <1>1
  <2> DEFINE rest == Tail(bus)
  <2>2. /\ rest \in Seq(Deliveries) /\ Len(rest) = Len(bus) - 1 /\ Len(bus) \in Nat
        /\ \A i \in 1..Len(rest) : rest[i] = bus[i + 1]
    BY <2>1, HeadTailProperties
  <2>3. bus' = Append(rest, d)
    BY <1>1 DEF Broadcast
  <2> HIDE DEF rest
  <2>4. /\ Len(bus') = Len(rest) + 1 /\ Len(rest) \in Nat
        /\ \A i \in 1..Len(rest) + 1 : bus'[i] = IF i = Len(rest) + 1 THEN d ELSE rest[i]
    BY <2>2, <2>3, AppendProperties
  <2>5. ASSUME NEW i \in 1..Len(bus'), i # Len(bus')
        PROVE  i + 1 \in 1..Len(bus) /\ bus'[i] = bus[i + 1]
    <3>1. i \in 1..Len(rest) /\ i \in 1..Len(rest) + 1 /\ i # Len(rest) + 1
      BY <2>4, <2>5
    <3>2. bus'[i] = rest[i] /\ rest[i] = bus[i + 1]
      BY <2>2, <2>4, <3>1
    <3> QED
      BY <2>2, <3>1, <3>2
  <2>6. ASSUME NEW i \in 1..Len(bus'), i = Len(bus')
        PROVE  bus'[i] = d
    BY <2>4, <2>6
  <2> QED
    BY <2>5, <2>6
<1>2. CASE Len(bus) # BusCap
  <2>1. bus' = Append(bus, d)
    BY <1>2 DEF Broadcast
  <2>2. /\ Len(bus') = Len(bus) + 1 /\ Len(bus) \in Nat
        /\ \A i \in 1..Len(bus) + 1 : bus'[i] = IF i = Len(bus) + 1 THEN d ELSE bus[i]
    BY <2>1, AppendProperties
  <2>3. ASSUME NEW i \in 1..Len(bus'), i # Len(bus')
        PROVE  i + 0 \in 1..Len(bus) /\ bus'[i] = bus[i + 0]
    <3>1. i \in 1..Len(bus) /\ i \in 1..Len(bus) + 1 /\ i # Len(bus) + 1 /\ i + 0 = i
      BY <2>2, <2>3
    <3> QED
      BY <2>2, <3>1
  <2>4. ASSUME NEW i \in 1..Len(bus'), i = Len(bus')
        PROVE  bus'[i] = d
    BY <2>2, <2>4
  <2> QED
    BY <2>3, <2>4
<1> QED
  BY <1>1, <1>2

\* A delivery that is added leaves every other answer where it is.
LEMMA BroadcastOnce ==
    ASSUME bus \in Seq(Deliveries), Len(bus) <= BusCap, NEW d \in Deliveries, Broadcast(d),
           NEW r \in Requests, d.answer = r => ~InBus(r),
           \A i, j \in 1..Len(bus) : bus[i].answer = r /\ bus[j].answer = r => i = j
    PROVE  /\ \A i, j \in 1..Len(bus') : bus'[i].answer = r /\ bus'[j].answer = r => i = j
           /\ InBus(r)' => InBus(r) \/ d.answer = r
<1>1. PICK k \in {0, 1} :
          \A i \in 1..Len(bus') :
              \/ i = Len(bus') /\ bus'[i] = d
              \/ i + k \in 1..Len(bus) /\ bus'[i] = bus[i + k]
  BY BroadcastPlaces
<1>2. InBus(r)' => InBus(r) \/ d.answer = r
  BY <1>1 DEF InBus
<1>3. ASSUME NEW i \in 1..Len(bus'), NEW j \in 1..Len(bus'),
             bus'[i].answer = r, bus'[j].answer = r
      PROVE  i = j
  <2>1. CASE d.answer = r
    <3>1. \A n \in 1..Len(bus) : bus[n].answer # r
      BY <2>1 DEF InBus
    <3>2. i = Len(bus') /\ j = Len(bus')
      BY <1>1, <1>3, <3>1
    <3> QED
      BY <3>2
  <2>2. CASE d.answer # r
    <3>1. /\ i + k \in 1..Len(bus) /\ bus[i + k].answer = r
          /\ j + k \in 1..Len(bus) /\ bus[j + k].answer = r
      BY <1>1, <1>3, <2>2
    <3>2. i + k = j + k
      BY <3>1
    <3> QED
      BY <3>2
  <2> QED
    BY <2>1, <2>2
<1> QED
  BY <1>2, <1>3

LEMMA OnePlaceHandler ==
    ASSUME TypeOK, OnePlaceInv, NEW q \in Requests, Handle(q) \/ Disconnect(q),
           NEW r \in Requests
    PROVE  OnePlace(r)'
<1>0. UNCHANGED <<got, bus, carrying>> /\ phase \in [Requests -> Phases]
  BY DEF TypeOK, Handle, Post, Emit, Receive, Fail, Expire, CleanUp, Disconnect
<1>1. OnePlace(r)
  BY DEF OnePlaceInv
<1>2. InBus(r)' = InBus(r) /\ InHand(r)' = InHand(r) /\ Given(r)' = Given(r)
  BY <1>0 DEF InBus, InHand, Given
<1>3. CASE Emit(q)
  <2>1. /\ phase[q] = "emit" /\ phase' = [phase EXCEPT ![q] = "wait"]
        /\ asked' = asked \cup {q}
    BY <1>3 DEF Emit
  <2>2. CASE r = q
    BY <1>0, <1>1, <1>2, <2>1, <2>2 DEF OnePlace
  <2>3. CASE r # q
    BY <1>0, <1>1, <1>2, <2>1, <2>3 DEF OnePlace
  <2> QED
    BY <2>2, <2>3
<1>4. CASE ~Emit(q)
  <2>1. asked' = asked /\ (phase'[r] \in {"new", "emit"} => phase[r] \in {"new", "emit"})
    BY <1>0, <1>4 DEF Handle, Post, Receive, Fail, Expire, CleanUp, Disconnect
  <2> QED
    BY <1>0, <1>1, <1>2, <2>1 DEF OnePlace
<1> QED
  BY <1>3, <1>4

LEMMA OnePlacePipeline ==
    ASSUME TypeOK, OnePlaceInv, NEW r \in Requests,
           (\E q \in Requests : Answer(q)) \/ (\E s \in Sessions : SendMessage(s))
    PROVE  OnePlace(r)'
<1>0. UNCHANGED <<phase, got, carrying>> /\ bus \in Seq(Deliveries) /\ Len(bus) <= BusCap
  BY DEF TypeOK, Answer, SendMessage
<1>1. OnePlace(r)
  BY DEF OnePlaceInv
<1>2. InHand(r)' = InHand(r) /\ Given(r)' = Given(r)
  BY <1>0 DEF InHand, Given
<1>3. ASSUME NEW q \in Requests, Answer(q)
      PROVE  OnePlace(r)'
  <2> DEFINE d == [session |-> SessionOf[q], answer |-> q]
  <2>1. d \in Deliveries /\ d.answer = q
    BY DEF Deliveries
  <2>2. Broadcast(d) /\ q \in asked /\ asked' = asked \ {q}
    BY <1>3 DEF Answer
  <2> HIDE DEF d
  <2>3. d.answer = r => ~InBus(r)
    BY <1>1, <2>1, <2>2 DEF OnePlace
  <2>4. /\ \A i, j \in 1..Len(bus') : bus'[i].answer = r /\ bus'[j].answer = r => i = j
        /\ InBus(r)' => InBus(r) \/ d.answer = r
    BY <1>0, <1>1, <2>1, <2>2, <2>3, BroadcastOnce DEF OnePlace
  <2>5. CASE r = q
    BY <1>0, <1>1, <1>2, <2>2, <2>4, <2>5 DEF OnePlace
  <2>6. CASE r # q
    BY <1>0, <1>1, <1>2, <2>1, <2>2, <2>4, <2>6 DEF OnePlace
  <2> QED
    BY <2>5, <2>6
<1>4. ASSUME NEW s \in Sessions, SendMessage(s)
      PROVE  OnePlace(r)'
  <2> DEFINE d == [session |-> s, answer |-> None]
  <2>1. d \in Deliveries /\ d.answer # r
    BY DEF Deliveries
  <2>2. Broadcast(d) /\ asked' = asked
    BY <1>4 DEF SendMessage
  <2> HIDE DEF d
  <2>3. /\ \A i, j \in 1..Len(bus') : bus'[i].answer = r /\ bus'[j].answer = r => i = j
        /\ InBus(r)' => InBus(r) \/ d.answer = r
    BY <1>0, <1>1, <2>1, <2>2, BroadcastOnce DEF OnePlace
  <2> QED
    BY <1>0, <1>1, <1>2, <2>1, <2>2, <2>3 DEF OnePlace
<1> QED
  BY <1>3, <1>4

LEMMA OnePlaceTake ==
    ASSUME TypeOK, OnePlaceInv, Take, NEW r \in Requests
    PROVE  OnePlace(r)'
<1> DEFINE d == Head(bus)
<1>0. UNCHANGED <<phase, got, asked>> /\ carrying = Nobody /\ bus # <<>> /\ bus' = Tail(bus)
  BY DEF Take
<1>1. OnePlace(r)
  BY DEF OnePlaceInv
<1>2. /\ d = bus[1] /\ 1 \in 1..Len(bus) /\ Len(bus) \in Nat
      /\ \A i \in 1..Len(bus') : i + 1 \in 1..Len(bus) /\ bus'[i] = bus[i + 1]
  <2>1. bus \in Seq(Deliveries)
    BY DEF TypeOK
  <2>2. /\ Len(bus') = Len(bus) - 1 /\ Len(bus) \in Nat /\ Len(bus) # 0 /\ d = bus[1]
        /\ \A i \in 1..Len(bus') : bus'[i] = bus[i + 1]
    BY <1>0, <2>1, HeadTailProperties, EmptySeq
  <2> QED
    BY <2>2
<1>3. carrying'.answer = d.answer \/ carrying' = carrying
  BY DEF Take
<1> HIDE DEF d
<1>4. Given(r)' = Given(r) /\ ~InHand(r)
  BY <1>0 DEF Given, InHand, Nobody
<1>5. (InBus(r)' => InBus(r)) /\ (InHand(r)' => d.answer = r)
  BY <1>2, <1>3, <1>4 DEF InBus, InHand
<1>6. d.answer = r => InBus(r) /\ ~InBus(r)'
  <2> SUFFICES ASSUME d.answer = r PROVE InBus(r) /\ ~InBus(r)'
    OBVIOUS
  <2>1. InBus(r)
    BY <1>2 DEF InBus
  <2>2. ASSUME NEW i \in 1..Len(bus'), bus'[i].answer = r
        PROVE  FALSE
    <3>1. i + 1 \in 1..Len(bus) /\ bus[i + 1].answer = r
      BY <1>2, <2>2
    <3>2. i + 1 = 1
      BY <1>1, <1>2, <3>1 DEF OnePlace
    <3> QED
      BY <3>2
  <2> QED
    BY <2>1, <2>2 DEF InBus
<1>7. ASSUME NEW i \in 1..Len(bus'), NEW j \in 1..Len(bus'),
             bus'[i].answer = r, bus'[j].answer = r
      PROVE  i = j
  <2>1. /\ i + 1 \in 1..Len(bus) /\ bus[i + 1].answer = r
        /\ j + 1 \in 1..Len(bus) /\ bus[j + 1].answer = r
    BY <1>2, <1>7
  <2>2. i + 1 = j + 1
    BY <1>1, <2>1 DEF OnePlace
  <2> QED
    BY <2>2
<1> QED
  BY <1>0, <1>1, <1>4, <1>5, <1>6, <1>7 DEF OnePlace

LEMMA OnePlaceSend ==
    ASSUME TypeOK, OnePlaceInv, Send, NEW r \in Requests
    PROVE  OnePlace(r)'
<1>0. UNCHANGED <<phase, asked, bus>> /\ carrying' = Nobody
  BY DEF Send
<1>1. OnePlace(r)
  BY DEF OnePlaceInv
<1>2. InBus(r)' = InBus(r) /\ ~InHand(r)'
  BY <1>0 DEF InBus, InHand, Nobody
<1>3. ASSUME NEW p \in Requests, got'[p] = <<r>>
      PROVE  got[p] = <<r>> \/ (InHand(r) /\ p = carrying.to)
  <2>1. got'[p] = got[p] \/ (p = carrying.to /\ got'[p] = <<carrying.answer>>)
    BY DEF Send, TypeOK
  <2> QED
    BY <1>3, <2>1 DEF InHand
<1>4. Given(r)' => Given(r) \/ InHand(r)
  BY <1>3 DEF Given
<1>5. ASSUME NEW p \in Requests, NEW q \in Requests, got'[p] = <<r>>, got'[q] = <<r>>
      PROVE  p = q
  <2>1. CASE InHand(r)
    <3>1. got[p] # <<r>> /\ got[q] # <<r>>
      BY <1>1, <2>1 DEF OnePlace, Given
    <3> QED
      BY <1>3, <1>5, <3>1
  <2>2. CASE ~InHand(r)
    BY <1>1, <1>3, <1>5, <2>2 DEF OnePlace
  <2> QED
    BY <2>1, <2>2
<1> QED
  BY <1>0, <1>1, <1>2, <1>4, <1>5 DEF OnePlace

\* No answer is given to two requests, whoever they are: neither the loop nor a late or
\* repeated take of a sender doubles a response.
AnswersAreNotDoubled ==
    \A r, p, q \in Requests : got[p] = <<r>> /\ got[q] = <<r>> => p = q

\* The answer to a request is in one place at a time, from the pipeline through the
\* channel and the loop to the one request that gets it, so it is given at most once.
THEOREM AnswersGoToOne == Spec => []AnswersAreNotDoubled
<1>1. Init => OnePlaceInv
  BY DEF Init, OnePlaceInv, OnePlace, InBus, InHand, Given, Nobody, Unanswered
<1>2. TypeOK /\ OnePlaceInv /\ [Next]_vars => OnePlaceInv'
  <2> SUFFICES ASSUME TypeOK, OnePlaceInv, [Next]_vars, NEW r \in Requests
               PROVE  OnePlace(r)'
    BY DEF OnePlaceInv
  <2>1. CASE UNCHANGED vars
    BY <2>1 DEF vars, OnePlaceInv, OnePlace, InBus, InHand, Given
  <2>2. CASE Next
    BY <2>2, OnePlaceHandler, OnePlacePipeline, OnePlaceTake, OnePlaceSend DEF Next, Loop
  <2> QED
    BY <2>1, <2>2
<1>3. OnePlaceInv => AnswersAreNotDoubled
  BY DEF OnePlaceInv, OnePlace, AnswersAreNotDoubled
<1> QED
  BY <1>1, <1>2, <1>3, TypeCorrect, PTL DEF Spec
=============================================================================

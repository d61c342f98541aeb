------------------------- MODULE ConversationsProofs -------------------------
(***************************************************************************)
(* Proofs about Conversations.  A turn is in no history before it is kept, *)
(* and what a turn or a fork has in hand is genuine and without repetition *)
(* until it is used: these facts and the properties hold together.         *)
(***************************************************************************)
EXTENDS Conversations, TLAPS

Seen(m) == Range(turn[m].seen)

\* Nothing is in hand before the history is loaded and after it is used.
HandsEmpty ==
    \A m \in Messages :
        turn[m].pc \in {"new", "inserting", "stray", "done"} => turn[m].seen = <<>>

\* A turn that is not kept yet is in no window, no store and no prompt, and
\* one that is being stored is in no store.
UnkeptIsNowhere ==
    /\ \A m \in Messages : turn[m].pc \notin {"inserting", "done"} =>
        /\ \A b \in Names : m \notin Shown(b)
        /\ \A n \in Messages : m \notin Seen(n)
    /\ \A m \in Messages : turn[m].pc # "done" =>
        \A b \in Names : m \notin Stored(b)

OwnSource == \A b \in Names : b \in sources[b]

SeenOnce == \A m \in Messages : IsInjective(turn[m].seen)

\* A branch that is used is listed, and nothing was forked onto another; stray turns
\* and the turns of a branch that is not listed are left from before a restart or a
\* reset.
UsedIsListed ==
    /\ \A m \in Messages :
        /\ turn[m].pc \notin {"new", "stray", "done"} => turn[m].branch \in branches
        /\ turn[m].pc = "stray" => m \in earlier
    /\ \A b \in Names :
        /\ cache[b] # <<>> => b \in branches
        /\ b \notin branches => Stored(b) \subseteq earlier /\ sources[b] = {b}

IInv == /\ TypeOK /\ HandsEmpty /\ UnkeptIsNowhere /\ OwnSource
        /\ SeenOnce /\ NoTurnTwice /\ KeptWhereAsked /\ UsedIsListed

-----------------------------------------------------------------------------
(* Facts about sequences and records.                                      *)

LEMMA AppendFacts ==
    ASSUME NEW S, NEW s \in Seq(S), NEW m \in S
    PROVE  /\ Append(s, m) \in Seq(S)
           /\ Append(s, m) # <<>>
           /\ Range(Append(s, m)) = Range(s) \union {m}
           /\ IsInjective(s) /\ m \notin Range(s) => IsInjective(Append(s, m))
<1>1. /\ Len(Append(s, m)) = Len(s) + 1
      /\ DOMAIN Append(s, m) = 1..(Len(s) + 1)
      /\ DOMAIN s = 1..Len(s) /\ Len(s) \in Nat
      /\ \A i \in 1..Len(s) : Append(s, m)[i] = s[i]
      /\ Append(s, m)[Len(s) + 1] = m
  OBVIOUS
<1>2. Append(s, m) \in Seq(S) /\ Append(s, m) # <<>>
  BY <1>1
<1>3. \A i \in DOMAIN Append(s, m) : i \in 1..Len(s) \/ i = Len(s) + 1
  BY <1>1
<1>4. Range(Append(s, m)) = Range(s) \union {m}
  BY <1>1, <1>3 DEF Range
<1>5. ASSUME IsInjective(s), m \notin Range(s)
      PROVE  IsInjective(Append(s, m))
  BY <1>1, <1>3, <1>5 DEF Range, IsInjective
<1> QED
  BY <1>2, <1>4, <1>5

LEMMA EmptyFacts ==
    ASSUME NEW S
    PROVE  <<>> \in Seq(S) /\ Range(<<>>) = {} /\ IsInjective(<<>>)
BY DEF Range, IsInjective

LEMMA RangeType ==
    ASSUME NEW S, NEW s \in Seq(S)
    PROVE  Range(s) \subseteq S /\ (s = <<>> <=> Range(s) = {})
<1>1. \A i \in DOMAIN s : s[i] \in S
  OBVIOUS
<1>2. s # <<>> => 1 \in DOMAIN s
  OBVIOUS
<1> QED
  BY <1>1, <1>2 DEF Range

LEMMA TurnFields ==
    ASSUME NEW t \in Turns
    PROVE  /\ t.pc \in States /\ t.path \in Paths
           /\ t.branch \in Names /\ t.seen \in Seq(Messages)
BY DEF Turns

LEMMA IdleFacts ==
    ASSUME NEW state \in States, NEW b \in Names
    PROVE  /\ Idle(state, b) \in Turns
           /\ Idle(state, b).pc = state /\ Idle(state, b).path = "model"
           /\ Idle(state, b).branch = b /\ Idle(state, b).seen = <<>>
<1>1. "model" \in Paths /\ <<>> \in Seq(Messages)
  BY EmptyFacts DEF Paths
<1> QED
  BY <1>1 DEF Idle, Turns

-----------------------------------------------------------------------------
(* Types.                                                                  *)

LEMMA InitType == Init => TypeOK
<1> SUFFICES ASSUME Init PROVE TypeOK
  OBVIOUS
<1>1. "new" \in States /\ Main \in Names /\ MaxRestarts \in Nat
  BY ConversationsAssumption DEF States
<1>2. turn \in [Messages -> Turns]
  BY <1>1, IdleFacts DEF Init
<1>3. cache \in [Names -> Seq(Messages)] /\ store \in [Names -> Seq(Messages)]
  BY EmptyFacts DEF Init
<1> QED
  BY <1>1, <1>2, <1>3 DEF Init, TypeOK

\* Every field of a turn's record may be replaced by one of its type.
LEMMA UpdateType ==
    ASSUME TypeOK, NEW m \in Messages, NEW r \in Turns, turn' = [turn EXCEPT ![m] = r]
    PROVE  turn' \in [Messages -> Turns]
BY DEF TypeOK

LEMMA TurnType ==
    ASSUME TypeOK, NEW m \in Messages
    PROVE  /\ turn[m] \in Turns
           /\ turn[m].pc \in States /\ turn[m].path \in Paths
           /\ turn[m].branch \in Names /\ turn[m].seen \in Seq(Messages)
<1>1. turn[m] \in Turns
  BY DEF TypeOK
<1> QED
  BY <1>1, TurnFields

\* What each step of a turn makes of its record.
LookResult(path, b) ==
    [pc |-> IF cache[b] = <<>> THEN "reading" ELSE "model",
     path |-> path, branch |-> b, seen |-> cache[b]]

PcResult(m, state) == [turn[m] EXCEPT !.pc = state]

LEMMA LookType ==
    ASSUME TypeOK, NEW path \in Paths, NEW b \in Names
    PROVE  LookResult(path, b) \in Turns
<1>1. cache[b] \in Seq(Messages) /\ {"reading", "model"} \subseteq States
  BY DEF TypeOK, States
<1> QED
  BY <1>1 DEF LookResult, Turns

LEMMA PcType ==
    ASSUME TypeOK, NEW m \in Messages, NEW state \in States
    PROVE  /\ PcResult(m, state) \in Turns
           /\ PcResult(m, state).pc = state
           /\ PcResult(m, state).path = turn[m].path
           /\ PcResult(m, state).branch = turn[m].branch
           /\ PcResult(m, state).seen = turn[m].seen
BY TurnType DEF PcResult, Turns

ReadResult(m) ==
    LET rows == store[turn[m].branch]
    IN  [turn[m] EXCEPT !.pc = IF rows = <<>> THEN "model" ELSE "filling", !.seen = rows]

ForkResult(m, name) == [turn[m] EXCEPT !.pc = "seeding", !.branch = name]

LEMMA ReadType ==
    ASSUME TypeOK, NEW m \in Messages
    PROVE  /\ ReadResult(m) \in Turns
           /\ ReadResult(m).pc \in {"model", "filling"}
           /\ ReadResult(m).path = turn[m].path
           /\ ReadResult(m).branch = turn[m].branch
           /\ ReadResult(m).seen = store[turn[m].branch]
<1>1. store[turn[m].branch] \in Seq(Messages)
  BY TurnType DEF TypeOK
<1>2. {"model", "filling"} \subseteq States
  BY DEF States
<1> QED
  BY <1>1, <1>2, TurnType DEF ReadResult, Turns

LEMMA ForkType ==
    ASSUME TypeOK, NEW m \in Messages, NEW name \in Names
    PROVE  /\ ForkResult(m, name) \in Turns
           /\ ForkResult(m, name).pc = "seeding"
           /\ ForkResult(m, name).path = turn[m].path
           /\ ForkResult(m, name).branch = name
           /\ ForkResult(m, name).seen = turn[m].seen
<1>1. "seeding" \in States
  BY DEF States
<1> QED
  BY <1>1, TurnType DEF ForkResult, Turns

-----------------------------------------------------------------------------
(* The steps that change nothing but what one turn has in hand.            *)

HandStep(m, r) ==
    /\ turn' = [turn EXCEPT ![m] = r]
    /\ UNCHANGED <<active, branches, cache, store, sources, restarts, earlier>>

\* A record that turn m may have next: a kept turn keeps its branch, and what
\* is in hand comes from histories of the branch's sources.
Sound(m, r) ==
    /\ r \in Turns /\ turn[m].pc # "done"
    /\ turn[m].pc = "inserting" => r.pc = "done" /\ r.branch = turn[m].branch
    /\ r.pc # "inserting"
    /\ r.pc = "stray" => turn[m].pc = "stray"
    /\ r.pc \in {"new", "inserting", "stray", "done"} => r.seen = <<>>
    /\ r.pc \notin {"new", "stray", "done"} => r.branch \in branches
    /\ IsInjective(r.seen)
    /\ \A n \in Range(r.seen) : /\ turn[n].pc \in {"inserting", "done"}
                                /\ turn[n].branch \in sources[r.branch]

LEMMA HandStepKeepsIInv ==
    ASSUME IInv, NEW m \in Messages, NEW r, Sound(m, r), HandStep(m, r)
    PROVE  IInv'
<1>1. /\ r \in Turns /\ turn' = [turn EXCEPT ![m] = r]
      /\ UNCHANGED <<active, branches, cache, store, sources, restarts, earlier>>
  BY DEF Sound, HandStep
<1>2. \A n \in Messages : turn'[n] = IF n = m THEN r ELSE turn[n]
  BY <1>1 DEF IInv, TypeOK
<1>3. TypeOK'
  BY <1>1, UpdateType DEF IInv, TypeOK
<1>4. HandsEmpty'
  BY <1>2 DEF IInv, HandsEmpty, Sound
<1>5. Range(r.seen) \subseteq Messages
  BY <1>1, TurnFields, RangeType
<1>6. UnkeptIsNowhere'
  <2>1. \A n \in Messages, k \in Messages :
            turn'[n].pc \notin {"inserting", "done"} => n \notin Range(turn'[k].seen)
    BY <1>2, <1>5 DEF IInv, UnkeptIsNowhere, Sound, Seen
  <2>2. \A n \in Messages, b \in Names :
            /\ turn'[n].pc \notin {"inserting", "done"} => n \notin Shown(b)
            /\ turn'[n].pc # "done" => n \notin Stored(b)
    BY <1>2 DEF IInv, UnkeptIsNowhere, Sound
  <2> QED
    BY <1>1, <2>1, <2>2 DEF UnkeptIsNowhere, Seen, Shown, Stored
<1>7. OwnSource' /\ NoTurnTwice'
  BY <1>1 DEF IInv, OwnSource, NoTurnTwice
<1>8. SeenOnce'
  BY <1>2 DEF IInv, SeenOnce, Sound
<1>9. \A n \in Messages : turn[n].pc \in {"inserting", "done"} =>
          turn'[n].branch = turn[n].branch
  BY <1>2 DEF Sound
<1>10. KeptWhereAsked'
  <2>1. \A b \in Names : \A n \in Stored(b) \union Shown(b) :
            n \in Messages /\ turn'[n].branch = turn[n].branch
    <3>1. \A b \in Names : Stored(b) \union Shown(b) \subseteq Messages
      BY RangeType DEF IInv, TypeOK, Stored, Shown
    <3>2. \A b \in Names : \A n \in Stored(b) \union Shown(b) :
              turn[n].pc \in {"inserting", "done"}
      BY <3>1 DEF IInv, UnkeptIsNowhere
    <3> QED
      BY <1>9, <3>1, <3>2
  <2>2. \A k \in Messages : \A n \in Range(turn'[k].seen) :
            turn'[n].branch \in sources[turn'[k].branch]
    <3> SUFFICES ASSUME NEW k \in Messages, NEW n \in Range(turn'[k].seen)
                 PROVE  turn'[n].branch \in sources[turn'[k].branch]
      OBVIOUS
    <3>1. CASE k = m
      <4>1. n \in Messages /\ n \in Range(r.seen)
        BY <1>2, <1>5, <3>1
      <4>2. turn'[n].branch = turn[n].branch
        BY <1>9, <4>1 DEF Sound
      <4> QED
        BY <1>2, <3>1, <4>1, <4>2 DEF Sound
    <3>2. CASE k # m
      <4>1. n \in Seen(k) /\ turn'[k] = turn[k]
        BY <1>2, <3>2 DEF Seen
      <4>2. n \in Messages
        BY <4>1, TurnType, RangeType DEF Seen, IInv
      <4>3. turn[n].pc \in {"inserting", "done"}
        BY <4>1, <4>2 DEF IInv, UnkeptIsNowhere
      <4>4. turn[n].branch \in sources[turn[k].branch]
        BY <4>1 DEF IInv, KeptWhereAsked, Seen
      <4> QED
        BY <1>9, <4>1, <4>2, <4>3, <4>4
    <3> QED
      BY <3>1, <3>2
  <2> QED
    BY <1>1, <2>1, <2>2 DEF IInv, KeptWhereAsked, Stored, Shown
<1>11. UsedIsListed'
  BY <1>1, <1>2 DEF IInv, UsedIsListed, Sound, Stored
<1> QED
  BY <1>3, <1>4, <1>6, <1>7, <1>8, <1>10, <1>11 DEF IInv

\* What a history of a branch shows is kept, and genuine for that branch.
LEMMA HistoriesAreKept ==
    ASSUME IInv, NEW b \in Names
    PROVE  /\ \A n \in Shown(b) \union Stored(b) :
                n \in Messages /\ turn[n].pc \in {"inserting", "done"}
           /\ \A n \in Shown(b) \union Stored(b) : turn[n].branch \in sources[b]
           /\ IsInjective(cache[b]) /\ IsInjective(store[b])
<1>1. Shown(b) \union Stored(b) \subseteq Messages
  BY RangeType DEF IInv, TypeOK, Stored, Shown
<1>2. \A n \in Shown(b) \union Stored(b) : turn[n].pc \in {"inserting", "done"}
  BY <1>1 DEF IInv, UnkeptIsNowhere
<1>3. \A n \in Shown(b) \union Stored(b) : turn[n].branch \in sources[b]
  BY DEF IInv, KeptWhereAsked, OwnSource
<1> QED
  BY <1>1, <1>2, <1>3 DEF IInv, NoTurnTwice

LEMMA LookIsSound ==
    ASSUME IInv, NEW m \in Messages, NEW path \in Paths,
           turn[m].pc \notin {"inserting", "done"}
    PROVE  Sound(m, LookResult(path, active))
<1> DEFINE r == LookResult(path, active)
<1>1. active \in Names /\ active \in branches
  BY DEF IInv, TypeOK
<1>2. /\ r.pc \in {"reading", "model"} /\ r.branch = active /\ r.seen = cache[active]
  BY DEF LookResult
<1>3. r \in Turns
  BY <1>1, LookType DEF IInv
<1>4. Range(r.seen) = Shown(active)
  BY <1>2 DEF Shown
<1> HIDE DEF r
<1>5. Sound(m, r)
  BY <1>1, <1>2, <1>3, <1>4, HistoriesAreKept DEF Sound
<1> QED
  BY <1>5 DEF r

\* Giving up, in any state of the turn that is not kept yet.
LEMMA EndIsSound ==
    ASSUME IInv, NEW m \in Messages, turn[m].pc \notin {"inserting", "done"}
    PROVE  Sound(m, Idle("done", Main))
<1>1. "done" \in States /\ Main \in Names
  BY ConversationsAssumption DEF States
<1>2. Range(<<>>) = {} /\ IsInjective(<<>>)
  BY EmptyFacts
<1> QED
  BY <1>1, <1>2, IdleFacts DEF Sound

\* The history in hand stays there.
LEMMA SameHandIsSound ==
    ASSUME IInv, NEW m \in Messages, NEW state \in {"model", "filling"},
           turn[m].pc \in {"reading", "filling"}
    PROVE  Sound(m, PcResult(m, state))
<1>1. state \in States
  BY DEF States
<1>2. /\ turn[m].branch \in branches /\ IsInjective(turn[m].seen)
      /\ \A n \in Seen(m) : turn[n].branch \in sources[turn[m].branch]
  BY DEF IInv, UsedIsListed, SeenOnce, KeptWhereAsked, Seen
<1>3. \A n \in Seen(m) : turn[n].pc \in {"inserting", "done"}
  <2>1. Seen(m) \subseteq Messages
    BY TurnType, RangeType DEF Seen, IInv
  <2> QED
    BY <2>1 DEF IInv, UnkeptIsNowhere
<1> QED
  BY <1>1, <1>2, <1>3, PcType DEF Sound, Seen, IInv

LEMMA ReadIsSound ==
    ASSUME IInv, NEW m \in Messages, turn[m].pc = "reading"
    PROVE  Sound(m, ReadResult(m))
<1>1. turn[m].branch \in Names /\ turn[m].branch \in branches
  BY TurnType DEF IInv, UsedIsListed
<1>2. Range(ReadResult(m).seen) = Stored(turn[m].branch)
  BY ReadType DEF Stored, IInv
<1> QED
  BY <1>1, <1>2, ReadType, HistoriesAreKept DEF Sound, IInv

LEMMA StoreFailureIsSound ==
    ASSUME IInv, NEW m \in Messages, turn[m].pc = "inserting"
    PROVE  Sound(m, PcResult(m, "done"))
<1>1. "done" \in States /\ turn[m].seen = <<>>
  BY DEF States, IInv, HandsEmpty
<1>2. Range(<<>>) = {} /\ IsInjective(<<>>)
  BY EmptyFacts
<1> QED
  BY <1>1, <1>2, PcType DEF Sound, IInv

\* A turn of a replaced agent has nothing in hand, whatever branch it turns to.
StrayResult(m, b) == [turn[m] EXCEPT !.path = "model", !.branch = b]

LEMMA StrayIsSound ==
    ASSUME IInv, NEW m \in Messages, NEW b \in Names, turn[m].pc = "stray"
    PROVE  Sound(m, StrayResult(m, b))
<1>1. turn[m].seen = <<>> /\ Range(<<>>) = {} /\ IsInjective(<<>>)
  BY EmptyFacts DEF IInv, HandsEmpty
<1>2. /\ StrayResult(m, b) \in Turns /\ StrayResult(m, b).pc = "stray"
      /\ StrayResult(m, b).seen = <<>>
  BY <1>1, TurnType DEF IInv, StrayResult, Turns, Paths
<1> QED
  BY <1>1, <1>2 DEF Sound

LEMMA HandSteps ==
    ASSUME IInv, NEW m \in Messages,
           \/ Receive(m) \/ ReceiveFork(m) \/ FallThrough(m) \/ Read(m)
           \/ ReadFails(m) \/ InsertFails(m) \/ ModelFails(m)
           \/ RouteElsewhere(m) \/ DropTurn(m)
           \/ StrayFallThrough(m) \/ StrayEnds(m)
    PROVE  IInv'
<1> USE DEF HandStep
<1>1. CASE Receive(m) \/ ReceiveFork(m) \/ FallThrough(m)
  <2>1. PICK path \in Paths : Look(m, path, active)
    BY <1>1 DEF Receive, ReceiveFork, FallThrough, Paths
  <2>2. HandStep(m, LookResult(path, active))
    BY <1>1, <2>1 DEF Receive, ReceiveFork, FallThrough, Look, LookResult
  <2>3. turn[m].pc \notin {"inserting", "done"}
    BY <1>1 DEF Receive, ReceiveFork, FallThrough
  <2> QED
    BY <2>2, <2>3, LookIsSound, HandStepKeepsIInv
<1>2. CASE Read(m)
  <2>1. HandStep(m, ReadResult(m))
    BY <1>2 DEF Read, ReadResult, IInv, TypeOK
  <2> QED
    BY <1>2, <2>1, ReadIsSound, HandStepKeepsIInv DEF Read
<1>3. CASE ReadFails(m)
  <2>1. HandStep(m, PcResult(m, "model"))
    BY <1>3 DEF ReadFails, PcResult, IInv, TypeOK
  <2> QED
    BY <1>3, <2>1, SameHandIsSound, HandStepKeepsIInv DEF ReadFails
<1>4. CASE InsertFails(m)
  <2>1. HandStep(m, PcResult(m, "done"))
    BY <1>4 DEF InsertFails, PcResult, IInv, TypeOK
  <2> QED
    BY <1>4, <2>1, StoreFailureIsSound, HandStepKeepsIInv DEF InsertFails
<1>5. CASE ModelFails(m) \/ RouteElsewhere(m) \/ DropTurn(m) \/ StrayEnds(m)
  <2>1. HandStep(m, Idle("done", Main))
    BY <1>5 DEF ModelFails, RouteElsewhere, DropTurn, StrayEnds
  <2>2. turn[m].pc \notin {"inserting", "done"}
    BY <1>5 DEF ModelFails, RouteElsewhere, DropTurn, StrayEnds
  <2> QED
    BY <2>1, <2>2, EndIsSound, HandStepKeepsIInv
<1>6. CASE StrayFallThrough(m)
  <2>1. PICK b \in Names : turn' = [turn EXCEPT ![m] = StrayResult(m, b)]
    BY <1>6 DEF StrayFallThrough, StrayResult, IInv, TypeOK
  <2>2. HandStep(m, StrayResult(m, b))
    BY <1>6, <2>1 DEF StrayFallThrough
  <2> QED
    BY <1>6, <2>2, StrayIsSound, HandStepKeepsIInv DEF StrayFallThrough
<1> QED
  BY <1>1, <1>2, <1>3, <1>4, <1>5, <1>6

-----------------------------------------------------------------------------
(* The steps that change a window or the store.                            *)

\* A window gains only what the turn has in hand for it, or the turn itself;
\* the store gains only the turn itself.
HistoryStep(m, r) ==
    /\ turn' = [turn EXCEPT ![m] = r]
    /\ UNCHANGED <<active, branches, sources, restarts, earlier>>
    /\ cache' \in [Names -> Seq(Messages)] /\ store' \in [Names -> Seq(Messages)]
    /\ \A b \in Names :
        /\ IsInjective(cache'[b]) /\ IsInjective(store'[b])
        /\ \A n \in Range(cache'[b]) :
            \/ n \in Shown(b)
            \/ n = m /\ r.branch = b /\ r.pc = "inserting"
            \/ n \in Seen(m) /\ b = turn[m].branch
        /\ \A n \in Range(store'[b]) :
            n \in Stored(b) \/ (n = m /\ r.branch = b /\ r.pc = "done")
        /\ cache'[b] # <<>> => cache[b] # <<>> \/ b \in branches
        /\ b \notin branches => Range(store'[b]) \subseteq Stored(b) \union earlier

Advances(m, r) ==
    /\ r \in Turns /\ turn[m].pc # "done"
    /\ turn[m].pc = "inserting" => r.pc = "done" /\ r.branch = turn[m].branch
    /\ r.pc \in {"model", "inserting", "done"}
    /\ r.pc = "inserting" => turn[m].pc = "model"
    /\ r.pc # "done" => r.branch = turn[m].branch /\ turn[m].branch \in branches
    /\ r.seen = <<>> \/ (r.pc = "model" /\ r.seen = turn[m].seen)

LEMMA HistoryStepKeepsIInv ==
    ASSUME IInv, NEW m \in Messages, NEW r, Advances(m, r), HistoryStep(m, r)
    PROVE  IInv'
<1>1. /\ r \in Turns /\ turn' = [turn EXCEPT ![m] = r]
      /\ UNCHANGED <<active, branches, sources, restarts, earlier>>
  BY DEF Advances, HistoryStep
<1>2. \A n \in Messages : turn'[n] = IF n = m THEN r ELSE turn[n]
  BY <1>1 DEF IInv, TypeOK
<1>3. TypeOK'
  <2>1. turn' \in [Messages -> Turns]
    BY <1>1, UpdateType DEF IInv
  <2> QED
    BY <1>1, <2>1 DEF IInv, TypeOK, HistoryStep
<1>4. Range(<<>>) = {} /\ IsInjective(<<>>)
  BY EmptyFacts
<1>5. Range(r.seen) \subseteq Seen(m)
  BY <1>4 DEF Advances, Seen
<1>6. \A n \in Messages : \A k \in Seen(n) :
          /\ k \in Messages /\ turn[k].pc \in {"inserting", "done"}
          /\ turn[k].branch \in sources[turn[n].branch]
  <2>1. \A n \in Messages : Seen(n) \subseteq Messages
    BY TurnType, RangeType DEF Seen, IInv
  <2> QED
    BY <2>1 DEF IInv, UnkeptIsNowhere, KeptWhereAsked, Seen
<1>7. \A n \in Messages : turn[n].pc \in {"inserting", "done"} =>
          /\ turn'[n].pc \in {"inserting", "done"}
          /\ turn'[n].branch = turn[n].branch
  BY <1>2 DEF Advances
<1>8. HandsEmpty'
  BY <1>2 DEF IInv, HandsEmpty, Advances
<1>9. \A n \in Messages : \A k \in Range(turn'[n].seen) :
          /\ k \in Messages /\ turn[k].pc \in {"inserting", "done"}
          /\ turn[k].branch \in sources[turn'[n].branch]
  <2> SUFFICES ASSUME NEW n \in Messages, NEW k \in Range(turn'[n].seen)
               PROVE  /\ k \in Messages /\ turn[k].pc \in {"inserting", "done"}
                      /\ turn[k].branch \in sources[turn'[n].branch]
    OBVIOUS
  <2>1. CASE n # m
    BY <1>2, <1>6, <2>1 DEF Seen
  <2>2. CASE n = m
    <3>1. k \in Seen(m) /\ k \in Range(r.seen)
      BY <1>2, <1>5, <2>2
    <3>2. r.branch = turn[m].branch
      BY <1>4, <3>1 DEF Advances
    <3> QED
      BY <1>2, <1>6, <2>2, <3>1, <3>2
  <2> QED
    BY <2>1, <2>2
<1>10. \A b \in Names : \A n \in Range(cache'[b]) :
           /\ n \in Messages /\ turn'[n].pc \in {"inserting", "done"}
           /\ turn'[n].branch \in sources[b]
  <2> SUFFICES ASSUME NEW b \in Names, NEW n \in Range(cache'[b])
               PROVE  /\ n \in Messages /\ turn'[n].pc \in {"inserting", "done"}
                      /\ turn'[n].branch \in sources[b]
    OBVIOUS
  <2>1. CASE n \in Shown(b)
    BY <1>7, <2>1, HistoriesAreKept
  <2>2. CASE n = m /\ r.branch = b /\ r.pc = "inserting"
    BY <1>2, <2>2 DEF IInv, OwnSource
  <2>3. CASE n \in Seen(m) /\ b = turn[m].branch
    BY <1>6, <1>7, <2>3
  <2> QED
    BY <2>1, <2>2, <2>3 DEF HistoryStep
<1>11. \A b \in Names : \A n \in Range(store'[b]) :
           n \in Messages /\ turn'[n].pc = "done" /\ turn'[n].branch = b
  <2> SUFFICES ASSUME NEW b \in Names, NEW n \in Range(store'[b])
               PROVE  n \in Messages /\ turn'[n].pc = "done" /\ turn'[n].branch = b
    OBVIOUS
  <2>1. CASE n \in Stored(b)
    <3>1. n \in Messages /\ turn[n].pc = "done"
      BY <2>1, HistoriesAreKept DEF IInv, UnkeptIsNowhere
    <3>2. turn[n].branch = b
      BY <2>1 DEF IInv, KeptWhereAsked
    <3> QED
      BY <1>2, <3>1, <3>2 DEF Advances
  <2>2. CASE n = m /\ r.branch = b /\ r.pc = "done"
    BY <1>2, <2>2
  <2> QED
    BY <2>1, <2>2 DEF HistoryStep
<1>12. UnkeptIsNowhere'
  <2>1. \A n \in Messages : \A k \in Range(turn'[n].seen) :
            turn'[k].pc \in {"inserting", "done"}
    BY <1>7, <1>9
  <2> QED
    BY <1>10, <1>11, <2>1 DEF UnkeptIsNowhere, Shown, Stored, Seen
<1>13. OwnSource' /\ NoTurnTwice'
  BY <1>1 DEF IInv, OwnSource, NoTurnTwice, HistoryStep
<1>14. SeenOnce'
  BY <1>2, <1>4 DEF IInv, SeenOnce, Advances
<1>15. KeptWhereAsked'
  <2>1. \A n \in Messages : \A k \in Range(turn'[n].seen) :
            turn'[k].branch \in sources[turn'[n].branch]
    BY <1>7, <1>9
  <2> QED
    BY <1>1, <1>10, <1>11, <2>1 DEF KeptWhereAsked, Shown, Stored
<1>16. UsedIsListed'
  <2>1. \A n \in Messages : turn'[n].pc \notin {"new", "stray", "done"} =>
            turn'[n].branch \in branches
    BY <1>2 DEF IInv, UsedIsListed, Advances
  <2>2. \A b \in Names :
            /\ cache'[b] # <<>> => b \in branches
            /\ b \notin branches => Range(store'[b]) \subseteq earlier
    BY DEF IInv, UsedIsListed, HistoryStep
  <2>3. \A n \in Messages : turn'[n].pc = "stray" => n \in earlier
    BY <1>2 DEF IInv, UsedIsListed, Advances
  <2> QED
    BY <1>1, <2>1, <2>2, <2>3 DEF IInv, UsedIsListed, Stored
<1> QED
  BY <1>3, <1>8, <1>12, <1>13, <1>14, <1>15, <1>16 DEF IInv

\* A window is replaced by the history in hand.
LEMMA RefillSteps ==
    ASSUME IInv, NEW m \in Messages, Fill(m) \/ SeedBranch(m)
    PROVE  IInv'
<1> DEFINE r == IF turn[m].pc = "filling" THEN PcResult(m, "model") ELSE Idle("done", Main)
           b == turn[m].branch
<1>1. /\ cache' = [cache EXCEPT ![b] = turn[m].seen]
      /\ UNCHANGED <<active, branches, store, sources, restarts, earlier>>
      /\ turn[m].pc \in {"filling", "seeding"}
  BY DEF Fill, SeedBranch
<1>2. turn' = [turn EXCEPT ![m] = r]
  BY <1>1 DEF Fill, SeedBranch, PcResult, IInv, TypeOK
<1>3. b \in Names /\ turn[m].seen \in Seq(Messages) /\ b \in branches
  BY <1>1, TurnType DEF IInv, UsedIsListed
<1>4. Advances(m, r)
  <2>1. "model" \in States /\ "done" \in States /\ Main \in Names
    BY ConversationsAssumption DEF States
  <2>2. CASE turn[m].pc = "filling"
    BY <1>3, <2>1, <2>2, PcType DEF Advances, IInv
  <2>3. CASE turn[m].pc = "seeding"
    BY <2>1, <2>3, IdleFacts DEF Advances
  <2> QED
    BY <1>1, <2>2, <2>3
<1> HIDE DEF r
<1>5. HistoryStep(m, r)
  <2>1. cache' \in [Names -> Seq(Messages)] /\ store' \in [Names -> Seq(Messages)]
    BY <1>1, <1>3 DEF IInv, TypeOK
  <2>2. \A c \in Names : cache'[c] = IF c = b THEN turn[m].seen ELSE cache[c]
    BY <1>1 DEF IInv, TypeOK
  <2>3. IsInjective(turn[m].seen)
    BY DEF IInv, SeenOnce
  <2>4. \A c \in Names : IsInjective(cache[c]) /\ IsInjective(store[c])
    BY DEF IInv, NoTurnTwice
  <2> HIDE DEF b
  <2>5. \A c \in Names :
            /\ IsInjective(cache'[c])
            /\ \A n \in Range(cache'[c]) : n \in Shown(c) \/ (n \in Seen(m) /\ c = b)
            /\ cache'[c] # <<>> => cache[c] # <<>> \/ c \in branches
    BY <1>3, <2>2, <2>3, <2>4 DEF Shown, Seen
  <2> QED
    BY <1>1, <1>2, <2>1, <2>4, <2>5 DEF HistoryStep, Stored, b
<1> QED
  BY <1>4, <1>5, HistoryStepKeepsIInv

LEMMA KeepStep ==
    ASSUME IInv, NEW m \in Messages, Keep(m)
    PROVE  IInv'
<1> DEFINE b == turn[m].branch
           r == Idle("inserting", b)
<1>1. /\ turn[m].pc = "model"
      /\ cache' = [cache EXCEPT ![b] = Append(@, m)]
      /\ turn' = [turn EXCEPT ![m] = r]
      /\ UNCHANGED <<active, branches, store, sources, restarts, earlier>>
  BY DEF Keep
<1>2. b \in Names /\ b \in branches /\ "inserting" \in States
  BY <1>1, TurnType DEF IInv, UsedIsListed, States
<1>3. Advances(m, r)
  BY <1>1, <1>2, IdleFacts DEF Advances
<1>4. r.branch = b /\ r.pc = "inserting"
  BY <1>2, IdleFacts
<1> HIDE DEF r, b
<1>5. /\ cache[b] \in Seq(Messages) /\ m \notin Shown(b)
      /\ \A c \in Names : IsInjective(cache[c]) /\ IsInjective(store[c])
  BY <1>1, <1>2 DEF IInv, TypeOK, UnkeptIsNowhere, NoTurnTwice
<1>6. \A c \in Names : cache'[c] = IF c = b THEN Append(cache[b], m) ELSE cache[c]
  BY <1>1, <1>2 DEF IInv, TypeOK
<1>7. /\ Append(cache[b], m) \in Seq(Messages)
      /\ Range(Append(cache[b], m)) = Shown(b) \union {m}
      /\ IsInjective(Append(cache[b], m))
  BY <1>2, <1>5, AppendFacts DEF Shown
<1>8. cache' \in [Names -> Seq(Messages)] /\ store' \in [Names -> Seq(Messages)]
  BY <1>1, <1>7 DEF IInv, TypeOK
<1>9. \A c \in Names :
          /\ IsInjective(cache'[c])
          /\ \A n \in Range(cache'[c]) :
                n \in Shown(c) \/ (n = m /\ r.branch = c /\ r.pc = "inserting")
          /\ cache'[c] # <<>> => cache[c] # <<>> \/ c \in branches
  BY <1>2, <1>4, <1>5, <1>6, <1>7 DEF Shown
<1>10. HistoryStep(m, r)
  BY <1>1, <1>5, <1>8, <1>9 DEF HistoryStep, Stored
<1> QED
  BY <1>3, <1>10, HistoryStepKeepsIInv

\* A turn is stored, by its agent or by one that has been replaced.
LEMMA StoreSteps ==
    ASSUME IInv, NEW m \in Messages, Insert(m) \/ StrayInsert(m)
    PROVE  IInv'
<1>1. PICK b \in Names :
          /\ turn[m].pc = "inserting" => b = turn[m].branch
          /\ turn[m].pc \in {"inserting", "stray"}
          /\ store' = [store EXCEPT ![b] = Append(@, m)]
          /\ turn' = [turn EXCEPT ![m] = IF turn[m].pc = "inserting"
                                        THEN PcResult(m, "done") ELSE Idle("done", b)]
          /\ UNCHANGED <<active, branches, cache, sources, restarts, earlier>>
  <2>1. CASE Insert(m)
    <3>1. turn[m].branch \in Names
      BY TurnType DEF IInv
    <3> QED
      BY <2>1, <3>1 DEF Insert, PcResult, IInv, TypeOK
  <2>2. CASE StrayInsert(m)
    <3>1. turn[m].branch \in Names
      BY TurnType DEF IInv
    <3> QED
      BY <2>2, <3>1 DEF StrayInsert
  <2> QED
    BY <2>1, <2>2
<1> DEFINE r == IF turn[m].pc = "inserting" THEN PcResult(m, "done") ELSE Idle("done", b)
<1>2. Advances(m, r) /\ r.pc = "done" /\ r.branch = b
  <2>1. "done" \in States
    BY DEF States
  <2>2. CASE turn[m].pc = "inserting"
    <3>1. turn[m].seen = <<>>
      BY <2>2 DEF IInv, HandsEmpty
    <3> QED
      BY <1>1, <2>1, <2>2, <3>1, PcType DEF Advances, IInv
  <2>3. CASE turn[m].pc = "stray"
    BY <2>1, <2>3, IdleFacts DEF Advances
  <2> QED
    BY <1>1, <2>2, <2>3
<1> HIDE DEF r
<1>3. /\ store[b] \in Seq(Messages) /\ m \notin Stored(b)
      /\ \A c \in Names : IsInjective(cache[c]) /\ IsInjective(store[c])
  BY <1>1 DEF IInv, TypeOK, UnkeptIsNowhere, NoTurnTwice
<1>4. \A c \in Names : store'[c] = IF c = b THEN Append(store[b], m) ELSE store[c]
  BY <1>1 DEF IInv, TypeOK
<1>5. /\ Append(store[b], m) \in Seq(Messages)
      /\ Range(Append(store[b], m)) = Stored(b) \union {m}
      /\ IsInjective(Append(store[b], m))
  BY <1>3, AppendFacts DEF Stored
<1>6. cache' \in [Names -> Seq(Messages)] /\ store' \in [Names -> Seq(Messages)]
  BY <1>1, <1>5 DEF IInv, TypeOK
<1>7. b \notin branches => m \in earlier
  BY <1>1 DEF IInv, UsedIsListed
<1>8. \A c \in Names :
          /\ IsInjective(store'[c])
          /\ \A n \in Range(store'[c]) :
                n \in Stored(c) \/ (n = m /\ r.branch = c /\ r.pc = "done")
          /\ c \notin branches => Range(store'[c]) \subseteq Stored(c) \union earlier
  BY <1>2, <1>3, <1>4, <1>5, <1>7 DEF Stored
<1>9. turn' = [turn EXCEPT ![m] = r]
  BY <1>1 DEF r
<1>10. HistoryStep(m, r)
  BY <1>1, <1>3, <1>6, <1>8, <1>9 DEF HistoryStep, Shown
<1> QED
  BY <1>2, <1>10, HistoryStepKeepsIInv

-----------------------------------------------------------------------------
(* Commands, restarts and resets.                                          *)

LEMMA CommandSteps ==
    ASSUME IInv,
           Clear \/ \E name \in Names : OpenSession(name) \/ SwitchBranch(name)
    PROVE  IInv'
<1>1. /\ branches \subseteq branches' /\ branches' \subseteq Names
      /\ active' \in branches'
      /\ UNCHANGED <<cache, store, turn, sources, restarts, earlier>>
  <2>1. CASE Clear
    <3>1. \A k \in DOMAIN Sessions : Sessions[k] \in Names
      BY ConversationsAssumption
    <3> QED
      BY <2>1, <3>1 DEF Clear, IInv, TypeOK
  <2>2. CASE \E name \in Names : OpenSession(name) \/ SwitchBranch(name)
    BY <2>2 DEF OpenSession, SwitchBranch, IInv, TypeOK
  <2> QED
    BY <2>1, <2>2
<1>2. TypeOK'
  BY <1>1 DEF IInv, TypeOK
<1>3. UsedIsListed'
  BY <1>1 DEF IInv, UsedIsListed, Stored
<1>4. /\ HandsEmpty' /\ UnkeptIsNowhere' /\ OwnSource'
      /\ SeenOnce' /\ NoTurnTwice' /\ KeptWhereAsked'
  BY <1>1 DEF IInv, HandsEmpty, UnkeptIsNowhere, OwnSource, SeenOnce, NoTurnTwice,
              KeptWhereAsked, Seen, Shown, Stored
<1> QED
  BY <1>2, <1>3, <1>4 DEF IInv

\* Sources only grow, and those of the new branch include the old one's.
LEMMA ForkStep ==
    ASSUME IInv, NEW m \in Messages, ForkBranch(m)
    PROVE  IInv'
<1>1. PICK name \in Names :
          /\ turn[m].pc = "model"
          /\ branches' = branches \union {name} /\ active' = name
          /\ sources' = [sources EXCEPT ![name] = @ \union sources[turn[m].branch]]
          /\ turn' = [turn EXCEPT ![m] = ForkResult(m, name)]
          /\ UNCHANGED <<cache, store, restarts, earlier>>
  BY DEF ForkBranch, ForkResult, IInv, TypeOK
<1> DEFINE r == ForkResult(m, name)
<1>2. /\ r \in Turns /\ r.pc = "seeding" /\ r.branch = name
      /\ r.seen = turn[m].seen
  BY ForkType DEF IInv
<1> HIDE DEF r
<1>3. turn' = [turn EXCEPT ![m] = r]
  BY <1>1 DEF r
<1>4. \A n \in Messages : turn'[n] = IF n = m THEN r ELSE turn[n]
  BY <1>3 DEF IInv, TypeOK
<1>5. turn[m].branch \in Names
  BY TurnType DEF IInv
<1>6. TypeOK'
  <2>1. turn' \in [Messages -> Turns]
    BY <1>2, <1>3, UpdateType DEF IInv
  <2> QED
    BY <1>1, <1>5, <2>1 DEF IInv, TypeOK
<1>7. \A b \in Names : sources[b] \subseteq sources'[b]
  BY <1>1 DEF IInv, TypeOK
<1>8. sources[turn[m].branch] \subseteq sources'[name]
  BY <1>1 DEF IInv, TypeOK
<1>9. \A n \in Messages : turn'[n].seen = turn[n].seen
  BY <1>2, <1>4
<1>10. \A n \in Messages : turn[n].pc \in {"inserting", "done"} =>
           turn'[n] = turn[n]
  BY <1>1, <1>4
<1>11. HandsEmpty' /\ UnkeptIsNowhere'
  BY <1>1, <1>2, <1>4, <1>9
     DEF IInv, HandsEmpty, UnkeptIsNowhere, Seen, Shown, Stored
<1>12. OwnSource' /\ SeenOnce' /\ NoTurnTwice'
  BY <1>1, <1>7, <1>9 DEF IInv, OwnSource, SeenOnce, NoTurnTwice
<1>13. KeptWhereAsked'
  <2>1. \A b \in Names :
            /\ \A n \in Stored(b) : turn'[n].branch = b
            /\ \A n \in Shown(b) : turn'[n].branch \in sources'[b]
    <3>1. \A b \in Names : \A n \in Shown(b) \union Stored(b) :
              turn'[n] = turn[n]
      BY <1>10, HistoriesAreKept
    <3> QED
      BY <1>7, <3>1 DEF IInv, KeptWhereAsked
  <2>2. \A n \in Messages : \A k \in Seen(n) : turn'[k].branch \in sources'[turn'[n].branch]
    <3> SUFFICES ASSUME NEW n \in Messages, NEW k \in Seen(n)
                 PROVE  turn'[k].branch \in sources'[turn'[n].branch]
      OBVIOUS
    <3>1. k \in Messages
      BY TurnType, RangeType DEF Seen, IInv
    <3>2. turn'[k] = turn[k]
      BY <1>10, <3>1 DEF IInv, UnkeptIsNowhere
    <3>3. turn[k].branch \in sources[turn[n].branch]
      BY DEF IInv, KeptWhereAsked, Seen
    <3>4. CASE n = m
      BY <1>2, <1>4, <1>8, <3>2, <3>3, <3>4
    <3>5. CASE n # m
      BY <1>4, <1>7, <3>2, <3>3, <3>5, TurnType DEF IInv
    <3> QED
      BY <3>4, <3>5
  <2> QED
    BY <1>1, <1>9, <2>1, <2>2 DEF KeptWhereAsked, Seen, Shown, Stored
<1>14. UsedIsListed'
  BY <1>1, <1>2, <1>4 DEF IInv, UsedIsListed, TypeOK, Stored
<1> QED
  BY <1>6, <1>11, <1>12, <1>13, <1>14 DEF IInv

\* Every turn's record is one of its branch, with nothing in hand.
LEMMA ForgetSteps ==
    ASSUME IInv, Restart \/ Reset
    PROVE  IInv'
<1>1. /\ active' = Main /\ branches' = {Main}
      /\ cache' = [b \in Names |-> <<>>]
      /\ sources' = [b \in Names |-> {b}]
      /\ restarts < MaxRestarts /\ restarts' = restarts + 1
      /\ earlier' = {m \in Messages : turn[m].pc # "new"}
      /\ store' = store
  BY DEF Restart, Reset, Forget
<1>2. MaxRestarts \in Nat /\ Main \in Names /\ "done" \in States /\ "stray" \in States
  BY ConversationsAssumption DEF States
<1>3. \A m \in Messages :
          /\ turn'[m] \in Turns /\ turn'[m].seen = <<>>
          /\ turn'[m].pc \in {"new", "stray", "done"}
          /\ turn[m].pc \in {"done"} => turn'[m] = turn[m]
          /\ turn'[m].pc = "stray" => turn[m].pc # "new"
  <2> SUFFICES ASSUME NEW m \in Messages
               PROVE  /\ turn'[m] \in Turns /\ turn'[m].seen = <<>>
                      /\ turn'[m].pc \in {"new", "stray", "done"}
                      /\ turn[m].pc \in {"done"} => turn'[m] = turn[m]
                      /\ turn'[m].pc = "stray" => turn[m].pc # "new"
    OBVIOUS
  <2>1. turn[m] \in Turns /\ turn[m].branch \in Names
    BY TurnType DEF IInv
  <2>2. turn[m].pc \in {"new", "stray", "done"} => turn[m].seen = <<>>
    BY DEF IInv, HandsEmpty
  <2>3. \A b \in Names : /\ Idle("done", b) \in Turns /\ Idle("done", b).pc = "done"
                         /\ Idle("done", b).seen = <<>>
    BY <1>2, IdleFacts
  <2>4. CASE Restart
    BY <1>2, <2>1, <2>2, <2>3, <2>4 DEF Restart
  <2>5. CASE Reset
    <3> DEFINE r == [turn[m] EXCEPT !.pc = "stray", !.seen = <<>>]
    <3>1. r \in Turns /\ r.pc = "stray" /\ r.seen = <<>>
      BY <1>2, <2>1, EmptyFacts DEF Turns
    <3> HIDE DEF r
    <3>2. turn'[m] \in {turn[m], Idle("done", Main), r}
      BY <2>5 DEF Reset, r
    <3>3. turn'[m] = turn[m] => turn[m].pc \in {"new", "stray", "done"}
      <4>1. CASE turn[m].pc \in {"new", "done", "stray"}
        BY <4>1
      <4>2. CASE turn[m].pc \notin {"new", "done", "stray"}
        BY <1>2, <2>3, <2>5, <3>1, <4>2 DEF Reset, r
      <4> QED
        BY <4>1, <4>2
    <3>4. turn[m].pc \in {"new", "done"} => turn'[m] = turn[m]
      BY <2>5 DEF Reset
    <3> QED
      BY <1>2, <2>1, <2>2, <2>3, <3>1, <3>2, <3>3, <3>4
  <2> QED
    BY <2>4, <2>5
<1>4. /\ Range(<<>>) = {} /\ IsInjective(<<>>) /\ <<>> \in Seq(Messages)
  BY EmptyFacts
<1>5. TypeOK'
  <2>1. turn' \in [Messages -> Turns]
    <3>1. turn' = [m \in Messages |-> turn'[m]]
      <4>1. CASE Restart
        <5> DEFINE f(m) == IF turn[m].pc \in {"new", "done"} THEN turn[m]
                           ELSE IF turn[m].pc = "inserting"
                                THEN Idle("done", turn[m].branch)
                           ELSE Idle("done", Main)
        <5>1. turn' = [m \in Messages |-> f(m)]
          BY <4>1 DEF Restart
        <5> HIDE DEF f
        <5> QED
          BY <5>1
      <4>2. CASE Reset
        <5> DEFINE f(m) == IF turn[m].pc \in {"new", "done", "stray"} THEN turn[m]
                           ELSE IF turn[m].path = "fork" THEN Idle("done", Main)
                           ELSE [turn[m] EXCEPT !.pc = "stray", !.seen = <<>>]
        <5>1. turn' = [m \in Messages |-> f(m)]
          BY <4>2 DEF Reset
        <5> HIDE DEF f
        <5> QED
          BY <5>1
      <4> QED
        BY <4>1, <4>2
    <3> QED
      BY <1>3, <3>1
  <2> QED
    BY <1>1, <1>2, <1>4, <2>1 DEF IInv, TypeOK
<1>6. HandsEmpty' /\ OwnSource' /\ SeenOnce'
  BY <1>1, <1>3, <1>4 DEF HandsEmpty, OwnSource, SeenOnce
<1>7. \A b \in Names : \A n \in Stored(b) : n \in Messages /\ turn'[n] = turn[n]
  <2>1. \A b \in Names : \A n \in Stored(b) : n \in Messages /\ turn[n].pc = "done"
    BY HistoriesAreKept DEF IInv, UnkeptIsNowhere
  <2> QED
    BY <1>3, <2>1
<1>8. UnkeptIsNowhere'
  <2>1. \A n \in Messages : turn'[n].pc # "done" => \A b \in Names : n \notin Stored(b)
    BY <1>7 DEF IInv, UnkeptIsNowhere
  <2> QED
    BY <1>1, <1>3, <1>4, <2>1 DEF UnkeptIsNowhere, Shown, Stored, Seen
<1>9. NoTurnTwice'
  BY <1>1, <1>4 DEF IInv, NoTurnTwice
<1>10. KeptWhereAsked'
  <2>1. \A b \in Names : \A n \in Stored(b) : turn'[n].branch = b
    BY <1>7 DEF IInv, KeptWhereAsked
  <2> QED
    BY <1>1, <1>3, <1>4, <2>1 DEF KeptWhereAsked, Stored, Shown
<1>11. UsedIsListed'
  <2>1. \A b \in Names : Stored(b) \subseteq earlier'
    <3>1. \A b \in Names : \A n \in Stored(b) : n \in Messages /\ turn[n].pc # "new"
      BY HistoriesAreKept
    <3> QED
      BY <1>1, <3>1
  <2> QED
    BY <1>1, <1>3, <2>1 DEF UsedIsListed, Stored
<1> QED
  BY <1>5, <1>6, <1>8, <1>9, <1>10, <1>11 DEF IInv

-----------------------------------------------------------------------------
(* The theorems.                                                           *)

LEMMA InitIInv == Init => IInv
<1> SUFFICES ASSUME Init PROVE IInv
  OBVIOUS
<1>1. TypeOK
  BY InitType
<1>2. "new" \in States /\ Main \in Names
  BY ConversationsAssumption DEF States
<1>3. /\ \A m \in Messages : turn[m].pc = "new" /\ turn[m].seen = <<>>
      /\ \A b \in Names : cache[b] = <<>> /\ store[b] = <<>> /\ sources[b] = {b}
      /\ Range(<<>>) = {} /\ IsInjective(<<>>)
  BY <1>2, IdleFacts, EmptyFacts DEF Init
<1>4. HandsEmpty /\ UnkeptIsNowhere /\ OwnSource /\ SeenOnce
  BY <1>3 DEF HandsEmpty, UnkeptIsNowhere, OwnSource, SeenOnce, Seen, Shown, Stored
<1>5. NoTurnTwice /\ KeptWhereAsked
  BY <1>3 DEF NoTurnTwice, KeptWhereAsked, Shown, Stored
<1>6. UsedIsListed
  BY <1>3 DEF UsedIsListed, Stored
<1> QED
  BY <1>1, <1>4, <1>5, <1>6 DEF IInv

LEMMA StepIInv == ASSUME IInv, [Next]_vars PROVE IInv'
<1>u. CASE UNCHANGED vars
  <2>1. TypeOK' /\ OwnSource' /\ NoTurnTwice'
    BY <1>u DEF vars, IInv, TypeOK, OwnSource, NoTurnTwice
  <2>2. HandsEmpty' /\ UnkeptIsNowhere' /\ SeenOnce'
    BY <1>u DEF vars, IInv, HandsEmpty, UnkeptIsNowhere, SeenOnce, Seen, Shown, Stored
  <2>3. KeptWhereAsked' /\ UsedIsListed'
    BY <1>u DEF vars, IInv, KeptWhereAsked, UsedIsListed, Shown, Stored
  <2> QED
    BY <2>1, <2>2, <2>3 DEF IInv
<1>1. CASE \E m \in Messages : HandleTurn(m)
  <2>1. PICK m \in Messages : HandleTurn(m)
    BY <1>1
  <2> QED
    BY <2>1, HandSteps, RefillSteps, KeepStep, StoreSteps DEF HandleTurn
<1>2. CASE \E m \in Messages : ReceiveFork(m) \/ ForkBranch(m) \/ SeedBranch(m)
  BY <1>2, HandSteps, RefillSteps, ForkStep
<1>3. CASE Clear \/ \E name \in Names : OpenSession(name) \/ SwitchBranch(name)
  BY <1>3, CommandSteps
<1>4. CASE Restart \/ Reset
  BY <1>4, ForgetSteps
<1> QED
  BY <1>u, <1>1, <1>2, <1>3, <1>4 DEF Next

\* The invariant of the proofs holds.
THEOREM Invariance == Spec => []IInv
BY InitIInv, StepIInv, PTL DEF Spec

\* Every variable stays in its type; the active branch is always listed.
THEOREM TypeCorrect == Spec => []TypeOK
<1>1. IInv => TypeOK
  BY DEF IInv
<1> QED
  BY <1>1, Invariance, PTL

\* load_history and persist_turn never put a turn twice into a window or into
\* the store, in whatever order concurrent turns, forks and resets take them.
THEOREM TurnsAreKeptOnce == Spec => []NoTurnTwice
<1>1. IInv => NoTurnTwice
  BY DEF IInv
<1> QED
  BY <1>1, Invariance, PTL

\* A turn is stored on the branch whose history its prompt was built from, and
\* no window or prompt shows a turn of a branch it was not forked from.
THEOREM TurnsStayInTheirConversation == Spec => []KeptWhereAsked
<1>1. IInv => KeptWhereAsked
  BY DEF IInv
<1> QED
  BY <1>1, Invariance, PTL

\* /clear activates a branch that nothing of this life of the agent has used: it
\* has no window, no turn or fork is bound to it, nothing was forked onto it, and
\* what it has in the store is of before the last restart or reset.
THEOREM ClearStartsFresh == Spec => ClearIsFresh
<1>1. ASSUME IInv, Clear
      PROVE  /\ cache[active'] = <<>> /\ Bound(active') = {}
             /\ sources[active'] = {active'} /\ Stored(active') \subseteq earlier
  <2>1. PICK k \in DOMAIN Sessions : FirstUnlisted(k) /\ active' = Sessions[k]
    BY <1>1 DEF Clear
  <2>2. active' \in Names /\ active' \notin branches
    BY <2>1, ConversationsAssumption DEF FirstUnlisted
  <2> QED
    BY <1>1, <2>2 DEF IInv, UsedIsListed, Bound
<1>2. IInv /\ [Next]_vars =>
        [Clear => /\ cache[active'] = <<>> /\ Bound(active') = {}
                  /\ sources[active'] = {active'}
                  /\ Stored(active') \subseteq earlier]_vars
  BY <1>1
<1> QED
  BY <1>2, Invariance, PTL DEF Spec, ClearIsFresh

-----------------------------------------------------------------------------
(* What may take a kept turn out of a window.                              *)

\* A turn's record changes without its message coming to be kept.
LEMMA NothingNewKept ==
    ASSUME IInv, NEW m \in Messages, NEW r, NEW b \in Names, Whole(b),
           turn' = [turn EXCEPT ![m] = r], r.pc # "inserting",
           UNCHANGED <<cache, store>>
    PROVE  Whole(b)'
<1>1. Kept(b)' \subseteq Kept(b)
  BY DEF IInv, TypeOK, Kept, Stored
<1> QED
  BY <1>1 DEF Whole, Shown

LEMMA HandStepsStayWhole ==
    ASSUME IInv, NEW m \in Messages, NEW b \in Names, Whole(b),
           \/ Receive(m) \/ ReceiveFork(m) \/ FallThrough(m) \/ Read(m)
           \/ ReadFails(m) \/ InsertFails(m) \/ ModelFails(m)
           \/ RouteElsewhere(m) \/ DropTurn(m) \/ ForkBranch(m)
           \/ StrayFallThrough(m) \/ StrayEnds(m)
    PROVE  Whole(b)'
<1>1. turn[m] \in Turns /\ "done" \in States /\ Main \in Names
  BY ConversationsAssumption, TurnType DEF IInv, States
<1>2. Idle("done", Main).pc = "done"
  BY <1>1, IdleFacts
<1>3. \E r : /\ turn' = [turn EXCEPT ![m] = r] /\ r.pc # "inserting"
             /\ UNCHANGED <<cache, store>>
  <2>1. CASE Receive(m) \/ ReceiveFork(m) \/ FallThrough(m)
    <3>1. PICK path : Look(m, path, active)
      BY <2>1 DEF Receive, ReceiveFork, FallThrough
    <3>2. turn' = [turn EXCEPT ![m] = LookResult(path, active)]
      BY <3>1 DEF Look, LookResult
    <3>3. LookResult(path, active).pc # "inserting"
      BY DEF LookResult
    <3> QED
      BY <2>1, <3>2, <3>3 DEF Receive, ReceiveFork, FallThrough
  <2>2. CASE Read(m)
    <3>1. turn' = [turn EXCEPT ![m] = ReadResult(m)]
      BY <2>2 DEF Read, ReadResult, IInv, TypeOK
    <3>2. ReadResult(m).pc # "inserting"
      BY <1>1 DEF ReadResult, Turns
    <3> QED
      BY <2>2, <3>1, <3>2 DEF Read
  <2>3. CASE ReadFails(m) \/ InsertFails(m)
    <3>1. PICK s \in {"model", "done"} : turn' = [turn EXCEPT ![m] = PcResult(m, s)]
      BY <2>3 DEF ReadFails, InsertFails, PcResult, IInv, TypeOK
    <3>2. PcResult(m, s).pc # "inserting"
      BY <1>1 DEF PcResult, Turns
    <3> QED
      BY <2>3, <3>1, <3>2 DEF ReadFails, InsertFails
  <2>4. CASE ModelFails(m) \/ RouteElsewhere(m) \/ DropTurn(m) \/ StrayEnds(m)
    BY <1>2, <2>4 DEF ModelFails, RouteElsewhere, DropTurn, StrayEnds
  <2>5. CASE ForkBranch(m)
    <3>1. PICK name \in Names : turn' = [turn EXCEPT ![m] = ForkResult(m, name)]
      BY <2>5 DEF ForkBranch, ForkResult, IInv, TypeOK
    <3>2. ForkResult(m, name).pc # "inserting"
      BY <1>1 DEF ForkResult, Turns
    <3> QED
      BY <2>5, <3>1, <3>2 DEF ForkBranch
  <2>6. CASE StrayFallThrough(m)
    <3>1. PICK c \in Names : turn' = [turn EXCEPT ![m] = StrayResult(m, c)]
      BY <2>6 DEF StrayFallThrough, StrayResult, IInv, TypeOK
    <3>2. StrayResult(m, c).pc = "stray"
      BY <1>1, <2>6 DEF StrayFallThrough, StrayResult, Turns
    <3> QED
      BY <2>6, <3>1, <3>2 DEF StrayFallThrough
  <2> QED
    BY <2>1, <2>2, <2>3, <2>4, <2>5, <2>6
<1> QED
  BY <1>3, NothingNewKept

\* The steps that write a window or the store, but for the four exceptions.
LEMMA WritesStayWhole ==
    ASSUME IInv, NEW m \in Messages, NEW b \in Names, Whole(b),
           Keep(m) \/ Insert(m) \/ Fill(m) \/ SeedBranch(m),
           ~StaleFill(m), ~BlindKeep(m), ~SeedOver(m)
    PROVE  Whole(b)'
<1> DEFINE c == turn[m].branch
<1>1. turn[m] \in Turns /\ c \in Names /\ turn[m].seen \in Seq(Messages)
      /\ "done" \in States /\ "inserting" \in States /\ Main \in Names
  BY ConversationsAssumption, TurnType DEF IInv, States
<1>2. CASE Keep(m)
  <2>1. /\ cache' = [cache EXCEPT ![c] = Append(@, m)] /\ store' = store
        /\ turn' = [turn EXCEPT ![m] = Idle("inserting", c)]
        /\ cache[c] # <<>>
    BY <1>2 DEF Keep, BlindKeep
  <2>2. Idle("inserting", c).branch = c
    BY <1>1, IdleFacts
  <2>3. cache[c] \in Seq(Messages)
    BY <1>1 DEF IInv, TypeOK
  <2> HIDE DEF c
  <2>4. Kept(b)' \subseteq Kept(b) \union (IF b = c THEN {m} ELSE {})
    BY <2>1, <2>2 DEF IInv, TypeOK, Kept, Stored
  <2>5. Shown(b)' = IF b = c THEN Shown(b) \union {m} ELSE Shown(b)
    <3>1. Range(Append(cache[c], m)) = Range(cache[c]) \union {m}
      BY <2>3, AppendFacts
    <3> QED
      BY <1>1, <2>1, <3>1 DEF IInv, TypeOK, Shown
  <2>6. cache'[b] = <<>> \/ cache[b] # <<>>
    BY <1>1, <2>1 DEF IInv, TypeOK
  <2> QED
    BY <2>4, <2>5, <2>6 DEF Whole
<1>3. CASE Insert(m)
  <2>1. /\ store' = [store EXCEPT ![c] = Append(@, m)] /\ cache' = cache
        /\ turn[m].pc = "inserting"
        /\ turn' = [turn EXCEPT ![m] = PcResult(m, "done")]
    BY <1>3 DEF Insert, PcResult, IInv, TypeOK
  <2>2. store[c] \in Seq(Messages)
    BY <1>1 DEF IInv, TypeOK
  <2>3. Range(Append(store[c], m)) = Range(store[c]) \union {m}
    BY <2>2, AppendFacts
  <2>4. PcResult(m, "done").pc = "done"
    BY <1>1 DEF PcResult, Turns
  <2>5. Stored(b)' \subseteq Stored(b) \union (IF b = c THEN {m} ELSE {})
    BY <1>1, <2>1, <2>3 DEF IInv, TypeOK, Stored
  <2>6. Kept(b)' \subseteq Kept(b)
    BY <2>1, <2>4, <2>5 DEF IInv, TypeOK, Kept
  <2> QED
    BY <2>1, <2>6 DEF Whole, Shown
<1>4. CASE Fill(m) \/ SeedBranch(m)
  <2> DEFINE r == IF turn[m].pc = "filling" THEN PcResult(m, "model")
                  ELSE Idle("done", Main)
  <2>1. /\ cache' = [cache EXCEPT ![c] = turn[m].seen] /\ store' = store
        /\ turn' = [turn EXCEPT ![m] = r]
    BY <1>4 DEF Fill, SeedBranch, PcResult, IInv, TypeOK
  <2>2. r.pc # "inserting"
    BY <1>1, IdleFacts DEF PcResult, Turns
  <2> HIDE DEF r
  <2>3. Kept(b)' \subseteq Kept(b)
    BY <2>1, <2>2 DEF IInv, TypeOK, Kept, Stored
  <2>4. Kept(c) \subseteq Range(turn[m].seen)
    BY <1>4 DEF StaleFill, SeedOver
  <2>5. Shown(b)' = IF b = c THEN Range(turn[m].seen) ELSE Shown(b)
    BY <1>1, <2>1 DEF IInv, TypeOK, Shown
  <2>6. b # c => cache'[b] = cache[b]
    BY <2>1 DEF IInv, TypeOK
  <2> HIDE DEF c
  <2> QED
    BY <2>3, <2>4, <2>5, <2>6 DEF Whole
<1> QED
  BY <1>2, <1>3, <1>4

\* A window goes on showing every turn its branch keeps, for any number of
\* messages and branches, unless a fill overlaps a turn, a turn starts a window
\* of its own, /branch overwrites a window or a turn outlives its agent.
THEOREM WholeUnlessExcepted == Spec => WindowsStayWhole
<1> DEFINE Excepted == \E m \in Messages :
                          StaleFill(m) \/ BlindKeep(m) \/ SeedOver(m) \/ StrayInsert(m)
<1>1. ASSUME IInv, Next, ~Excepted, NEW b \in Names, Whole(b) PROVE Whole(b)'
  <2>1. CASE \E m \in Messages : HandleTurn(m)
    BY <1>1, <2>1, HandStepsStayWhole, WritesStayWhole DEF HandleTurn
  <2>2. CASE \E m \in Messages : ReceiveFork(m) \/ ForkBranch(m) \/ SeedBranch(m)
    BY <1>1, <2>2, HandStepsStayWhole, WritesStayWhole
  <2>3. CASE Clear \/ \E name \in Names : OpenSession(name) \/ SwitchBranch(name)
    <3>1. UNCHANGED <<cache, store, turn>>
      BY <2>3 DEF Clear, OpenSession, SwitchBranch
    <3> QED
      BY <1>1, <3>1 DEF Whole, Kept, Shown, Stored
  <2>4. CASE Restart \/ Reset
    <3>1. cache'[b] = <<>>
      BY <2>4 DEF Restart, Reset, Forget
    <3> QED
      BY <3>1 DEF Whole
  <2> QED
    BY <1>1, <2>1, <2>2, <2>3, <2>4 DEF Next
<1>2. IInv /\ [Next]_vars =>
        [\A b \in Names : Whole(b) /\ ~Whole(b)' => Excepted]_vars
  BY <1>1
<1> QED
  BY <1>2, Invariance, PTL DEF Spec, WindowsStayWhole

=============================================================================

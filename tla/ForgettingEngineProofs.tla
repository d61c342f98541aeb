----------------------- MODULE ForgettingEngineProofs -----------------------
(***************************************************************************)
(* Proofs about ForgettingEngine, for any memories, policy and callers.    *)
(***************************************************************************)
EXTENDS ForgettingEngine, FiniteSetTheorems, TLAPS

USE EngineAssumption

\* What the calls in progress know is no newer than the state.
CallInv ==
    \A c \in Callers : listed[c] \subseteq born /\ started[c] <= clock

\* Whatever is listed for removal is too old, or outnumbered by what its report counted,
\* and stays so.
ReportInv ==
    \A c \in Callers : \A m \in report[c] : TooOld(m) \/ Outnumbered(basis[c], m)

\* What the scheduled purge has yet to log is logged before it goes on.
PurgedInv == phase[Timer] # "logging" => purged[Timer] = {}

IInv == TypeOK /\ CallInv /\ ReportInv /\ PurgedInv /\ LogFollowsHolding

-----------------------------------------------------------------------------
(* The policy.                                                             *)

\* A set with the newer memories of another outnumbers what that one does.
LEMMA MoreOutnumber ==
    ASSUME NEW S \in SUBSET Memories, NEW T \in SUBSET Memories, NEW m \in Memories,
           Outnumbered(S, m), Newer(S, m) \subseteq T
    PROVE  Outnumbered(T, m)
<1> DEFINE max == MaxCount[CategoryOf[m]]
<1>1. max # None /\ max \in Nat /\ Cardinality(Newer(S, m)) >= max
  BY DEF Outnumbered
<1>2. Newer(S, m) \subseteq Newer(T, m)
  BY DEF Newer
<1>3. IsFiniteSet(Newer(T, m))
  <2>1. Newer(T, m) \in SUBSET Memories
    BY DEF Newer
  <2> QED
    BY <2>1, FS_Subset
<1>4. Cardinality(Newer(S, m)) <= Cardinality(Newer(T, m)) /\ IsFiniteSet(Newer(S, m))
  BY <1>2, <1>3, FS_Subset
<1>5. Cardinality(Newer(S, m)) \in Nat /\ Cardinality(Newer(T, m)) \in Nat
  BY <1>3, <1>4, FS_CardinalityType
<1>6. Cardinality(Newer(T, m)) >= max
  BY <1>1, <1>4, <1>5
<1> QED
  BY <1>1, <1>6 DEF Outnumbered

\* What is left of a category when the excess is taken outnumbers each part of it.
LEMMA ExcessOutnumbered ==
    ASSUME TypeOK, NEW k \in Categories, NEW S \in SUBSET born,
           \A n \in S : CategoryOf[n] = k,
           NEW X \in Excesses(S, k), NEW m \in X
    PROVE  Outnumbered(S, m)
<1> DEFINE max == MaxCount[k]
           kept == S \ X
<1>1. /\ max # None /\ Cardinality(S) > max
      /\ X \in OldestOf(S, Cardinality(S) - max)
  BY DEF Excesses
<1>2. /\ X \subseteq S /\ Cardinality(X) = Cardinality(S) - max
      /\ \A f \in kept : created[m] <= created[f]
  BY <1>1 DEF OldestOf
<1>3. born \subseteq Memories
  BY DEF TypeOK
<1>4. IsFiniteSet(S) /\ IsFiniteSet(Newer(S, m))
  <2>1. S \in SUBSET Memories /\ Newer(S, m) \in SUBSET Memories
    BY <1>3 DEF Newer
  <2> QED
    BY <2>1, FS_Subset
<1>5. Cardinality(kept) = max
  <2>1. S \cap X = X
    BY <1>2
  <2>2. Cardinality(kept) = Cardinality(S) - Cardinality(X)
    BY <1>4, <2>1, FS_Difference
  <2>3. Cardinality(S) \in Nat /\ max \in Nat
    BY <1>1, <1>4, FS_CardinalityType
  <2> QED
    BY <1>2, <2>2, <2>3
<1>6. kept \subseteq Newer(S, m)
  <2> SUFFICES ASSUME NEW n \in kept PROVE n \in Newer(S, m)
    OBVIOUS
  <2>1. n \in S /\ n # m /\ CategoryOf[n] = k /\ CategoryOf[m] = k
    BY <1>2
  <2>2. created[n] \in Nat /\ created[m] \in Nat
    BY <1>2, <1>3, <2>1 DEF TypeOK
  <2> QED
    BY <1>2, <2>1, <2>2 DEF Newer
<1>7. Cardinality(kept) <= Cardinality(Newer(S, m))
  BY <1>4, <1>6, FS_Subset
<1>8. Cardinality(Newer(S, m)) \in Nat /\ max \in Nat
  BY <1>1, <1>4, FS_CardinalityType
<1>9. CategoryOf[m] = k
  BY <1>2
<1> QED
  BY <1>1, <1>5, <1>7, <1>8, <1>9 DEF Outnumbered

\* A report lists only what the policy lets go of the entries it counts (dry_run).
LEMMA ReportExcess ==
    ASSUME TypeOK, NEW entries \in SUBSET born, NEW R \in Reports(entries)
    PROVE  R \subseteq entries /\ \A m \in R : TooOld(m) \/ Outnumbered(entries, m)
<1>1. R \subseteq entries
  BY DEF Reports
<1> SUFFICES ASSUME NEW m \in R PROVE TooOld(m) \/ Outnumbered(entries, m)
  BY <1>1
<1> DEFINE k == CategoryOf[m]
           S == OfCategory(entries, k)
<1>2. m \in Memories /\ k \in Categories /\ entries \in SUBSET Memories
  BY <1>1 DEF TypeOK
<1>3. PICK X \in Excesses(S, k) : OfCategory(R, k) = X \cup {n \in S : TooOld(n)}
  BY <1>2 DEF Reports
<1>4. m \in X \/ TooOld(m)
  BY <1>3 DEF OfCategory
<1>5. S \in SUBSET born /\ S \in SUBSET entries /\ \A n \in S : CategoryOf[n] = k
  BY DEF OfCategory
<1>6. CASE m \in X
  <2> HIDE DEF S, k
  <2>1. Outnumbered(S, m)
    BY <1>2, <1>3, <1>5, <1>6, ExcessOutnumbered
  <2>2. Newer(S, m) \subseteq entries /\ S \in SUBSET Memories
    BY <1>2, <1>5 DEF Newer
  <2> QED
    BY <1>2, <2>1, <2>2, MoreOutnumber
<1> QED
  BY <1>4, <1>6

-----------------------------------------------------------------------------
(* Type correctness.                                                       *)

LEMMA InitInv == Init => IInv
<1> SUFFICES ASSUME Init PROVE IInv
  OBVIOUS
<1>1. TypeOK
  BY DEF Init, TypeOK, Nothing, Phases, Actions
<1>2. CallInv
  BY DEF Init, CallInv, Nothing
<1>3. ReportInv
  BY DEF Init, ReportInv, Nothing
<1>4. LogFollowsHolding
  BY DEF Init, LogFollowsHolding
<1>5. PurgedInv
  BY DEF Init, PurgedInv, Nothing, Callers
<1> QED
  BY <1>1, <1>2, <1>3, <1>4, <1>5 DEF IInv

LEMMA TypeStep == TypeOK /\ CallInv /\ [Next]_vars => TypeOK'
<1> SUFFICES ASSUME TypeOK, CallInv, [Next]_vars PROVE TypeOK'
  OBVIOUS
<1> USE DEF TypeOK, Phases, Actions
<1> clock \in Nat /\ Window \in Nat
  OBVIOUS
<1>1. CASE \E c \in Callers : Call(c)
  <2> PICK c \in Callers : Call(c)
    BY <1>1
  <2>1. CASE List(c)
    BY <2>1 DEF List, memory
  <2>2. CASE Report(c)
    <3> DEFINE entries == listed[c] \ Held
    <3>1. PICK R \in Reports(entries) : report' = [report EXCEPT ![c] = R]
      BY <2>2 DEF Report
    <3>2. entries \in SUBSET born
      BY DEF CallInv
    <3>3. R \in SUBSET born
      BY <3>1, <3>2 DEF Reports
    <3>4. basis' = [basis EXCEPT ![c] = entries]
      BY <2>2 DEF Report
    <3>5. UNCHANGED <<memory, held, last, started, purged>>
      BY <2>2 DEF Report
    <3>6. phase' \in [Callers -> Phases] /\ listed' \in [Callers -> SUBSET Memories]
      BY <2>2 DEF Report
    <3> HIDE DEF entries
    <3> QED
      BY <3>1, <3>2, <3>3, <3>4, <3>5, <3>6 DEF memory
  <2>3. CASE Approve(c)
    BY <2>3 DEF Approve, memory
  <2>4. CASE Abandon(c)
    BY <2>4 DEF Abandon, Return, memory
  <2>5. CASE SoftDelete(c)
    <3>1. started[c] \in Nat /\ started[c] <= clock
      BY DEF CallInv
    <3>2. \A m \in Memories : held'[m] = held[m] \/ held'[m] = started[c] + Window
      BY <2>5 DEF SoftDelete
    <3>3. held' \in [Memories -> Nat \cup {None}]
      BY <2>5, <3>1 DEF SoftDelete
    <3>4. \A m \in Memories : held'[m] # None => held'[m] <= clock + Window
      BY <3>1, <3>2
    <3>5. last' \in [Memories -> Actions]
      BY <2>5 DEF SoftDelete
    <3> QED
      BY <2>5, <3>3, <3>4, <3>5 DEF SoftDelete, Return, memory
  <2> QED
    BY <2>1, <2>2, <2>3, <2>4, <2>5 DEF Call
<1>2. CASE \E m \in Memories : Restore(m) \/ Insert(m) \/ Remove(m)
  <2> PICK m \in Memories : Restore(m) \/ Insert(m) \/ Remove(m)
    BY <1>2
  <2>1. CASE Restore(m)
    BY <2>1 DEF Restore, memory, calls
  <2>2. CASE Insert(m)
    <3>1. PICK t \in 0..clock : created' = [created EXCEPT ![m] = t]
      BY <2>2 DEF Insert
    <3>2. t \in 0..MaxTime
      OBVIOUS
    <3> QED
      BY <2>2, <3>1, <3>2 DEF Insert, calls
  <2>3. CASE Remove(m)
    BY <2>3 DEF Remove, calls
  <2> QED
    BY <2>1, <2>2, <2>3
<1>3. CASE HardPurge
  BY <1>3 DEF HardPurge, Lapsed, Held, Callers, memory
<1>4. CASE LogPurge
  BY <1>4 DEF LogPurge, Callers, memory
<1>5. CASE Tick
  BY <1>5 DEF Tick, calls
<1>6. CASE Restart
  BY <1>6 DEF Restart, Nothing, memory
<1>7. CASE UNCHANGED vars
  BY <1>7 DEF vars
<1> QED
  BY <1>1, <1>2, <1>3, <1>4, <1>5, <1>6, <1>7 DEF Next

-----------------------------------------------------------------------------
(* The rest of the inductive invariant.                                    *)

\* Every step lets time pass forward, keeps the memories there were and their dates.
LEMMA MemoryStep ==
    ASSUME TypeOK, [Next]_vars
    PROVE  /\ clock <= clock' /\ born \subseteq born'
           /\ \A n \in born : created'[n] = created[n]
<1> clock \in Nat /\ born \subseteq Memories /\ created \in [Memories -> 0..MaxTime]
  BY DEF TypeOK
<1>1. CASE Tick
  BY <1>1 DEF Tick
<1>2. CASE \E m \in Memories : Insert(m)
  BY <1>2 DEF Insert
<1>3. CASE \E m \in Memories : Remove(m)
  BY <1>3 DEF Remove
<1>4. CASE UNCHANGED memory
  BY <1>4 DEF memory
<1>5. (\E c \in Callers : Call(c)) \/ HardPurge \/ LogPurge \/ Restart => UNCHANGED memory
  BY DEF Call, List, Report, Approve, Abandon, SoftDelete, HardPurge, LogPurge, Restart, memory
<1>6. (\E m \in Memories : Restore(m)) \/ UNCHANGED vars => UNCHANGED memory
  BY DEF Restore, vars, memory
<1> QED
  BY <1>1, <1>2, <1>3, <1>4, <1>5, <1>6 DEF Next

LEMMA CallStep == TypeOK /\ CallInv /\ [Next]_vars => CallInv'
<1> SUFFICES ASSUME TypeOK, CallInv, [Next]_vars, NEW c \in Callers
             PROVE  listed'[c] \subseteq born' /\ started'[c] <= clock'
  BY DEF CallInv
<1>1. clock <= clock' /\ born \subseteq born'
  BY MemoryStep
<1>2. /\ listed[c] \subseteq born /\ started[c] <= clock
      /\ clock \in Nat /\ started[c] \in Nat /\ store \subseteq born
      /\ listed \in [Callers -> SUBSET Memories] /\ started \in [Callers -> 0..MaxTime]
  BY DEF CallInv, TypeOK
<1>3. clock' \in Nat
  <2>1. TypeOK'
    BY TypeStep
  <2> QED
    BY <2>1 DEF TypeOK
<1>4. CASE UNCHANGED <<listed, started>>
  BY <1>1, <1>2, <1>3, <1>4
<1>5. CASE \E d \in Callers : List(d)
  BY <1>1, <1>2, <1>3, <1>5 DEF List
<1>6. CASE \E d \in Callers : Report(d)
  BY <1>1, <1>2, <1>3, <1>6 DEF Report
<1>7. CASE \E d \in Callers : Approve(d)
  BY <1>1, <1>2, <1>3, <1>7 DEF Approve
<1>8. CASE \E d \in Callers : Abandon(d)
  BY <1>1, <1>2, <1>3, <1>8 DEF Abandon, Return
<1>9. CASE \E d \in Callers : SoftDelete(d)
  BY <1>1, <1>2, <1>3, <1>9 DEF SoftDelete, Return
<1>10. CASE Restart
  BY <1>2, <1>3, <1>10 DEF Restart, Nothing
<1>11. (\E m \in Memories : Restore(m) \/ Insert(m) \/ Remove(m)) \/ HardPurge \/ LogPurge
          \/ Tick \/ UNCHANGED vars => UNCHANGED <<listed, started>>
  BY DEF Restore, Insert, Remove, HardPurge, LogPurge, Tick, calls, vars
<1> QED
  BY <1>4, <1>5, <1>6, <1>7, <1>8, <1>9, <1>10, <1>11 DEF Next, Call

\* What is too old or outnumbered by what was counted stays so.
LEMMA ExcessStays ==
    ASSUME TypeOK, CallInv, [Next]_vars, NEW c \in Callers, NEW m \in born, basis'[c] = basis[c],
           TooOld(m) \/ Outnumbered(basis[c], m)
    PROVE  TooOld(m)' \/ Outnumbered(basis[c], m)'
<1>1. /\ clock <= clock' /\ m \in Memories /\ created[m] \in Nat /\ clock \in Nat
      /\ basis[c] \subseteq born /\ CategoryOf[m] \in Categories
  BY MemoryStep DEF TypeOK
<1>2. created'[m] = created[m] /\ \A n \in born : created'[n] = created[n]
  BY MemoryStep
<1>3. clock' \in Nat
  <2>1. TypeOK'
    BY TypeStep
  <2> QED
    BY <2>1 DEF TypeOK
<1>4. CASE TooOld(m)
  <2> DEFINE age == MaxAge[CategoryOf[m]]
  <2>1. age # None /\ age \in Nat /\ created[m] + age < clock
    BY <1>1, <1>4 DEF TooOld
  <2>2. created'[m] + age < clock'
    BY <1>1, <1>2, <1>3, <2>1
  <2> QED
    BY <2>1, <2>2 DEF TooOld
<1>5. CASE Outnumbered(basis[c], m)
  <2>1. Newer(basis[c], m)' = Newer(basis[c], m)
    BY <1>1, <1>2 DEF Newer
  <2> QED
    BY <1>5, <2>1 DEF Outnumbered
<1> QED
  BY <1>4, <1>5

LEMMA ReportStep == TypeOK /\ CallInv /\ ReportInv /\ [Next]_vars => ReportInv'
<1> SUFFICES ASSUME TypeOK, CallInv, ReportInv, [Next]_vars,
                    NEW d \in Callers, NEW m \in report'[d]
             PROVE  TooOld(m)' \/ Outnumbered(basis[d], m)'
  BY DEF ReportInv
<1> /\ report \in [Callers -> SUBSET born] /\ basis \in [Callers -> SUBSET born]
    /\ held \in [Memories -> Nat \cup {None}]
  BY DEF TypeOK
<1>1. report'[d] \subseteq report[d] /\ basis'[d] = basis[d]
          => TooOld(m)' \/ Outnumbered(basis[d], m)'
  BY ExcessStays DEF ReportInv
<1>2. CASE \E c \in Callers : Report(c)
  <2> PICK c \in Callers : Report(c)
    BY <1>2
  <2>1. CASE c = d
    <3> DEFINE entries == listed[d] \ Held
    <3>1. PICK R \in Reports(entries) : report' = [report EXCEPT ![d] = R]
      BY <2>1 DEF Report
    <3>2. entries \in SUBSET born
      BY DEF CallInv
    <3>3. TooOld(m) \/ Outnumbered(entries, m)
      BY <3>1, <3>2, ReportExcess
    <3>4. basis'[d] = entries /\ created' = created /\ clock' = clock
      BY <2>1 DEF Report, memory
    <3>5. TooOld(m)' = TooOld(m) /\ Newer(basis[d], m)' = Newer(entries, m)
      BY <3>4 DEF TooOld, Newer
    <3> QED
      BY <3>3, <3>5 DEF Outnumbered
  <2>2. CASE c # d
    BY <1>1, <2>2 DEF Report
  <2> QED
    BY <2>1, <2>2
<1>3. CASE \E c \in Callers : Abandon(c) \/ SoftDelete(c)
  <2> PICK c \in Callers : Abandon(c) \/ SoftDelete(c)
    BY <1>3
  <2>1. Return(c)
    BY DEF Abandon, SoftDelete
  <2>2. c # d /\ report'[d] = report[d] /\ basis'[d] = basis[d]
    BY <2>1 DEF Return
  <2> QED
    BY <1>1, <2>2
<1>4. CASE Restart
  BY <1>4 DEF Restart, Nothing
<1>5. CASE UNCHANGED <<report, basis>>
  BY <1>1, <1>5
<1>6. (\E c \in Callers : List(c) \/ Approve(c)) \/ HardPurge \/ LogPurge \/ Tick
          \/ (\E n \in Memories : Restore(n) \/ Insert(n) \/ Remove(n)) \/ UNCHANGED vars
          => UNCHANGED <<report, basis>>
  BY DEF List, Approve, HardPurge, LogPurge, Tick, Restore, Insert, Remove, calls, vars
<1> QED
  BY <1>2, <1>3, <1>4, <1>5, <1>6 DEF Next, Call

LEMMA PurgedStep == TypeOK /\ PurgedInv /\ [Next]_vars => PurgedInv'
<1> SUFFICES ASSUME TypeOK, PurgedInv, [Next]_vars PROVE PurgedInv'
  OBVIOUS
<1> /\ purged \in [Callers -> SUBSET Memories] /\ Timer \in Callers
    /\ phase \in [Callers -> Phases]
  BY DEF TypeOK, Callers
<1>1. CASE HardPurge
  BY <1>1 DEF HardPurge, PurgedInv
<1>2. CASE LogPurge
  BY <1>2 DEF LogPurge, PurgedInv
<1>3. CASE Restart
  BY <1>3 DEF Restart, Nothing, PurgedInv
<1>4. CASE \E c \in Callers : Call(c)
  <2> PICK c \in Callers : Call(c)
    BY <1>4
  <2>1. purged' = purged
    BY DEF Call, List, Report, Approve, Abandon, SoftDelete, Return
  <2>2. phase[Timer] = "logging" => phase'[Timer] = "logging" \/ purged[Timer] = {}
    BY DEF Call, List, Report, Approve, Abandon, SoftDelete, Return
  <2> QED
    BY <2>1, <2>2 DEF PurgedInv
<1>5. CASE UNCHANGED <<phase, purged>>
  BY <1>5 DEF PurgedInv
<1>6. (\E m \in Memories : Restore(m) \/ Insert(m) \/ Remove(m)) \/ Tick \/ UNCHANGED vars
          => UNCHANGED <<phase, purged>>
  BY DEF Restore, Insert, Remove, Tick, calls, vars
<1> QED
  BY <1>1, <1>2, <1>3, <1>4, <1>5, <1>6 DEF Next

LEMMA LogStep == TypeOK /\ PurgedInv /\ LogFollowsHolding /\ [Next]_vars => LogFollowsHolding'
<1> SUFFICES ASSUME TypeOK, PurgedInv, LogFollowsHolding, [Next]_vars PROVE LogFollowsHolding'
  OBVIOUS
<1> /\ held \in [Memories -> Nat \cup {None}] /\ last \in [Memories -> Actions]
    /\ purged \in [Callers -> SUBSET Memories] /\ Timer \in Callers
  BY DEF TypeOK, Callers
<1>1. CASE \E c \in Callers : SoftDelete(c)
  <2> PICK c \in Callers : SoftDelete(c)
    BY <1>1
  <2>1. started[c] + Window # None
    BY DEF TypeOK
  <2> QED
    BY <2>1 DEF SoftDelete, Return, LogFollowsHolding
<1>2. CASE \E m \in Memories : Restore(m)
  BY <1>2 DEF Restore, calls, LogFollowsHolding
<1>3. CASE HardPurge
  <2>1. purged[Timer] = {} /\ purged'[Timer] = Lapsed
    BY <1>3 DEF HardPurge, PurgedInv
  <2> QED
    BY <1>3, <2>1 DEF HardPurge, Lapsed, Held, LogFollowsHolding
<1>4. CASE LogPurge
  BY <1>4 DEF LogPurge, LogFollowsHolding
<1>5. CASE Restart
  BY <1>5 DEF Restart, LogFollowsHolding, Actions
<1>6. CASE UNCHANGED <<held, last, purged>>
  BY <1>6 DEF LogFollowsHolding
<1>7. (\E c \in Callers : List(c) \/ Report(c) \/ Approve(c) \/ Abandon(c))
          \/ (\E m \in Memories : Insert(m) \/ Remove(m)) \/ Tick \/ UNCHANGED vars
          => UNCHANGED <<held, last, purged>>
  BY DEF List, Report, Approve, Abandon, Return, Insert, Remove, Tick, calls, vars
<1> QED
  BY <1>1, <1>2, <1>3, <1>4, <1>5, <1>6, <1>7 DEF Next, Call
-----------------------------------------------------------------------------
LEMMA Inductive == Spec => []IInv
<1>1. IInv /\ [Next]_vars => IInv'
  BY TypeStep, CallStep, ReportStep, PurgedStep, LogStep DEF IInv
<1> QED
  BY InitInv, <1>1, PTL DEF Spec

\* Types; and no memory's window closes later than one window from now (execute).
THEOREM TypeCorrect == Spec => []TypeOK
<1>1. IInv => TypeOK
  BY DEF IInv
<1> QED
  BY <1>1, Inductive, PTL

\* Whatever the report's age and the steps since, a memory is soft-deleted only when it
\* is too old, or newer live memories fill its category, or one of those its report
\* counted has left or been soft-deleted since (dry_run, execute).
THEOREM NewestAreSafe == Spec => OnlyExcessIsHeld
<1>1. ASSUME IInv, NEW c \in Callers, NEW m \in report[c] \cap listed[c],
             ~TooOld(m), Newer(basis[c], m) \subseteq Live
      PROVE  Outnumbered(Live, m)
  <2>1. m \in Memories /\ basis[c] \in SUBSET Memories /\ Live \in SUBSET Memories
    BY <1>1 DEF IInv, TypeOK, Live
  <2>2. Outnumbered(basis[c], m)
    BY <1>1 DEF IInv, ReportInv
  <2> QED
    BY <1>1, <2>1, <2>2, MoreOutnumber
<1>2. IInv => [\A c \in Callers :
                  SoftDelete(c) =>
                      \A m \in report[c] \cap listed[c] :
                          \/ TooOld(m)
                          \/ Outnumbered(Live, m)
                          \/ ~(Newer(basis[c], m) \subseteq Live)]_vars
  BY <1>1
<1> QED
  BY <1>2, Inductive, PTL DEF OnlyExcessIsHeld

\* The audit log's last word on a memory agrees with the holding area.
THEOREM LogCorrect == Spec => []LogFollowsHolding
<1>1. IInv => LogFollowsHolding
  BY DEF IInv
<1> QED
  BY <1>1, Inductive, PTL
=============================================================================

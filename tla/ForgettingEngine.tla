-------------------------- MODULE ForgettingEngine --------------------------
(***************************************************************************)
(* Controlled forgetting (core/src/memory/forgetting).  A dry run lists    *)
(* the memories that the retention policy would remove; execute moves the  *)
(* memories of a report to the soft-delete holding area; restore takes one *)
(* back within its recovery window; the scheduled purge also drops what    *)
(* nobody restored in time.                                                *)
(*                                                                         *)
(* The store and the holding area have a lock each, taken for one read or  *)
(* one write, so other calls run between the steps of one.  The holding    *)
(* area and the audit log live in memory only.                             *)
(***************************************************************************)
EXTENDS Naturals, FiniteSets

CONSTANTS
    Memories,
    Categories,
    CategoryOf,  \* category of each memory
    MaxAge,      \* max_age_days of each category's rule, or None
    MaxCount,    \* max_count of each category's rule, or None
    Users,       \* callers of dry_run and execute
    Timer,       \* the task that calls run_scheduled_purge
    Window,      \* recovery_window_hours
    MaxTime,     \* last moment of the clock (a bound)
    None

Callers == Users \cup {Timer}

ASSUME EngineAssumption ==
    /\ CategoryOf \in [Memories -> Categories]
    /\ MaxAge \in [Categories -> Nat \cup {None}]
    /\ MaxCount \in [Categories -> Nat \cup {None}]
    /\ IsFiniteSet(Memories)
    /\ Timer \notin Users
    /\ Window \in Nat /\ MaxTime \in Nat
    /\ None \notin Nat

VARIABLES
    clock,
    born,       \* memories inserted so far
    created,    \* their created_at
    store,      \* memories in the MemoryStore
    held,       \* soft_deleted: when each memory's window closes, or None
    last,       \* the audit log's latest action on each memory
    phase,      \* where each caller stands
    listed,     \* store.all() of the caller's dry run or execute
    report,     \* the caller's PurgeReport
    started,    \* the time at which the caller's execute read the clock
    purged,     \* memories the caller hard-purged and has not logged
    basis       \* history: the entries that the caller's report counted

vars == <<clock, born, created, store, held, last,
          phase, listed, report, started, purged, basis>>
calls == <<phase, listed, report, started, purged, basis>>
memory == <<clock, born, created, store>>

Phases == {"idle", "logging", "listing", "reported", "executing"}
Actions == {"none", "soft_deleted", "restored", "hard_purged"}

TypeOK ==
    /\ clock \in 0..MaxTime
    /\ born \subseteq Memories /\ store \subseteq born
    /\ created \in [Memories -> 0..MaxTime]
    /\ held \in [Memories -> Nat \cup {None}]
    /\ \A m \in Memories : held[m] # None => held[m] <= clock + Window
    /\ last \in [Memories -> Actions]
    /\ phase \in [Callers -> Phases]
    /\ listed \in [Callers -> SUBSET Memories]
    /\ report \in [Callers -> SUBSET born]
    /\ started \in [Callers -> 0..MaxTime]
    /\ purged \in [Callers -> SUBSET Memories]
    /\ basis \in [Callers -> SUBSET born]

Nothing == [c \in Callers |-> {}]

Init ==
    /\ clock = 0
    /\ born = {} /\ store = {}
    /\ created = [m \in Memories |-> 0]
    /\ held = [m \in Memories |-> None]
    /\ last = [m \in Memories |-> "none"]
    /\ phase = [c \in Callers |-> "idle"]
    /\ listed = Nothing /\ report = Nothing /\ purged = Nothing /\ basis = Nothing
    /\ started = [c \in Callers |-> 0]

-----------------------------------------------------------------------------
(* RetentionPolicy and the lists of dry_run.                               *)

Held == {m \in Memories : held[m] # None}

TooOld(m) ==
    LET age == MaxAge[CategoryOf[m]]
    IN  age # None /\ created[m] + age < clock

OfCategory(S, k) == {m \in S : CategoryOf[m] = k}

\* Mutant: sorted by created_at descending.
NewestOf(entries, n) ==
    {E \in SUBSET entries : /\ Cardinality(E) = n
                            /\ \A e \in E, f \in entries \ E : created[e] >= created[f]}

\* The ways to take n of the oldest entries: the sort leaves entries of the same time
\* in the order of the store, which is not defined.
OldestOf(entries, n) ==
    {E \in SUBSET entries : /\ Cardinality(E) = n
                            /\ \A e \in E, f \in entries \ E : created[e] <= created[f]}

\* What max_count may list of a category's entries.
Excesses(entries, k) ==
    LET max == MaxCount[k]
    IN  IF max # None /\ Cardinality(entries) > max
        THEN OldestOf(entries, Cardinality(entries) - max)
        ELSE {{}}

Reports(entries) ==
    {R \in SUBSET entries :
        \A k \in Categories :
            \E X \in Excesses(OfCategory(entries, k), k) :
                OfCategory(R, k) = X \cup {m \in OfCategory(entries, k) : TooOld(m)}}

-----------------------------------------------------------------------------
(* dry_run and execute, by a user or within the scheduled purge.           *)

\* A call ends, and its locals with it.
Return(c) ==
    /\ phase' = [phase EXCEPT ![c] = "idle"]
    /\ listed' = [listed EXCEPT ![c] = {}]
    /\ report' = [report EXCEPT ![c] = {}]
    /\ started' = [started EXCEPT ![c] = 0]
    /\ basis' = [basis EXCEPT ![c] = {}]
    /\ UNCHANGED purged

\* store.all() of dry_run.
List(c) ==
    /\ \/ phase[c] = "idle" /\ c \in Users
       \/ phase[c] = "logging" /\ purged[c] = {}
    /\ phase' = [phase EXCEPT ![c] = "listing"]
    /\ listed' = [listed EXCEPT ![c] = store]
    /\ UNCHANGED <<memory, held, last, report, started, purged, basis>>

\* The rest of dry_run, under a read lock of the holding area.
Report(c) ==
    /\ phase[c] = "listing"
    /\ phase' = [phase EXCEPT ![c] = "reported"]
    /\ basis' = [basis EXCEPT ![c] = listed[c] \ Held]
    /\ \E R \in Reports(listed[c] \ Held) : report' = [report EXCEPT ![c] = R]
    /\ listed' = [listed EXCEPT ![c] = {}]
    /\ UNCHANGED <<memory, held, last, started, purged>>

\* execute, approved: read the store and the clock.
Approve(c) ==
    /\ phase[c] = "reported" /\ report[c] # {}
    /\ phase' = [phase EXCEPT ![c] = "executing"]
    /\ listed' = [listed EXCEPT ![c] = store]
    /\ started' = [started EXCEPT ![c] = clock]
    /\ UNCHANGED <<memory, held, last, report, purged, basis>>

\* The gate denies, nothing is listed, or the store fails.
Abandon(c) ==
    /\ phase[c] \in {"listing", "reported"}
    /\ Return(c)
    /\ UNCHANGED <<memory, held, last>>

\* Mutant: entries are held but the audit entry is forgotten.
SoftDeleteUnlogged(c) ==
    LET gone == report[c] \cap listed[c]
    IN  /\ phase[c] = "executing"
        /\ Return(c)
        /\ held' = [m \in Memories |-> IF m \in gone THEN started[c] + Window ELSE held[m]]
        /\ UNCHANGED <<memory, last>>

\* Mutant: a memory that is already held gets a second window after its first.
SoftDeleteExtends(c) ==
    LET gone == report[c] \cap listed[c]
    IN  /\ phase[c] = "executing"
        /\ Return(c)
        /\ held' = [m \in Memories |->
                      IF m \notin gone THEN held[m]
                      ELSE (IF held[m] = None THEN started[c] ELSE held[m]) + Window]
        /\ last' = [m \in Memories |-> IF m \in gone THEN "soft_deleted" ELSE last[m]]
        /\ UNCHANGED memory

\* Hold every entry of the report the store still has, and log it, under the lock.
SoftDelete(c) ==
    LET gone == report[c] \cap listed[c]
    IN  /\ phase[c] = "executing"
        /\ Return(c)
        /\ held' = [m \in Memories |-> IF m \in gone THEN started[c] + Window ELSE held[m]]
        /\ last' = [m \in Memories |-> IF m \in gone THEN "soft_deleted" ELSE last[m]]
        /\ UNCHANGED memory

\* restore, which fails for a memory that is not held or whose window has closed.
Restore(m) ==
    /\ held[m] # None /\ clock <= held[m]
    /\ held' = [held EXCEPT ![m] = None]
    /\ last' = [last EXCEPT ![m] = "restored"]
    /\ UNCHANGED <<memory, calls>>

-----------------------------------------------------------------------------
(* run_scheduled_purge.                                                    *)

Lapsed == {m \in Held : clock > held[m]}

\* Mutant: no lapsed memory is found.
HardPurgeNothing ==
    /\ phase[Timer] = "idle"
    /\ phase' = [phase EXCEPT ![Timer] = "logging"]
    /\ UNCHANGED <<memory, held, last, listed, report, started, purged, basis>>

\* hard_purge_expired: the memories leave the holding area, and the lock is released.
HardPurge ==
    /\ phase[Timer] = "idle"
    /\ phase' = [phase EXCEPT ![Timer] = "logging"]
    /\ purged' = [purged EXCEPT ![Timer] = Lapsed]
    /\ held' = [m \in Memories |-> IF m \in Lapsed THEN None ELSE held[m]]
    /\ UNCHANGED <<memory, last, listed, report, started, basis>>

\* Its audit entries are appended one by one.
LogPurge ==
    /\ phase[Timer] = "logging"
    /\ \E m \in purged[Timer] :
          /\ purged' = [purged EXCEPT ![Timer] = @ \ {m}]
          /\ last' = [last EXCEPT ![m] = "hard_purged"]
    /\ UNCHANGED <<memory, held, phase, listed, report, started, basis>>

-----------------------------------------------------------------------------
(* Around the engine: the store's other users, time, and the process.      *)

\* MemoryStore::insert of a new memory, whose date may be an earlier one (an import).
Insert(m) ==
    /\ m \notin born
    /\ born' = born \cup {m} /\ store' = store \cup {m}
    /\ \E t \in 0..clock : created' = [created EXCEPT ![m] = t]
    /\ UNCHANGED <<clock, held, last, calls>>

\* MemoryStore::remove.
Remove(m) ==
    /\ m \in store
    /\ store' = store \ {m}
    /\ UNCHANGED <<clock, born, created, held, last, calls>>

Tick ==
    /\ clock < MaxTime
    /\ clock' = clock + 1
    /\ UNCHANGED <<born, created, store, held, last, calls>>

\* The store survives; the holding area, the log and the calls do not.
Restart ==
    /\ held' = [m \in Memories |-> None]
    /\ last' = [m \in Memories |-> "none"]
    /\ phase' = [c \in Callers |-> "idle"]
    /\ listed' = Nothing /\ report' = Nothing /\ purged' = Nothing /\ basis' = Nothing
    /\ started' = [c \in Callers |-> 0]
    /\ UNCHANGED memory

Call(c) == List(c) \/ Report(c) \/ Approve(c) \/ Abandon(c) \/ SoftDelete(c)

Next ==
    \/ \E c \in Callers : Call(c)
    \/ \E m \in Memories : Restore(m) \/ Insert(m) \/ Remove(m)
    \/ HardPurge \/ LogPurge \/ Tick \/ Restart

\* The scheduled purge is called again and again, and its steps are taken.
Fairness == WF_vars(Call(Timer)) /\ WF_vars(HardPurge) /\ WF_vars(LogPurge)

Spec == Init /\ [][Next]_vars
FairSpec == Spec /\ Fairness

-----------------------------------------------------------------------------
\* What a dry run would count now.
Live == store \ Held

\* The memories of S that stay before this one when max_count cuts its category.
Newer(S, m) == {n \in S : /\ n # m /\ CategoryOf[n] = CategoryOf[m]
                          /\ created[n] >= created[m]}

Outnumbered(S, m) ==
    LET max == MaxCount[CategoryOf[m]]
    IN  max # None /\ Cardinality(Newer(S, m)) >= max

\* A memory is soft-deleted only if at that very moment it is too old, or the live
\* memories that are newer fill its category, however old the report and whatever was
\* inserted, restored or soft-deleted since.  The code does not look at the limits again
\* (execute), so one case is left, and named: a newer memory that the report counted
\* has left the store or been soft-deleted since.
OnlyExcessIsHeld ==
    [][\A c \in Callers :
          SoftDelete(c) =>
              \A m \in report[c] \cap listed[c] :
                  \/ TooOld(m)
                  \/ Outnumbered(Live, m)
                  \/ ~(Newer(basis[c], m) \subseteq Live)]_vars

\* The audit log agrees with the holding area: a memory whose latest action is a restore
\* is not held, one that was soft-deleted is held until a purge that has yet to log
\* itself, and a held memory has been logged (AuditLog::append in execute and restore).
LogFollowsHolding ==
    \A m \in Memories :
        /\ last[m] = "restored" => held[m] = None
        /\ last[m] = "soft_deleted" => held[m] # None \/ m \in purged[Timer]
        /\ held[m] # None => last[m] \in {"soft_deleted", "hard_purged"}

\* A soft-deleted memory does not stay in the holding area once its window has closed:
\* it is purged, unless an execute gives it a new window (hard_purge_expired).
LapsedIsPurged ==
    \A m \in Memories : m \in Lapsed ~> m \notin Lapsed

\* audit.rs: a hard-purged entry was permanently purged from the store.
HardPurgedIsGone == \A m \in Memories : last[m] = "hard_purged" => m \notin store
=============================================================================

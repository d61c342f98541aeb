----------------------------- MODULE MCScheduler -----------------------------
(* Small instances for checking Scheduler with TLC. *)
EXTENDS Scheduler, TLC

CONSTANTS poll, once

MCTasks == {poll, once}
MCPoll == {poll}

MCSchedule ==
    [t \in Tasks |->
        IF t = poll THEN [kind |-> "interval", every |-> 3]
                    ELSE [kind |-> "once", at |-> 0]]

\* With Tick = 1 the interval task is due in every sweep.
MCFrequent ==
    [MCSchedule EXCEPT ![poll] = [kind |-> "interval", every |-> 1]]

Symmetry == Permutations(Runs)
=============================================================================

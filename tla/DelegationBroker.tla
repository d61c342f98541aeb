--------------------------- MODULE DelegationBroker ---------------------------
(***************************************************************************)
(* DelegationBroker::delegate fans a batch of sub-tasks out to workers of  *)
(* a JoinSet and collects their results; Agent::handle_delegation merges   *)
(* them into one reply.  The future that awaits the batch can be dropped   *)
(* at any moment (a cancelled turn), which drops the JoinSet.              *)
(*                                                                         *)
(* These sub-tasks have no steering channel, so the queue stays empty.     *)
(***************************************************************************)
EXTENDS SubTask

CONSTANT Submitted      \* the batch, in submission order

ASSUME SubmittedAssumption ==
    Submitted \in Seq(Tasks) /\ \A i, j \in DOMAIN Submitted :
        Submitted[i] = Submitted[j] => i = j

VARIABLES
    phase,      \* progress of the awaiting future
    joining,    \* the workers in the JoinSet that join_next has not yielded yet
    results,    \* results collected so far, in order of arrival
    reply       \* whose texts the reply joins and whose failures it lists

vars == <<workerVars, phase, joining, results, reply>>

Batch == {Submitted[i] : i \in DOMAIN Submitted}

NoReply == [sections |-> {}, failed |-> {}]

TypeOK ==
    /\ WorkerTypeOK
    /\ phase \in {"idle", "collecting", "returned", "answered", "fallback", "dropped"}
    /\ joining \in SUBSET Tasks
    /\ results \in Seq([task : Tasks, output : Outcomes])
    /\ reply \in [sections : SUBSET Tasks, failed : SUBSET Tasks]

Init ==
    /\ WorkerInit
    /\ phase = "idle" /\ joining = {}
    /\ results = <<>> /\ reply = NoReply

\* Spawn every task of the batch; an empty batch returns at once.
Delegate ==
    /\ phase = "idle"
    /\ phase' = IF Submitted = <<>> THEN "returned" ELSE "collecting"
    /\ joining' = Batch
    /\ worker' = [t \in Tasks |-> IF t \in Batch THEN "spawned" ELSE worker[t]]
    /\ UNCHANGED <<turn, outcome, queue, injected, results, reply>>

\* The tasks whose results were collected.
Collected == {results[i].task : i \in DOMAIN results}

\* Mutant: a worker that panicked is logged and skipped.
JoinNextSkipsPanics(t) ==
    /\ phase = "collecting"
    /\ t \in joining /\ worker[t] = "done"
    /\ joining' = joining \ {t}
    /\ results' = IF outcome[t] = "panic" THEN results
                  ELSE Append(results, [task |-> t, output |-> outcome[t]])
    /\ UNCHANGED <<workerVars, phase, reply>>

\* Mutant: workers send their results, and one that panicked sends none.
JoinNextAwaitsPanics(t) ==
    /\ phase = "collecting"
    /\ t \in joining /\ worker[t] = "done" /\ outcome[t] # "panic"
    /\ joining' = joining \ {t}
    /\ results' = Append(results, [task |-> t, output |-> outcome[t]])
    /\ UNCHANGED <<workerVars, phase, reply>>

\* join_next yields a finished worker; a panic becomes an error result.
JoinNext(t) ==
    /\ phase = "collecting"
    /\ t \in joining /\ worker[t] = "done"
    /\ joining' = joining \ {t}
    /\ results' = Append(results, [task |-> t, output |-> outcome[t]])
    /\ UNCHANGED <<workerVars, phase, reply>>

\* join_next yields None: the set is empty, whatever was collected from it.
Return ==
    /\ phase = "collecting" /\ joining = {}
    /\ phase' = "returned"
    /\ UNCHANGED <<workerVars, joining, results, reply>>

\* The tasks whose results have one of these outputs.
Select(outs) ==
    {results[i].task : i \in {j \in DOMAIN results : results[j].output \in outs}}

Sections == Select({"text"})
Failures == Select(Outcomes \ {"text", "blank"})

\* Mutant: any failure makes the whole delegation fall back.
AnswerAllOrNothing ==
    /\ phase = "returned"
    /\ IF Sections = {} \/ Failures # {}
       THEN phase' = "fallback" /\ UNCHANGED reply
       ELSE phase' = "answered" /\ reply' = [sections |-> Sections, failed |-> Failures]
    /\ UNCHANGED <<workerVars, joining, results>>

\* Aggregate; without any output the agent falls back to its own model.
Answer ==
    /\ phase = "returned"
    /\ IF Sections = {}
       THEN phase' = "fallback" /\ UNCHANGED reply
       ELSE phase' = "answered" /\ reply' = [sections |-> Sections, failed |-> Failures]
    /\ UNCHANGED <<workerVars, joining, results>>

\* The awaiting future is dropped.
Drop ==
    /\ phase = "collecting"
    /\ phase' = "dropped" /\ joining' = {}
    /\ UNCHANGED <<workerVars, results, reply>>

\* Workers run on their own; a dropped JoinSet aborts them at their next await.
WorkerStep(t) ==
    /\ \/ phase # "dropped" /\ Resume(t)
       \/ Continue(t)
       \/ phase = "dropped" /\ Reap(t)
    /\ UNCHANGED <<phase, joining, results, reply>>

Next ==
    \/ Delegate \/ Return \/ Answer \/ Drop
    \/ \E t \in Tasks : JoinNext(t) \/ WorkerStep(t)

\* The runtime polls what is ready.  A model or a tool may never answer, and the
\* broker has no timeout of its own, so a parked worker is only fair once dropped.
Fairness ==
    /\ WF_vars(Return \/ Answer \/ \E t \in Tasks : JoinNext(t))
    /\ \A t \in Tasks : WF_vars(WorkerStep(t) /\ ~Parked(t))
    /\ \A t \in Tasks : WF_vars(WorkerStep(t) /\ phase = "dropped")

Spec == Init /\ [][Next]_vars
FairSpec == Spec /\ Fairness

-----------------------------------------------------------------------------
\* delegate returns one result per task of the batch, that of its worker, whatever
\* became of it: although the loop of join_next compares nothing with the batch and
\* ends when the JoinSet is empty, no panic shortens what it returns.
OneResultEach ==
    phase \in {"returned", "answered", "fallback"} =>
        /\ Len(results) = Len(Submitted)
        /\ \A t \in Batch : \E i \in DOMAIN results :
              results[i] = [task |-> t, output |-> outcome[t]]

\* The user's reply contains every agent's text and lists every failure (a panic as
\* the failure of an <unknown> agent), and the agent falls back only when no
\* sub-agent produced any text.
ReplyIsComplete ==
    /\ phase = "answered" => \A t \in Batch :
          /\ outcome[t] = "text" <=> t \in reply.sections
          /\ outcome[t] \in {"error", "late", "panic"} <=> t \in reply.failed
    /\ phase = "fallback" => \A t \in Batch : outcome[t] # "text"

\* A batch whose workers have all finished, by an answer, an error or a panic, is
\* answered or falls back unless it is dropped, and the workers of a dropped one
\* stop.
BatchEnds ==
    /\ (phase = "collecting" /\ \A t \in Batch : worker[t] = "done")
          ~> phase \in {"answered", "fallback", "dropped"}
    /\ \A t \in Tasks : phase = "dropped" ~> ~Live(t)
=============================================================================

------------------------ MODULE DelegationBrokerProofs ------------------------
(***************************************************************************)
(* Proofs about DelegationBroker, for any batch and any MaxTurns.  A result *)
(* is that of a worker that is done and stays so, and each worker gives one *)
(* result: the results and the batch then have the same tasks and length.   *)
(***************************************************************************)
EXTENDS DelegationBroker, FiniteSetTheorems, TLAPS

USE MaxTurnsAssumption

Over == {"returned", "answered", "fallback"}

\* The workers of the batch, and no others, are started.
StartInv ==
    /\ \A t \in Tasks \ Batch : worker[t] = "none"
    /\ phase = "idle" => results = <<>> /\ \A t \in Tasks : worker[t] = "none"

\* Every result is the outcome of another worker that is done.
ResultInv ==
    /\ \A i \in DOMAIN results :
        /\ worker[results[i].task] = "done"
        /\ results[i].output = outcome[results[i].task]
    /\ \A i, j \in DOMAIN results : results[i].task = results[j].task => i = j

\* Whoever is not in the JoinSet any more has been collected from it, and the loop
\* only ends when nobody is left in it.
JoinInv ==
    /\ joining \subseteq Batch \ Collected
    /\ phase \in Over \cup {"collecting"} => Batch \subseteq joining \cup Collected
    /\ phase # "collecting" => joining = {}

\* A batch that is over is complete, and the reply is made of its results.
ReplyInv ==
    /\ phase = "answered" => reply = [sections |-> Sections, failed |-> Failures]
    /\ phase = "fallback" => Sections = {}

IInv == TypeOK /\ StartInv /\ ResultInv /\ JoinInv /\ ReplyInv

LEMMA WorkerInitType == WorkerInit => WorkerTypeOK
BY DEF WorkerInit, WorkerTypeOK, WorkerStates, Outcomes

\* A step of a sub-task keeps the worker variables well typed.
LEMMA WorkerType ==
    ASSUME NEW t \in Tasks, WorkerTypeOK,
           StartWorker(t) \/ Resume(t) \/ Continue(t) \/ Reap(t)
    PROVE  WorkerTypeOK'
<1> USE DEF WorkerTypeOK, WorkerStates, Outcomes
<1>1. CASE StartWorker(t)
  BY <1>1 DEF StartWorker
<1>2. CASE UnknownAgent(t)
  BY <1>2 DEF UnknownAgent, Finish
<1>3. CASE PrepareContext(t)
  BY <1>3 DEF PrepareContext
<1>4. CASE ModelAnswers(t)
  BY <1>4 DEF ModelAnswers, Finish
<1>5. CASE ModelCallsTools(t)
  BY <1>5 DEF ModelCallsTools
<1>6. CASE ToolsReturn(t)
  BY <1>6 DEF ToolsReturn
<1>7. CASE Panic(t)
  BY <1>7 DEF Panic, Finish
<1>8. CASE BeginTurn(t)
  BY <1>8 DEF BeginTurn
<1>9. CASE ExhaustTurns(t)
  BY <1>9 DEF ExhaustTurns, Finish
<1>10. CASE Reap(t)
  BY <1>10 DEF Reap
<1> QED
  BY <1>1, <1>2, <1>3, <1>4, <1>5, <1>6, <1>7, <1>8, <1>9, <1>10
     DEF Resume, Continue

\* A step changes one worker only, one that has been started and is not done, and
\* an outcome only with the step that makes the worker done.
LEMMA WorkerFrame ==
    ASSUME NEW t \in Tasks, WorkerTypeOK, Resume(t) \/ Continue(t) \/ Reap(t)
    PROVE  /\ worker[t] \notin {"none", "done", "gone"}
           /\ worker'[t] # "none"
           /\ \A u \in Tasks \ {t} : worker'[u] = worker[u] /\ outcome'[u] = outcome[u]
<1> USE DEF WorkerTypeOK, Finish, Live
<1>1. CASE Resume(t)
  BY <1>1 DEF Resume, UnknownAgent, PrepareContext, ModelAnswers, ModelCallsTools,
              ToolsReturn, Panic
<1>2. CASE Continue(t)
  BY <1>2 DEF Continue, BeginTurn, ExhaustTurns
<1>3. CASE Reap(t)
  BY <1>3 DEF Reap
<1> QED
  BY <1>1, <1>2, <1>3

LEMMA InitIInv == Init => IInv
<1> SUFFICES ASSUME Init PROVE IInv
  OBVIOUS
<1>1. WorkerTypeOK
  BY WorkerInitType DEF Init
<1>2. /\ results = <<>> /\ phase = "idle" /\ joining = {} /\ reply = NoReply
      /\ \A t \in Tasks : worker[t] = "none"
  BY DEF Init, WorkerInit
<1>3. TypeOK
  BY <1>1, <1>2 DEF TypeOK, NoReply
<1>4. JoinInv
  BY <1>2 DEF JoinInv, Over
<1> QED
  BY <1>2, <1>3, <1>4 DEF IInv, StartInv, ResultInv, ReplyInv, Over

LEMMA ResultType ==
    ASSUME TypeOK, NEW i \in DOMAIN results
    PROVE  /\ results[i].task \in Tasks /\ results[i].output \in Outcomes
           /\ results[i] = [task |-> results[i].task, output |-> results[i].output]
<1> DEFINE R == [task : Tasks, output : Outcomes]
<1>1. \A r \in R : /\ r.task \in Tasks /\ r.output \in Outcomes
                   /\ r = [task |-> r.task, output |-> r.output]
  OBVIOUS
<1>2. results \in Seq(R)
  BY DEF TypeOK
<1> HIDE DEF R
<1>3. results[i] \in R
  BY <1>2
<1> QED
  BY <1>1, <1>3

\* A worker's step leaves the results and what they were taken from alone.
LEMMA WorkerStepKeepsIInv ==
    ASSUME IInv, NEW t \in Tasks, WorkerStep(t)
    PROVE  IInv'
<1>1. /\ Resume(t) \/ Continue(t) \/ Reap(t)
      /\ UNCHANGED <<phase, joining, results, reply>>
  BY DEF WorkerStep
<1>2. WorkerTypeOK
  BY DEF IInv, TypeOK
<1>3. WorkerTypeOK'
  BY <1>1, <1>2, WorkerType
<1>4. /\ worker[t] \notin {"none", "done", "gone"}
      /\ worker'[t] # "none"
      /\ \A u \in Tasks \ {t} : worker'[u] = worker[u] /\ outcome'[u] = outcome[u]
  BY <1>1, <1>2, WorkerFrame
<1>5. TypeOK'
  BY <1>1, <1>3 DEF IInv, TypeOK
<1>6. StartInv'
  BY <1>1, <1>4 DEF IInv, StartInv, Batch
<1>7. \A i \in DOMAIN results : results[i].task \in Tasks
  BY ResultType DEF IInv
<1>8. ResultInv'
  BY <1>1, <1>4, <1>7 DEF IInv, ResultInv
<1>9. ReplyInv' /\ JoinInv'
  BY <1>1 DEF IInv, ReplyInv, JoinInv, Batch, Collected, Sections, Failures, Select
<1> QED
  BY <1>5, <1>6, <1>8, <1>9 DEF IInv

LEMMA DelegateKeepsIInv == ASSUME IInv, Delegate PROVE IInv'
<1>1. /\ phase = "idle" /\ phase' \in {"returned", "collecting"}
      /\ phase' = "returned" => Submitted = <<>>
      /\ joining' = Batch
      /\ worker' = [t \in Tasks |-> IF t \in Batch THEN "spawned" ELSE worker[t]]
      /\ UNCHANGED <<turn, outcome, queue, injected, results, reply>>
  BY DEF Delegate
<1>2. results = <<>> /\ \A t \in Tasks : worker[t] = "none"
  BY <1>1 DEF IInv, StartInv
<1>3. TypeOK'
  <2>1. WorkerTypeOK'
    BY <1>1, <1>2 DEF IInv, TypeOK, WorkerTypeOK, WorkerStates
  <2>2. Batch \subseteq Tasks
    BY SubmittedAssumption DEF Batch
  <2> QED
    BY <1>1, <2>1, <2>2 DEF IInv, TypeOK
<1>4. StartInv'
  BY <1>1, <1>2 DEF StartInv, Batch
<1>5. ResultInv'
  BY <1>1, <1>2 DEF ResultInv
<1>6. Submitted = <<>> => Batch = {}
  BY DEF Batch
<1>7. ReplyInv'
  BY <1>1 DEF ReplyInv
<1>8. JoinInv'
  <2>1. Collected' = {} /\ Batch' = Batch
    BY <1>1, <1>2 DEF Collected, Batch
  <2> QED
    BY <1>1, <1>6, <2>1 DEF JoinInv, Over
<1> QED
  BY <1>3, <1>4, <1>5, <1>7, <1>8 DEF IInv

LEMMA JoinNextKeepsIInv ==
    ASSUME IInv, NEW t \in Tasks, JoinNext(t)
    PROVE  IInv'
<1> DEFINE r == [task |-> t, output |-> outcome[t]]
           R == [task : Tasks, output : Outcomes]
<1>1. /\ phase = "collecting" /\ worker[t] = "done"
      /\ t \in joining /\ joining' = joining \ {t}
      /\ results' = Append(results, r)
      /\ UNCHANGED <<workerVars, phase, reply>>
  BY DEF JoinNext
<1>2. r \in R /\ r.task = t /\ r.output = outcome[t]
  BY <1>1 DEF IInv, TypeOK, WorkerTypeOK
<1>3. results \in Seq(R)
  BY DEF IInv, TypeOK
<1> HIDE DEF r, R
<1>4. /\ results' \in Seq(R)
      /\ DOMAIN results' = DOMAIN results \union {Len(results) + 1}
      /\ \A i \in DOMAIN results : results'[i] = results[i]
      /\ results'[Len(results) + 1] = r
  BY <1>1, <1>2, <1>3
<1>5. TypeOK'
  BY <1>1, <1>4 DEF IInv, TypeOK, WorkerTypeOK, workerVars, R
<1>6. StartInv'
  BY <1>1 DEF IInv, StartInv, workerVars, Batch
<1>7. t \notin Collected /\ \A i \in DOMAIN results : results[i].task # t
  BY <1>1 DEF IInv, JoinInv, Collected
<1>8. ResultInv'
  BY <1>1, <1>2, <1>4, <1>7 DEF IInv, ResultInv, workerVars
<1>9. ReplyInv'
  BY <1>1 DEF ReplyInv
<1>10. JoinInv'
  <2>1. Collected' = Collected \cup {t}
    BY <1>2, <1>4 DEF Collected
  <2> QED
    BY <1>1, <2>1 DEF IInv, JoinInv, Batch
<1> QED
  BY <1>5, <1>6, <1>8, <1>9, <1>10 DEF IInv

LEMMA FutureStepsKeepIInv ==
    ASSUME IInv, Return \/ Answer \/ Drop
    PROVE  IInv'
<1>1. /\ phase \in {"collecting", "returned"} /\ phase' # "idle"
      /\ phase' \in {"returned", "answered", "fallback", "dropped"}
      /\ UNCHANGED <<workerVars, results>>
  BY DEF Return, Answer, Drop
<1>2. Sections \subseteq Tasks /\ Failures \subseteq Tasks
  BY ResultType DEF IInv, Sections, Failures, Select
<1>3. reply' \in [sections : SUBSET Tasks, failed : SUBSET Tasks]
  BY <1>2 DEF IInv, TypeOK, Return, Answer, Drop
<1>4. TypeOK'
  <2>1. joining' \in {joining, {}}
    BY DEF Return, Answer, Drop
  <2> QED
    BY <1>1, <1>3, <2>1 DEF IInv, TypeOK, WorkerTypeOK, workerVars
<1>5. StartInv' /\ ResultInv'
  BY <1>1 DEF IInv, StartInv, ResultInv, workerVars, Batch
<1>6. Sections' = Sections /\ Failures' = Failures /\ Collected' = Collected
  BY <1>1 DEF Sections, Failures, Select, Collected
<1>7. ReplyInv'
  BY <1>6 DEF IInv, ReplyInv, Return, Answer, Drop
<1>8. JoinInv'
  BY <1>6 DEF IInv, JoinInv, Over, Batch, Return, Answer, Drop
<1> QED
  BY <1>4, <1>5, <1>7, <1>8 DEF IInv

LEMMA StepIInv == ASSUME IInv, [Next]_vars PROVE IInv'
<1>u. CASE UNCHANGED vars
  <2>1. TypeOK' /\ StartInv' /\ ResultInv'
    BY <1>u DEF vars, workerVars, IInv, TypeOK, WorkerTypeOK, StartInv, ResultInv, Batch
  <2>2. ReplyInv' /\ JoinInv'
    BY <1>u DEF vars, IInv, ReplyInv, JoinInv, Batch, Collected, Sections, Failures, Select
  <2> QED
    BY <2>1, <2>2 DEF IInv
<1> QED
  BY <1>u, WorkerStepKeepsIInv, DelegateKeepsIInv, JoinNextKeepsIInv,
     FutureStepsKeepIInv DEF Next

THEOREM Invariance == Spec => []IInv
BY InitIInv, StepIInv, PTL DEF Spec

\* Every variable stays in its type; no worker begins a turn at or past MaxTurns.
THEOREM TypeCorrect == Spec => []TypeOK
<1>1. IInv => TypeOK
  BY DEF IInv
<1> QED
  BY <1>1, Invariance, PTL

\* An injective sequence has as many members as its length says.
LEMMA CountInjective ==
    ASSUME NEW n \in Nat, NEW f, DOMAIN f = 1..n, f = [i \in 1..n |-> f[i]],
           \A i, j \in 1..n : f[i] = f[j] => i = j
    PROVE  Cardinality({f[i] : i \in 1..n}) = n
<1> DEFINE S == {f[i] : i \in 1..n}
<1>1. f \in Bijection(1..n, S)
  BY DEF Bijection, Injection, Surjection, IsInjective
<1> QED
  BY <1>1, FS_CountingElements DEF ExistsBijection

\* delegate returns one result per task, whatever became of its worker, for a batch
\* of any size.
THEOREM EveryTaskHasItsResult == Spec => []OneResultEach
<1>1. ASSUME IInv, phase \in Over
      PROVE  /\ Len(results) = Len(Submitted) /\ Collected = Batch
             /\ \A t \in Batch : \E i \in DOMAIN results :
                   results[i] = [task |-> t, output |-> outcome[t]]
  <2>1. \A t \in Collected : t \in Tasks /\ worker[t] = "done"
    BY <1>1, ResultType DEF IInv, ResultInv, Collected
  <2>2. Collected = Batch
    BY <1>1, <2>1 DEF IInv, StartInv, JoinInv, Over
  <2> DEFINE f == [i \in 1..Len(results) |-> results[i].task]
             g == [i \in 1..Len(Submitted) |-> Submitted[i]]
  <2>3. /\ Len(results) \in Nat /\ DOMAIN results = 1..Len(results)
        /\ Len(Submitted) \in Nat /\ DOMAIN Submitted = 1..Len(Submitted)
    BY <1>1, SubmittedAssumption DEF IInv, TypeOK
  <2>4. Cardinality({f[i] : i \in 1..Len(results)}) = Len(results)
    <3>1. \A i, j \in 1..Len(results) : f[i] = f[j] => i = j
      BY <1>1, <2>3 DEF IInv, ResultInv
    <3>2. DOMAIN f = 1..Len(results) /\ f = [i \in 1..Len(results) |-> f[i]]
      OBVIOUS
    <3> HIDE DEF f
    <3> QED
      BY <2>3, <3>1, <3>2, CountInjective
  <2>5. Cardinality({g[i] : i \in 1..Len(Submitted)}) = Len(Submitted)
    BY <2>3, CountInjective, SubmittedAssumption
  <2>6. Collected = {f[i] : i \in 1..Len(results)}
    BY <2>3 DEF Collected
  <2>7. Batch = {g[i] : i \in 1..Len(Submitted)}
    BY <2>3 DEF Batch
  <2>8. ASSUME NEW t \in Batch
        PROVE  \E i \in DOMAIN results : results[i] = [task |-> t, output |-> outcome[t]]
    <3>1. PICK i \in DOMAIN results : results[i].task = t
      BY <2>2 DEF Collected
    <3>2. results[i].output = outcome[t]
      BY <1>1, <3>1 DEF IInv, ResultInv
    <3>3. results[i] = [task |-> results[i].task, output |-> results[i].output]
      BY <1>1, ResultType DEF IInv
    <3> QED
      BY <3>1, <3>2, <3>3
  <2> QED
    BY <2>2, <2>4, <2>5, <2>6, <2>7, <2>8
<1>2. IInv => OneResultEach
  BY <1>1 DEF OneResultEach, Over
<1> QED
  BY <1>2, Invariance, PTL

\* The reply has every agent's text and every failure, and the agent falls back
\* only when there is no text, for a batch of any size.
THEOREM NothingIsLost == Spec => []ReplyIsComplete
<1>1. ASSUME IInv, phase \in Over, NEW t \in Batch
      PROVE  /\ outcome[t] = "text" <=> t \in Sections
             /\ outcome[t] \in {"error", "late", "panic"} <=> t \in Failures
  <2>1. PICK k \in DOMAIN results : results[k].task = t
    BY <1>1 DEF IInv, JoinInv, Over, Collected
  <2>2. \A i \in DOMAIN results :
            results[i].output \in Outcomes /\ results[i].output = outcome[results[i].task]
    BY <1>1, ResultType DEF IInv, ResultInv
  <2> QED
    BY <2>1, <2>2 DEF Sections, Failures, Select, Outcomes
<1>2. IInv => ReplyIsComplete
  BY <1>1 DEF ReplyIsComplete, IInv, ReplyInv, Over
<1> QED
  BY <1>2, Invariance, PTL

-----------------------------------------------------------------------------
(* A batch always has somebody to wait for.                                *)

\* As long as the batch is awaited none of its workers is aborted.
AwaitedInv ==
    phase \in {"collecting", "returned"} =>
        \A t \in Batch : Live(t) \/ worker[t] = "done"

\* Only an abort takes a live worker away without an outcome.
LEMMA WorkerGoesOn ==
    ASSUME NEW t \in Tasks, WorkerTypeOK, Resume(t) \/ Continue(t)
    PROVE  worker'[t] \in {"turn", "model", "tools", "done"}
<1> worker \in [Tasks -> WorkerStates]
  BY DEF WorkerTypeOK
<1>1. CASE Resume(t)
  BY <1>1 DEF Resume, UnknownAgent, PrepareContext, ModelAnswers, ModelCallsTools,
              ToolsReturn, Panic, Finish
<1>2. CASE Continue(t)
  BY <1>2 DEF Continue, BeginTurn, ExhaustTurns, Finish
<1> QED
  BY <1>1, <1>2

LEMMA AwaitedStep == TypeOK /\ AwaitedInv /\ [Next]_vars => AwaitedInv'
<1> SUFFICES ASSUME TypeOK, AwaitedInv, [Next]_vars PROVE AwaitedInv'
  OBVIOUS
<1>0. Batch \subseteq Tasks /\ Batch' = Batch /\ WorkerTypeOK
  BY SubmittedAssumption DEF Batch, TypeOK
<1>1. CASE UNCHANGED <<worker, phase>>
  BY <1>0, <1>1 DEF AwaitedInv, Live
<1>2. CASE Delegate
  <2>1. worker' = [t \in Tasks |-> IF t \in Batch THEN "spawned" ELSE worker[t]]
    BY <1>2 DEF Delegate
  <2>2. \A t \in Batch : worker'[t] = "spawned"
    BY <1>0, <2>1
  <2> QED
    BY <1>0, <2>2 DEF AwaitedInv, Live
<1>3. CASE Return
  BY <1>0, <1>3 DEF Return, AwaitedInv, Live, workerVars
<1>4. CASE Answer \/ Drop
  BY <1>4 DEF Answer, Drop, AwaitedInv
<1>5. ASSUME NEW t \in Tasks, WorkerStep(t)
      PROVE  AwaitedInv'
  <2>1. phase' = phase
    BY <1>5 DEF WorkerStep
  <2>2. CASE phase \in {"collecting", "returned"}
    <3>1. Resume(t) \/ Continue(t)
      BY <1>5, <2>2 DEF WorkerStep
    <3>2. worker'[t] \in {"turn", "model", "tools", "done"}
      BY <1>0, <3>1, WorkerGoesOn
    <3>3. \A u \in Tasks \ {t} : worker'[u] = worker[u]
      BY <1>0, <3>1, WorkerFrame
    <3> QED
      BY <1>0, <2>2, <3>2, <3>3 DEF AwaitedInv, Live
  <2>3. CASE phase \notin {"collecting", "returned"}
    BY <2>1, <2>3 DEF AwaitedInv
  <2> QED
    BY <2>2, <2>3
<1>6. ASSUME NEW t \in Tasks, JoinNext(t)
      PROVE  AwaitedInv'
  BY <1>1, <1>6 DEF JoinNext, workerVars
<1> QED
  BY <1>1, <1>2, <1>3, <1>4, <1>5, <1>6 DEF Next, vars, workerVars

\* delegate never waits for nobody, whatever its workers did: the JoinSet is empty, or
\* it has a finished worker, or one that is still at it.
BatchIsNeverStuck ==
    phase = "collecting" =>
        \/ joining = {}
        \/ \E t \in joining : worker[t] = "done" \/ Live(t)

\* The safety half of BatchEnds, for a batch of any size.
THEOREM SomebodyIsWaitedFor == Spec => []BatchIsNeverStuck
<1>1. Init => AwaitedInv
  BY DEF Init, AwaitedInv
<1>2. IInv /\ AwaitedInv => BatchIsNeverStuck
  BY DEF AwaitedInv, BatchIsNeverStuck, IInv, JoinInv
<1>3. IInv => TypeOK
  BY DEF IInv
<1> QED
  BY <1>1, <1>2, <1>3, AwaitedStep, Invariance, PTL DEF Spec
=============================================================================

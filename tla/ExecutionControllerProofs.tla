---------------------- MODULE ExecutionControllerProofs ----------------------
(***************************************************************************)
(* What holds of the TofuExecution reconciler for any executions, Job      *)
(* names, backoff limit, lag and number of disturbances.                   *)
(*                                                                         *)
(* The inductive invariant says that every copy of a Job the controller    *)
(* works from (in its cache, in the watch stream, in the local variable    *)
(* job) is an earlier state of that Job, and that every copy of an         *)
(* execution carries a status that its Jobs back.                          *)
(***************************************************************************)
EXTENDS ExecutionController, SequenceTheorems, TLAPS

\* The key and the Job the worker holds.
WorkerInv ==
    /\ pc # "idle" => req \in Executions
    /\ pc \in {"prune", "update"} => job \in Jobs

TypeInv == TypeOK /\ WorkerInv

\* Job object old may have become new: the life of a Job only goes forward.
Precedes(old, new) ==
    /\ old.owner # NoExecution => new.owner = old.owner /\ new.created = old.created
    /\ old.state # "unborn" => new.state # "unborn"
    /\ old.state \in {"pruned", "lost"} => new.state = old.state
    /\ old.started => new.started
    /\ old.failed > 0 => new.failed > 0
    /\ old.succeeded > 0 => new.succeeded > 0 /\ new.failed = old.failed
    /\ old.completed => new.completed

JobInv ==
    \A j \in Jobs :
        /\ IF jobs[j].state = "unborn" THEN jobs[j] = UnbornJob ELSE jobs[j].owner \in Executions
        /\ jobs[j].created <= clock
        /\ jobs[j].succeeded > 0 => jobs[j].started

\* Each copy of a Job is that Job as it is or was.
JobCacheInv == \A j \in Jobs : Precedes(jobCache[j], jobs[j])

JobWatchInv ==
    \A i \in 1 .. Len(jobWatch) : Precedes(jobWatch[i].object, jobs[jobWatch[i].name])

JobSeenInv ==
    pc \in {"prune", "update"} => Precedes(jobSeen, jobs[job]) /\ jobSeen.owner = req

CopiesInv == JobCacheInv /\ JobWatchInv /\ JobSeenInv

\* Each copy of an execution has a status that its Jobs back.
ExecutionsBacked ==
    \A e \in Executions :
        Backed(jobs, e, executions[e].status) /\ Backed(jobs, e, executionCache[e].status)

EventsBacked ==
    \A i \in 1 .. Len(executionWatch) :
        Backed(jobs, executionWatch[i].name, executionWatch[i].object.status)

CopyBacked == pc # "idle" => Backed(jobs, req, execution.status)

StatusInv == ExecutionsBacked /\ EventsBacked /\ CopyBacked

Superseded(j) ==
    \E k \in Jobs : jobs[k].owner = jobs[j].owner /\ jobs[j].created < jobs[k].created

\* Jobs have different ages and, when creationTimestamp tells them apart, a
\* Job that the controller deletes, or is about to, has a younger sibling.
AgesDiffer ==
    \A j, k \in Jobs :
        jobs[j].owner # NoExecution /\ jobs[k].owner # NoExecution /\ j # k
            => jobs[j].created # jobs[k].created

StaleSuperseded == \A j \in stale : jobs[j].owner # NoExecution /\ Superseded(j)

PrunedSuperseded ==
    \A j \in Jobs : jobs[j].state = "pruned" => jobs[j].owner # NoExecution /\ Superseded(j)

AgeInv == AgesDiffer /\ StaleSuperseded /\ PrunedSuperseded

----------------------------------------------------------------------------
(* Types.                                                                  *)

LEMMA UnbornTypes == UnbornExecution \in Execution /\ UnbornJob \in Job /\ NoStatus \in Status
BY ConstantsAssumption
DEF UnbornExecution, UnbornJob, NoStatus, Execution, Job, Status, Phases

\* The status of an update is a status.
LEMMA StatusFromType ==
    ASSUME NEW status \in Status, NEW name \in Jobs, NEW j \in Job
    PROVE  StatusFrom(status, name, j) \in Status
<1>1. Phase(j) \in Phases
  BY ConstantsAssumption DEF Phase, Phases, Job
<1> QED
  BY <1>1 DEF StatusFrom, Status, Job

\* The cluster's own writes.
LEMMA ExecutionWrites ==
    /\ [UnbornExecution EXCEPT !.state = "live", !.version = 1] \in Execution
    /\ \A x \in Execution : /\ [x EXCEPT !.version = @ + 1] \in Execution
                             /\ [x EXCEPT !.state = "deleted"] \in Execution
<1>1. [UnbornExecution EXCEPT !.state = "live", !.version = 1] \in Execution
  BY DEF Execution, UnbornExecution, NoStatus, Status, Phases
<1>2. ASSUME NEW x \in Execution
      PROVE  /\ [x EXCEPT !.version = @ + 1] \in Execution
             /\ [x EXCEPT !.state = "deleted"] \in Execution
  BY DEF Execution
<1> QED
  BY <1>1, <1>2

LEMMA StatusWrite ==
    ASSUME NEW x \in Execution, NEW status \in Status
    PROVE  Updated(x, status) \in Execution
BY DEF Updated, Execution

LEMMA JobWrites ==
    ASSUME NEW x \in Job
    PROVE  /\ [x EXCEPT !.started = TRUE] \in Job
           /\ [x EXCEPT !.succeeded = 1] \in Job
           /\ [x EXCEPT !.completed = TRUE] \in Job
           /\ [x EXCEPT !.state = "lost"] \in Job
           /\ x.failed <= BackoffLimit => [x EXCEPT !.failed = @ + 1] \in Job
<1>1. x.failed <= BackoffLimit => [x EXCEPT !.failed = @ + 1] \in Job
  BY ConstantsAssumption DEF Job
<1>2. [x EXCEPT !.started = TRUE] \in Job
  BY DEF Job
<1>3. [x EXCEPT !.succeeded = 1] \in Job
  BY DEF Job
<1>4. [x EXCEPT !.completed = TRUE] \in Job
  BY DEF Job
<1>5. [x EXCEPT !.state = "lost"] \in Job
  BY DEF Job
<1> QED
  BY <1>1, <1>2, <1>3, <1>4, <1>5

LEMMA TypeInit == Init => TypeInv
<1> SUFFICES ASSUME Init PROVE TypeInv
  OBVIOUS
<1>1. <<>> \in EventsOf(Executions, Execution) /\ <<>> \in EventsOf(Jobs, Job)
  BY DEF EventsOf
<1>2. WorkerInv
  BY DEF Init, WorkerInv
<1>3. /\ executions \in [Executions -> Execution] /\ executionCache \in [Executions -> Execution]
      /\ jobs \in [Jobs -> Job] /\ jobCache \in [Jobs -> Job]
  BY UnbornTypes DEF Init
<1> QED
  BY <1>1, <1>2, <1>3, UnbornTypes, ConstantsAssumption DEF Init, TypeInv, TypeOK

USE DEF TypeInv, TypeOK, WorkerInv

\* Writes to the cluster keep its type.
LEMMA SetExecutionType ==
    ASSUME TypeInv, NEW e \in Executions, NEW object \in Execution, SetExecution(e, object),
           left' \in [Disturbances -> Nat]
    PROVE  TypeInv'
<1>1. Event(e, object) \in [name: Executions, object: Execution]
  BY DEF Event
<1> QED
  BY <1>1 DEF SetExecution, Notify, EventsOf, worker

LEMMA SetJobType ==
    ASSUME TypeInv, NEW j \in Jobs, NEW object \in Job, SetJob(j, object),
           left' \in [Disturbances -> Nat]
    PROVE  TypeInv'
<1>1. Event(j, object) \in [name: Jobs, object: Job]
  BY DEF Event
<1> QED
  BY <1>1 DEF SetJob, Notify, EventsOf, worker

LEMMA SpendType ==
    ASSUME TypeInv, NEW d \in Disturbances, Spend(d)
    PROVE  left' \in [Disturbances -> Nat]
BY DEF Spend

LEMMA ExecutionEventType ==
    ASSUME TypeInv, executionWatch # <<>>
    PROVE  /\ Head(executionWatch) \in [name: Executions, object: Execution]
           /\ Tail(executionWatch) \in EventsOf(Executions, Execution)
BY HeadTailProperties DEF EventsOf

LEMMA EventNames ==
    ASSUME TypeInv
    PROVE  /\ \A i \in 1 .. Len(jobWatch) : jobWatch[i].name \in Jobs
           /\ \A i \in 1 .. Len(executionWatch) : executionWatch[i].name \in Executions
<1>1. jobWatch \in Seq([name: Jobs, object: Job])
      /\ executionWatch \in Seq([name: Executions, object: Execution])
  BY DEF EventsOf
<1>2. /\ jobWatch \in [1 .. Len(jobWatch) -> [name: Jobs, object: Job]]
      /\ executionWatch \in [1 .. Len(executionWatch) -> [name: Executions, object: Execution]]
  BY <1>1, LenProperties
<1> HIDE DEF TypeInv
<1> QED
  BY <1>2

LEMMA JobEventType ==
    ASSUME TypeInv, jobWatch # <<>>
    PROVE  /\ Head(jobWatch) \in [name: Jobs, object: Job]
           /\ Tail(jobWatch) \in EventsOf(Jobs, Job)
BY HeadTailProperties DEF EventsOf

LEMMA ReturnType ==
    ASSUME TypeInv, NEW again \in BOOLEAN, Return(again), req \in Executions
    PROVE  /\ timers' \subseteq Executions
           /\ pc' = "idle" /\ req' = NoExecution /\ execution' \in Execution
           /\ job' = NoJob /\ jobSeen' \in Job /\ stale' = {}
BY UnbornTypes DEF Return, WorkerIdle

\* The worker's steps keep the types ...
LEMMA WorkerType ==
    ASSUME TypeInv, Reconcile \/ \E e \in Executions : StartReconcile(e)
    PROVE  TypeInv'
<1>1. ASSUME NEW e \in Executions, StartReconcile(e) PROVE TypeInv'
  BY <1>1 DEF StartReconcile, cluster, informers
<1>2. CASE ListJobs
  <2>1. CASE OwnedJobs(req) = {}
    BY <1>2, <2>1 DEF ListJobs, Newest, cluster, informers
  <2>2. ASSUME NEW latest \in Newest(OwnedJobs(req)),
               job' = latest, jobSeen' = jobCache[latest], stale' = OwnedJobs(req) \ {latest},
               pc' = IF stale' = {} THEN "update" ELSE "prune"
        PROVE  TypeInv'
    BY <1>2, <2>2 DEF ListJobs, OwnedJobs, Newest, cluster, informers
  <2> QED
    BY <1>2, <2>1, <2>2 DEF ListJobs
<1>3. CASE PruneStale
  <2>1. PICK j \in Jobs :
          /\ stale' = stale \ {j}
          /\ pc' = IF stale' = {} THEN "update" ELSE "prune"
          /\ \/ /\ jobs[j].state = "live"
                /\ jobs' = [jobs EXCEPT ![j].state = "pruned"]
                /\ jobWatch' = Notify(jobWatch, j, jobs'[j])
                /\ UNCHANGED left
             \/ UNCHANGED <<jobs, jobWatch>> /\ (UNCHANGED left \/ Spend("deleteError"))
    BY <1>3 DEF PruneStale, Newest
  <2>2. left' \in [Disturbances -> Nat]
    BY <2>1, SpendType DEF Disturbances
  <2>3. jobs' \in [Jobs -> Job] /\ jobWatch' \in EventsOf(Jobs, Job)
    <3>1. CASE UNCHANGED <<jobs, jobWatch>>
      BY <3>1
    <3>2. CASE /\ jobs' = [jobs EXCEPT ![j].state = "pruned"]
               /\ jobWatch' = Notify(jobWatch, j, jobs'[j])
      <4>1. jobs' \in [Jobs -> Job]
        BY <3>2 DEF Job
      <4>2. Event(j, jobs'[j]) \in [name: Jobs, object: Job]
        BY <4>1 DEF Event
      <4> QED
        BY <3>2, <4>1, <4>2 DEF Notify, EventsOf
    <3> QED
      BY <2>1, <3>1, <3>2
  <2> QED
    BY <1>3, <2>1, <2>2, <2>3 DEF PruneStale
<1>4. CASE CreateJob
  <2>1. req \in Executions /\ Return(TRUE)
    BY <1>4 DEF CreateJob
  <2>2. left' \in [Disturbances -> Nat]
    BY <1>4, SpendType DEF CreateJob, Disturbances
  <2>3. jobs' \in [Jobs -> Job] /\ jobWatch' \in EventsOf(Jobs, Job) /\ clock' \in Nat
    <3>1. CASE UNCHANGED <<jobs, clock, jobWatch>>
      BY <3>1
    <3>2. ASSUME NEW j \in Jobs,
                 clock' = clock + 1, jobs' = [jobs EXCEPT ![j] = NewJob(req, clock')],
                 jobWatch' = Notify(jobWatch, j, jobs'[j])
          PROVE  jobs' \in [Jobs -> Job] /\ jobWatch' \in EventsOf(Jobs, Job) /\ clock' \in Nat
      <4>1. clock' \in Nat /\ NewJob(req, clock') \in Job
        BY <2>1, <3>2, ConstantsAssumption DEF NewJob, Job
      <4>2. Event(j, jobs'[j]) \in [name: Jobs, object: Job]
        BY <3>2, <4>1 DEF Event
      <4> QED
        BY <3>2, <4>1, <4>2 DEF Notify, EventsOf
    <3> QED
      BY <1>4, <3>1, <3>2 DEF CreateJob, UnbornJobs
  <2> QED
    BY <1>4, <2>1, <2>2, <2>3, ReturnType DEF CreateJob
<1>5. CASE UpdateStatus
  <2> DEFINE status == StatusFrom(execution.status, job, jobSeen)
  <2>1. req \in Executions /\ \E again \in BOOLEAN : Return(again)
    BY <1>5 DEF UpdateStatus, IsExecutionTerminal
  <2>2. left' \in [Disturbances -> Nat]
    BY <1>5, SpendType DEF UpdateStatus, Disturbances
  <2>3. executions' \in [Executions -> Execution]
        /\ executionWatch' \in EventsOf(Executions, Execution)
    <3>1. CASE UNCHANGED <<executions, executionWatch>>
      BY <3>1
    <3>2. CASE WriteStatus(status)
      <4>1. status \in Status
        BY <1>5, StatusFromType DEF UpdateStatus, Execution
      <4>2. executions' \in [Executions -> Execution]
        BY <3>2, <4>1, <2>1, StatusWrite DEF WriteStatus
      <4>3. Event(req, executions'[req]) \in [name: Executions, object: Execution]
        BY <2>1, <4>2 DEF Event
      <4> QED
        BY <3>2, <4>2, <4>3 DEF WriteStatus, Notify, EventsOf
    <3> QED
      BY <1>5, <3>1, <3>2 DEF UpdateStatus
  <2> QED
    BY <1>5, <2>1, <2>2, <2>3, ReturnType DEF UpdateStatus
<1> QED
  BY <1>1, <1>2, <1>3, <1>4, <1>5 DEF Reconcile

\* ... and so do those of the informers, the queue and the manager ...
LEMMA ManagerType ==
    ASSUME TypeInv,
           DeliverExecution \/ DeliverJob \/ Restart \/ ModuleChanges
             \/ \E e \in Executions : TimerFires(e) \/ Resync(e)
    PROVE  TypeInv'
<1>1. CASE DeliverExecution
  <2>1. Head(executionWatch) \in [name: Executions, object: Execution]
        /\ executionWatch' \in EventsOf(Executions, Execution)
    BY <1>1, ExecutionEventType DEF DeliverExecution
  <2> QED
    BY <1>1, <2>1 DEF DeliverExecution, cluster, worker
<1>2. CASE DeliverJob
  <2>1. Head(jobWatch) \in [name: Jobs, object: Job] /\ jobWatch' \in EventsOf(Jobs, Job)
    BY <1>2, JobEventType DEF DeliverJob
  <2> QED
    BY <1>2, <2>1 DEF DeliverJob, cluster, worker
<1>3. CASE Restart
  <2>1. <<>> \in EventsOf(Executions, Execution) /\ <<>> \in EventsOf(Jobs, Job)
    BY DEF EventsOf
  <2>2. left' \in [Disturbances -> Nat]
    BY <1>3, SpendType DEF Restart, Disturbances
  <2> QED
    BY <1>3, <2>1, <2>2, UnbornTypes DEF Restart, WorkerIdle, cluster
<1>4. CASE ModuleChanges
  <2>1. left' \in [Disturbances -> Nat]
    BY <1>4, SpendType DEF ModuleChanges, Disturbances
  <2> QED
    BY <1>4, <2>1 DEF ModuleChanges, cluster, worker
<1>5. ASSUME NEW e \in Executions, TimerFires(e) \/ Resync(e) PROVE TypeInv'
  BY <1>5 DEF TimerFires, Resync, cluster, informers, worker
<1> QED
  BY <1>1, <1>2, <1>3, <1>4, <1>5

\* ... and those of the rest of the cluster.
LEMMA ClusterType ==
    ASSUME TypeInv,
           \/ \E e \in Executions : CreateExecution(e) \/ EditExecution(e) \/ DeleteExecution(e)
           \/ \E j \in Jobs : RunJob(j) \/ LoseJob(j) \/ CollectJob(j)
    PROVE  TypeInv'
<1>1. left' \in [Disturbances -> Nat]
  BY SpendType
  DEF CreateExecution, EditExecution, DeleteExecution, RunJob, LoseJob, CollectJob, Disturbances
<1>2. ASSUME NEW e \in Executions, CreateExecution(e) \/ EditExecution(e) \/ DeleteExecution(e)
      PROVE  TypeInv'
  <2>1. executions[e] \in Execution
    OBVIOUS
  <2> QED
    BY <1>1, <1>2, <2>1, ExecutionWrites, SetExecutionType
    DEF CreateExecution, EditExecution, DeleteExecution
<1>3. ASSUME NEW j \in Jobs, RunJob(j) PROVE TypeInv'
  BY <1>1, <1>3, JobWrites, SetJobType DEF RunJob
<1>4. ASSUME NEW j \in Jobs, LoseJob(j) \/ CollectJob(j) PROVE TypeInv'
  BY <1>1, <1>4, JobWrites, SetJobType DEF LoseJob, CollectJob
<1> QED
  BY <1>2, <1>3, <1>4

LEMMA TypeStep == TypeInv /\ [Next]_vars => TypeInv'
<1> SUFFICES ASSUME TypeInv, [Next]_vars PROVE TypeInv'
  OBVIOUS
<1>1. CASE UNCHANGED vars
  BY <1>1 DEF vars, cluster, informers, worker
<1>2. CASE Next
  BY <1>2, WorkerType, ManagerType, ClusterType DEF Next, Reconcile
<1> QED
  BY <1>1, <1>2

\* In every execution of the system every variable keeps the type that
\* TypeOK gives it.
THEOREM TypeCorrect == Spec => []TypeOK
<1>1. TypeInv => TypeOK
  OBVIOUS
<1> QED
  BY <1>1, TypeInit, TypeStep, PTL DEF Spec

----------------------------------------------------------------------------
(* Jobs and the copies of them.                                            *)

LEMMA PrecedesReflexive == \A x : Precedes(x, x)
BY DEF Precedes

LEMMA PrecedesTransitive ==
    \A x, y, z : Precedes(x, y) /\ Precedes(y, z) => Precedes(x, z)
BY DEF Precedes

Progress == \A j \in Jobs : Precedes(jobs[j], jobs'[j])

\* The steps that write a Job.
LEMMA JobWriters ==
    ASSUME [Next]_vars
    PROVE  \/ UNCHANGED <<jobs, clock>>
           \/ PruneStale \/ CreateJob
           \/ \E j \in Jobs : RunJob(j) \/ LoseJob(j) \/ CollectJob(j)
BY DEF Next, vars, cluster, StartReconcile, TimerFires, Resync, CreateExecution, EditExecution,
       DeleteExecution, SetExecution, ListJobs, UpdateStatus, DeliverExecution, DeliverJob,
       Restart, ModuleChanges

\* What a write to a Job may change.
Write(x, y) ==
    /\ Precedes(x, y)
    /\ y.owner = x.owner /\ y.created = x.created /\ y.state # "unborn"
    /\ y.succeeded > 0 => x.succeeded > 0 \/ x.started

LEMMA JobWrite ==
    ASSUME NEW x \in Job, x.state = "live"
    PROVE  /\ Write(x, [x EXCEPT !.started = TRUE])
           /\ Write(x, [x EXCEPT !.succeeded = 1]) \/ x.succeeded # 0 \/ ~x.started
           /\ Write(x, [x EXCEPT !.completed = TRUE])
           /\ Write(x, [x EXCEPT !.failed = @ + 1]) \/ x.succeeded # 0
           /\ \A state \in {"lost", "pruned"} : Write(x, [x EXCEPT !.state = state])
<1> USE DEF Write, Precedes, Job
<1>1. Write(x, [x EXCEPT !.started = TRUE])
  OBVIOUS
<1>2. Write(x, [x EXCEPT !.succeeded = 1]) \/ x.succeeded # 0 \/ ~x.started
  OBVIOUS
<1>3. Write(x, [x EXCEPT !.completed = TRUE])
  OBVIOUS
<1>4. Write(x, [x EXCEPT !.failed = @ + 1]) \/ x.succeeded # 0
  BY ConstantsAssumption
<1>5. \A state \in {"lost", "pruned"} : Write(x, [x EXCEPT !.state = state])
  OBVIOUS
<1> QED
  BY <1>1, <1>2, <1>3, <1>4, <1>5

LEMMA JobWritten ==
    ASSUME TypeInv, JobInv, NEW j \in Jobs, NEW object, Write(jobs[j], object),
           jobs[j].state # "unborn", jobs' = [jobs EXCEPT ![j] = object], clock' = clock
    PROVE  Progress /\ JobInv'
<1>1. Progress
  BY PrecedesReflexive DEF Progress, Write
<1>2. jobs[j].owner \in Executions /\ jobs'[j] = object /\ jobs[j].created <= clock
  BY DEF JobInv
<1>3. /\ object.state # "unborn" /\ object.owner \in Executions /\ object.created <= clock
      /\ object.succeeded > 0 => object.started
  BY <1>2 DEF JobInv, Write, Precedes
<1>4. JobInv'
  <2>1. \A k \in Jobs \ {j} : jobs'[k] = jobs[k]
    OBVIOUS
  <2> QED
    BY <1>2, <1>3, <2>1 DEF JobInv
<1> QED
  BY <1>1, <1>4

LEMMA JobStep ==
    ASSUME TypeInv, JobInv, [Next]_vars
    PROVE  Progress /\ JobInv'
<1>1. CASE UNCHANGED <<jobs, clock>>
  BY <1>1, PrecedesReflexive DEF Progress, JobInv
<1>2. CASE PruneStale
  <2>1. clock' = clock
    BY <1>2 DEF PruneStale
  <2>2. PICK j \in Jobs :
          \/ jobs[j].state = "live" /\ jobs' = [jobs EXCEPT ![j].state = "pruned"]
          \/ jobs' = jobs
    BY <1>2 DEF PruneStale, Newest
  <2>3. CASE jobs' = jobs
    BY <2>1, <2>3, PrecedesReflexive DEF Progress, JobInv
  <2>4. CASE jobs[j].state = "live" /\ jobs' = [jobs EXCEPT ![j].state = "pruned"]
    <3>1. jobs[j] \in Job /\ jobs' = [jobs EXCEPT ![j] = [jobs[j] EXCEPT !.state = "pruned"]]
      BY <2>4
    <3> QED
      BY <2>1, <2>4, <3>1, JobWrite, JobWritten
  <2> QED
    BY <2>2, <2>3, <2>4
<1>3. CASE CreateJob
  <2>1. CASE UNCHANGED <<jobs, clock>>
    BY <2>1, PrecedesReflexive DEF Progress, JobInv
  <2>2. ASSUME NEW j \in UnbornJobs,
               clock' = clock + 1, jobs' = [jobs EXCEPT ![j] = NewJob(req, clock')]
        PROVE  Progress /\ JobInv'
    <3>1. clock' \in Nat /\ clock <= clock'
      BY <2>2
    <3>2. j \in Jobs /\ jobs[j] = UnbornJob
      BY DEF UnbornJobs, JobInv
    <3>3. Precedes(UnbornJob, NewJob(req, clock'))
      BY DEF Precedes, UnbornJob, NewJob
    <3>4. Progress
      BY <2>2, <3>2, <3>3, PrecedesReflexive DEF Progress
    <3>5. ASSUME NEW k \in Jobs
          PROVE  /\ IF jobs'[k].state = "unborn" THEN jobs'[k] = UnbornJob
                    ELSE jobs'[k].owner \in Executions
                 /\ jobs'[k].created <= clock'
                 /\ jobs'[k].succeeded > 0 => jobs'[k].started
      <4>1. CASE k = j
        BY <1>3, <2>2, <3>1, <3>2, <4>1 DEF CreateJob, NewJob
      <4>2. CASE k # j
        BY <2>2, <3>1, <4>2 DEF JobInv, Job
      <4> QED
        BY <4>1, <4>2
    <3> QED
      BY <3>4, <3>5 DEF JobInv
  <2> QED
    BY <1>3, <2>1, <2>2 DEF CreateJob
<1>4. ASSUME NEW j \in Jobs, RunJob(j) \/ LoseJob(j) \/ CollectJob(j)
      PROVE  Progress /\ JobInv'
  <2>1. jobs[j] \in Job /\ jobs[j].state = "live"
    BY <1>4 DEF RunJob, LoseJob, CollectJob
  <2>2. CASE RunJob(j)
    BY <2>1, <2>2, JobWrite, JobWritten DEF RunJob, SetJob
  <2>3. CASE LoseJob(j) \/ CollectJob(j)
    BY <2>1, <2>3, JobWrite, JobWritten DEF LoseJob, CollectJob, SetJob
  <2> QED
    BY <1>4, <2>2, <2>3
<1> QED
  BY <1>1, <1>2, <1>3, <1>4, JobWriters

\* Copies stay good while Jobs progress.
LEMMA CopyKept ==
    ASSUME Progress, NEW x, NEW j \in Jobs, Precedes(x, jobs[j])
    PROVE  Precedes(x, jobs'[j])
BY PrecedesTransitive DEF Progress

LEMMA JobCacheStep ==
    ASSUME TypeInv, CopiesInv, Progress, [Next]_vars
    PROVE  JobCacheInv'
<1> USE DEF CopiesInv
<1>1. CASE UNCHANGED jobCache
  BY <1>1, CopyKept DEF JobCacheInv
<1>2. CASE DeliverJob
  <2>1. /\ jobWatch # <<>> /\ jobs' = jobs
        /\ jobCache' = [jobCache EXCEPT ![Head(jobWatch).name] = Head(jobWatch).object]
    BY <1>2 DEF DeliverJob, cluster
  <2>2. 1 \in 1 .. Len(jobWatch) /\ Head(jobWatch) = jobWatch[1]
    BY <2>1 DEF EventsOf
  <2> QED
    BY <2>1, <2>2 DEF JobCacheInv, JobWatchInv
<1>3. CASE Restart
  BY <1>3, PrecedesReflexive DEF Restart, cluster, JobCacheInv
<1> QED
  BY <1>1, <1>2, <1>3
  DEF Next, vars, informers, StartReconcile, TimerFires, Resync, CreateExecution, EditExecution,
      DeleteExecution, SetExecution, ListJobs, PruneStale, CreateJob, UpdateStatus,
      DeliverExecution, RunJob, LoseJob, CollectJob, SetJob, ModuleChanges

LEMMA JobNotified ==
    ASSUME TypeInv, TypeInv', CopiesInv, Progress,
           NEW j \in Jobs, jobWatch' = Notify(jobWatch, j, jobs'[j])
    PROVE  JobWatchInv'
<1>1. /\ Event(j, jobs'[j]) \in [name: Jobs, object: Job]
      /\ jobWatch \in Seq([name: Jobs, object: Job])
  BY DEF Event, EventsOf
<1>2. /\ Len(jobWatch') = Len(jobWatch) + 1
      /\ \A i \in 1 .. Len(jobWatch) : jobWatch'[i] = jobWatch[i]
      /\ jobWatch'[Len(jobWatch) + 1] = Event(j, jobs'[j])
  BY <1>1, AppendProperties DEF Notify
<1>3. ASSUME NEW i \in 1 .. Len(jobWatch')
      PROVE  Precedes(jobWatch'[i].object, jobs'[jobWatch'[i].name])
  <2>1. CASE i \in 1 .. Len(jobWatch)
    <3>1. jobWatch[i].name \in Jobs
      BY <2>1, EventNames
    <3>2. Precedes(jobWatch[i].object, jobs[jobWatch[i].name])
      BY <2>1 DEF CopiesInv, JobWatchInv
    <3> QED
      BY <1>2, <2>1, <3>1, <3>2, CopyKept
  <2>2. CASE i = Len(jobWatch) + 1
    BY <1>2, <2>2, PrecedesReflexive DEF Event
  <2>3. Len(jobWatch) \in Nat
    BY <1>1, LenProperties
  <2> QED
    BY <1>2, <2>1, <2>2, <2>3
<1> QED
  BY <1>3 DEF JobWatchInv

LEMMA JobWatchStep ==
    ASSUME TypeInv, TypeInv', CopiesInv, Progress, [Next]_vars
    PROVE  JobWatchInv'
<1> USE DEF CopiesInv
<1>1. CASE UNCHANGED jobWatch
  BY <1>1, EventNames, CopyKept DEF JobWatchInv
<1>2. CASE DeliverJob
  <2>1. jobWatch # <<>> /\ jobs' = jobs /\ jobWatch' = Tail(jobWatch)
    BY <1>2 DEF DeliverJob, cluster
  <2>2. /\ Len(jobWatch') = Len(jobWatch) - 1
        /\ \A i \in 1 .. Len(jobWatch') : jobWatch'[i] = jobWatch[i + 1]
    BY <2>1, HeadTailProperties DEF EventsOf
  <2>3. Len(jobWatch) \in Nat
    BY LenProperties DEF EventsOf
  <2> QED
    BY <2>1, <2>2, <2>3 DEF JobWatchInv
<1>3. CASE Restart
  BY <1>3 DEF Restart, JobWatchInv
<1>4. ASSUME NEW j \in Jobs, jobWatch' = Notify(jobWatch, j, jobs'[j])
      PROVE  JobWatchInv'
  BY <1>4, JobNotified
<1>5. CASE PruneStale
  BY <1>1, <1>4, <1>5 DEF PruneStale, Newest
<1>6. CASE CreateJob
  BY <1>1, <1>4, <1>6 DEF CreateJob, UnbornJobs
<1>7. ASSUME NEW j \in Jobs, RunJob(j) \/ LoseJob(j) \/ CollectJob(j)
      PROVE  JobWatchInv'
  <2>1. ASSUME NEW object, SetJob(j, object) PROVE JobWatchInv'
    BY <2>1, <1>4 DEF SetJob
  <2> QED
    BY <1>7, <2>1 DEF RunJob, LoseJob, CollectJob
<1> QED
  BY <1>1, <1>2, <1>3, <1>5, <1>6, <1>7
  DEF Next, vars, informers, StartReconcile, TimerFires, Resync, CreateExecution, EditExecution,
      DeleteExecution, SetExecution, ListJobs, UpdateStatus, DeliverExecution, ModuleChanges

LEMMA JobSeenStep ==
    ASSUME TypeInv, CopiesInv, Progress, [Next]_vars
    PROVE  JobSeenInv'
<1> USE DEF CopiesInv
<1>1. CASE UNCHANGED <<pc, req, job, jobSeen>>
  BY <1>1, CopyKept DEF JobSeenInv
<1>2. CASE pc' = "idle"
  BY <1>2 DEF JobSeenInv
<1>3. ASSUME NEW e \in Executions, StartReconcile(e) PROVE JobSeenInv'
  BY <1>1, <1>3 DEF StartReconcile, JobSeenInv
<1>4. CASE ListJobs
  <2>1. CASE pc' = "create"
    BY <2>1 DEF JobSeenInv
  <2>2. ASSUME NEW latest \in Newest(OwnedJobs(req)), job' = latest, jobSeen' = jobCache[latest]
        PROVE  JobSeenInv'
    <3>1. latest \in Jobs /\ jobCache[latest].owner = req /\ req' = req /\ jobs' = jobs
      BY <1>4 DEF Newest, OwnedJobs, ListJobs, cluster
    <3> QED
      BY <2>2, <3>1 DEF JobSeenInv, JobCacheInv
  <2> QED
    BY <1>4, <2>1, <2>2 DEF ListJobs
<1>5. CASE PruneStale
  <2>1. pc = "prune" /\ UNCHANGED <<req, job, jobSeen>>
    BY <1>5 DEF PruneStale
  <2> QED
    BY <2>1, CopyKept DEF JobSeenInv
<1>6. CASE CreateJob \/ UpdateStatus \/ Restart
  BY <1>2, <1>6 DEF CreateJob, UpdateStatus, Restart, Return, WorkerIdle
<1> QED
  BY <1>1, <1>3, <1>4, <1>5, <1>6
  DEF Next, vars, worker, TimerFires, Resync, CreateExecution, EditExecution, DeleteExecution,
      SetExecution, DeliverExecution, DeliverJob, RunJob, LoseJob, CollectJob, SetJob, ModuleChanges

----------------------------------------------------------------------------
(* What executions report.                                                 *)

LEMMA BackedKept ==
    ASSUME TypeInv, Progress, NEW e \in Executions, NEW status, Backed(jobs, e, status)
    PROVE  Backed(jobs', e, status)
<1>1. e # NoExecution
  BY ConstantsAssumption
<1> QED
  BY <1>1 DEF Backed, Progress, Precedes, Job

LEMMA UnbornBacked == \A js, e : Backed(js, e, NoStatus)
BY ConstantsAssumption DEF Backed, NoStatus

\* The status that a reconcile computes is backed, as its sources are.
LEMMA ComputedBacked ==
    ASSUME TypeInv, CopiesInv, StatusInv, pc = "update"
    PROVE  Backed(jobs, req, StatusFrom(execution.status, job, jobSeen))
<1> DEFINE status == StatusFrom(execution.status, job, jobSeen)
<1>1. /\ req \in Executions /\ req # NoExecution /\ job \in Jobs
      /\ Precedes(jobSeen, jobs[job]) /\ jobSeen.owner = req
  BY ConstantsAssumption DEF CopiesInv, JobSeenInv
<1>2. jobs[job].owner = req
  BY <1>1 DEF Precedes
<1>3. /\ Phase(jobSeen) = "Running" => jobs[job].started
      /\ Phase(jobSeen) = "Failed" => jobs[job].failed > 0
      /\ Phase(jobSeen) = "Succeeded" => jobs[job].succeeded > 0 /\ jobs[job].failed = 0
  BY <1>1 DEF Phase, Precedes, Job
<1>4. /\ status.startedAt \in Jobs => jobs[status.startedAt].started
      /\ status.finishedAt \in Jobs => jobs[status.finishedAt].completed
  BY <1>1 DEF StatusFrom, Precedes, StatusInv, CopyBacked, Backed
<1>5. status.phase = Phase(jobSeen) /\ status.jobName = job
  BY DEF StatusFrom
<1> HIDE DEF status
<1> QED
  BY <1>2, <1>3, <1>4, <1>5 DEF Backed, status

\* The writes to executions: each leaves a backed status behind.
LEMMA ExecutionWrite ==
    ASSUME TypeInv, CopiesInv, StatusInv, [Next]_vars
    PROVE  \/ UNCHANGED <<executions, executionWatch>>
           \/ UNCHANGED executions /\ (DeliverExecution \/ Restart)
           \/ \E e \in Executions, object \in Execution :
                /\ executions' = [executions EXCEPT ![e] = object]
                /\ executionWatch' = Append(executionWatch, Event(e, object))
                /\ Backed(jobs, e, object.status)
<1> DEFINE Written(e, object) ==
             /\ executions' = [executions EXCEPT ![e] = object]
             /\ executionWatch' = Append(executionWatch, Event(e, object))
             /\ Backed(jobs, e, object.status)
<1>1. ASSUME NEW e \in Executions, CreateExecution(e)
      PROVE  \E object \in Execution : Written(e, object)
  <2> DEFINE object == [UnbornExecution EXCEPT !.state = "live", !.version = 1]
  <2>1. object \in Execution /\ object.status = NoStatus
    BY ExecutionWrites DEF UnbornExecution
  <2>2. Written(e, object)
    BY <1>1, <2>1, UnbornBacked DEF CreateExecution, SetExecution, Notify
  <2> QED
    BY <2>1, <2>2
<1>2. ASSUME NEW e \in Executions, EditExecution(e)
      PROVE  \E object \in Execution : Written(e, object)
  <2> DEFINE object == [executions[e] EXCEPT !.version = @ + 1]
  <2>1. executions[e] \in Execution
    OBVIOUS
  <2>2. object \in Execution /\ object.status = executions[e].status
    BY <2>1, ExecutionWrites DEF Execution
  <2>3. Written(e, object)
    BY <1>2, <2>2 DEF EditExecution, SetExecution, Notify, StatusInv, ExecutionsBacked
  <2> QED
    BY <2>2, <2>3
<1>3. ASSUME NEW e \in Executions, DeleteExecution(e)
      PROVE  \E object \in Execution : Written(e, object)
  <2> DEFINE object == [executions[e] EXCEPT !.state = "deleted"]
  <2>1. executions[e] \in Execution
    OBVIOUS
  <2>2. object \in Execution /\ object.status = executions[e].status
    BY <2>1, ExecutionWrites DEF Execution
  <2>3. Written(e, object)
    BY <1>3, <2>2 DEF DeleteExecution, SetExecution, Notify, StatusInv, ExecutionsBacked
  <2> QED
    BY <2>2, <2>3
<1>4. ASSUME UpdateStatus, executions' # executions \/ executionWatch' # executionWatch
      PROVE  \E object \in Execution : req \in Executions /\ Written(req, object)
  <2> DEFINE status == StatusFrom(execution.status, job, jobSeen)
             object == Updated(execution, status)
  <2>1. /\ pc = "update" /\ req \in Executions /\ job \in Jobs
        /\ executions' = [executions EXCEPT ![req] = object]
        /\ executionWatch' = Append(executionWatch, Event(req, executions'[req]))
    BY <1>4 DEF UpdateStatus, WriteStatus, Notify
  <2>2. status \in Status
    BY <2>1, StatusFromType DEF Execution
  <2>3. object \in Execution /\ object.status = status
    BY <2>2, StatusWrite DEF Updated
  <2>5. Backed(jobs, req, status)
    BY <2>1, ComputedBacked
  <2> QED
    BY <2>1, <2>3, <2>5
<1> QED
  BY <1>1, <1>2, <1>3, <1>4
  DEF Next, vars, cluster, informers, StartReconcile, TimerFires, Resync, ListJobs, PruneStale,
      CreateJob, DeliverExecution, DeliverJob, RunJob, LoseJob, CollectJob, SetJob, Restart,
      ModuleChanges

LEMMA ExecutionsStep ==
    ASSUME TypeInv, CopiesInv, StatusInv, Progress, [Next]_vars
    PROVE  ExecutionsBacked'
<1> USE DEF StatusInv, ExecutionsBacked
<1>1. \A e \in Executions : Backed(jobs', e, executions'[e].status)
  <2>1. CASE UNCHANGED executions
    BY <2>1, BackedKept
  <2>2. ASSUME NEW e \in Executions, NEW object \in Execution,
               executions' = [executions EXCEPT ![e] = object], Backed(jobs, e, object.status)
        PROVE  \A f \in Executions : Backed(jobs', f, executions'[f].status)
    BY <2>2, BackedKept
  <2> QED
    BY <2>1, <2>2, ExecutionWrite
<1>2. \A e \in Executions : Backed(jobs', e, executionCache'[e].status)
  <2>1. CASE UNCHANGED executionCache
    BY <2>1, BackedKept
  <2>2. CASE DeliverExecution
    <3>1. /\ executionWatch # <<>>
          /\ executionCache' =
                [executionCache EXCEPT ![Head(executionWatch).name] = Head(executionWatch).object]
      BY <2>2 DEF DeliverExecution
    <3>2. 1 \in 1 .. Len(executionWatch) /\ Head(executionWatch) = executionWatch[1]
      BY <3>1 DEF EventsOf
    <3> QED
      BY <3>1, <3>2, BackedKept DEF EventsBacked
  <2>3. CASE Restart
    BY <2>3, BackedKept DEF Restart
  <2> QED
    BY <2>1, <2>2, <2>3
    DEF Next, vars, informers, StartReconcile, TimerFires, Resync, CreateExecution, EditExecution,
        DeleteExecution, SetExecution, ListJobs, PruneStale, CreateJob, UpdateStatus, DeliverJob,
        RunJob, LoseJob, CollectJob, SetJob, ModuleChanges
<1> QED
  BY <1>1, <1>2

LEMMA EventsStep ==
    ASSUME TypeInv, CopiesInv, StatusInv, Progress, [Next]_vars
    PROVE  EventsBacked'
<1> USE DEF StatusInv
<1>1. CASE UNCHANGED executionWatch
  BY <1>1, EventNames, BackedKept DEF EventsBacked
<1>2. CASE DeliverExecution
  <2>1. executionWatch # <<>> /\ executionWatch' = Tail(executionWatch)
    BY <1>2 DEF DeliverExecution
  <2>2. /\ Len(executionWatch') = Len(executionWatch) - 1
        /\ \A i \in 1 .. Len(executionWatch') : executionWatch'[i] = executionWatch[i + 1]
    BY <2>1, HeadTailProperties DEF EventsOf
  <2>3. Len(executionWatch) \in Nat
    BY LenProperties DEF EventsOf
  <2> QED
    BY <2>1, <2>2, <2>3, EventNames, BackedKept DEF EventsBacked
<1>3. CASE Restart
  BY <1>3 DEF Restart, EventsBacked
<1>4. ASSUME NEW e \in Executions, NEW object \in Execution,
             executionWatch' = Append(executionWatch, Event(e, object)),
             Backed(jobs, e, object.status)
      PROVE  EventsBacked'
  <2>1. /\ Event(e, object) \in [name: Executions, object: Execution]
        /\ executionWatch \in Seq([name: Executions, object: Execution])
    BY DEF Event, EventsOf
  <2>2. /\ Len(executionWatch') = Len(executionWatch) + 1
        /\ \A i \in 1 .. Len(executionWatch) : executionWatch'[i] = executionWatch[i]
        /\ executionWatch'[Len(executionWatch) + 1] = Event(e, object)
        /\ Len(executionWatch) \in Nat
    BY <1>4, <2>1, AppendProperties, LenProperties
  <2>3. ASSUME NEW i \in 1 .. Len(executionWatch')
        PROVE  Backed(jobs', executionWatch'[i].name, executionWatch'[i].object.status)
    <3>1. CASE i \in 1 .. Len(executionWatch)
      BY <2>2, <3>1, EventNames, BackedKept DEF EventsBacked
    <3>2. CASE i = Len(executionWatch) + 1
      BY <1>4, <2>2, <3>2, BackedKept DEF Event
    <3> QED
      BY <2>2, <3>1, <3>2
  <2> QED
    BY <2>3 DEF EventsBacked
<1> QED
  BY <1>1, <1>2, <1>3, <1>4, ExecutionWrite

LEMMA CopyStep ==
    ASSUME TypeInv, StatusInv, Progress, [Next]_vars
    PROVE  CopyBacked'
<1> USE DEF StatusInv
<1>1. CASE pc' = "idle"
  BY <1>1 DEF CopyBacked
<1>2. CASE pc # "idle" /\ UNCHANGED <<req, execution>>
  BY <1>2, BackedKept DEF CopyBacked
<1>3. CASE UNCHANGED <<pc, req, execution>>
  BY <1>1, <1>2, <1>3
<1>4. ASSUME NEW e \in Executions, StartReconcile(e) PROVE CopyBacked'
  BY <1>3, <1>4, BackedKept DEF StartReconcile, CopyBacked, ExecutionsBacked
<1>5. CASE ListJobs \/ PruneStale
  BY <1>2, <1>5 DEF ListJobs, PruneStale
<1>6. CASE CreateJob \/ UpdateStatus \/ Restart
  BY <1>1, <1>6 DEF CreateJob, UpdateStatus, Restart, Return, WorkerIdle
<1> QED
  BY <1>3, <1>4, <1>5, <1>6
  DEF Next, vars, worker, TimerFires, Resync, CreateExecution, EditExecution, DeleteExecution,
      SetExecution, DeliverExecution, DeliverJob, RunJob, LoseJob, CollectJob, SetJob, ModuleChanges

Inv == TypeInv /\ JobInv /\ CopiesInv /\ StatusInv

LEMMA InvInit == Init => Inv
<1> SUFFICES ASSUME Init PROVE Inv
  OBVIOUS
<1>1. TypeInv
  BY TypeInit
<1>2. JobInv
  BY DEF Init, JobInv, UnbornJob
<1>3. CopiesInv
  BY PrecedesReflexive DEF Init, CopiesInv, JobCacheInv, JobWatchInv, JobSeenInv
<1>4. StatusInv
  BY UnbornBacked
  DEF Init, StatusInv, ExecutionsBacked, EventsBacked, CopyBacked, UnbornExecution
<1> QED
  BY <1>1, <1>2, <1>3, <1>4 DEF Inv

LEMMA InvStep == Inv /\ [Next]_vars => Inv'
<1> SUFFICES ASSUME Inv, [Next]_vars PROVE Inv'
  OBVIOUS
<1> USE DEF Inv
<1>1. TypeInv'
  BY TypeStep
<1>2. Progress /\ JobInv'
  BY JobStep
<1>3. CopiesInv'
  BY <1>1, <1>2, JobCacheStep, JobWatchStep, JobSeenStep DEF CopiesInv
<1>4. StatusInv'
  BY <1>2, ExecutionsStep, EventsStep, CopyStep DEF StatusInv
<1> QED
  BY <1>1, <1>2, <1>3, <1>4

\* Whatever an execution reports is backed by the Jobs it names, with any
\* interleaving, lag, error and restart.
THEOREM ReportsAreTrue == Spec => []TruthfulStatus
<1>1. Inv => TruthfulStatus
  BY DEF Inv, StatusInv, ExecutionsBacked, TruthfulStatus
<1> QED
  BY <1>1, InvInit, InvStep, PTL DEF Spec

----------------------------------------------------------------------------
(* The newest Job.                                                         *)

LEMMA SupersededKept ==
    ASSUME Progress, NEW j \in Jobs, jobs[j].owner # NoExecution, Superseded(j)
    PROVE  jobs'[j].owner # NoExecution /\ Superseded(j)'
<1>1. PICK k \in Jobs : jobs[k].owner = jobs[j].owner /\ jobs[j].created < jobs[k].created
  BY DEF Superseded
<1>2. /\ jobs'[j].owner = jobs[j].owner /\ jobs'[j].created = jobs[j].created
      /\ jobs'[k].owner = jobs[k].owner /\ jobs'[k].created = jobs[k].created
  BY <1>1 DEF Progress, Precedes
<1> QED
  BY <1>1, <1>2 DEF Superseded

\* The cluster's own writes to a Job leave alone what tells Jobs apart.
LEMMA JobIdentity ==
    ASSUME TypeInv, NEW j \in Jobs, RunJob(j) \/ LoseJob(j) \/ CollectJob(j), NEW k \in Jobs
    PROVE  /\ jobs'[k].owner = jobs[k].owner
           /\ jobs'[k].created = jobs[k].created
           /\ jobs'[k].state = "pruned" => jobs[k].state = "pruned"
<1> DEFINE SameIdentity(x, y) ==
             y.owner = x.owner /\ y.created = x.created /\ (y.state = "pruned" => x.state = "pruned")
<1>1. ASSUME NEW object, SetJob(j, object), SameIdentity(jobs[j], object)
      PROVE  SameIdentity(jobs[k], jobs'[k])
  BY <1>1 DEF SetJob
<1>2. jobs[j] \in Job
  OBVIOUS
<1>3. /\ SameIdentity(jobs[j], [jobs[j] EXCEPT !.started = TRUE])
      /\ SameIdentity(jobs[j], [jobs[j] EXCEPT !.failed = @ + 1])
      /\ SameIdentity(jobs[j], [jobs[j] EXCEPT !.succeeded = 1])
      /\ SameIdentity(jobs[j], [jobs[j] EXCEPT !.completed = TRUE])
      /\ SameIdentity(jobs[j], [jobs[j] EXCEPT !.state = "lost"])
  BY <1>2 DEF Job
<1> HIDE DEF SameIdentity
<1>4. SameIdentity(jobs[k], jobs'[k])
  BY <1>1, <1>3 DEF RunJob, LoseJob, CollectJob
<1> QED
  BY <1>4 DEF SameIdentity

LEMMA AgesStep ==
    ASSUME Inv, AgesDiffer, [Next]_vars
    PROVE  AgesDiffer'
<1>1. ASSUME \A j \in Jobs : jobs'[j].owner = jobs[j].owner /\ jobs'[j].created = jobs[j].created
      PROVE  AgesDiffer'
  BY <1>1 DEF AgesDiffer
<1>2. CASE UNCHANGED <<jobs, clock>>
  BY <1>1, <1>2
<1>3. CASE PruneStale
  BY <1>1, <1>3 DEF PruneStale, Newest, Inv, Job
<1>4. CASE CreateJob
  <2>1. ASSUME NEW j \in Jobs, clock' = clock + 1, jobs' = [jobs EXCEPT ![j] = NewJob(req, clock')]
        PROVE  AgesDiffer'
    <3>1. jobs'[j].created = clock + 1
      BY <2>1 DEF NewJob, Inv
    <3>2. ASSUME NEW k \in Jobs, k # j
          PROVE  jobs'[k] = jobs[k] /\ jobs[k].created # clock + 1
      BY <2>1, <3>2 DEF Inv, JobInv, Job
    <3>3. ASSUME NEW k \in Jobs, NEW l \in Jobs, k # l,
                 jobs'[k].owner # NoExecution, jobs'[l].owner # NoExecution
          PROVE  jobs'[k].created # jobs'[l].created
      <4>1. CASE k = j \/ l = j
        BY <3>1, <3>2, <3>3, <4>1
      <4>2. CASE k # j /\ l # j
        BY <3>2, <3>3, <4>2 DEF AgesDiffer
      <4> QED
        BY <4>1, <4>2
    <3> QED
      BY <3>3 DEF AgesDiffer
  <2> QED
    BY <1>2, <1>4, <2>1 DEF CreateJob, UnbornJobs
<1>5. ASSUME NEW j \in Jobs, RunJob(j) \/ LoseJob(j) \/ CollectJob(j)
      PROVE  AgesDiffer'
  BY <1>1, <1>5, JobIdentity DEF Inv
<1> QED
  BY <1>2, <1>3, <1>4, <1>5, JobWriters

\* The Jobs chosen for deletion are older than the one that is kept: the
\* cache orders them as the API server does.
LEMMA ListedSuperseded ==
    ASSUME ~SameSecond, Inv, AgesDiffer, NEW latest \in Newest(OwnedJobs(req)),
           NEW j \in OwnedJobs(req) \ {latest}, req \in Executions
    PROVE  jobs[j].owner # NoExecution /\ Superseded(j)
<1>1. /\ j \in Jobs /\ latest \in Jobs /\ j # latest
      /\ jobCache[j].owner = req /\ jobCache[latest].owner = req /\ req # NoExecution
      /\ jobCache[j].created <= jobCache[latest].created
  BY ConstantsAssumption DEF Newest, OwnedJobs, Timestamp
<1>2. /\ jobs[j].owner = req /\ jobs[j].created = jobCache[j].created
      /\ jobs[latest].owner = req /\ jobs[latest].created = jobCache[latest].created
  BY <1>1 DEF Inv, CopiesInv, JobCacheInv, Precedes
<1>3. jobs[j].created # jobs[latest].created
  BY <1>1, <1>2 DEF AgesDiffer
<1>4. jobs[j].created \in Nat /\ jobs[latest].created \in Nat
  BY <1>1 DEF Inv, Job
<1>5. jobs[j].created < jobs[latest].created
  BY <1>1, <1>2, <1>3, <1>4
<1> QED
  BY <1>1, <1>2, <1>5 DEF Superseded

LEMMA StaleStep ==
    ASSUME ~SameSecond, Inv, AgeInv, Progress, [Next]_vars
    PROVE  StaleSuperseded'
<1> USE DEF AgeInv
<1>1. CASE stale' \subseteq stale
  <2>1. stale \subseteq Jobs
    BY DEF Inv
  <2> QED
    BY <1>1, <2>1, SupersededKept DEF StaleSuperseded
<1>2. CASE ListJobs
  <2>1. UNCHANGED jobs /\ req \in Executions
    BY <1>2 DEF ListJobs, cluster, Inv
  <2>2. ASSUME NEW latest \in Newest(OwnedJobs(req)), stale' = OwnedJobs(req) \ {latest}
        PROVE  StaleSuperseded'
    BY <2>1, <2>2, ListedSuperseded DEF StaleSuperseded, Superseded
  <2> QED
    BY <1>1, <1>2, <2>2 DEF ListJobs
<1>3. CASE CreateJob \/ UpdateStatus \/ Restart
  BY <1>1, <1>3 DEF CreateJob, UpdateStatus, Restart, Return, WorkerIdle
<1>4. CASE PruneStale
  BY <1>1, <1>4 DEF PruneStale
<1> QED
  BY <1>1, <1>2, <1>3, <1>4
  DEF Next, vars, worker, StartReconcile, TimerFires, Resync, CreateExecution, EditExecution,
      DeleteExecution, SetExecution, DeliverExecution, DeliverJob, RunJob, LoseJob, CollectJob,
      SetJob, ModuleChanges

LEMMA PrunedStep ==
    ASSUME Inv, AgeInv, Progress, [Next]_vars
    PROVE  PrunedSuperseded'
<1> USE DEF AgeInv
<1>1. ASSUME \A j \in Jobs : jobs'[j].state = "pruned" => jobs[j].state = "pruned" \/ j \in stale
      PROVE  PrunedSuperseded'
  BY <1>1, SupersededKept DEF PrunedSuperseded, StaleSuperseded
<1>2. CASE UNCHANGED <<jobs, clock>>
  BY <1>1, <1>2
<1>3. CASE PruneStale
  BY <1>1, <1>3 DEF PruneStale, Newest, Inv
<1>4. CASE CreateJob
  BY <1>1, <1>4 DEF CreateJob, UnbornJobs, NewJob, Inv
<1>5. ASSUME NEW j \in Jobs, RunJob(j) \/ LoseJob(j) \/ CollectJob(j)
      PROVE  PrunedSuperseded'
  BY <1>1, <1>5, JobIdentity DEF Inv
<1> QED
  BY <1>2, <1>3, <1>4, <1>5, JobWriters

LEMMA AgeStep == ~SameSecond /\ Inv /\ AgeInv /\ [Next]_vars => AgeInv'
<1> SUFFICES ASSUME ~SameSecond, Inv, AgeInv, [Next]_vars PROVE AgeInv'
  OBVIOUS
<1>1. Progress
  BY JobStep DEF Inv
<1> QED
  BY <1>1, AgesStep, StaleStep, PrunedStep DEF AgeInv

LEMMA AgeInit == Init => AgeInv
BY DEF Init, AgeInv, AgesDiffer, StaleSuperseded, PrunedSuperseded, UnbornJob

\* When Jobs carry different creationTimestamps, the newest Job of an
\* execution is never pruned.
THEOREM PruningIsSafe == ASSUME ~SameSecond PROVE Spec => []NewestNeverPruned
<1>1. Inv /\ AgeInv => NewestNeverPruned
  <2> SUFFICES ASSUME Inv, AgeInv, NEW e \in Executions, NEW j \in BornJobs(e),
                      \A k \in BornJobs(e) : jobs[k].created <= jobs[j].created,
                      jobs[j].state = "pruned"
               PROVE  FALSE
    BY DEF NewestNeverPruned
  <2>1. PICK k \in Jobs : jobs[k].owner = jobs[j].owner /\ jobs[j].created < jobs[k].created
    BY DEF AgeInv, PrunedSuperseded, Superseded, BornJobs
  <2>2. k \in BornJobs(e) /\ j \in Jobs
    BY <2>1 DEF BornJobs
  <2>3. jobs[j].created \in Nat /\ jobs[k].created \in Nat
    BY <2>2 DEF Inv, Job
  <2> QED
    BY <2>1, <2>2, <2>3
<1> QED
  BY <1>1, InvInit, InvStep, AgeInit, AgeStep, PTL DEF Spec

=============================================================================

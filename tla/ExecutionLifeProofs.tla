------------------------- MODULE ExecutionLifeProofs -------------------------
(***************************************************************************)
(* The TofuExecution reconciler implements ExecutionLife, for any          *)
(* executions, Job names, backoff limit, lag and number of disturbances.   *)
(*                                                                         *)
(* The inductive invariant is about order: versions tell the copies of an  *)
(* execution apart, the copies of a Job follow one another from the worker *)
(* over the cache and the events to the API server, and what any copy of   *)
(* an execution reports is no later than what the cache knows of the Job.  *)
(***************************************************************************)
EXTENDS ExecutionSettledProofs

\* An execution as it is, in the cache, in flight and in the worker.
Copies(e) ==
    {executions[e], executionCache[e]}
    \cup {executionWatch[i].object :
            i \in {k \in 1 .. Len(executionWatch) : executionWatch[k].name = e}}
    \cup (IF pc # "idle" /\ req = e THEN {execution} ELSE {})

\* No copy is ahead, and one of the latest version has the latest status.
VersionsInv ==
    \A e \in Executions : \A copy \in Copies(e) :
        /\ copy.version <= executions[e].version
        /\ copy.version = executions[e].version => copy.status = executions[e].status
        /\ copy.state = "unborn" => copy = UnbornExecution
        /\ copy.state # "unborn" => executions[e].state # "unborn"

WorkLive == pc # "idle" => execution.state = "live"

\* What is delivered later is later.
JobOrder ==
    /\ \A i \in 1 .. Len(jobWatch) : Precedes(jobCache[jobWatch[i].name], jobWatch[i].object)
    /\ \A i, k \in 1 .. Len(jobWatch) :
        i < k /\ jobWatch[i].name = jobWatch[k].name
            => Precedes(jobWatch[i].object, jobWatch[k].object)

SeenEarlier == pc \in {"prune", "update"} => Precedes(jobSeen, jobCache[job])

\* A phase that a Job has, or has left behind.
Shown(phase, object) == phase = Phase(object) \/ Rank(phase) < Rank(Phase(object))

CopiesShown ==
    \A e \in Executions : \A copy \in Copies(e) :
        copy.status.jobName \in Jobs =>
            /\ jobCache[copy.status.jobName].owner = e
            /\ Shown(copy.status.phase, jobCache[copy.status.jobName])

\* The worker moves a report of the same Job forward only ...
WorkShown ==
    pc \in {"prune", "update"} /\ execution.status.jobName = job
        => Shown(execution.status.phase, jobSeen)

\* ... and replaces a report of another by that of a younger one.
WorkNewer ==
    pc \in {"prune", "update"} /\ execution.status.jobName \in Jobs \ {job} =>
        \/ jobs[execution.status.jobName].state # "live"
        \/ jobs[execution.status.jobName].created < jobs[job].created

OrderInv == VersionsInv /\ WorkLive /\ JobOrder /\ SeenEarlier /\ CopiesShown /\ WorkShown

----------------------------------------------------------------------------
(* Writes to an execution.                                                 *)

Reporting(e) ==
    /\ pc = "update" /\ req = e
    /\ executions[e].state = "live" /\ executions[e].version = execution.version
    /\ executions' = [executions EXCEPT ![e] =
                            Updated(execution, StatusFrom(execution.status, job, jobSeen))]

Born == [UnbornExecution EXCEPT !.state = "live", !.version = 1]

\* Each write to an execution, with what it is a write of.
LEMMA ExecutionWriters ==
    ASSUME Inv, [Next]_vars
    PROVE  \/ UNCHANGED executions
           \/ \E e \in Executions :
                \/ CreateExecution(e) \/ EditExecution(e) \/ DeleteExecution(e)
                \/ UpdateStatus /\ req = e /\ Reporting(e)
<1>1. UNCHANGED executions \/ UpdateStatus
      \/ \E e \in Executions : CreateExecution(e) \/ EditExecution(e) \/ DeleteExecution(e)
  BY DEF Next, vars, cluster, StartReconcile, TimerFires, Resync, ListJobs, PruneStale, CreateJob,
         DeliverExecution, DeliverJob, RunJob, LoseJob, CollectJob, SetJob, Restart, ModuleChanges
<1>2. UpdateStatus => UNCHANGED executions \/ (Reporting(req) /\ req \in Executions)
  BY DEF UpdateStatus, WriteStatus, Reporting, Inv, TypeInv, WorkerInv
<1> QED
  BY <1>1, <1>2

\* What a step makes of an execution.
LEMMA ExecutionAdvance ==
    ASSUME Inv, VersionsInv, [Next]_vars, NEW e \in Executions
    PROVE  \/ executions'[e] = executions[e]
           \/ executions[e] = UnbornExecution /\ executions'[e] = Born
           \/ /\ executions[e].state = "live" /\ executions'[e].state \in {"live", "deleted"}
              /\ executions'[e].status = executions[e].status
              /\ executions[e].version <= executions'[e].version
           \/ /\ pc = "update" /\ req = e /\ execution.version = executions[e].version
              /\ executions[e].state = "live" /\ executions'[e].state = "live"
              /\ executions'[e].version = executions[e].version + 1
              /\ executions'[e].status = StatusFrom(execution.status, job, jobSeen)
<1>1. executions \in [Executions -> Execution] /\ executions[e] \in Execution
  BY DEF Inv, TypeInv, TypeOK
<1>2. ASSUME CreateExecution(e) PROVE executions[e] = UnbornExecution /\ executions'[e] = Born
  <2>1. executions[e].state = "unborn" /\ executions'[e] = Born
    BY <1>1, <1>2 DEF CreateExecution, SetExecution, Born
  <2> QED
    BY <2>1 DEF VersionsInv, Copies
<1>3. ASSUME EditExecution(e) \/ DeleteExecution(e)
      PROVE  /\ executions[e].state = "live" /\ executions'[e].state \in {"live", "deleted"}
             /\ executions'[e].status = executions[e].status
             /\ executions[e].version <= executions'[e].version
  <2> DEFINE edited == [executions[e] EXCEPT !.version = @ + 1]
             deleted == [executions[e] EXCEPT !.state = "deleted"]
  <2>1. /\ edited.state = executions[e].state /\ edited.status = executions[e].status
        /\ edited.version = executions[e].version + 1
        /\ deleted.state = "deleted" /\ deleted.status = executions[e].status
        /\ deleted.version = executions[e].version
        /\ executions[e].version \in Nat
    BY <1>1 DEF Execution
  <2>2. executions[e].state = "live" /\ (executions'[e] = edited \/ executions'[e] = deleted)
    BY <1>1, <1>3 DEF EditExecution, DeleteExecution, SetExecution
  <2> HIDE DEF edited, deleted
  <2> QED
    BY <2>1, <2>2
<1>4. ASSUME Reporting(e)
      PROVE  /\ pc = "update" /\ req = e /\ execution.version = executions[e].version
             /\ executions[e].state = "live" /\ executions'[e].state = "live"
             /\ executions'[e].version = executions[e].version + 1
             /\ executions'[e].status = StatusFrom(execution.status, job, jobSeen)
  BY <1>1, <1>4 DEF Reporting, Updated
<1>5. ASSUME NEW f \in Executions \ {e},
             CreateExecution(f) \/ EditExecution(f) \/ DeleteExecution(f) \/ Reporting(f)
      PROVE  executions'[e] = executions[e]
  BY <1>1, <1>5 DEF CreateExecution, EditExecution, DeleteExecution, SetExecution, Reporting
<1> QED
  BY <1>2, <1>3, <1>4, <1>5, ExecutionWriters

\* A copy is an old one or of the execution as it is now.
LEMMA CopiesStep ==
    ASSUME Inv, [Next]_vars, NEW e \in Executions, NEW copy \in Copies(e)'
    PROVE  copy \in Copies(e) \/ copy = executions'[e]
<1>1. CASE copy = executions'[e]
  BY <1>1
<1>2. CASE copy = executionCache'[e]
  <2>1. CASE DeliverExecution
    <3>1. /\ executionCache' =
                [executionCache EXCEPT ![executionWatch[1].name] = executionWatch[1].object]
          /\ 1 \in 1 .. Len(executionWatch) /\ executionCache \in [Executions -> Execution]
      BY <2>1, ExecutionEvents DEF DeliverExecution, Inv, TypeInv, TypeOK
    <3>2. \/ executionCache'[e] = executionCache[e]
          \/ executionWatch[1].name = e /\ executionCache'[e] = executionWatch[1].object
      BY <3>1
    <3> QED
      BY <1>2, <3>1, <3>2 DEF Copies
  <2>2. CASE Restart
    BY <1>2, <2>2 DEF Restart, cluster
  <2>3. CASE UNCHANGED executionCache
    BY <1>2, <2>3 DEF Copies
  <2> QED
    BY <2>1, <2>2, <2>3, ExecutionSteps DEF WriteExecution
<1>3. ASSUME NEW i \in 1 .. Len(executionWatch'),
             executionWatch'[i].name = e, copy = executionWatch'[i].object
      PROVE  copy \in Copies(e) \/ copy = executions'[e]
  <2>1. CASE DeliverExecution
    <3>1. i + 1 \in 1 .. Len(executionWatch) /\ executionWatch'[i] = executionWatch[i + 1]
      BY <2>1, ExecutionEvents DEF DeliverExecution
    <3> QED
      BY <1>3, <3>1 DEF Copies
  <2>2. CASE Restart
    BY <1>3, <2>2, EmptySeq DEF Restart
  <2>3. CASE UNCHANGED executionWatch
    BY <1>3, <2>3 DEF Copies
  <2>4. ASSUME NEW f \in Executions, NEW object \in Execution, WriteExecution(f, object)
        PROVE  copy \in Copies(e) \/ copy = executions'[e]
    <3>1. i \in 1 .. Len(executionWatch) \/ i = Len(executionWatch) + 1
      BY <2>4, ExecutionAppended, ExecutionEvents
    <3>2. CASE i \in 1 .. Len(executionWatch)
      <4>1. executionWatch'[i] = executionWatch[i]
        BY <2>4, <3>2, ExecutionAppended
      <4> QED
        BY <1>3, <3>2, <4>1 DEF Copies
    <3>3. CASE i = Len(executionWatch) + 1
      <4>1. executionWatch'[i].name = f /\ executionWatch'[i].object = object
        BY <2>4, <3>3, ExecutionAppended
      <4>2. executions'[f] = object
        BY <2>4 DEF WriteExecution, Inv, TypeInv, TypeOK
      <4> QED
        BY <1>3, <4>1, <4>2
    <3> QED
      BY <3>1, <3>2, <3>3
  <2> QED
    BY <2>1, <2>2, <2>3, <2>4, ExecutionSteps
<1>4. ASSUME pc' # "idle", req' = e, copy = execution'
      PROVE  copy \in Copies(e)
  <2>1. CASE pc # "idle" /\ UNCHANGED <<req, execution>>
    BY <1>4, <2>1 DEF Copies
  <2>2. ASSUME NEW f \in Executions, StartReconcile(f), pc' = "list" PROVE copy \in Copies(e)
    <3>1. pc = "idle" /\ ((req' = f /\ execution' = executionCache[f]) \/ pc' = pc)
      BY <2>2 DEF StartReconcile
    <3> QED
      BY <1>4, <2>2, <3>1 DEF Copies
  <2> QED
    BY <1>4, <2>1, <2>2, WorkerSteps DEF ListJobs, PruneStale, worker
<1> QED
  BY <1>1, <1>2, <1>3, <1>4 DEF Copies

----------------------------------------------------------------------------
(* Order.                                                                  *)

LEMMA VersionsStep ==
    ASSUME Inv, VersionsInv, [Next]_vars
    PROVE  VersionsInv'
<1> DEFINE Copied(e, copy) ==
             /\ copy.version <= executions'[e].version
             /\ copy.version = executions'[e].version => copy.status = executions'[e].status
             /\ copy.state = "unborn" => copy = UnbornExecution
             /\ copy.state # "unborn" => executions'[e].state # "unborn"
<1>1. ASSUME NEW e \in Executions, NEW copy \in Copies(e)' PROVE Copied(e, copy)
  <2>1. executions[e] \in Execution /\ executions'[e] \in Execution
    BY InvStep DEF Inv, TypeInv, TypeOK
  <2>2. Born.state = "live" /\ Born.version = 1 /\ UnbornExecution.version = 0
    BY DEF Born, UnbornExecution
  <2>3. /\ executions[e].version \in Nat /\ executions'[e].version \in Nat
        /\ executions[e].version <= executions'[e].version
        /\ executions[e].version = executions'[e].version
                => executions'[e].status = executions[e].status
        /\ executions[e].state # "unborn" => executions'[e].state # "unborn"
        /\ executions'[e].state = "unborn" => executions'[e] = executions[e]
    BY <2>1, <2>2, ExecutionAdvance DEF Execution
  <2>4. executions[e].state = "unborn" => executions[e] = UnbornExecution
    BY DEF VersionsInv, Copies
  <2>5. CASE copy = executions'[e]
    BY <2>3, <2>4, <2>5
  <2>6. CASE copy \in Copies(e)
    <3>1. /\ copy.version <= executions[e].version
          /\ copy.version = executions[e].version => copy.status = executions[e].status
          /\ copy.state = "unborn" => copy = UnbornExecution
          /\ copy.state # "unborn" => executions[e].state # "unborn"
      BY <2>6 DEF VersionsInv
    <3>2. copy \in Execution
      BY <2>6, ExecutionEvents DEF Copies, Inv, TypeInv, TypeOK
    <3>3. copy.version \in Nat
      BY <3>2 DEF Execution
    <3> QED
      BY <2>3, <3>1, <3>3
  <2> QED
    BY <2>5, <2>6, CopiesStep
<1> QED
  BY <1>1 DEF VersionsInv

LEMMA WorkLiveStep ==
    ASSUME WorkLive, [Next]_vars
    PROVE  WorkLive'
<1>1. ASSUME NEW e \in Executions, StartReconcile(e), pc' = "list" PROVE WorkLive'
  BY <1>1 DEF StartReconcile, WorkLive
<1> QED
  BY <1>1, WorkerSteps DEF WorkLive, ListJobs, PruneStale, worker

\* The cache takes each Job forward.
LEMMA CacheAdvances ==
    ASSUME Inv, JobOrder, [Next]_vars, NEW j \in Jobs
    PROVE  Precedes(jobCache[j], jobCache'[j])
<1>1. CASE UNCHANGED jobCache
  BY <1>1, PrecedesReflexive
<1>2. CASE DeliverJob
  <2>1. /\ jobCache' = [jobCache EXCEPT ![jobWatch[1].name] = jobWatch[1].object]
        /\ 1 \in 1 .. Len(jobWatch) /\ jobCache \in [Jobs -> Job]
    BY <1>2, JobEvents DEF DeliverJob, Inv, TypeInv, TypeOK
  <2>2. \/ jobCache'[j] = jobCache[j]
        \/ jobWatch[1].name = j /\ jobCache'[j] = jobWatch[1].object
    BY <2>1
  <2> QED
    BY <2>1, <2>2, PrecedesReflexive DEF JobOrder
<1>3. CASE Restart
  BY <1>3 DEF Restart, Inv, CopiesInv, JobCacheInv
<1> QED
  BY <1>1, <1>2, <1>3, JobSteps DEF WriteJob

LEMMA JobOrderStep ==
    ASSUME Inv, JobOrder, [Next]_vars
    PROVE  JobOrder'
<1>1. CASE UNCHANGED <<jobs, jobWatch, jobCache>>
  BY <1>1 DEF JobOrder
<1>2. CASE DeliverJob
  <2>1. /\ jobCache' = [jobCache EXCEPT ![jobWatch[1].name] = jobWatch[1].object]
        /\ 1 \in 1 .. Len(jobWatch) /\ jobCache \in [Jobs -> Job]
        /\ Len(jobWatch) \in Nat
        /\ \A i \in 1 .. Len(jobWatch) : jobWatch[i].name \in Jobs
        /\ \A i \in 1 .. Len(jobWatch') :
            i + 1 \in 1 .. Len(jobWatch) /\ jobWatch'[i] = jobWatch[i + 1]
    BY <1>2, JobEvents DEF DeliverJob, Inv, TypeInv, TypeOK
  <2>2. ASSUME NEW i \in 1 .. Len(jobWatch')
        PROVE  Precedes(jobCache'[jobWatch'[i].name], jobWatch'[i].object)
    <3>1. 1 < i + 1 /\ i + 1 \in 1 .. Len(jobWatch) /\ jobWatch'[i] = jobWatch[i + 1]
      BY <2>1
    <3>2. CASE jobWatch[i + 1].name = jobWatch[1].name
      BY <2>1, <3>1, <3>2 DEF JobOrder
    <3>3. CASE jobWatch[i + 1].name # jobWatch[1].name
      <4>1. jobCache'[jobWatch[i + 1].name] = jobCache[jobWatch[i + 1].name]
        BY <2>1, <3>1, <3>3
      <4> QED
        BY <3>1, <4>1 DEF JobOrder
    <3> QED
      BY <3>2, <3>3
  <2>3. ASSUME NEW i \in 1 .. Len(jobWatch'), NEW k \in 1 .. Len(jobWatch'),
               i < k, jobWatch'[i].name = jobWatch'[k].name
        PROVE  Precedes(jobWatch'[i].object, jobWatch'[k].object)
    <3>1. i + 1 < k + 1
      BY <2>3
    <3> QED
      BY <2>1, <2>3, <3>1 DEF JobOrder
  <2> QED
    BY <2>2, <2>3 DEF JobOrder
<1>3. CASE Restart
  BY <1>3, EmptySeq DEF Restart, JobOrder
<1>4. ASSUME NEW j \in Jobs, NEW object \in Job, WriteJob(j, object)
      PROVE  JobOrder'
  <2>1. /\ jobCache' = jobCache /\ jobs'[j] = object /\ Len(jobWatch) \in Nat
        /\ Precedes(jobs[j], object) /\ Precedes(jobCache[j], jobs[j])
    BY <1>4, JobStep, JobEvents
    DEF WriteJob, Progress, Inv, TypeInv, TypeOK, CopiesInv, JobCacheInv
  <2>2. \A i \in 1 .. Len(jobWatch') : i \in 1 .. Len(jobWatch) \/ i = Len(jobWatch) + 1
    BY <1>4, <2>1, JobAppended
  <2>3. Precedes(jobCache[j], object)
    BY <2>1, PrecedesTransitive
  <2>4. ASSUME NEW i \in 1 .. Len(jobWatch), jobWatch[i].name = j
        PROVE  Precedes(jobWatch[i].object, object)
    <3>1. Precedes(jobWatch[i].object, jobs[j])
      BY <2>4 DEF Inv, CopiesInv, JobWatchInv
    <3> QED
      BY <2>1, <3>1, PrecedesTransitive
  <2>5. ASSUME NEW i \in 1 .. Len(jobWatch')
        PROVE  Precedes(jobCache'[jobWatch'[i].name], jobWatch'[i].object)
    BY <1>4, <2>1, <2>2, <2>3, JobAppended DEF JobOrder
  <2>6. ASSUME NEW i \in 1 .. Len(jobWatch'), NEW k \in 1 .. Len(jobWatch'),
               i < k, jobWatch'[i].name = jobWatch'[k].name
        PROVE  Precedes(jobWatch'[i].object, jobWatch'[k].object)
    <3>1. i \in 1 .. Len(jobWatch) /\ jobWatch'[i] = jobWatch[i]
      BY <1>4, <2>1, <2>2, <2>6, JobAppended
    <3>2. CASE k \in 1 .. Len(jobWatch)
      <4>1. jobWatch'[k] = jobWatch[k]
        BY <1>4, <3>2, JobAppended
      <4> QED
        BY <2>6, <3>1, <3>2, <4>1 DEF JobOrder
    <3>3. CASE k = Len(jobWatch) + 1
      <4>1. jobWatch'[k].name = j /\ jobWatch'[k].object = object
        BY <1>4, <3>3, JobAppended
      <4> QED
        BY <2>4, <2>6, <3>1, <4>1
    <3> QED
      BY <2>2, <3>2, <3>3
  <2> QED
    BY <2>5, <2>6 DEF JobOrder
<1> QED
  BY <1>1, <1>2, <1>3, <1>4, JobSteps

LEMMA SeenEarlierStep ==
    ASSUME Inv, JobOrder, SeenEarlier, [Next]_vars
    PROVE  SeenEarlier'
<1>1. CASE pc \in {"prune", "update"} /\ UNCHANGED <<job, jobSeen>>
  <2>1. job \in Jobs
    BY <1>1 DEF Inv, TypeInv, WorkerInv
  <2>2. PICK j \in Jobs : j = job
    BY <2>1
  <2>3. Precedes(jobCache[j], jobCache'[j]) /\ Precedes(jobSeen, jobCache[j])
    BY <1>1, <2>2, CacheAdvances DEF SeenEarlier
  <2> QED
    BY <1>1, <2>2, <2>3, PrecedesTransitive DEF SeenEarlier
<1>2. CASE ListJobs
  BY <1>2, PrecedesReflexive DEF ListJobs, informers, SeenEarlier
<1> QED
  BY <1>1, <1>2, WorkerSteps DEF SeenEarlier, PruneStale, worker

----------------------------------------------------------------------------
(* Phases.                                                                 *)

LEMMA Ranks ==
    /\ Rank(NoPhase) = 0 /\ Rank("Pending") = 1 /\ Rank("Running") = 2
    /\ Rank("Succeeded") = 3 /\ Rank("Failed") = 3
    /\ NoPhase \notin Phases
<1>1. NoPhase # "Pending" /\ NoPhase # "Running" /\ NoPhase # "Succeeded" /\ NoPhase # "Failed"
  BY Zenon DEF NoPhase
<1> QED
  BY <1>1 DEF Rank, Phases

\* A Job that goes forward does not take back its phase.
LEMMA PhaseGrows ==
    ASSUME NEW x \in Job, NEW y \in Job, Precedes(x, y)
    PROVE  /\ Phase(x) \in Phases /\ Shown(Phase(x), y)
           /\ \A phase : Shown(phase, x) => Shown(phase, y)
<1>1. /\ Phase(x) \in Phases /\ Phase(y) \in Phases
      /\ x.failed \in Nat /\ y.failed \in Nat /\ x.succeeded \in Nat /\ y.succeeded \in Nat
      /\ x.started \in BOOLEAN /\ y.started \in BOOLEAN
  BY ConstantsAssumption DEF Phase, Phases, Job
<1>2. Phase(x) = Phase(y) \/ Rank(Phase(x)) < Rank(Phase(y))
  <2>1. CASE x.failed > 0
    BY <1>1, <2>1 DEF Phase, Precedes
  <2>2. CASE x.failed = 0 /\ x.succeeded > 0
    BY <1>1, <2>2 DEF Phase, Precedes
  <2>3. CASE x.failed = 0 /\ x.succeeded = 0 /\ x.started
    <3>1. Phase(x) = "Running" /\ Phase(y) \in {"Running", "Succeeded", "Failed"}
      BY <1>1, <2>3 DEF Phase, Precedes
    <3> QED
      BY <3>1, Ranks
  <2>4. CASE x.failed = 0 /\ x.succeeded = 0 /\ ~x.started
    <3>1. Phase(x) = "Pending" /\ Phase(y) \in {"Pending", "Running", "Succeeded", "Failed"}
      BY <1>1, <2>4 DEF Phase, Phases
    <3> QED
      BY <3>1, Ranks
  <2> QED
    BY <1>1, <2>1, <2>2, <2>3, <2>4
<1>3. Rank(Phase(x)) \in Nat /\ Rank(Phase(y)) \in Nat /\ \A phase : Rank(phase) \in Nat
  BY DEF Rank
<1> QED
  BY <1>1, <1>2, <1>3 DEF Shown

LEMMA CopiesShownStep ==
    ASSUME Inv, OrderInv, [Next]_vars
    PROVE  CopiesShown'
<1> USE DEF OrderInv
<1>1. ASSUME NEW e \in Executions, NEW copy \in Copies(e), copy.status.jobName \in Jobs
      PROVE  /\ jobCache'[copy.status.jobName].owner = e
             /\ Shown(copy.status.phase, jobCache'[copy.status.jobName])
  <2> DEFINE k == copy.status.jobName
  <2>1. /\ jobCache[k].owner = e /\ e # NoExecution
        /\ Shown(copy.status.phase, jobCache[k])
        /\ jobCache[k] \in Job /\ jobCache'[k] \in Job
    BY <1>1, InvStep, ConstantsAssumption DEF CopiesShown, Inv, TypeInv, TypeOK
  <2>2. Precedes(jobCache[k], jobCache'[k])
    BY <1>1, CacheAdvances
  <2>3. Shown(copy.status.phase, jobCache'[k])
    BY <2>1, <2>2, PhaseGrows
  <2> QED
    BY <2>1, <2>2, <2>3 DEF Precedes
<1>2. ASSUME NEW e \in Executions, NEW copy, copy = executions'[e], copy.status.jobName \in Jobs
      PROVE  /\ jobCache'[copy.status.jobName].owner = e
             /\ Shown(copy.status.phase, jobCache'[copy.status.jobName])
  <2>1. CASE executions'[e].status = executions[e].status
    BY <1>1, <1>2, <2>1 DEF Copies
  <2>2. CASE executions'[e] = Born
    BY <1>2, <2>2, ConstantsAssumption DEF Born, UnbornExecution, NoStatus
  <2>3. CASE /\ pc = "update" /\ req = e
             /\ executions'[e].status = StatusFrom(execution.status, job, jobSeen)
    <3>1. copy.status.jobName = job /\ copy.status.phase = Phase(jobSeen)
      BY <1>2, <2>3 DEF StatusFrom
    <3>2. PICK j \in Jobs : j = job
      BY <1>2, <3>1
    <3>3. /\ jobSeen.owner = e /\ Precedes(jobSeen, jobCache[j]) /\ e # NoExecution
          /\ jobSeen \in Job /\ jobCache[j] \in Job /\ jobCache'[j] \in Job
      BY <2>3, <3>2, InvStep, ConstantsAssumption
      DEF Inv, CopiesInv, JobSeenInv, SeenEarlier, TypeInv, TypeOK
    <3>4. Precedes(jobCache[j], jobCache'[j])
      BY CacheAdvances
    <3>5. Precedes(jobSeen, jobCache'[j])
      BY <3>3, <3>4, PrecedesTransitive
    <3>6. Shown(Phase(jobSeen), jobCache'[j])
      BY <3>3, <3>5, PhaseGrows
    <3> QED
      BY <3>1, <3>2, <3>3, <3>5, <3>6 DEF Precedes
  <2> QED
    BY <2>1, <2>2, <2>3, ExecutionAdvance
<1>3. ASSUME NEW e \in Executions, NEW copy \in Copies(e)', copy.status.jobName \in Jobs
      PROVE  /\ jobCache'[copy.status.jobName].owner = e
             /\ Shown(copy.status.phase, jobCache'[copy.status.jobName])
  BY <1>1, <1>2, <1>3, CopiesStep
<1> QED
  BY <1>3 DEF CopiesShown, Shown

\* The worker's copy is one of the copies of its execution.
LEMMA WorkCopy ==
    ASSUME Inv, pc # "idle"
    PROVE  req \in Executions /\ execution \in Copies(req)
BY DEF Inv, TypeInv, WorkerInv, Copies

LEMMA WorkShownStep ==
    ASSUME Inv, OrderInv, [Next]_vars
    PROVE  WorkShown'
<1>1. CASE pc \in {"prune", "update"} /\ UNCHANGED <<execution, job, jobSeen>>
  BY <1>1 DEF OrderInv, WorkShown, Shown
<1>2. CASE ListJobs
  <2>1. UNCHANGED execution /\ pc = "list"
    BY <1>2 DEF ListJobs
  <2>2. ASSUME NEW latest \in Newest(OwnedJobs(req)), job' = latest, jobSeen' = jobCache[latest],
               execution.status.jobName = latest
        PROVE  Shown(execution.status.phase, jobSeen')
    <3>1. latest \in Jobs
      BY DEF Newest, OwnedJobs
    <3> QED
      BY <2>1, <2>2, <3>1, WorkCopy DEF OrderInv, CopiesShown
  <2> QED
    BY <1>2, <2>1, <2>2 DEF ListJobs, WorkShown, Shown
<1> QED
  BY <1>1, <1>2, WorkerSteps DEF WorkShown, PruneStale, worker

LEMMA OrderInit == Init => OrderInv
<1> SUFFICES ASSUME Init PROVE OrderInv
  OBVIOUS
<1>1. /\ executions = [e \in Executions |-> UnbornExecution] /\ executionCache = executions
      /\ executionWatch = <<>> /\ jobWatch = <<>> /\ pc = "idle"
  BY DEF Init
<1>2. \A e \in Executions : \A copy \in Copies(e) : copy = UnbornExecution
  BY <1>1, EmptySeq DEF Copies
<1>3. VersionsInv
  BY <1>1, <1>2 DEF VersionsInv, UnbornExecution
<1>4. CopiesShown
  BY <1>2, ConstantsAssumption DEF CopiesShown, UnbornExecution, NoStatus
<1> QED
  BY <1>1, <1>3, <1>4, EmptySeq
  DEF OrderInv, WorkLive, JobOrder, SeenEarlier, WorkShown

LEMMA OrderStep == Inv /\ OrderInv /\ [Next]_vars => OrderInv'
<1> SUFFICES ASSUME Inv, OrderInv, [Next]_vars PROVE OrderInv'
  OBVIOUS
<1>1. VersionsInv' /\ WorkLive' /\ JobOrder' /\ SeenEarlier'
  BY VersionsStep, WorkLiveStep, JobOrderStep, SeenEarlierStep DEF OrderInv
<1> QED
  BY <1>1, CopiesShownStep, WorkShownStep DEF OrderInv

\* A status write is computed from the status it replaces.
LEMMA WrittenForward ==
    ASSUME Inv, OrderInv, [Next]_vars, NEW e \in Executions
    PROVE  Advances(executions[e].status, executions'[e].status)
<1>1. CASE executions'[e].status = executions[e].status
  BY <1>1 DEF Advances
<1>2. CASE executions[e] = UnbornExecution /\ executions'[e] = Born
  <2>1. executions'[e].status = executions[e].status
    BY <1>2 DEF Born, UnbornExecution
  <2> QED
    BY <2>1 DEF Advances
<1>3. CASE /\ pc = "update" /\ req = e /\ execution.version = executions[e].version
           /\ executions'[e].status = StatusFrom(execution.status, job, jobSeen)
  <2>1. execution.status = executions[e].status
    BY <1>3, WorkCopy DEF OrderInv, VersionsInv
  <2>2. executions'[e].status.jobName = job /\ executions'[e].status.phase = Phase(jobSeen)
    BY <1>3 DEF StatusFrom
  <2> QED
    BY <1>3, <2>1, <2>2 DEF OrderInv, WorkShown, Shown, Advances
<1> QED
  BY <1>1, <1>2, <1>3, ExecutionAdvance DEF OrderInv

\* As long as an execution names the same Job its phase only advances,
\* although each status is computed from copies that may be old by then
\* (lines 90-149).
THEOREM PhasesGoForward == Spec => PhaseForward
<1>1. Inv /\ OrderInv /\ [Next]_vars
        => [\A e \in Executions : Advances(executions[e].status, executions'[e].status)]_vars
  BY WrittenForward
<1> QED
  BY <1>1, InvInit, InvStep, OrderInit, OrderStep, PTL DEF Spec, PhaseForward

----------------------------------------------------------------------------
(* A report of another Job.                                                *)

LEMMA WorkNewerStep ==
    ASSUME ~SameSecond, Inv, OwnersInv, OrderInv, AgesDiffer, WorkNewer, [Next]_vars
    PROVE  WorkNewer'
<1> DEFINE Gone(k, j) == jobs[k].state # "live" \/ jobs[k].created < jobs[j].created
<1>1. ASSUME NEW k \in Jobs, NEW j \in Jobs, Gone(k, j),
             jobs[k].owner # NoExecution, jobs[j].owner # NoExecution
      PROVE  Gone(k, j)'
  <2>1. Precedes(jobs[k], jobs'[k]) /\ Precedes(jobs[j], jobs'[j])
    BY JobStep DEF Progress, Inv
  <2>2. jobs[k].state \in {"pruned", "lost"} \/ jobs[k].state \in {"live", "unborn"}
    BY DEF Inv, TypeInv, TypeOK, Job
  <2>3. jobs[k].state # "unborn"
    BY <1>1 DEF Inv, JobInv, UnbornJob
  <2> QED
    BY <1>1, <2>1, <2>2, <2>3 DEF Precedes
<1> DEFINE k == execution.status.jobName
<1>2. ASSUME pc # "idle", k \in Jobs
      PROVE  /\ jobCache[k].owner = req /\ jobs[k].owner = req /\ req # NoExecution
             /\ jobCache[k].state \in {"live", "pruned", "lost"}
             /\ jobCache[k].state # "live" => jobs[k].state # "live"
             /\ jobs[k].created = jobCache[k].created
  <2>1. jobCache[k].owner = req /\ req \in Executions
    BY <1>2, WorkCopy DEF OrderInv, CopiesShown
  <2>2. req # NoExecution /\ jobCache[k].state # "unborn"
    BY <1>2, <2>1, ConstantsAssumption DEF OwnersInv, Owned
  <2>3. Precedes(jobCache[k], jobs[k]) /\ jobCache[k] \in Job
    BY <1>2 DEF Inv, CopiesInv, JobCacheInv, TypeInv, TypeOK
  <2> QED
    BY <2>1, <2>2, <2>3 DEF Precedes, Job
<1>3. CASE pc \in {"prune", "update"} /\ UNCHANGED <<execution, job>>
  <2>1. ASSUME k \in Jobs \ {job} PROVE Gone(k, job)'
    <3>1. Gone(k, job)
      BY <1>3, <2>1 DEF WorkNewer
    <3>2. /\ job \in Jobs /\ jobs[job].owner = req /\ req # NoExecution
          /\ jobs[k].owner = req
      BY <1>2, <1>3, <2>1 DEF Inv, TypeInv, WorkerInv, CopiesInv, JobSeenInv, Precedes
    <3>3. PICK j \in Jobs : j = job
      BY <3>2
    <3>4. PICK l \in Jobs : l = k
      BY <2>1
    <3>5. Gone(l, j)'
      BY <1>1, <3>1, <3>2, <3>3, <3>4
    <3> QED
      BY <1>3, <3>3, <3>4, <3>5
  <2> QED
    BY <1>3, <2>1 DEF WorkNewer
<1>4. CASE ListJobs
  <2>1. pc = "list" /\ UNCHANGED <<execution, jobs>>
    BY <1>4 DEF ListJobs, cluster
  <2>2. ASSUME NEW latest \in Newest(OwnedJobs(req)), k \in Jobs \ {latest}
        PROVE  jobs[k].state # "live" \/ jobs[k].created < jobs[latest].created
    <3>1. /\ latest \in Jobs /\ jobCache[latest].owner = req
          /\ \A l \in OwnedJobs(req) : jobCache[l].created <= jobCache[latest].created
      BY DEF Newest, OwnedJobs, Timestamp
    <3>2. jobs[latest].owner = req /\ jobs[latest].created = jobCache[latest].created
      BY <1>2, <2>1, <2>2, <3>1 DEF Inv, CopiesInv, JobCacheInv, Precedes
    <3>3. CASE jobCache[k].state = "live"
      <4>1. k \in OwnedJobs(req)
        BY <1>2, <2>1, <2>2, <3>3 DEF OwnedJobs
      <4>2. jobs[k].created <= jobs[latest].created /\ jobs[k].created # jobs[latest].created
        BY <1>2, <2>1, <2>2, <3>1, <3>2, <4>1 DEF AgesDiffer
      <4>3. jobs[k].created \in Nat /\ jobs[latest].created \in Nat
        BY <2>2, <3>1 DEF Inv, TypeInv, TypeOK, Job
      <4> QED
        BY <4>2, <4>3
    <3>4. CASE jobCache[k].state # "live"
      BY <1>2, <2>1, <2>2, <3>4
    <3> QED
      BY <3>3, <3>4
  <2> QED
    BY <1>4, <2>1, <2>2 DEF ListJobs, WorkNewer
<1> QED
  BY <1>3, <1>4, WorkerSteps DEF WorkNewer, PruneStale, worker

----------------------------------------------------------------------------
(* The abstract controller.                                                *)

Lives == [e \in Executions |-> executions[e].state]
Runs == [j \in Jobs |-> RunOf(jobs[j])]
ReportsMade == [e \in Executions |-> ReportOf(executions[e])]

\* An action of ExecutionLife is a step of it, or changes nothing.
LEMMA RunSteps ==
    ASSUME NEW j \in Jobs, Life!Progress(j) \/ Life!Prune(j) \/ Life!Lose(j)
    PROVE  [Life!Next]_Life!vars
<1>1. UNCHANGED <<Lives, clock, ReportsMade>>
  BY DEF Life!Progress, Life!Prune, Life!Lose, Life!Becomes, Lives, ReportsMade
<1> QED
  BY <1>1 DEF Life!Next, Life!vars, Lives, ReportsMade

LEMMA LifeSteps ==
    ASSUME NEW e \in Executions, NEW j \in Jobs
    PROVE  /\ Life!Launch(j, e) => [Life!Next]_Life!vars
           /\ \A phase \in Life!Phases : Life!Report(e, j, phase) => [Life!Next]_Life!vars
<1>1. ASSUME Life!Launch(j, e) PROVE [Life!Next]_Life!vars
  <2>1. Runs[j].state = "unborn" /\ Runs'[j].state = "live" /\ UNCHANGED <<Lives, ReportsMade>>
    BY <1>1 DEF Life!Launch, Life!Unborn, Runs, Lives, ReportsMade
  <2> QED
    BY <1>1, <2>1 DEF Life!Next, Life!vars, Runs
<1>2. ASSUME NEW phase \in Life!Phases, Life!Report(e, j, phase) PROVE [Life!Next]_Life!vars
  BY <1>2 DEF Life!Report, Life!Next, Life!vars
<1> QED
  BY <1>1, <1>2

LEMMA LifeStutters ==
    ASSUME UNCHANGED <<Lives, Runs, clock, ReportsMade>>
    PROVE  UNCHANGED Life!vars
BY DEF Life!vars, Lives, Runs, ReportsMade

\* Runs are compared field by field.
Run ==
    [state: {"unborn", "live", "pruned", "lost"}, owner: Executions \cup {NoExecution}, number: Nat,
     started: BOOLEAN, failed: BOOLEAN, succeeded: BOOLEAN]

LEMMA SameRun ==
    ASSUME NEW x \in Run, NEW y \in Run,
           x.state = y.state, x.owner = y.owner, x.number = y.number,
           x.started <=> y.started, x.failed <=> y.failed, x.succeeded <=> y.succeeded
    PROVE  x = y
<1>0. x.started = y.started /\ x.failed = y.failed /\ x.succeeded = y.succeeded
  BY DEF Run
<1>1. x = [state |-> x.state, owner |-> x.owner, number |-> x.number,
           started |-> x.started, failed |-> x.failed, succeeded |-> x.succeeded]
  BY DEF Run
<1>2. y = [state |-> y.state, owner |-> y.owner, number |-> y.number,
           started |-> y.started, failed |-> y.failed, succeeded |-> y.succeeded]
  BY DEF Run
<1> QED
  BY <1>0, <1>1, <1>2, Zenon

LEMMA RunType ==
    ASSUME NEW object \in Job
    PROVE  /\ RunOf(object) \in Run
           /\ RunOf(object).state = object.state
           /\ RunOf(object).owner = object.owner
           /\ RunOf(object).number = object.created
           /\ RunOf(object).started <=> object.started
           /\ RunOf(object).failed <=> object.failed > 0
           /\ RunOf(object).succeeded <=> object.succeeded > 0
<1>1. /\ object.state \in {"unborn", "live", "pruned", "lost"}
      /\ object.owner \in Executions \cup {NoExecution} /\ object.created \in Nat
      /\ object.started \in BOOLEAN
      /\ (object.failed > 0) \in BOOLEAN /\ (object.succeeded > 0) \in BOOLEAN
  BY DEF Job
<1> QED
  BY <1>1 DEF RunOf, Run

\* How writes look in the abstract state.
LEMMA RunWritten ==
    ASSUME Inv, NEW j \in Jobs, NEW object, jobs' = [jobs EXCEPT ![j] = object]
    PROVE  Runs' = [Runs EXCEPT ![j] = RunOf(object)]
BY DEF Inv, TypeInv, TypeOK, Runs

LEMMA ReportWritten ==
    ASSUME Inv, NEW e \in Executions, NEW object, executions' = [executions EXCEPT ![e] = object]
    PROVE  /\ Lives' = [Lives EXCEPT ![e] = object.state]
           /\ ReportsMade' = [ReportsMade EXCEPT ![e] = ReportOf(object)]
BY DEF Inv, TypeInv, TypeOK, Lives, ReportsMade

LEMMA Unreported ==
    ASSUME Inv, NEW e \in Executions, NEW object, executions' = [executions EXCEPT ![e] = object],
           object.status = executions[e].status
    PROVE  UNCHANGED ReportsMade
BY DEF Inv, TypeInv, TypeOK, ReportsMade, ReportOf

\* A live Job that becomes another object is a live run that becomes another.
LEMMA JobBecomes ==
    ASSUME Inv, UNCHANGED <<executions, clock>>, NEW j \in Jobs, jobs[j].state = "live",
           NEW object \in Job, jobs' = [jobs EXCEPT ![j] = object]
    PROVE  Life!Becomes(j, RunOf(object))
<1>1. Runs' = [Runs EXCEPT ![j] = RunOf(object)]
  BY RunWritten
<1>2. Runs[j].state = "live"
  BY RunType DEF Inv, TypeInv, TypeOK, Runs
<1>3. UNCHANGED <<Lives, ReportsMade>>
  BY DEF Lives, ReportsMade
<1> QED
  BY <1>1, <1>2, <1>3 DEF Life!Becomes, Runs, Lives, ReportsMade

LEMMA RemovedRun ==
    ASSUME NEW object \in Job, NEW state \in {"pruned", "lost"}
    PROVE  /\ [object EXCEPT !.state = state] \in Job
           /\ RunOf([object EXCEPT !.state = state]) = [RunOf(object) EXCEPT !.state = state]
<1> DEFINE gone == [object EXCEPT !.state = state]
           run == RunOf(object)
           after == [run EXCEPT !.state = state]
<1>1. /\ gone \in Job /\ gone.state = state /\ gone.owner = object.owner
      /\ gone.created = object.created /\ gone.started = object.started
      /\ gone.failed = object.failed /\ gone.succeeded = object.succeeded
  BY DEF Job
<1> HIDE DEF gone
<1>2. /\ run \in Run /\ run.owner = object.owner /\ run.number = object.created
      /\ run.started <=> object.started
      /\ run.failed <=> object.failed > 0
      /\ run.succeeded <=> object.succeeded > 0
  BY RunType
<1> HIDE DEF run
<1>3. /\ after \in Run /\ after.state = state /\ after.owner = run.owner
      /\ after.number = run.number /\ after.started = run.started
      /\ after.failed = run.failed /\ after.succeeded = run.succeeded
  BY <1>2 DEF Run
<1> HIDE DEF after
<1>4. /\ RunOf(gone) \in Run /\ RunOf(gone).state = state
      /\ RunOf(gone).owner = object.owner /\ RunOf(gone).number = object.created
      /\ RunOf(gone).started <=> object.started
      /\ RunOf(gone).failed <=> object.failed > 0
      /\ RunOf(gone).succeeded <=> object.succeeded > 0
  BY <1>1, RunType
<1>5. RunOf(gone) = after
  BY <1>2, <1>3, <1>4, SameRun
<1> QED
  BY <1>1, <1>5 DEF gone, after, run

LEMMA SimulateExecution ==
    ASSUME Inv, VersionsInv, NEW e \in Executions,
           CreateExecution(e) \/ EditExecution(e) \/ DeleteExecution(e)
    PROVE  Life!Appear(e) \/ Life!Vanish(e) \/ UNCHANGED Life!vars
<1>1. UNCHANGED <<jobs, clock>>
  BY DEF CreateExecution, EditExecution, DeleteExecution, SetExecution
<1>2. UNCHANGED Runs
  BY <1>1 DEF Runs
<1>3. executions[e] \in Execution
  BY DEF Inv, TypeInv, TypeOK
<1>4. CASE CreateExecution(e)
  <2>1. executions' = [executions EXCEPT ![e] = Born] /\ executions[e].state = "unborn"
    BY <1>4 DEF CreateExecution, SetExecution, Born
  <2>2. executions[e].status = Born.status /\ Born.state = "live"
    BY <2>1 DEF VersionsInv, Copies, Born, UnbornExecution
  <2>3. Lives[e] = "unborn" /\ Lives' = [Lives EXCEPT ![e] = "live"]
    <3>1. Lives' = [Lives EXCEPT ![e] = Born.state]
      BY <2>1, ReportWritten
    <3> QED
      BY <2>1, <2>2, <3>1 DEF Lives
  <2>4. UNCHANGED ReportsMade
    BY <2>1, <2>2, Unreported
  <2> QED
    BY <1>1, <1>2, <2>3, <2>4 DEF Life!Appear, Lives, Runs, ReportsMade
<1>5. CASE EditExecution(e)
  <2> DEFINE edited == [executions[e] EXCEPT !.version = @ + 1]
  <2>1. edited.state = executions[e].state /\ edited.status = executions[e].status
    BY <1>3 DEF Execution
  <2>2. executions' = [executions EXCEPT ![e] = edited]
    BY <1>5 DEF EditExecution, SetExecution
  <2> HIDE DEF edited
  <2>3. UNCHANGED ReportsMade
    BY <2>1, <2>2, Unreported
  <2>4. UNCHANGED Lives
    <3>1. Lives' = [Lives EXCEPT ![e] = edited.state]
      BY <2>2, ReportWritten
    <3> QED
      BY <2>1, <3>1 DEF Lives
  <2> QED
    BY <1>1, <1>2, <2>3, <2>4, LifeStutters
<1>6. CASE DeleteExecution(e)
  <2> DEFINE deleted == [executions[e] EXCEPT !.state = "deleted"]
  <2>1. deleted.state = "deleted" /\ deleted.status = executions[e].status
    BY <1>3 DEF Execution
  <2>2. executions' = [executions EXCEPT ![e] = deleted] /\ executions[e].state = "live"
    BY <1>6 DEF DeleteExecution, SetExecution
  <2> HIDE DEF deleted
  <2>3. UNCHANGED ReportsMade
    BY <2>1, <2>2, Unreported
  <2>4. Lives[e] = "live" /\ Lives' = [Lives EXCEPT ![e] = "deleted"]
    <3>1. Lives' = [Lives EXCEPT ![e] = deleted.state]
      BY <2>2, ReportWritten
    <3> QED
      BY <2>1, <2>2, <3>1 DEF Lives
  <2> QED
    BY <1>1, <1>2, <2>3, <2>4 DEF Life!Vanish, Lives, Runs, ReportsMade
<1> QED
  BY <1>4, <1>5, <1>6

LEMMA SimulateCreateJob ==
    ASSUME Inv, VersionsInv, WorkLive, CreateJob
    PROVE  (\E j \in Jobs, e \in Executions : Life!Launch(j, e)) \/ UNCHANGED Life!vars
<1>1. UNCHANGED executions /\ pc = "create"
  BY DEF CreateJob
<1>2. UNCHANGED <<Lives, ReportsMade>>
  BY <1>1 DEF Lives, ReportsMade
<1>3. CASE UNCHANGED <<jobs, clock>>
  <2>1. UNCHANGED Runs
    BY <1>3 DEF Runs
  <2> QED
    BY <1>2, <1>3, <2>1, LifeStutters
<1>4. ASSUME NEW j \in UnbornJobs, clock' = clock + 1,
             jobs' = [jobs EXCEPT ![j] = NewJob(req, clock')]
      PROVE  \E e \in Executions : Life!Launch(j, e)
  <2>1. j \in Jobs /\ jobs[j].state = "unborn" /\ clock \in Nat
    BY DEF UnbornJobs, Inv, TypeInv, TypeOK
  <2>2. PICK e \in Executions : e = req
    BY <1>1, WorkCopy
  <2>3. Lives[e] # "unborn"
    BY <1>1, <2>2, WorkCopy DEF WorkLive, VersionsInv, Lives
  <2> DEFINE object == NewJob(e, clock + 1)
             new == [Life!Unborn EXCEPT !.state = "live", !.owner = e, !.number = clock + 1]
  <2>4. /\ object \in Job /\ object.state = "live" /\ object.owner = e
        /\ object.created = clock + 1 /\ ~object.started
        /\ object.failed = 0 /\ object.succeeded = 0
    BY <2>1, ConstantsAssumption DEF NewJob, Job
  <2>5. jobs' = [jobs EXCEPT ![j] = object]
    BY <1>4, <2>2
  <2> HIDE DEF object
  <2>6. /\ RunOf(object) \in Run /\ RunOf(object).state = "live" /\ RunOf(object).owner = e
        /\ RunOf(object).number = clock + 1 /\ ~RunOf(object).started
        /\ ~RunOf(object).failed /\ ~RunOf(object).succeeded
    BY <2>4, RunType
  <2>7. /\ new \in Run /\ new.state = "live" /\ new.owner = e /\ new.number = clock + 1
        /\ ~new.started /\ ~new.failed /\ ~new.succeeded
    <3>1. clock + 1 \in Nat
      BY <2>1
    <3> QED
      BY <3>1 DEF Life!Unborn, Run
  <2> HIDE DEF new
  <2>8. RunOf(object) = new
    BY <2>6, <2>7, SameRun
  <2>9. Runs' = [Runs EXCEPT ![j] = new] /\ Runs[j].state = "unborn"
    <3>1. Runs' = [Runs EXCEPT ![j] = RunOf(object)]
      BY <2>1, <2>5, RunWritten
    <3>2. Runs[j].state = "unborn"
      BY <2>1, RunType DEF Runs, Inv, TypeInv, TypeOK
    <3> QED
      BY <2>8, <3>1, <3>2
  <2>10. Life!Launch(j, e)
    BY <1>2, <1>4, <2>3, <2>9 DEF Life!Launch, Lives, Runs, ReportsMade, new
  <2> QED
    BY <2>10
<1> QED
  BY <1>3, <1>4 DEF CreateJob, UnbornJobs

LEMMA SimulatePrune ==
    ASSUME Inv, StaleSuperseded, PruneStale
    PROVE  (\E j \in Jobs : Life!Prune(j)) \/ UNCHANGED Life!vars
<1>1. UNCHANGED <<executions, clock>>
  BY DEF PruneStale
<1>2. CASE UNCHANGED jobs
  <2>1. UNCHANGED <<Lives, Runs, ReportsMade>>
    BY <1>1, <1>2 DEF Lives, Runs, ReportsMade
  <2> QED
    BY <1>1, <2>1, LifeStutters
<1>3. ASSUME NEW j \in stale, jobs[j].state = "live",
             jobs' = [jobs EXCEPT ![j].state = "pruned"]
      PROVE  j \in Jobs /\ Life!Prune(j)
  <2>1. j \in Jobs /\ jobs[j] \in Job
    BY DEF Inv, TypeInv, TypeOK
  <2>2. PICK k \in Jobs : jobs[k].owner = jobs[j].owner /\ jobs[j].created < jobs[k].created
    BY DEF StaleSuperseded, Superseded
  <2>3. jobs[k] \in Job
    BY DEF Inv, TypeInv, TypeOK
  <2>4. Life!Superseded(j)
    <3>1. /\ Runs[k].owner = Runs[j].owner /\ Runs[j].number < Runs[k].number
      BY <2>1, <2>2, <2>3, RunType DEF Runs
    <3> QED
      BY <3>1 DEF Life!Superseded, Runs
  <2> DEFINE object == [jobs[j] EXCEPT !.state = "pruned"]
  <2>5. object \in Job /\ RunOf(object) = [RunOf(jobs[j]) EXCEPT !.state = "pruned"]
    <3>1. "pruned" \in {"pruned", "lost"}
      OBVIOUS
    <3> QED
      BY <2>1, <3>1, RemovedRun, Zenon
  <2>6. jobs' = [jobs EXCEPT ![j] = object]
    BY <1>3
  <2> HIDE DEF object
  <2>7. Life!Becomes(j, RunOf(object))
    BY <1>1, <1>3, <2>1, <2>5, <2>6, JobBecomes
  <2>8. Life!Becomes(j, [Runs[j] EXCEPT !.state = "pruned"])
    BY <2>1, <2>5, <2>7 DEF Runs
  <2> QED
    BY <2>1, <2>4, <2>8 DEF Life!Prune, Runs
<1> QED
  BY <1>2, <1>3 DEF PruneStale, Newest

LEMMA SimulateLose ==
    ASSUME Inv, NEW j \in Jobs, LoseJob(j) \/ CollectJob(j)
    PROVE  Life!Lose(j)
<1> DEFINE object == [jobs[j] EXCEPT !.state = "lost"]
<1>1. /\ jobs[j].state = "live" /\ UNCHANGED <<executions, clock>>
      /\ jobs' = [jobs EXCEPT ![j] = object]
  BY DEF LoseJob, CollectJob, SetJob
<1>2. object \in Job /\ RunOf(object) = [RunOf(jobs[j]) EXCEPT !.state = "lost"]
  <2>1. "lost" \in {"pruned", "lost"} /\ jobs[j] \in Job
    BY DEF Inv, TypeInv, TypeOK
  <2> QED
    BY <2>1, RemovedRun, Zenon
<1> HIDE DEF object
<1>3. Life!Becomes(j, RunOf(object))
  BY <1>1, <1>2, JobBecomes
<1>4. Life!Becomes(j, [Runs[j] EXCEPT !.state = "lost"])
  BY <1>2, <1>3 DEF Runs
<1> QED
  BY <1>4 DEF Life!Lose, Runs

\* The Job controller's steps; that a Job completes is not told apart.
LEMMA SimulateRun ==
    ASSUME Inv, NEW j \in Jobs, RunJob(j)
    PROVE  Life!Progress(j) \/ UNCHANGED Life!vars
<1> DEFINE run == RunOf(jobs[j])
           started == [jobs[j] EXCEPT !.started = TRUE]
           failed == [jobs[j] EXCEPT !.failed = @ + 1]
           succeeded == [jobs[j] EXCEPT !.succeeded = 1]
           completed == [jobs[j] EXCEPT !.completed = TRUE]
           starts == [run EXCEPT !.started = TRUE]
           fails == [run EXCEPT !.started = TRUE, !.failed = TRUE]
           succeeds == [run EXCEPT !.started = TRUE, !.succeeded = TRUE]
<1>1. /\ jobs[j] \in Job /\ jobs[j].state = "live" /\ UNCHANGED <<executions, clock>>
      /\ jobs[j].succeeded > 0 => jobs[j].started
      /\ jobs[j].succeeded \in 0 .. 1 /\ jobs[j].failed \in Nat /\ jobs[j].started \in BOOLEAN
  BY ConstantsAssumption DEF RunJob, SetJob, Inv, TypeInv, TypeOK, JobInv, Job
<1>2. /\ run \in Run /\ run.state = jobs[j].state /\ run.owner = jobs[j].owner
      /\ run.number = jobs[j].created
      /\ run.started <=> jobs[j].started
      /\ run.failed <=> jobs[j].failed > 0
      /\ run.succeeded <=> jobs[j].succeeded > 0
  BY <1>1, RunType
<1>3. run = Runs[j]
  BY DEF Runs
<1> HIDE DEF run
<1>4. /\ starts \in Run /\ starts.state = run.state /\ starts.owner = run.owner
      /\ starts.number = run.number /\ starts.started
      /\ starts.failed <=> run.failed
      /\ starts.succeeded <=> run.succeeded
  BY <1>2 DEF Run
<1>5. /\ fails \in Run /\ fails.state = run.state /\ fails.owner = run.owner
      /\ fails.number = run.number /\ fails.started
      /\ fails.failed
      /\ fails.succeeded <=> run.succeeded
  BY <1>2 DEF Run
<1>6. /\ succeeds \in Run /\ succeeds.state = run.state /\ succeeds.owner = run.owner
      /\ succeeds.number = run.number /\ succeeds.started
      /\ succeeds.failed <=> run.failed
      /\ succeeds.succeeded
  BY <1>2 DEF Run
<1> HIDE DEF starts, fails, succeeds
<1>7. ASSUME NEW object \in Job, jobs' = [jobs EXCEPT ![j] = object]
      PROVE  /\ Life!Becomes(j, RunOf(object))
             /\ RunOf(object) \in Run /\ RunOf(object).state = object.state
             /\ RunOf(object).owner = object.owner /\ RunOf(object).number = object.created
             /\ RunOf(object).started <=> object.started
             /\ RunOf(object).failed <=> object.failed > 0
             /\ RunOf(object).succeeded <=> object.succeeded > 0
  BY <1>1, <1>7, JobBecomes, RunType
<1>8. CASE ~jobs[j].started /\ jobs' = [jobs EXCEPT ![j] = started]
  <2>1. /\ started \in Job /\ started.state = jobs[j].state /\ started.owner = jobs[j].owner
        /\ started.created = jobs[j].created /\ started.started
        /\ started.failed = jobs[j].failed /\ started.succeeded = jobs[j].succeeded
    BY <1>1 DEF Job
  <2>2. jobs' = [jobs EXCEPT ![j] = started]
    BY <1>8
  <2> HIDE DEF started
  <2>3. /\ Life!Becomes(j, RunOf(started))
        /\ RunOf(started) \in Run /\ RunOf(started).state = started.state
        /\ RunOf(started).owner = started.owner /\ RunOf(started).number = started.created
        /\ RunOf(started).started <=> started.started
        /\ RunOf(started).failed <=> started.failed > 0
        /\ RunOf(started).succeeded <=> started.succeeded > 0
    BY <1>7, <2>1, <2>2
  <2>4. RunOf(started) = starts
    BY <1>2, <1>4, <2>1, <2>3, SameRun
  <2>5. Life!Becomes(j, starts) /\ ~run.succeeded
    BY <1>1, <1>2, <1>8, <2>3, <2>4
  <2> QED
    BY <1>3, <2>5 DEF Life!Progress, Runs, starts
<1>9. CASE /\ jobs[j].started /\ jobs[j].succeeded = 0 /\ jobs[j].failed <= BackoffLimit
           /\ jobs' = [jobs EXCEPT ![j] = failed]
  <2>1. jobs[j].failed + 1 \in 0 .. BackoffLimit + 1
    BY <1>1, <1>9, ConstantsAssumption
  <2>2. /\ failed \in Job /\ failed.state = jobs[j].state /\ failed.owner = jobs[j].owner
        /\ failed.created = jobs[j].created /\ failed.started = jobs[j].started
        /\ failed.failed = jobs[j].failed + 1 /\ failed.succeeded = jobs[j].succeeded
    BY <1>1, <2>1 DEF Job
  <2>3. jobs' = [jobs EXCEPT ![j] = failed] /\ jobs[j].failed + 1 > 0
    BY <1>1, <1>9
  <2> HIDE DEF failed
  <2>4. /\ Life!Becomes(j, RunOf(failed))
        /\ RunOf(failed) \in Run /\ RunOf(failed).state = failed.state
        /\ RunOf(failed).owner = failed.owner /\ RunOf(failed).number = failed.created
        /\ RunOf(failed).started <=> failed.started
        /\ RunOf(failed).failed <=> failed.failed > 0
        /\ RunOf(failed).succeeded <=> failed.succeeded > 0
    BY <1>7, <2>2, <2>3
  <2>5. RunOf(failed) = fails
    BY <1>2, <1>5, <1>9, <2>2, <2>3, <2>4, SameRun
  <2>6. Life!Becomes(j, fails) /\ ~run.succeeded
    BY <1>2, <1>9, <2>4, <2>5
  <2> QED
    BY <1>3, <2>6 DEF Life!Progress, Runs, fails
<1>10. CASE jobs[j].started /\ jobs[j].succeeded = 0 /\ jobs' = [jobs EXCEPT ![j] = succeeded]
  <2>1. /\ succeeded \in Job /\ succeeded.state = jobs[j].state /\ succeeded.owner = jobs[j].owner
        /\ succeeded.created = jobs[j].created /\ succeeded.started = jobs[j].started
        /\ succeeded.failed = jobs[j].failed /\ succeeded.succeeded = 1
    BY <1>1 DEF Job
  <2>2. jobs' = [jobs EXCEPT ![j] = succeeded]
    BY <1>10
  <2> HIDE DEF succeeded
  <2>3. /\ Life!Becomes(j, RunOf(succeeded))
        /\ RunOf(succeeded) \in Run /\ RunOf(succeeded).state = succeeded.state
        /\ RunOf(succeeded).owner = succeeded.owner /\ RunOf(succeeded).number = succeeded.created
        /\ RunOf(succeeded).started <=> succeeded.started
        /\ RunOf(succeeded).failed <=> succeeded.failed > 0
        /\ RunOf(succeeded).succeeded <=> succeeded.succeeded > 0
    BY <1>7, <2>1, <2>2
  <2>4. RunOf(succeeded) = succeeds
    BY <1>2, <1>6, <1>10, <2>1, <2>3, SameRun
  <2>5. Life!Becomes(j, succeeds) /\ ~run.succeeded
    BY <1>2, <1>10, <2>3, <2>4
  <2> QED
    BY <1>3, <2>5 DEF Life!Progress, Runs, succeeds
<1>11. CASE jobs' = [jobs EXCEPT ![j] = completed]
  <2>1. /\ completed \in Job /\ completed.state = jobs[j].state
        /\ completed.owner = jobs[j].owner /\ completed.created = jobs[j].created
        /\ completed.started = jobs[j].started /\ completed.failed = jobs[j].failed
        /\ completed.succeeded = jobs[j].succeeded
    BY <1>1 DEF Job
  <2>2. jobs' = [jobs EXCEPT ![j] = completed]
    BY <1>11
  <2> HIDE DEF completed
  <2>3. /\ Life!Becomes(j, RunOf(completed))
        /\ RunOf(completed) \in Run /\ RunOf(completed).state = completed.state
        /\ RunOf(completed).owner = completed.owner /\ RunOf(completed).number = completed.created
        /\ RunOf(completed).started <=> completed.started
        /\ RunOf(completed).failed <=> completed.failed > 0
        /\ RunOf(completed).succeeded <=> completed.succeeded > 0
    BY <1>7, <2>1, <2>2
  <2>4. RunOf(completed) = run
    BY <1>2, <2>1, <2>3, SameRun
  <2>5. UNCHANGED Runs
    <3>1. Runs' = [Runs EXCEPT ![j] = run]
      BY <2>2, <2>4, RunWritten
    <3> QED
      BY <1>3, <3>1 DEF Runs
  <2>6. UNCHANGED <<Lives, ReportsMade>>
    BY <1>1 DEF Lives, ReportsMade
  <2> QED
    BY <1>1, <2>5, <2>6, LifeStutters
<1> QED
  BY <1>8, <1>9, <1>10, <1>11 DEF RunJob, SetJob

\* Both modules order the phases alike.
LEMMA SameRank ==
    /\ \A phase : Life!Rank(phase) = Rank(phase)
    /\ Life!Phases = Phases
<1>1. Life!NoPhase = NoPhase
  BY Zenon DEF Life!NoPhase, NoPhase
<1> QED
  BY <1>1 DEF Life!Rank, Rank, Life!Phases, Phases

\* What the controller reports of a Job has happened to it, and follows what
\* it has reported before.
LEMMA SimulateReport ==
    ASSUME Inv, OrderInv, WorkNewer, UpdateStatus, NEW e \in Executions, Reporting(e)
    PROVE  (\E j \in Jobs, phase \in Phases : Life!Report(e, j, phase)) \/ UNCHANGED Life!vars
<1> DEFINE phase == Phase(jobSeen)
           object == Updated(execution, StatusFrom(execution.status, job, jobSeen))
<1>1. /\ pc = "update" /\ req = e
      /\ executions[e].state = "live" /\ executions[e].version = execution.version
      /\ executions' = [executions EXCEPT ![e] = object]
      /\ UNCHANGED <<jobs, clock>>
  BY DEF Reporting, UpdateStatus
<1>2. PICK j \in Jobs : j = job
  BY <1>1 DEF Inv, TypeInv, WorkerInv
<1>3. /\ jobSeen \in Job /\ jobs[j] \in Job
      /\ Precedes(jobSeen, jobs[j]) /\ jobSeen.owner = e /\ jobs[j].owner = e
  BY <1>1, <1>2, ConstantsAssumption DEF Inv, TypeInv, TypeOK, CopiesInv, JobSeenInv, Precedes
<1>4. phase \in Phases
  BY <1>3, PrecedesReflexive, PhaseGrows
<1>5. execution.status = executions[e].status /\ execution.status \in Status
  BY <1>1, WorkCopy DEF OrderInv, VersionsInv, Inv, TypeInv, TypeOK, Execution
<1>6. object.state = "live" /\ ReportOf(object) = [phase |-> phase, job |-> j]
  BY <1>2 DEF Updated, StatusFrom, ReportOf
<1> HIDE DEF object
<1>7. /\ Lives' = [Lives EXCEPT ![e] = "live"] /\ Lives[e] = "live"
      /\ ReportsMade' = [ReportsMade EXCEPT ![e] = [phase |-> phase, job |-> j]]
  <2>1. /\ Lives' = [Lives EXCEPT ![e] = object.state]
        /\ ReportsMade' = [ReportsMade EXCEPT ![e] = ReportOf(object)]
    BY <1>1, ReportWritten
  <2> QED
    BY <1>1, <1>6, <2>1 DEF Lives
<1>8. UNCHANGED <<Lives, Runs, clock>>
  BY <1>1, <1>7 DEF Lives, Runs
<1> DEFINE last == ReportsMade[e]
<1>9. last.phase = execution.status.phase /\ last.job = execution.status.jobName
      /\ last = [phase |-> execution.status.phase, job |-> execution.status.jobName]
  BY <1>5 DEF ReportsMade, ReportOf
<1> HIDE DEF phase
<1>10. CASE last.job = j /\ last.phase = phase
  <2>1. ReportsMade[e] = [phase |-> phase, job |-> j]
    BY <1>9, <1>10
  <2>2. UNCHANGED ReportsMade
    BY <1>7, <2>1 DEF ReportsMade
  <2> QED
    BY <1>8, <2>2, LifeStutters
<1>11. CASE ~(last.job = j /\ last.phase = phase)
  <2>1. /\ Runs[j].owner = e /\ Runs[j].number = jobs[j].created
        /\ Runs[j].started <=> jobs[j].started
        /\ Runs[j].failed <=> jobs[j].failed > 0
        /\ Runs[j].succeeded <=> jobs[j].succeeded > 0
    BY <1>3, RunType DEF Runs
  <2>2. Life!Shows(Runs[j], phase)
    <3>1. /\ jobSeen.failed \in Nat /\ jobSeen.succeeded \in Nat
          /\ jobs[j].failed \in Nat /\ jobs[j].succeeded \in Nat
      BY <1>3, ConstantsAssumption DEF Job
    <3>2. /\ phase = "Failed" => jobs[j].failed > 0
          /\ phase = "Running" => jobs[j].started
          /\ phase = "Succeeded" => jobs[j].succeeded > 0 /\ ~(jobs[j].failed > 0)
      BY <1>3, <3>1 DEF phase, Phase, Precedes
    <3> QED
      BY <1>4, <2>1, <3>2 DEF Life!Shows, Phases
  <2>3. Life!Follows(j, phase, ReportsMade[e])
    <3>1. CASE last.job = j
      <4>1. Rank(last.phase) < Rank(phase)
        BY <1>1, <1>2, <1>9, <1>11, <3>1 DEF OrderInv, WorkShown, Shown, phase
      <4> QED
        BY <3>1, <4>1, SameRank DEF Life!Follows
    <3>2. CASE last.job # j /\ last.job # NoJob
      <4>1. PICK k \in Jobs : k = last.job
        BY <1>5, <1>9, <3>2 DEF Status
      <4>2. jobs[k].state # "live" \/ jobs[k].created < jobs[j].created
        BY <1>1, <1>2, <1>9, <3>2, <4>1 DEF WorkNewer
      <4>3. Runs[k].state = jobs[k].state /\ Runs[k].number = jobs[k].created
        BY RunType DEF Runs, Inv, TypeInv, TypeOK
      <4>4. Runs[last.job].state # "live" \/ Runs[last.job].number < Runs[j].number
        BY <2>1, <4>1, <4>2, <4>3
      <4> QED
        BY <3>2, <4>4 DEF Life!Follows, Runs
    <3>3. CASE last.job = NoJob /\ last.job # j
      BY <3>3 DEF Life!Follows
    <3> QED
      BY <3>1, <3>2, <3>3
  <2>4. Life!Report(e, j, phase)
    BY <1>7, <1>8, <2>1, <2>2, <2>3 DEF Life!Report, Lives, Runs, ReportsMade
  <2> QED
    BY <1>4, <2>4
<1> QED
  BY <1>10, <1>11

LEMMA LifeInit == Init => Life!Init
<1> SUFFICES ASSUME Init PROVE Life!Init
  OBVIOUS
<1>1. /\ executions = [e \in Executions |-> UnbornExecution]
      /\ jobs = [j \in Jobs |-> UnbornJob] /\ clock = 0
  BY DEF Init
<1>2. Lives = [e \in Executions |-> "unborn"]
  BY <1>1 DEF Lives, UnbornExecution
<1>3. Runs = [j \in Jobs |-> Life!Unborn]
  <2> DEFINE run == RunOf(UnbornJob)
  <2>1. /\ run \in Run /\ run.state = "unborn" /\ run.owner = NoExecution /\ run.number = 0
        /\ ~run.started /\ ~run.failed /\ ~run.succeeded
    BY UnbornTypes, RunType DEF UnbornJob
  <2>2. /\ Life!Unborn \in Run /\ Life!Unborn.state = "unborn"
        /\ Life!Unborn.owner = NoExecution /\ Life!Unborn.number = 0
        /\ ~Life!Unborn.started /\ ~Life!Unborn.failed /\ ~Life!Unborn.succeeded
    BY DEF Life!Unborn, Run
  <2> HIDE DEF run
  <2>3. run = Life!Unborn
    BY <2>1, <2>2, SameRun
  <2> QED
    BY <1>1, <2>3 DEF Runs, run
<1>4. ReportsMade = [e \in Executions |-> Life!NoReport]
  <2>1. NoPhase = Life!NoPhase
    BY Zenon DEF NoPhase, Life!NoPhase
  <2>2. ReportOf(UnbornExecution) = Life!NoReport
    BY <2>1 DEF ReportOf, UnbornExecution, NoStatus, Life!NoReport
  <2> QED
    BY <1>1, <2>2 DEF ReportsMade
<1> QED
  BY <1>1, <1>2, <1>3, <1>4 DEF Life!Init, Lives, Runs, ReportsMade

LEMMA LifeStep ==
    ASSUME Inv, OrderInv, StaleSuperseded, WorkNewer, [Next]_vars
    PROVE  [Life!Next]_Life!vars
<1>1. CASE UNCHANGED <<executions, jobs, clock>>
  <2>1. UNCHANGED <<Lives, Runs, ReportsMade>>
    BY <1>1 DEF Lives, Runs, ReportsMade
  <2> QED
    BY <1>1, <2>1, LifeStutters
<1>2. ASSUME NEW e \in Executions,
             CreateExecution(e) \/ EditExecution(e) \/ DeleteExecution(e)
      PROVE  [Life!Next]_Life!vars
  <2>1. Life!Appear(e) \/ Life!Vanish(e) \/ UNCHANGED Life!vars
    BY <1>2, SimulateExecution DEF OrderInv
  <2>2. Life!Appear(e) \/ Life!Vanish(e) => [Life!Next]_Life!vars
    BY DEF Life!Appear, Life!Vanish, Life!Next, Life!vars
  <2> QED
    BY <2>1, <2>2
<1>3. ASSUME NEW e \in Executions, UpdateStatus, Reporting(e)
      PROVE  [Life!Next]_Life!vars
  <2>1. (\E j \in Jobs, phase \in Phases : Life!Report(e, j, phase)) \/ UNCHANGED Life!vars
    BY <1>3, SimulateReport
  <2> QED
    BY <2>1, LifeSteps, SameRank
<1>4. CASE PruneStale
  BY <1>4, SimulatePrune, RunSteps
<1>5. CASE CreateJob
  BY <1>5, SimulateCreateJob, LifeSteps DEF OrderInv
<1>6. ASSUME NEW j \in Jobs, RunJob(j) \/ LoseJob(j) \/ CollectJob(j)
      PROVE  [Life!Next]_Life!vars
  BY <1>6, SimulateRun, SimulateLose, RunSteps
<1> QED
  BY <1>1, <1>2, <1>3, <1>4, <1>5, <1>6, JobWriters, ExecutionWriters
  DEF PruneStale, CreateJob, RunJob, LoseJob, CollectJob, SetJob, cluster

\* When Jobs carry different creationTimestamps the reconciler implements the
\* abstract controller: whatever its copies, errors and restarts, each step
\* that others can see is a launch, a pruning of a superseded run or a report
\* that follows the last one (lines 61-160 and 277-309).
THEOREM Refinement == ASSUME ~SameSecond PROVE Spec => ImplementsLife
<1> DEFINE AllInv == Inv /\ WatchInv /\ AgeInv /\ OrderInv /\ WorkNewer
<1>1. Init => AllInv /\ Life!Init
  BY InvInit, WatchInit, AgeInit, OrderInit, LifeInit DEF Init, WorkNewer
<1>2. AllInv /\ [Next]_vars => AllInv'
  BY InvStep, WatchStep, AgeStep, OrderStep, WorkNewerStep DEF WatchInv, AgeInv
<1>3. AllInv /\ [Next]_vars => [Life!Next]_Life!vars
  BY LifeStep DEF AgeInv
<1> QED
  BY <1>1, <1>2, <1>3, PTL DEF Spec, ImplementsLife, Life!Spec

===============================================================================

------------------------ MODULE ExecutionSettledProofs ------------------------
(***************************************************************************)
(* No wakeup of the TofuExecution reconciler is lost, for any executions,  *)
(* Job names, backoff limit and lag, as long as no delete fails.           *)
(*                                                                         *)
(* The inductive invariant says that caches and events in flight together  *)
(* give the state of the cluster, that the worker has what the caches have *)
(* or will look again, and of every execution to which no reconcile is due *)
(* that its last one found nothing to do.                                  *)
(***************************************************************************)
EXTENDS ExecutionControllerProofs, SequenceLemmas

\* Whoever knows a Job knows its execution; events are of Jobs that exist.
Owned(object) ==
    IF object.state = "unborn" THEN object.owner = NoExecution ELSE object.owner \in Executions

OwnersInv ==
    /\ \A j \in Jobs : Owned(jobCache[j])
    /\ \A i \in 1 .. Len(jobWatch) :
        jobWatch[i].object.state # "unborn" /\ jobWatch[i].object.owner \in Executions

\* The caches have what the last event, if there is one, will make of them.
ExecutionsSynced == Synced(Executions, executions, executionCache, executionWatch)
JobsSynced == Synced(Jobs, jobs, jobCache, jobWatch)

WatchInv == OwnersInv /\ ExecutionsSynced /\ JobsSynced

\* The worker has the objects as they are in the caches, or its key is queued
\* again.  The Jobs it has pruned are still to be seen to go.
WorkerCurrent ==
    /\ pc = "update" => stale = {}
    /\ pc # "idle" /\ req \notin queue =>
        /\ execution = executionCache[req]
        /\ pc \in {"prune", "update"} =>
            /\ job \in OwnedJobs(req) /\ jobSeen = jobCache[job]
            /\ \/ OwnedJobs(req) = {job} \cup stale
               \/ \E i \in 1 .. Len(jobWatch) : jobWatch[i].object.owner = req

Attended(e) ==
    \/ e \in queue \cup timers
    \/ pc # "idle" /\ req = e
    \/ \E i \in 1 .. Len(executionWatch) : executionWatch[i].name = e
    \/ \E i \in 1 .. Len(jobWatch) : jobWatch[i].object.owner = e

NothingToDo(e) ==
    \E j \in Jobs :
        /\ OwnedJobs(e) = {j}
        /\ executionCache[e].status = StatusFrom(executionCache[e].status, j, jobCache[j])
        /\ IsExecutionTerminal(executionCache[e].status.phase)

NothingForgotten ==
    \A e \in Executions : executionCache[e].state = "live" => Attended(e) \/ NothingToDo(e)

----------------------------------------------------------------------------
(* Steps and events.                                                       *)

WriteJob(j, object) ==
    /\ jobs' = [jobs EXCEPT ![j] = object]
    /\ jobWatch' = Append(jobWatch, [name |-> j, object |-> object])
    /\ object.state # "unborn" /\ object.owner \in Executions
    /\ UNCHANGED jobCache

WriteExecution(e, object) ==
    /\ executions' = [executions EXCEPT ![e] = object]
    /\ executionWatch' = Append(executionWatch, [name |-> e, object |-> object])
    /\ UNCHANGED executionCache

LEMMA JobSteps ==
    ASSUME Inv, [Next]_vars
    PROVE  \/ UNCHANGED <<jobs, jobWatch, jobCache>>
           \/ DeliverJob /\ UNCHANGED jobs
           \/ Restart
           \/ \E j \in Jobs, object \in Job : WriteJob(j, object)
<1>1. /\ jobs \in [Jobs -> Job] /\ jobs' \in [Jobs -> Job]
      /\ \A j \in Jobs : Precedes(jobs[j], jobs'[j])
      /\ JobInv'
  BY InvStep, JobStep DEF Inv, TypeInv, TypeOK, Progress
<1>2. ASSUME NEW j \in Jobs, \A k \in Jobs \ {j} : jobs'[k] = jobs[k],
             jobWatch' = Append(jobWatch, Event(j, jobs'[j])), UNCHANGED jobCache,
             jobs[j].state # "unborn" \/ jobs'[j].state # "unborn"
      PROVE  \E k \in Jobs, object \in Job : WriteJob(k, object)
  <2>1. jobs' = [jobs EXCEPT ![j] = jobs'[j]]
    BY <1>1, <1>2
  <2>2. jobs'[j].state # "unborn" /\ jobs'[j].owner \in Executions
    BY <1>1, <1>2 DEF JobInv, Precedes
  <2>3. WriteJob(j, jobs'[j])
    BY <1>2, <2>1, <2>2 DEF WriteJob, Event
  <2> QED
    BY <1>1, <2>3
<1>3. CASE PruneStale
  <2>1. UNCHANGED jobCache
    BY <1>3 DEF PruneStale
  <2>2. \/ UNCHANGED <<jobs, jobWatch>>
        \/ \E j \in Jobs : /\ jobs[j].state = "live" /\ jobs' = [jobs EXCEPT ![j].state = "pruned"]
                           /\ jobWatch' = Append(jobWatch, Event(j, jobs'[j]))
    BY <1>3 DEF PruneStale, Newest, Notify, Inv, TypeInv, TypeOK
  <2> QED
    BY <1>1, <1>2, <2>1, <2>2
<1>4. CASE CreateJob
  <2>1. UNCHANGED jobCache
    BY <1>4 DEF CreateJob
  <2>2. \/ UNCHANGED <<jobs, jobWatch>>
        \/ \E j \in Jobs : /\ jobs' = [jobs EXCEPT ![j] = NewJob(req, clock')]
                           /\ jobWatch' = Append(jobWatch, Event(j, jobs'[j]))
    BY <1>4 DEF CreateJob, UnbornJobs, Notify
  <2> QED
    BY <1>1, <1>2, <2>1, <2>2 DEF NewJob
<1>5. ASSUME NEW j \in Jobs, RunJob(j) \/ LoseJob(j) \/ CollectJob(j)
      PROVE  \E k \in Jobs, object \in Job : WriteJob(k, object)
  <2>1. jobs[j].state = "live" /\ \E object : SetJob(j, object)
    BY <1>5 DEF RunJob, LoseJob, CollectJob
  <2>2. /\ \A k \in Jobs \ {j} : jobs'[k] = jobs[k]
        /\ jobWatch' = Append(jobWatch, Event(j, jobs'[j])) /\ UNCHANGED jobCache
    BY <1>1, <2>1 DEF SetJob, Notify
  <2> QED
    BY <1>2, <2>1, <2>2
<1> QED
  BY <1>3, <1>4, <1>5
  DEF Next, vars, cluster, informers, StartReconcile, TimerFires, Resync, CreateExecution,
      EditExecution, DeleteExecution, SetExecution, ListJobs, UpdateStatus, DeliverExecution,
      DeliverJob, ModuleChanges

LEMMA ExecutionSteps ==
    ASSUME Inv, [Next]_vars
    PROVE  \/ UNCHANGED <<executions, executionWatch, executionCache>>
           \/ DeliverExecution /\ UNCHANGED executions
           \/ Restart
           \/ \E e \in Executions, object \in Execution : WriteExecution(e, object)
<1>1. UNCHANGED executionCache \/ DeliverExecution \/ Restart
  BY DEF Next, vars, informers, StartReconcile, TimerFires, Resync, CreateExecution,
         EditExecution, DeleteExecution, SetExecution, ListJobs, PruneStale, CreateJob,
         UpdateStatus, DeliverJob, RunJob, LoseJob, CollectJob, SetJob, ModuleChanges
<1>2. DeliverExecution => UNCHANGED executions
  BY DEF DeliverExecution, cluster
<1> QED
  BY <1>1, <1>2, ExecutionWrite DEF Inv, WriteExecution, Event

LEMMA JobEvents ==
    ASSUME Inv
    PROVE  /\ jobWatch \in Seq([name: Jobs, object: Job]) /\ Len(jobWatch) \in Nat
           /\ \A i \in 1 .. Len(jobWatch) : jobWatch[i].name \in Jobs /\ jobWatch[i].object \in Job
           /\ jobWatch # <<>> =>
                /\ Head(jobWatch) = jobWatch[1] /\ 1 \in 1 .. Len(jobWatch)
                /\ Len(Tail(jobWatch)) = Len(jobWatch) - 1
                /\ \A i \in 1 .. Len(Tail(jobWatch)) :
                    i + 1 \in 1 .. Len(jobWatch) /\ Tail(jobWatch)[i] = jobWatch[i + 1]
<1>1. jobWatch \in Seq([name: Jobs, object: Job])
  BY DEF Inv, TypeInv, TypeOK, EventsOf
<1>2. /\ DOMAIN jobWatch = 1 .. Len(jobWatch) /\ Len(jobWatch) \in Nat
      /\ \A i \in DOMAIN jobWatch : jobWatch[i] \in [name: Jobs, object: Job]
  BY <1>1, Elements
<1>3. jobWatch # <<>> =>
        /\ Head(jobWatch) = jobWatch[1] /\ 1 \in 1 .. Len(jobWatch)
        /\ Len(Tail(jobWatch)) = Len(jobWatch) - 1
        /\ \A i \in 1 .. Len(Tail(jobWatch)) : i + 1 \in 1 .. Len(jobWatch) /\ Tail(jobWatch)[i] = jobWatch[i + 1]
  BY <1>1, Taken
<1> QED
  BY <1>1, <1>2, <1>3

LEMMA ExecutionEvents ==
    ASSUME Inv
    PROVE  /\ executionWatch \in Seq([name: Executions, object: Execution])
           /\ Len(executionWatch) \in Nat
           /\ \A i \in 1 .. Len(executionWatch) :
                executionWatch[i].name \in Executions /\ executionWatch[i].object \in Execution
           /\ executionWatch # <<>> =>
                /\ Head(executionWatch) = executionWatch[1] /\ 1 \in 1 .. Len(executionWatch)
                /\ Len(Tail(executionWatch)) = Len(executionWatch) - 1
                /\ \A i \in 1 .. Len(Tail(executionWatch)) :
                    /\ i + 1 \in 1 .. Len(executionWatch)
                    /\ Tail(executionWatch)[i] = executionWatch[i + 1]
<1>1. executionWatch \in Seq([name: Executions, object: Execution])
  BY DEF Inv, TypeInv, TypeOK, EventsOf
<1>2. /\ DOMAIN executionWatch = 1 .. Len(executionWatch) /\ Len(executionWatch) \in Nat
      /\ \A i \in DOMAIN executionWatch : executionWatch[i] \in [name: Executions, object: Execution]
  BY <1>1, Elements
<1>3. executionWatch # <<>> =>
        /\ Head(executionWatch) = executionWatch[1] /\ 1 \in 1 .. Len(executionWatch)
        /\ Len(Tail(executionWatch)) = Len(executionWatch) - 1
        /\ \A i \in 1 .. Len(Tail(executionWatch)) : i + 1 \in 1 .. Len(executionWatch) /\ Tail(executionWatch)[i] = executionWatch[i + 1]
  BY <1>1, Taken
<1> QED
  BY <1>1, <1>2, <1>3

\* An event that a write adds comes last.
LEMMA JobAppended ==
    ASSUME Inv, NEW j \in Jobs, NEW object \in Job, WriteJob(j, object)
    PROVE  /\ Len(jobWatch') = Len(jobWatch) + 1
           /\ \A i \in 1 .. Len(jobWatch) : jobWatch'[i] = jobWatch[i] /\ i \in 1 .. Len(jobWatch')
           /\ Len(jobWatch) + 1 \in 1 .. Len(jobWatch')
           /\ jobWatch'[Len(jobWatch) + 1].name = j
           /\ jobWatch'[Len(jobWatch) + 1].object = object
<1> DEFINE event == [name |-> j, object |-> object]
<1>1. /\ event \in [name: Jobs, object: Job] /\ event.name = j /\ event.object = object
      /\ jobWatch' = Append(jobWatch, event)
  BY DEF WriteJob
<1> HIDE DEF event
<1>2. jobWatch \in Seq([name: Jobs, object: Job]) /\ Len(jobWatch) \in Nat
      /\ DOMAIN jobWatch = 1 .. Len(jobWatch)
  BY JobEvents, Elements
<1>3. /\ Len(jobWatch') = Len(jobWatch) + 1 /\ jobWatch'[Len(jobWatch) + 1] = event
      /\ \A i \in DOMAIN jobWatch : jobWatch'[i] = jobWatch[i]
  BY <1>1, <1>2, Appended
<1> QED
  BY <1>1, <1>2, <1>3

LEMMA ExecutionAppended ==
    ASSUME Inv, NEW e \in Executions, NEW object \in Execution, WriteExecution(e, object)
    PROVE  /\ Len(executionWatch') = Len(executionWatch) + 1
           /\ \A i \in 1 .. Len(executionWatch) :
                executionWatch'[i] = executionWatch[i] /\ i \in 1 .. Len(executionWatch')
           /\ Len(executionWatch) + 1 \in 1 .. Len(executionWatch')
           /\ executionWatch'[Len(executionWatch) + 1].name = e
           /\ executionWatch'[Len(executionWatch) + 1].object = object
<1> DEFINE event == [name |-> e, object |-> object]
<1>1. /\ event \in [name: Executions, object: Execution]
      /\ event.name = e /\ event.object = object
      /\ executionWatch' = Append(executionWatch, event)
  BY DEF WriteExecution
<1> HIDE DEF event
<1>2. executionWatch \in Seq([name: Executions, object: Execution]) /\ Len(executionWatch) \in Nat
      /\ DOMAIN executionWatch = 1 .. Len(executionWatch)
  BY ExecutionEvents, Elements
<1>3. /\ Len(executionWatch') = Len(executionWatch) + 1
      /\ executionWatch'[Len(executionWatch) + 1] = event
      /\ \A i \in DOMAIN executionWatch : executionWatch'[i] = executionWatch[i]
  BY <1>1, <1>2, Appended
<1> QED
  BY <1>1, <1>2, <1>3

----------------------------------------------------------------------------
(* Caches and events together give the state of the cluster.               *)

LEMMA OwnersStep ==
    ASSUME Inv, OwnersInv, [Next]_vars
    PROVE  OwnersInv'
<1>1. CASE UNCHANGED <<jobs, jobWatch, jobCache>>
  BY <1>1 DEF OwnersInv, Owned
<1>2. CASE DeliverJob
  <2>1. /\ jobWatch # <<>> /\ jobWatch' = Tail(jobWatch)
        /\ jobCache' = [jobCache EXCEPT ![Head(jobWatch).name] = Head(jobWatch).object]
    BY <1>2 DEF DeliverJob
  <2>2. /\ jobCache' = [jobCache EXCEPT ![jobWatch[1].name] = jobWatch[1].object]
        /\ 1 \in 1 .. Len(jobWatch) /\ jobCache \in [Jobs -> Job]
    BY <2>1, JobEvents DEF Inv, TypeInv, TypeOK
  <2>3. \A j \in Jobs : Owned(jobCache'[j])
    BY <2>2 DEF OwnersInv, Owned
  <2>4. \A i \in 1 .. Len(jobWatch') : i + 1 \in 1 .. Len(jobWatch) /\ jobWatch'[i] = jobWatch[i + 1]
    BY <2>1, JobEvents
  <2> QED
    BY <2>3, <2>4 DEF OwnersInv, Owned
<1>3. CASE Restart
  <2>1. jobCache' = jobs /\ jobWatch' = <<>>
    BY <1>3 DEF Restart
  <2>2. \A j \in Jobs : Owned(jobs[j])
    BY DEF Inv, JobInv, Owned, UnbornJob
  <2> QED
    BY <2>1, <2>2, EmptySeq DEF OwnersInv, Owned
<1>4. ASSUME NEW j \in Jobs, NEW object \in Job, WriteJob(j, object)
      PROVE  OwnersInv'
  <2>1. jobCache' = jobCache /\ object.state # "unborn" /\ object.owner \in Executions
    BY <1>4 DEF WriteJob
  <2>2. \A i \in 1 .. Len(jobWatch') : i \in 1 .. Len(jobWatch) \/ i = Len(jobWatch) + 1
    BY <1>4, JobAppended, JobEvents
  <2> QED
    BY <1>4, <2>1, <2>2, JobAppended DEF OwnersInv, Owned
<1> QED
  BY <1>1, <1>2, <1>3, <1>4, JobSteps

LEMMA JobsSyncedStep ==
    ASSUME Inv, JobsSynced, [Next]_vars
    PROVE  JobsSynced'
<1>1. /\ jobs \in [Jobs -> Job] /\ jobCache \in [Jobs -> Job]
      /\ jobWatch \in Seq([name: Jobs, object: Job])
  BY DEF Inv, TypeInv, TypeOK, EventsOf
<1>2. CASE UNCHANGED <<jobs, jobWatch, jobCache>>
  BY <1>2 DEF JobsSynced, Synced
<1>3. CASE DeliverJob /\ UNCHANGED jobs
  <2>1. /\ jobWatch # <<>> /\ jobWatch' = Tail(jobWatch)
        /\ jobCache' = [jobCache EXCEPT ![Head(jobWatch).name] = Head(jobWatch).object]
    BY <1>3 DEF DeliverJob
  <2>2. Synced(Jobs, jobs, jobCache', jobWatch')
    BY <1>1, <2>1, SyncedWhenDelivered DEF JobsSynced
  <2> QED
    BY <1>3, <2>2 DEF JobsSynced, Synced
<1>4. CASE Restart
  <2>1. jobCache' = jobs' /\ jobWatch' = <<>>
    BY <1>4 DEF Restart, cluster
  <2>2. Synced(Jobs, jobs', jobCache', jobWatch')
    BY <2>1, SyncedWhenEmpty
  <2> QED
    BY <2>2 DEF JobsSynced, Synced
<1>5. ASSUME NEW j \in Jobs, NEW object \in Job, WriteJob(j, object)
      PROVE  JobsSynced'
  <2>1. Synced(Jobs, [jobs EXCEPT ![j] = object], jobCache,
               Append(jobWatch, [name |-> j, object |-> object]))
    BY <1>1, SyncedWhenWritten DEF JobsSynced
  <2>2. Synced(Jobs, jobs', jobCache', jobWatch')
    BY <1>5, <2>1 DEF WriteJob
  <2> QED
    BY <2>2 DEF JobsSynced, Synced
<1> QED
  BY <1>2, <1>3, <1>4, <1>5, JobSteps

LEMMA ExecutionsSyncedStep ==
    ASSUME Inv, ExecutionsSynced, [Next]_vars
    PROVE  ExecutionsSynced'
<1>1. /\ executions \in [Executions -> Execution] /\ executionCache \in [Executions -> Execution]
      /\ executionWatch \in Seq([name: Executions, object: Execution])
  BY DEF Inv, TypeInv, TypeOK, EventsOf
<1>2. CASE UNCHANGED <<executions, executionWatch, executionCache>>
  BY <1>2 DEF ExecutionsSynced, Synced
<1>3. CASE DeliverExecution /\ UNCHANGED executions
  <2>1. /\ executionWatch # <<>> /\ executionWatch' = Tail(executionWatch)
        /\ executionCache' =
                [executionCache EXCEPT ![Head(executionWatch).name] = Head(executionWatch).object]
    BY <1>3 DEF DeliverExecution
  <2>2. Synced(Executions, executions, executionCache', executionWatch')
    BY <1>1, <2>1, SyncedWhenDelivered DEF ExecutionsSynced
  <2> QED
    BY <1>3, <2>2 DEF ExecutionsSynced, Synced
<1>4. CASE Restart
  <2>1. executionCache' = executions' /\ executionWatch' = <<>>
    BY <1>4 DEF Restart, cluster
  <2>2. Synced(Executions, executions', executionCache', executionWatch')
    BY <2>1, SyncedWhenEmpty
  <2> QED
    BY <2>2 DEF ExecutionsSynced, Synced
<1>5. ASSUME NEW e \in Executions, NEW object \in Execution, WriteExecution(e, object)
      PROVE  ExecutionsSynced'
  <2>1. Synced(Executions, [executions EXCEPT ![e] = object], executionCache,
               Append(executionWatch, [name |-> e, object |-> object]))
    BY <1>1, SyncedWhenWritten DEF ExecutionsSynced
  <2>2. Synced(Executions, executions', executionCache', executionWatch')
    BY <1>5, <2>1 DEF WriteExecution
  <2> QED
    BY <2>2 DEF ExecutionsSynced, Synced
<1> QED
  BY <1>2, <1>3, <1>4, <1>5, ExecutionSteps

LEMMA WatchInit == Init => WatchInv
<1> SUFFICES ASSUME Init PROVE WatchInv
  OBVIOUS
<1>1. /\ executionCache = executions /\ jobCache = jobs
      /\ executionWatch = <<>> /\ jobWatch = <<>>
      /\ \A j \in Jobs : jobs[j] = UnbornJob
  BY DEF Init
<1>2. OwnersInv
  BY <1>1, EmptySeq DEF OwnersInv, Owned, UnbornJob
<1> QED
  BY <1>1, <1>2, SyncedWhenEmpty DEF WatchInv, ExecutionsSynced, JobsSynced

LEMMA WatchStep ==
    ASSUME Inv, WatchInv, [Next]_vars
    PROVE  WatchInv'
BY OwnersStep, JobsSyncedStep, ExecutionsSyncedStep DEF WatchInv

----------------------------------------------------------------------------
(* What is in flight, and what is not.                                     *)

LEMMA KnownOwners ==
    ASSUME Inv, OwnersInv
    PROVE  /\ \A j \in Jobs : jobCache[j].state # "unborn" => jobs[j].owner = jobCache[j].owner
           /\ \A i \in 1 .. Len(jobWatch) :
                jobs[jobWatch[i].name].owner = jobWatch[i].object.owner
BY ConstantsAssumption DEF Inv, CopiesInv, JobCacheInv, JobWatchInv, Precedes, OwnersInv, Owned

\* As long as its key is not queued the manager's knowledge of an execution
\* stays, and so does what is in flight.
LEMMA Unqueued ==
    ASSUME Inv, OwnersInv, [Next]_vars, ~Restart, NEW e \in Executions, e \notin queue'
    PROVE  /\ executionCache'[e] = executionCache[e]
           /\ OwnedJobs(e)' = OwnedJobs(e)
           /\ \A j \in OwnedJobs(e) : jobCache'[j] = jobCache[j]
           /\ \A i \in 1 .. Len(executionWatch) : executionWatch[i].name = e =>
                \E k \in 1 .. Len(executionWatch') : executionWatch'[k].name = e
           /\ \A i \in 1 .. Len(jobWatch) : jobWatch[i].object.owner = e =>
                \E k \in 1 .. Len(jobWatch') : jobWatch'[k].object.owner = e
<1> DEFINE ExecutionsStay ==
             /\ executionCache'[e] = executionCache[e]
             /\ \A i \in 1 .. Len(executionWatch) : executionWatch[i].name = e =>
                    \E k \in 1 .. Len(executionWatch') : executionWatch'[k].name = e
           JobsStay ==
             /\ OwnedJobs(e)' = OwnedJobs(e)
             /\ \A j \in OwnedJobs(e) : jobCache'[j] = jobCache[j]
             /\ \A i \in 1 .. Len(jobWatch) : jobWatch[i].object.owner = e =>
                    \E k \in 1 .. Len(jobWatch') : jobWatch'[k].object.owner = e
<1>1. ASSUME UNCHANGED <<executions, executionWatch, executionCache>> PROVE ExecutionsStay
  BY <1>1
<1>2. ASSUME DeliverExecution PROVE ExecutionsStay
  <2>1. /\ executionCache' = [executionCache EXCEPT ![executionWatch[1].name] = executionWatch[1].object]
        /\ executionWatch[1].name # e /\ Len(executionWatch) \in Nat
        /\ Len(executionWatch') = Len(executionWatch) - 1
        /\ \A i \in 1 .. Len(executionWatch') : executionWatch'[i] = executionWatch[i + 1]
    BY <1>2, ExecutionEvents DEF DeliverExecution
  <2>2. executionCache'[e] = executionCache[e]
    BY <2>1 DEF Inv, TypeInv, TypeOK
  <2>3. ASSUME NEW i \in 1 .. Len(executionWatch), executionWatch[i].name = e
        PROVE  \E k \in 1 .. Len(executionWatch') : executionWatch'[k].name = e
    <3>1. i # 1
      BY <2>1, <2>3
    <3>2. i - 1 \in 1 .. Len(executionWatch') /\ (i - 1) + 1 = i
      BY <2>1, <3>1
    <3>3. executionWatch'[i - 1] = executionWatch[(i - 1) + 1]
      BY <2>1, <3>2
    <3> QED
      BY <2>3, <3>2, <3>3
  <2> QED
    BY <2>2, <2>3
<1>3. ASSUME NEW f \in Executions, NEW object \in Execution, WriteExecution(f, object)
      PROVE  ExecutionsStay
  <2>1. executionCache' = executionCache
    BY <1>3 DEF WriteExecution
  <2> QED
    BY <1>3, <2>1, ExecutionAppended
<1>4. ASSUME UNCHANGED <<jobs, jobWatch, jobCache>> PROVE JobsStay
  BY <1>4 DEF OwnedJobs
<1>5. ASSUME DeliverJob PROVE JobsStay
  <2> DEFINE x == jobWatch[1].name
             object == jobWatch[1].object
  <2>1. /\ jobCache' = [jobCache EXCEPT ![x] = object]
        /\ 1 \in 1 .. Len(jobWatch) /\ x \in Jobs /\ object.owner # e /\ Len(jobWatch) \in Nat
        /\ Len(jobWatch') = Len(jobWatch) - 1
        /\ \A i \in 1 .. Len(jobWatch') : jobWatch'[i] = jobWatch[i + 1]
    BY <1>5, JobEvents DEF DeliverJob
  <2>2. jobCache'[x] = object /\ \A j \in Jobs \ {x} : jobCache'[j] = jobCache[j]
    BY <2>1 DEF Inv, TypeInv, TypeOK
  <2>3. jobCache[x].state = "live" => jobCache[x].owner # e
    BY <2>1, KnownOwners
  <2>4. OwnedJobs(e)' = OwnedJobs(e) /\ x \notin OwnedJobs(e)
    BY <2>1, <2>2, <2>3 DEF OwnedJobs
  <2>5. \A j \in OwnedJobs(e) : jobCache'[j] = jobCache[j]
    BY <2>2, <2>4 DEF OwnedJobs
  <2>6. ASSUME NEW i \in 1 .. Len(jobWatch), jobWatch[i].object.owner = e
        PROVE  \E k \in 1 .. Len(jobWatch') : jobWatch'[k].object.owner = e
    <3>1. i # 1
      BY <2>1, <2>6
    <3>2. i - 1 \in 1 .. Len(jobWatch') /\ (i - 1) + 1 = i
      BY <2>1, <3>1
    <3>3. jobWatch'[i - 1] = jobWatch[(i - 1) + 1]
      BY <2>1, <3>2
    <3> QED
      BY <2>6, <3>2, <3>3
  <2> QED
    BY <2>4, <2>5, <2>6
<1>6. ASSUME NEW j \in Jobs, NEW object \in Job, WriteJob(j, object)
      PROVE  JobsStay
  <2>1. jobCache' = jobCache
    BY <1>6 DEF WriteJob
  <2>2. \A i \in 1 .. Len(jobWatch) : i \in 1 .. Len(jobWatch') /\ jobWatch'[i] = jobWatch[i]
    BY <1>6, JobAppended
  <2> QED
    BY <2>1, <2>2 DEF OwnedJobs
<1> HIDE DEF ExecutionsStay, JobsStay
<1>7. ExecutionsStay
  BY <1>1, <1>2, <1>3, ExecutionSteps
<1>8. JobsStay
  BY <1>4, <1>5, <1>6, JobSteps
<1> QED
  BY <1>7, <1>8 DEF ExecutionsStay, JobsStay

----------------------------------------------------------------------------
(* The worker.                                                             *)

NoDeleteFails == left["deleteError"] = 0

LEMMA NoDeleteFailsStep ==
    ASSUME Inv, NoDeleteFails, [Next]_vars
    PROVE  NoDeleteFails'
<1>1. UNCHANGED left \/ \E d \in Disturbances : Spend(d)
  BY DEF Next, vars, StartReconcile, TimerFires, Resync, CreateExecution, EditExecution,
         DeleteExecution, ListJobs, PruneStale, CreateJob, UpdateStatus, DeliverExecution,
         DeliverJob, RunJob, LoseJob, CollectJob, Restart, ModuleChanges, Disturbances
<1>2. ASSUME NEW d \in Disturbances, Spend(d) PROVE NoDeleteFails'
  <2>1. left \in [Disturbances -> Nat] /\ "deleteError" \in Disturbances
    BY DEF Inv, TypeInv, TypeOK, Disturbances
  <2>2. d # "deleteError"
    BY <1>2, <2>1 DEF Spend, NoDeleteFails
  <2> QED
    BY <1>2, <2>1, <2>2 DEF Spend, NoDeleteFails
<1> QED
  BY <1>1, <1>2 DEF NoDeleteFails

LEMMA WorkerSteps ==
    ASSUME [Next]_vars
    PROVE  \/ pc' = "idle"
           \/ \E e \in Executions : StartReconcile(e) /\ pc' = "list"
           \/ ListJobs \/ PruneStale
           \/ UNCHANGED worker /\ queue \subseteq queue' /\ ~Restart
<1>1. CreateJob \/ UpdateStatus \/ Restart => pc' = "idle"
  BY DEF CreateJob, UpdateStatus, Restart, Return, WorkerIdle
<1>2. ASSUME NEW e \in Executions, StartReconcile(e)
      PROVE  pc' = "idle" \/ pc' = "list"
  BY <1>2 DEF StartReconcile
<1>3. UNCHANGED vars => UNCHANGED worker /\ queue \subseteq queue'
  BY DEF vars
<1> QED
  BY <1>1, <1>2, <1>3
  DEF Next, TimerFires, Resync, CreateExecution, EditExecution, DeleteExecution, SetExecution,
      DeliverExecution, DeliverJob, RunJob, LoseJob, CollectJob, SetJob, ModuleChanges

\* A Job that the loop is to delete is deleted, or an event that tells of its
\* end is in flight.
LEMMA PrunedIsSeen ==
    ASSUME Inv, WatchInv, NoDeleteFails, PruneStale, [Next]_vars,
           OwnedJobs(req) = {job} \cup stale
    PROVE  \E i \in 1 .. Len(jobWatch') : jobWatch'[i].object.owner = req
<1>1. PICK j \in stale :
        \/ /\ jobs[j].state = "live"
           /\ jobs' = [jobs EXCEPT ![j].state = "pruned"]
           /\ jobWatch' = Notify(jobWatch, j, jobs'[j])
        \/ jobs[j].state # "live" /\ UNCHANGED <<jobs, jobWatch>>
  BY DEF PruneStale, Newest, NoDeleteFails, Spend
<1>2. /\ j \in Jobs /\ jobCache[j].state = "live" /\ jobCache[j].owner = req
      /\ jobs[j].owner = req /\ jobs[j] \in Job
  BY KnownOwners DEF WatchInv, OwnedJobs, Inv, TypeInv, TypeOK
<1>3. CASE jobs[j].state = "live"
  <2> DEFINE object == [jobs[j] EXCEPT !.state = "pruned"]
             event == [name |-> j, object |-> object]
  <2>1. object \in Job /\ object.owner = req
    BY <1>2 DEF Job
  <2>2. jobs'[j] = object
    BY <1>1, <1>2, <1>3 DEF Inv, TypeInv, TypeOK
  <2>3. jobWatch' = Append(jobWatch, event)
    BY <1>1, <1>3, <2>2 DEF Notify, Event
  <2> HIDE DEF object
  <2>4. event \in [name: Jobs, object: Job] /\ event.object = object
    BY <1>2, <2>1
  <2> HIDE DEF event
  <2>5. /\ Len(jobWatch') = Len(jobWatch) + 1 /\ jobWatch'[Len(jobWatch) + 1] = event
        /\ Len(jobWatch) \in Nat
    BY <2>3, <2>4, JobEvents, Appended
  <2>6. Len(jobWatch) + 1 \in 1 .. Len(jobWatch')
    BY <2>5
  <2> QED
    BY <2>1, <2>4, <2>5, <2>6
<1>4. CASE jobs[j].state # "live"
  <2>1. PICK i \in 1 .. Len(jobWatch) : jobWatch[i].name = j
    BY <1>2, <1>4 DEF WatchInv, JobsSynced, Synced
  <2>2. jobWatch[i].object.owner = req
    BY <1>2, <2>1, KnownOwners DEF WatchInv
  <2> QED
    BY <1>1, <1>4, <2>2
<1> QED
  BY <1>3, <1>4

LEMMA WorkerCurrentStep ==
    ASSUME Inv, WatchInv, NoDeleteFails, WorkerCurrent, [Next]_vars
    PROVE  WorkerCurrent'
<1>1. CASE pc' = "idle"
  BY <1>1 DEF WorkerCurrent
<1>2. ASSUME NEW e \in Executions, StartReconcile(e), pc' = "list" PROVE WorkerCurrent'
  <2>1. execution' = executionCache'[req']
    BY <1>2 DEF StartReconcile, informers
  <2> QED
    BY <1>2, <2>1 DEF WorkerCurrent
<1>3. CASE ListJobs
  <2>1. pc = "list" /\ UNCHANGED <<req, queue, execution, executionCache, jobCache>>
    BY <1>3 DEF ListJobs, informers
  <2>2. OwnedJobs(req)' = OwnedJobs(req)
    BY <2>1 DEF OwnedJobs
  <2>3. CASE pc' = "create"
    BY <2>1, <2>3 DEF WorkerCurrent
  <2>4. ASSUME NEW latest \in Newest(OwnedJobs(req)), job' = latest,
               jobSeen' = jobCache[latest], stale' = OwnedJobs(req) \ {latest},
               pc' = IF stale' = {} THEN "update" ELSE "prune"
        PROVE  WorkerCurrent'
    <3>1. latest \in OwnedJobs(req)
      BY DEF Newest
    <3>2. OwnedJobs(req)' = {job'} \cup stale' /\ job' \in OwnedJobs(req)' /\ jobSeen' = jobCache'[job']
      BY <2>1, <2>2, <2>4, <3>1
    <3> QED
      BY <2>1, <2>4, <3>2 DEF WorkerCurrent
  <2> QED
    BY <1>3, <2>3, <2>4 DEF ListJobs
<1>4. CASE PruneStale
  <2>1. /\ pc = "prune" /\ UNCHANGED <<req, queue, execution, executionCache, jobCache, job, jobSeen>>
        /\ pc' = IF stale' = {} THEN "update" ELSE "prune"
        /\ ~Restart
    BY <1>4 DEF PruneStale, Restart, WorkerIdle
  <2>2. OwnedJobs(req)' = OwnedJobs(req)
    BY <2>1 DEF OwnedJobs
  <2>3. ASSUME req \notin queue
        PROVE  \E i \in 1 .. Len(jobWatch') : jobWatch'[i].object.owner = req
    <3>1. CASE OwnedJobs(req) = {job} \cup stale
      BY <1>4, <3>1, PrunedIsSeen
    <3>2. CASE \E i \in 1 .. Len(jobWatch) : jobWatch[i].object.owner = req
      <4>1. req \in Executions /\ req \notin queue' /\ OwnersInv
        BY <2>1, <2>3 DEF Inv, TypeInv, WorkerInv, WatchInv
      <4> QED
        BY <2>1, <3>2, <4>1, Unqueued
    <3> QED
      BY <2>1, <2>3, <3>1, <3>2 DEF WorkerCurrent
  <2> QED
    BY <2>1, <2>2, <2>3 DEF WorkerCurrent
<1>5. CASE UNCHANGED worker /\ queue \subseteq queue' /\ ~Restart
  <2>1. UNCHANGED <<pc, req, execution, job, jobSeen, stale>>
    BY <1>5 DEF worker
  <2>2. ASSUME pc # "idle", req \notin queue'
        PROVE  /\ execution = executionCache'[req]
               /\ pc \in {"prune", "update"} =>
                    /\ job \in OwnedJobs(req)' /\ jobSeen = jobCache'[job]
                    /\ \/ OwnedJobs(req)' = {job} \cup stale
                       \/ \E i \in 1 .. Len(jobWatch') : jobWatch'[i].object.owner = req
    <3>1. PICK e \in Executions : e = req
      BY <2>2 DEF Inv, TypeInv, WorkerInv
    <3>2. e \notin queue /\ e \notin queue' /\ OwnersInv
      BY <1>5, <2>2, <3>1 DEF WatchInv
    <3>3. /\ executionCache'[e] = executionCache[e]
          /\ OwnedJobs(e)' = OwnedJobs(e)
          /\ \A j \in OwnedJobs(e) : jobCache'[j] = jobCache[j]
          /\ \A i \in 1 .. Len(jobWatch) : jobWatch[i].object.owner = e =>
                \E k \in 1 .. Len(jobWatch') : jobWatch'[k].object.owner = e
      BY <1>5, <3>2, Unqueued
    <3>4. OwnedJobs(e)' = OwnedJobs(req)'
      BY <2>1, <3>1 DEF OwnedJobs
    <3> QED
      BY <2>2, <3>1, <3>2, <3>3, <3>4 DEF WorkerCurrent
  <2> QED
    BY <2>1, <2>2 DEF WorkerCurrent
<1> QED
  BY <1>1, <1>2, <1>3, <1>4, <1>5, WorkerSteps

----------------------------------------------------------------------------
(* Executions to which no reconcile is due.                                *)

LEMMA NothingToDoStays ==
    ASSUME NEW e \in Executions, NothingToDo(e),
           executionCache'[e] = executionCache[e],
           OwnedJobs(e)' = OwnedJobs(e),
           \A j \in OwnedJobs(e) : jobCache'[j] = jobCache[j]
    PROVE  NothingToDo(e)'
BY DEF NothingToDo

\* An execution stays attended to, unless it is gone or its reconcile ends
\* without a requeue.
LEMMA AttendedStays ==
    ASSUME Inv, OwnersInv, [Next]_vars, ~Restart, NEW e \in Executions, Attended(e),
           executionCache'[e].state = "live"
    PROVE  Attended(e)' \/ (pc # "idle" /\ req = e /\ Return(FALSE))
<1> DEFINE Goal == Attended(e)' \/ (pc # "idle" /\ req = e /\ Return(FALSE))
<1>1. CASE e \in queue'
  BY <1>1 DEF Attended
<1>2. ASSUME e \in queue \cup timers => e \in queue' \cup timers' \/ (pc' # "idle" /\ req' = e),
             pc # "idle" /\ req = e => (pc' # "idle" /\ req' = e) \/ e \in timers'
      PROVE  Goal
  BY <1>1, <1>2, Unqueued DEF Attended
<1>3. ASSUME NEW f \in Executions, StartReconcile(f) PROVE Goal
  <2>1. /\ pc = "idle" /\ queue' = queue \ {f} /\ UNCHANGED timers
        /\ executionCache[f].state = "live" => pc' # "idle" /\ req' = f
        /\ UNCHANGED executionCache
    BY <1>3 DEF StartReconcile, informers
  <2> QED
    BY <1>2, <2>1
<1>4. CASE ListJobs \/ PruneStale
  <2>1. pc' # "idle" /\ UNCHANGED <<queue, timers, req>>
    BY <1>4 DEF ListJobs, PruneStale
  <2> QED
    BY <1>2, <2>1
<1>5. CASE CreateJob \/ UpdateStatus
  <2>1. pc # "idle" /\ UNCHANGED queue
    BY <1>5 DEF CreateJob, UpdateStatus
  <2>2. Return(FALSE) \/ Return(TRUE)
    BY <1>5 DEF CreateJob, UpdateStatus, IsExecutionTerminal
  <2>3. CASE Return(FALSE) /\ req # e
    BY <1>2, <2>1, <2>3 DEF Return
  <2>4. CASE Return(TRUE)
    BY <1>2, <2>1, <2>4 DEF Return
  <2> QED
    BY <2>1, <2>2, <2>3, <2>4
<1>6. CASE UNCHANGED worker /\ queue \cup timers \subseteq queue' \cup timers'
  BY <1>2, <1>6 DEF worker
<1>7. \/ \E f \in Executions : StartReconcile(f)
      \/ ListJobs \/ PruneStale \/ CreateJob \/ UpdateStatus
      \/ UNCHANGED worker /\ queue \cup timers \subseteq queue' \cup timers'
  BY DEF Next, vars, TimerFires, Resync, CreateExecution, EditExecution, DeleteExecution,
         SetExecution, DeliverExecution, DeliverJob, RunJob, LoseJob, CollectJob, SetJob,
         ModuleChanges
<1> QED
  BY <1>3, <1>4, <1>5, <1>6, <1>7

LEMMA NothingForgottenStep ==
    ASSUME Inv, WatchInv, WorkerCurrent, NothingForgotten, [Next]_vars
    PROVE  NothingForgotten'
<1> SUFFICES ASSUME NEW e \in Executions, executionCache'[e].state = "live", ~Attended(e)'
             PROVE  NothingToDo(e)'
  BY DEF NothingForgotten
<1>1. ~Restart
  BY DEF Restart, Attended
<1>2. /\ e \notin queue' /\ e \notin timers'
      /\ \A i \in 1 .. Len(executionWatch') : executionWatch'[i].name # e
      /\ \A i \in 1 .. Len(jobWatch') : jobWatch'[i].object.owner # e
  BY DEF Attended
<1>3. CASE ~Attended(e)
  <2>1. /\ executionCache'[e] = executionCache[e]
        /\ OwnedJobs(e)' = OwnedJobs(e)
        /\ \A j \in OwnedJobs(e) : jobCache'[j] = jobCache[j]
    BY <1>1, <1>2, Unqueued DEF WatchInv
  <2>2. NothingToDo(e)
    BY <1>3, <2>1 DEF NothingForgotten
  <2> QED
    BY <2>1, <2>2, NothingToDoStays
<1>4. CASE Attended(e)
  <2>1. pc # "idle" /\ req = e /\ Return(FALSE)
    BY <1>1, <1>4, AttendedStays DEF WatchInv
  <2>2. pc' = "idle" /\ ~Return(TRUE)
    BY <1>2, <2>1 DEF Return, WorkerIdle
  <2>3. UpdateStatus
    BY <1>1, <2>1, <2>2
    DEF Next, vars, worker, StartReconcile, TimerFires, Resync, CreateExecution, EditExecution,
        DeleteExecution, SetExecution, DeliverExecution, DeliverJob, RunJob, LoseJob, CollectJob,
        SetJob, ModuleChanges, ListJobs, PruneStale, CreateJob
  <2> DEFINE status == StatusFrom(execution.status, job, jobSeen)
  <2>4. /\ pc = "update" /\ UNCHANGED <<queue, jobWatch, executionCache, jobCache>>
        /\ \/ status = execution.status /\ Return(~IsExecutionTerminal(status.phase))
           \/ WriteStatus(status)
    BY <2>2, <2>3 DEF UpdateStatus
  <2>5. CASE WriteStatus(status)
    <3> DEFINE event == Event(req, executions'[req])
    <3>1. /\ executionWatch' = Append(executionWatch, event)
          /\ executions' \in [Executions -> Execution]
          /\ executionWatch \in Seq([name: Executions, object: Execution])
          /\ Len(executionWatch) \in Nat
      BY <2>5, InvStep, ExecutionEvents DEF WriteStatus, Notify, Inv, TypeInv, TypeOK
    <3>2. event \in [name: Executions, object: Execution] /\ event.name = e
      BY <2>1, <3>1 DEF Event
    <3> HIDE DEF event
    <3>3. Len(executionWatch') = Len(executionWatch) + 1 /\ executionWatch'[Len(executionWatch) + 1] = event
      BY <3>1, <3>2, Appended
    <3>4. Len(executionWatch) + 1 \in 1 .. Len(executionWatch')
      BY <3>1, <3>3
    <3> QED
      BY <1>2, <3>2, <3>3, <3>4
  <2>6. CASE status = execution.status /\ Return(~IsExecutionTerminal(status.phase))
    <3>1. IsExecutionTerminal(execution.status.phase)
      BY <2>2, <2>6 DEF IsExecutionTerminal
    <3>2. execution = executionCache[e] /\ jobSeen = jobCache[job]
      BY <1>2, <2>1, <2>4 DEF WorkerCurrent
    <3>3. job \in Jobs /\ OwnedJobs(e) = {job}
      BY <1>2, <2>1, <2>4 DEF WorkerCurrent, OwnedJobs
    <3>4. NothingToDo(e)
      BY <2>6, <3>1, <3>2, <3>3 DEF NothingToDo
    <3>5. OwnedJobs(e)' = OwnedJobs(e)
      BY <2>4 DEF OwnedJobs
    <3> QED
      BY <2>4, <3>4, <3>5, NothingToDoStays
  <2> QED
    BY <2>4, <2>5, <2>6
<1> QED
  BY <1>3, <1>4

\* As long as no delete fails, an execution for which nothing is left that
\* would start a reconcile has exactly one Job and reports how it ended: what
\* Reconcile returns, the events and the listing after a restart wake it as
\* often as is needed (lines 66-159 and SetupWithManager).
THEOREM NoWakeupIsLost ==
    ASSUME Budget["deleteError"] = 0
    PROVE  Spec => []QuiescentIsSettled
<1>1. ASSUME Inv, WatchInv, NothingForgotten, Quiescent, NEW e \in Executions,
             executions[e].state = "live"
      PROVE  Settled(e)
  <2>1. Len(executionWatch) = 0 /\ Len(jobWatch) = 0
    BY <1>1, EmptySeq DEF Quiescent
  <2>2. executionCache[e] = executions[e] /\ \A j \in Jobs : jobCache[j] = jobs[j]
    BY <1>1, <2>1 DEF WatchInv, ExecutionsSynced, JobsSynced, Synced
  <2>3. ~Attended(e)
    BY <1>1, <2>1 DEF Quiescent, Attended
  <2>4. PICK j \in Jobs :
            /\ OwnedJobs(e) = {j}
            /\ executions[e].status = StatusFrom(executions[e].status, j, jobs[j])
            /\ IsExecutionTerminal(executions[e].status.phase)
    BY <1>1, <2>2, <2>3 DEF NothingForgotten, NothingToDo
  <2>5. LiveJobs(e) = {j}
    BY <2>2, <2>4 DEF OwnedJobs, LiveJobs
  <2> QED
    BY <2>4, <2>5 DEF Settled, Reports
<1>2. Inv /\ WatchInv /\ NothingForgotten => QuiescentIsSettled
  BY <1>1 DEF QuiescentIsSettled
<1>3. Init => NoDeleteFails /\ WorkerCurrent /\ NothingForgotten
  BY DEF Init, NoDeleteFails, WorkerCurrent, NothingForgotten, UnbornExecution
<1>4. Inv /\ WatchInv /\ NoDeleteFails /\ WorkerCurrent /\ NothingForgotten /\ [Next]_vars
        => NoDeleteFails' /\ WorkerCurrent' /\ NothingForgotten'
  BY NoDeleteFailsStep, WorkerCurrentStep, NothingForgottenStep
<1> QED
  BY <1>2, <1>3, <1>4, InvInit, InvStep, WatchInit, WatchStep, PTL DEF Spec

===============================================================================

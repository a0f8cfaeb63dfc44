------------------------ MODULE ExecutionController ------------------------
(***************************************************************************)
(* The TofuExecution reconciler (internal/controller/opentofu/             *)
(* tofuexecution_controller.go) against the cluster it runs in.            *)
(*                                                                         *)
(* The reconciler reads executions and Jobs from informer caches, which    *)
(* follow the API server through ordered watch streams and may lag behind  *)
(* it, and writes to the API server.  Each read, each delete of the prune  *)
(* loop and each write of a reconcile is a step of its own, so everything  *)
(* else may happen in between.  One worker serves the work queue           *)
(* (MaxConcurrentReconciles is left at 1 by SetupWithManager).             *)
(*                                                                         *)
(* Deleted objects stay in executions and jobs with the state they had:    *)
(* only objects whose state is "live" exist in the cluster.                *)
(***************************************************************************)
EXTENDS Naturals, Sequences, FiniteSets

CONSTANTS
    Executions,     \* the TofuExecution objects (one element per UID)
    Jobs,           \* the Job names the API server may generate
    NoExecution,    \* "no execution"
    NoJob,          \* the empty Job name
    BackoffLimit,   \* failed pods a Job retries before it gives up
    SameSecond,     \* do all Jobs carry the same creationTimestamp?
    MaxLag,         \* events in flight beyond which the cluster makes no write of its own
    Budget          \* how often each disturbance may still happen

Disturbances ==
    {"edit", "deletion", "apiError", "deleteError", "restart", "jobLoss", "moduleLoss"}

ASSUME ConstantsAssumption ==
    /\ NoExecution \notin Executions
    /\ NoJob \notin Jobs
    /\ BackoffLimit \in Nat
    /\ SameSecond \in BOOLEAN
    /\ MaxLag \in Nat \ {0}
    /\ Budget \in [Disturbances -> Nat]

VARIABLES
    executions,     \* TofuExecutions in the API server
    jobs,           \* Jobs in the API server
    clock,          \* number of Jobs created
    executionWatch, \* watch events on their way to the manager
    jobWatch,
    executionCache, \* the manager's informer caches
    jobCache,
    moduleCached,   \* is the referenced TofuModule in the cache?
    queue,          \* keys in the work queue
    timers,         \* keys that a rate limiter or RequeueAfter will add
    pc,             \* where the worker is in Reconcile
    req,            \* the key being reconciled
    execution,      \* Reconcile's local copy of the execution
    job,            \* name of the Job that job() returned
    jobSeen,        \* ... and the local copy of it
    stale,          \* Jobs the prune loop of job() has yet to delete
    left            \* disturbances left

cluster == <<executions, jobs, clock>>
informers == <<executionWatch, jobWatch, executionCache, jobCache, moduleCached>>
worker == <<pc, req, execution, job, jobSeen, stale>>
vars == <<cluster, informers, queue, timers, worker, left>>

Spend(d) == left[d] > 0 /\ left' = [left EXCEPT ![d] = @ - 1]

----------------------------------------------------------------------------
(* Objects.                                                                *)

Phases == {"Pending", "Running", "Succeeded", "Failed"}

\* The phase of an execution that has not been reported on.
NoPhase == ""

\* The status fields the reconciler writes.  A timestamp copied from a Job is
\* represented by the Job it was copied from; the summary message is a
\* function of the phase and is left out.
Status ==
    [phase: Phases \cup {NoPhase}, jobName: Jobs \cup {NoJob},
     startedAt: Jobs \cup {NoJob}, finishedAt: Jobs \cup {NoJob}]

NoStatus == [phase |-> NoPhase, jobName |-> NoJob, startedAt |-> NoJob, finishedAt |-> NoJob]

\* version is the resourceVersion.
Execution ==
    [state: {"unborn", "live", "deleted"}, version: Nat, status: Status]

UnbornExecution == [state |-> "unborn", version |-> 0, status |-> NoStatus]

\* A Job: its controller reference, its number in the order of creation and
\* its status.
\* started stands for StartTime, Terminating and UncountedTerminatedPods,
\* which the Job controller sets with its first sync; completed stands for
\* CompletionTime.  "pruned" Jobs were deleted by the reconciler, "lost" ones
\* by anybody else.
Job ==
    [state: {"unborn", "live", "pruned", "lost"}, owner: Executions \cup {NoExecution},
     created: Nat, started: BOOLEAN, failed: 0 .. BackoffLimit + 1,
     succeeded: 0 .. 1, completed: BOOLEAN]

UnbornJob ==
    [state |-> "unborn", owner |-> NoExecution, created |-> 0, started |-> FALSE,
     failed |-> 0, succeeded |-> 0, completed |-> FALSE]

LiveJobs(e) == {j \in Jobs : jobs[j].state = "live" /\ jobs[j].owner = e}
UnbornJobs == {j \in Jobs : jobs[j].state = "unborn"}

\* The watch event of a write to an object.
Event(name, object) == [name |-> name, object |-> object]
Notify(watch, name, object) == Append(watch, Event(name, object))

----------------------------------------------------------------------------
(* What Reconcile computes.                                                *)

IsExecutionTerminal(phase) == phase \in {"Succeeded", "Failed"}

\* Faults: a success outweighs earlier failed pods; an active Job is reported
\* under a name of its own.
PhaseSucceededFirst(j) ==
    CASE j.succeeded > 0 -> "Succeeded"
      [] j.succeeded = 0 /\ j.failed > 0 -> "Failed"
      [] j.succeeded = 0 /\ j.failed = 0 /\ j.started -> "Running"
      [] OTHER -> "Pending"

PhaseActive(j) ==
    IF j.failed > 0 THEN "Failed"
    ELSE IF j.succeeded > 0 THEN "Succeeded" ELSE IF j.started THEN "Active" ELSE "Pending"

\* The first condition that holds decides.
Phase(j) ==
    CASE j.failed > 0 -> "Failed"
      [] j.failed = 0 /\ j.succeeded > 0 -> "Succeeded"
      [] j.failed = 0 /\ j.succeeded = 0 /\ j.started -> "Running"
      [] OTHER -> "Pending"

\* Fault: both times depend on the start of the Job.
StatusFromStart(status, name, j) ==
    [phase |-> Phase(j),
     jobName |-> name,
     startedAt |-> IF j.started THEN name ELSE status.startedAt,
     finishedAt |-> IF j.started THEN name ELSE status.finishedAt]

\* The status after a reconcile that saw Job name with contents j: the times
\* are only ever overwritten, never cleared.
StatusFrom(status, name, j) ==
    [phase |-> Phase(j),
     jobName |-> name,
     startedAt |-> IF j.started THEN name ELSE status.startedAt,
     finishedAt |-> IF j.completed THEN name ELSE status.finishedAt]

\* Fault: the controller reference is not compared.
AllJobs(e) == {j \in Jobs : jobCache[j].state = "live"}

\* job() lists the cached Jobs whose controller reference is e ...
OwnedJobs(e) == {j \in Jobs : jobCache[j].state = "live" /\ jobCache[j].owner = e}

\* creationTimestamp counts whole seconds.
Timestamp(j) == IF SameSecond THEN 0 ELSE jobCache[j].created

\* Fault: oldest first.
Oldest(js) == {j \in js : \A k \in js : Timestamp(j) <= Timestamp(k)}

\* ... and sorts them newest first.  The order of a cache List is arbitrary
\* and the sort is stable, so any of the newest may come first.
Newest(js) == {j \in js : \A k \in js : Timestamp(k) <= Timestamp(j)}

----------------------------------------------------------------------------
(* The worker.                                                             *)

WorkerIdle ==
    /\ pc' = "idle"
    /\ req' = NoExecution
    /\ execution' = UnbornExecution
    /\ job' = NoJob
    /\ jobSeen' = UnbornJob
    /\ stale' = {}

\* Fault: results that ask for a requeue are ignored.
ReturnForgets(again) == UNCHANGED timers /\ WorkerIdle

\* Reconcile of req returns; again: the result asks for the key to be added
\* later (Requeue, RequeueAfter or an error).
Return(again) ==
    /\ timers' = IF again THEN timers \cup {req} ELSE timers
    /\ WorkerIdle

\* The worker takes a key and gets the execution from the cache.  A missing
\* execution ends the reconcile without a requeue (IgnoreNotFound).
StartReconcile(e) ==
    /\ pc = "idle"
    /\ e \in queue
    /\ queue' = queue \ {e}
    /\ IF executionCache[e].state = "live"
       THEN pc' = "list" /\ req' = e /\ execution' = executionCache[e]
       ELSE UNCHANGED <<pc, req, execution>>
    /\ UNCHANGED <<cluster, informers, timers, job, jobSeen, stale, left>>

ListJobs ==
    /\ pc = "list"
    /\ \/ /\ OwnedJobs(req) = {}
          /\ pc' = "create"
          /\ UNCHANGED <<job, jobSeen, stale>>
       \/ \E latest \in Newest(OwnedJobs(req)) :
            /\ job' = latest
            /\ jobSeen' = jobCache[latest]
            /\ stale' = OwnedJobs(req) \ {latest}
            /\ pc' = IF stale' = {} THEN "update" ELSE "prune"
    /\ UNCHANGED <<cluster, informers, queue, timers, req, execution, left>>

\* One turn of the loop that deletes stale Jobs.  NotFound is ignored and any
\* other error is logged: neither stops the loop or the reconcile.
PruneStale ==
    /\ pc = "prune"
    /\ \E j \in Newest(stale) :
        /\ stale' = stale \ {j}
        /\ pc' = IF stale' = {} THEN "update" ELSE "prune"
        /\ \/ /\ jobs[j].state = "live"
              /\ jobs' = [jobs EXCEPT ![j].state = "pruned"]
              /\ jobWatch' = Notify(jobWatch, j, jobs'[j])
              /\ UNCHANGED left
           \/ jobs[j].state # "live" /\ UNCHANGED <<jobs, jobWatch, left>>
           \/ Spend("deleteError") /\ UNCHANGED <<jobs, jobWatch>>
    /\ UNCHANGED <<executions, clock, executionWatch, executionCache, jobCache, moduleCached,
                   queue, timers, req, execution, job, jobSeen>>

NewJob(e, now) ==
    [state |-> "live", owner |-> e, created |-> now, started |-> FALSE,
     failed |-> 0, succeeded |-> 0, completed |-> FALSE]

\* constructJobFromExecution fails while the module is missing; otherwise the
\* Job is created under a generated name.  Every outcome requeues the key: a
\* create whose answer is lost looks like one that succeeded.  When all names
\* are used up (the bound of the model) the create fails.
CreateJob ==
    /\ pc = "create"
    /\ \/ ~moduleCached /\ UNCHANGED <<jobs, clock, jobWatch, left>>
       \/ /\ moduleCached
          /\ clock' = clock + 1
          /\ \E j \in UnbornJobs :
                /\ jobs' = [jobs EXCEPT ![j] = NewJob(req, clock')]
                /\ jobWatch' = Notify(jobWatch, j, jobs'[j])
          /\ UNCHANGED left
       \/ /\ moduleCached
          /\ \/ UnbornJobs = {} /\ UNCHANGED left
             \/ Spend("apiError")
          /\ UNCHANGED <<jobs, clock, jobWatch>>
    /\ Return(TRUE)
    /\ UNCHANGED <<executions, executionWatch, executionCache, jobCache, moduleCached, queue>>

\* The status update: an optimistic write that the API server refuses when
\* the local copy is not the latest version.
Updated(copy, status) == [state |-> "live", version |-> copy.version + 1, status |-> status]

WriteStatus(status) ==
    /\ executions[req].state = "live"
    /\ executions[req].version = execution.version
    /\ executions' = [executions EXCEPT ![req] = Updated(execution, status)]
    /\ executionWatch' = Notify(executionWatch, req, executions'[req])

\* The last part of Reconcile.  After a write error (refused, failed, or done
\* with the answer lost) the key is requeued; else only while the Job runs.
UpdateStatus ==
    /\ pc = "update"
    /\ LET status == StatusFrom(execution.status, job, jobSeen)
           running == ~IsExecutionTerminal(status.phase)
       IN  \/ /\ status = execution.status
              /\ Return(running)
              /\ UNCHANGED <<executions, executionWatch, left>>
           \/ /\ status # execution.status
              /\ WriteStatus(status)
              /\ \/ Return(running) /\ UNCHANGED left
                 \/ Return(TRUE) /\ Spend("apiError")
           \/ /\ status # execution.status
              /\ \/ Spend("apiError")
                 \/ /\ executions[req].state # "live" \/ executions[req].version # execution.version
                    /\ UNCHANGED left
              /\ Return(TRUE)
              /\ UNCHANGED <<executions, executionWatch>>
    /\ UNCHANGED <<jobs, clock, jobWatch, executionCache, jobCache, moduleCached, queue>>

----------------------------------------------------------------------------
(* controller-runtime: informers, work queue, process restarts.            *)

\* For(TofuExecution): every event of an execution adds its key.
DeliverExecution ==
    /\ executionWatch # <<>>
    /\ LET event == Head(executionWatch)
       IN  /\ executionCache' = [executionCache EXCEPT ![event.name] = event.object]
           /\ queue' = queue \cup {event.name}
    /\ executionWatch' = Tail(executionWatch)
    /\ UNCHANGED <<cluster, jobWatch, jobCache, moduleCached, timers, worker, left>>

\* Owns(Job): every event of a Job adds the key of its controller.
DeliverJob ==
    /\ jobWatch # <<>>
    /\ LET event == Head(jobWatch)
       IN  /\ jobCache' = [jobCache EXCEPT ![event.name] = event.object]
           /\ queue' = queue \cup ({event.object.owner} \cap Executions)
    /\ jobWatch' = Tail(jobWatch)
    /\ UNCHANGED <<cluster, executionWatch, executionCache, moduleCached, timers, worker, left>>

TimerFires(e) ==
    /\ e \in timers
    /\ timers' = timers \ {e}
    /\ queue' = queue \cup {e}
    /\ UNCHANGED <<cluster, informers, worker, left>>

\* The periodic resync of the informer.
Resync(e) ==
    /\ executionCache[e].state = "live"
    /\ queue' = queue \cup {e}
    /\ UNCHANGED <<cluster, informers, timers, worker, left>>

\* The manager dies and is restarted: what it held in memory is gone, the
\* caches are listed anew and every execution is queued.
Restart ==
    /\ Spend("restart")
    /\ executionCache' = executions
    /\ jobCache' = jobs
    /\ executionWatch' = <<>>
    /\ jobWatch' = <<>>
    /\ queue' = {e \in Executions : executions[e].state = "live"}
    /\ timers' = {}
    /\ WorkerIdle
    /\ UNCHANGED <<cluster, moduleCached>>

----------------------------------------------------------------------------
(* The rest of the cluster: users and parents of executions, the Job       *)
(* controller and the garbage collector.                                   *)

SetExecution(e, object) ==
    /\ Len(executionWatch) < MaxLag
    /\ executions' = [executions EXCEPT ![e] = object]
    /\ executionWatch' = Notify(executionWatch, e, object)
    /\ UNCHANGED <<jobs, clock, jobWatch, executionCache, jobCache, moduleCached,
                   queue, timers, worker>>

CreateExecution(e) ==
    /\ executions[e].state = "unborn"
    /\ SetExecution(e, [UnbornExecution EXCEPT !.state = "live", !.version = 1])
    /\ UNCHANGED left

EditExecution(e) ==
    /\ executions[e].state = "live"
    /\ Spend("edit")
    /\ SetExecution(e, [executions[e] EXCEPT !.version = @ + 1])

DeleteExecution(e) ==
    /\ executions[e].state = "live"
    /\ Spend("deletion")
    /\ SetExecution(e, [executions[e] EXCEPT !.state = "deleted"])

SetJob(j, object) ==
    /\ Len(jobWatch) < MaxLag
    /\ jobs' = [jobs EXCEPT ![j] = object]
    /\ jobWatch' = Notify(jobWatch, j, object)
    /\ UNCHANGED <<executions, clock, executionWatch, executionCache, jobCache, moduleCached,
                   queue, timers, worker>>

\* The Job controller runs one pod at a time: it starts the first, replaces
\* a failed one until BackoffLimit is exceeded, counts a success and then
\* completes the Job.
RunJob(j) ==
    /\ jobs[j].state = "live"
    /\ \/ ~jobs[j].started /\ SetJob(j, [jobs[j] EXCEPT !.started = TRUE])
       \/ /\ jobs[j].started /\ jobs[j].succeeded = 0 /\ jobs[j].failed <= BackoffLimit
          /\ \/ SetJob(j, [jobs[j] EXCEPT !.failed = @ + 1])
             \/ SetJob(j, [jobs[j] EXCEPT !.succeeded = 1])
       \/ /\ jobs[j].succeeded = 1 /\ ~jobs[j].completed
          /\ SetJob(j, [jobs[j] EXCEPT !.completed = TRUE])
    /\ UNCHANGED left

\* Somebody else deletes a Job (a user, a TTL controller).
LoseJob(j) ==
    /\ jobs[j].state = "live"
    /\ Spend("jobLoss")
    /\ SetJob(j, [jobs[j] EXCEPT !.state = "lost"])

\* The garbage collector deletes the Jobs of a deleted owner.
CollectJob(j) ==
    /\ jobs[j].state = "live"
    /\ executions[jobs[j].owner].state = "deleted"
    /\ SetJob(j, [jobs[j] EXCEPT !.state = "lost"])
    /\ UNCHANGED left

\* The referenced module appears in, or disappears from, the module cache.
ModuleChanges ==
    /\ moduleCached' = ~moduleCached
    /\ IF moduleCached THEN Spend("moduleLoss") ELSE UNCHANGED left
    /\ UNCHANGED <<cluster, executionWatch, jobWatch, executionCache, jobCache,
                   queue, timers, worker>>

----------------------------------------------------------------------------
Init ==
    /\ executions = [e \in Executions |-> UnbornExecution]
    /\ jobs = [j \in Jobs |-> UnbornJob]
    /\ clock = 0
    /\ executionWatch = <<>>
    /\ jobWatch = <<>>
    /\ executionCache = executions
    /\ jobCache = jobs
    /\ moduleCached = FALSE
    /\ queue = {}
    /\ timers = {}
    /\ pc = "idle"
    /\ req = NoExecution
    /\ execution = UnbornExecution
    /\ job = NoJob
    /\ jobSeen = UnbornJob
    /\ stale = {}
    /\ left = Budget

Reconcile == ListJobs \/ PruneStale \/ CreateJob \/ UpdateStatus

Next ==
    \/ \E e \in Executions :
        \/ StartReconcile(e)
        \/ TimerFires(e)
        \/ Resync(e)
        \/ CreateExecution(e)
        \/ EditExecution(e)
        \/ DeleteExecution(e)
    \/ \E j \in Jobs : RunJob(j) \/ LoseJob(j) \/ CollectJob(j)
    \/ ListJobs
    \/ PruneStale
    \/ CreateJob
    \/ UpdateStatus
    \/ DeliverExecution
    \/ DeliverJob
    \/ Restart
    \/ ModuleChanges

Spec == Init /\ [][Next]_vars

\* The manager's goroutines and the API server's streams keep going, a key
\* that waits in the (first-in first-out) work queue is eventually served, pods
\* end, and the module is eventually there.  Nothing is assumed of the
\* periodic resync: progress must not depend on it.
Fairness ==
    /\ WF_vars(DeliverExecution)
    /\ WF_vars(DeliverJob)
    /\ WF_vars(Reconcile)
    /\ WF_vars(~moduleCached /\ ModuleChanges)
    /\ \A e \in Executions : SF_vars(StartReconcile(e)) /\ WF_vars(TimerFires(e))
    /\ \A j \in Jobs : WF_vars(RunJob(j)) /\ WF_vars(CollectJob(j))

LiveSpec == Spec /\ Fairness

----------------------------------------------------------------------------
(* Properties.                                                             *)

EventsOf(names, objects) == Seq([name: names, object: objects])

\* Types of the cluster, the informers, the queue and Reconcile's variables.
TypeOK ==
    /\ executions \in [Executions -> Execution]
    /\ jobs \in [Jobs -> Job]
    /\ clock \in Nat
    /\ executionWatch \in EventsOf(Executions, Execution)
    /\ jobWatch \in EventsOf(Jobs, Job)
    /\ executionCache \in [Executions -> Execution]
    /\ jobCache \in [Jobs -> Job]
    /\ moduleCached \in BOOLEAN
    /\ queue \subseteq Executions
    /\ timers \subseteq Executions
    /\ pc \in {"idle", "list", "prune", "create", "update"}
    /\ req \in Executions \cup {NoExecution}
    /\ execution \in Execution
    /\ job \in Jobs \cup {NoJob}
    /\ jobSeen \in Job
    /\ stale \subseteq Jobs
    /\ left \in [Disturbances -> Nat]

BornJobs(e) == {j \in Jobs : jobs[j].owner = e}

\* The age order of Jobs never deletes the wrong one: whatever the caches
\* show, the loop that prunes stale Jobs never deletes the Job created last
\* for an execution, as long as creation times differ (job(), lines 297-308).
NewestNeverPruned ==
    \A e \in Executions : \A j \in BornJobs(e) :
        (\A k \in BornJobs(e) : jobs[k].created <= jobs[j].created) => jobs[j].state # "pruned"

Backed(js, e, status) ==
    /\ status.jobName \in Jobs =>
        LET reported == js[status.jobName]
        IN  /\ reported.owner = e
            /\ status.phase = "Running" => reported.started
            /\ status.phase = "Failed" => reported.failed > 0
            /\ status.phase = "Succeeded" => reported.succeeded > 0 /\ reported.failed = 0
    /\ status.startedAt \in Jobs => js[status.startedAt].started
    /\ status.finishedAt \in Jobs => js[status.finishedAt].completed

\* Whatever an execution reports was true of the Job it names: that Job is
\* its own, its pods did what the phase says, and the Jobs whose times it
\* copied had started or completed, however stale the copies were from which
\* the status was computed (lines 90-150).
TruthfulStatus == \A e \in Executions : Backed(jobs, e, executions[e].status)

Rank(phase) ==
    CASE phase = NoPhase -> 0 [] phase = "Pending" -> 1 [] phase = "Running" -> 2 [] OTHER -> 3

Advances(old, new) ==
    old.jobName = new.jobName => old.phase = new.phase \/ Rank(old.phase) < Rank(new.phase)

\* As long as an execution names the same Job its phase only advances: a
\* reconcile that works from old caches, or whose write is refused and tried
\* again, never takes a phase back (lines 90-149).
PhaseForward ==
    [][\A e \in Executions : Advances(executions[e].status, executions'[e].status)]_vars

Quiescent == pc = "idle" /\ queue = {} /\ timers = {} /\ executionWatch = <<>> /\ jobWatch = <<>>

Reports(e, j) ==
    /\ executions[e].status = StatusFrom(executions[e].status, j, jobs[j])
    /\ IsExecutionTerminal(executions[e].status.phase)

Settled(e) == \E j \in Jobs : LiveJobs(e) = {j} /\ Reports(e, j)

\* No wakeup is lost: when nothing is left that would start a reconcile, each
\* execution has exactly one Job and reports how that Job ended (the results
\* of Reconcile, lines 66-159).
QuiescentIsSettled ==
    Quiescent => \A e \in Executions : executions[e].state = "live" => Settled(e)

\* Every execution gets its run and its result: the controller, the Jobs and
\* the collector end up in a state, and stay there, where each execution has
\* one Job and reports how it ended and deleted executions have no Job.
Converges ==
    <>[]\A e \in Executions :
        CASE executions[e].state = "live" -> Settled(e)
          [] executions[e].state = "deleted" -> LiveJobs(e) = {}
          [] OTHER -> TRUE

----------------------------------------------------------------------------
(* The abstract controller.                                                *)

\* A run is what the cluster knows of a Job, but for how many pods failed and
\* whether the Job has completed.
RunOf(object) ==
    [state |-> object.state, owner |-> object.owner, number |-> object.created,
     started |-> object.started, failed |-> object.failed > 0, succeeded |-> object.succeeded > 0]

ReportOf(object) == [phase |-> object.status.phase, job |-> object.status.jobName]

Life == INSTANCE ExecutionLife WITH
    life <- [e \in Executions |-> executions[e].state],
    runs <- [j \in Jobs |-> RunOf(jobs[j])],
    launched <- clock,
    report <- [e \in Executions |-> ReportOf(executions[e])]

\* To everybody else the reconciler looks like the abstract controller: what
\* its many steps, on stale copies, with errors, restarts and Jobs that vanish,
\* do to the cluster are launches, prunings of superseded runs and reports
\* that follow one another (lines 61-160 and 277-309).
ImplementsLife == Life!Spec

----------------------------------------------------------------------------
(* What the documentation and the tests promise.                           *)

\* docs/crds.md:32: an execution is the "immutable record of a single plan or
\* apply run": its Jobs must not run twice.
OneRunPerExecution ==
    \A e \in Executions : Cardinality({j \in BornJobs(e) : jobs[j].started}) <= 1

\* docs/prototype-plan.md:45: the status reaches Succeeded once the Job
\* completes.
CompletedIsSucceeded ==
    Quiescent =>
        \A e \in Executions, j \in Jobs :
            executions[e].state = "live" /\ LiveJobs(e) = {j} /\ jobs[j].completed
                => executions[e].status.phase = "Succeeded"

\* tofuexecution_controller_test.go:173: pruning "keeps the newest job and
\* deletes older ones": some Job of the execution is never pruned.
PruningKeepsOne ==
    \A e \in Executions : BornJobs(e) # {} => \E j \in BornJobs(e) : jobs[j].state # "pruned"

=============================================================================

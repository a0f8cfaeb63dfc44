------------------------------ MODULE Soyplane ------------------------------
(***************************************************************************)
(* The three controllers over one cluster: TofuModules and TofuStacks      *)
(* create TofuExecutions, executions create Jobs, and status flows back.   *)
(* They share the manager's informer caches and nothing else: the          *)
(* execution controller builds a Job from the cached module, whichever     *)
(* parent created the execution.                                           *)
(*                                                                         *)
(* A Reconcile is one step here: ExecutionController and ModuleController  *)
(* show what may happen within one.  The execution controller implements   *)
(* ExecutionLife here as it does there.  An informer cache is an earlier   *)
(* state of the API server, and catches up at any time with everything     *)
(* written since.  The two parent controllers are the same code but for    *)
(* the names, so one set of actions stands for both; it is mapped to the   *)
(* stack's.  Deletion of parents and executions is left to the detailed    *)
(* modules.                                                                *)
(***************************************************************************)
EXTENDS Naturals, Sequences, FiniteSets

CONSTANTS
    Modules,        \* the TofuModule objects
    Stacks,         \* the TofuStack objects
    ModuleRef,      \* the module each stack refers to
    MaxExecutions,  \* names the API server may generate for executions
    MaxJobs,        \* ... and for Jobs
    SameSecond,     \* do all objects carry the same creationTimestamp?
    UsersWait,      \* a bound: do users and the Job controller write only to current caches?
    Budget          \* edits and lost Jobs that may happen, together

Parents == Modules \cup Stacks

ASSUME ConstantsAssumption ==
    /\ Modules \cap Stacks = {}
    /\ ModuleRef \in [Stacks -> Modules]
    /\ MaxExecutions \in Nat /\ MaxJobs \in Nat
    /\ SameSecond \in BOOLEAN /\ UsersWait \in BOOLEAN
    /\ Budget \in Nat

VARIABLES
    parents,        \* TofuModules and TofuStacks in the API server
    executions,     \* TofuExecutions in the API server, in the order of creation
    jobs,           \* Jobs in the API server, in the order of creation
    parentCache,    \* the manager's informer caches
    executionCache,
    jobCache,
    left            \* edits and losses left

cluster == <<parents, executions, jobs>>
caches == <<parentCache, executionCache, jobCache>>
vars == <<cluster, caches, left>>

Disturb == left > 0 /\ left' = left - 1

----------------------------------------------------------------------------
(* Objects.  Numbers name executions and Jobs; 0 is the empty name.        *)

\* No phase before the first report.
NoPhase == ""

\* "Running" is left out: everybody treats it as "Pending".
Phases == {NoPhase, "Pending", "Succeeded", "Failed"}

Status == [phase: Phases, lastExecution: 0 .. MaxExecutions, observed: Nat]

\* generation 0: the object does not exist.
Parent == [generation: Nat, status: Status]

NoStatus == [phase |-> NoPhase, lastExecution |-> 0, observed |-> 0]

\* generation is the module-generation or stack-generation annotation.
Execution == [owner: Parents, generation: Nat, phase: Phases, job: 0 .. MaxJobs]

\* built is the generation of the module that the Job was built from.  A
\* "retrying" Job has a failed pod and goes on; a "failed" one does so no
\* more, whether or not a later pod has succeeded.
Stages == {"waiting", "retrying", "succeeded", "failed"}

Job ==
    [state: {"live", "pruned", "lost"}, owner: 1 .. MaxExecutions, built: Nat, stage: Stages]

\* moduleRef of the executions that a parent creates.
Target(p) == IF p \in Modules THEN p ELSE ModuleRef[p]

\* creationTimestamp counts whole seconds.
Timestamp(name) == IF SameSecond THEN 0 ELSE name

\* Fault: oldest first.
Oldest(names) == {n \in names : \A other \in names : Timestamp(n) <= Timestamp(other)}

\* Executions and Jobs are sorted by creationTimestamp, newest first; the order
\* of a cache List is arbitrary, so any of the newest may come first.
Newest(names) == {n \in names : \A other \in names : Timestamp(other) <= Timestamp(n)}

----------------------------------------------------------------------------
(* The module and the stack controller.                                    *)

IsExecutionTerminal(phase) == phase \in {"Succeeded", "Failed"}

Found(p) == parentCache[p].generation > 0

\* Fault: the controller reference is not compared.
AllExecutions(p) == DOMAIN executionCache

OwnedExecutions(p) == {x \in DOMAIN executionCache : executionCache[x].owner = p}

\* Fault: the last execution need not have ended.
DueAtOnce(p, x) == executionCache[x].generation # parentCache[p].generation

\* After its last execution x a new one is due when x has another generation
\* and reports an end.
Due(p, x) ==
    /\ executionCache[x].generation # parentCache[p].generation
    /\ IsExecutionTerminal(executionCache[x].phase)

\* Fault: the generation is read again from the API server.
NewExecutionReread(p) ==
    [owner |-> p, generation |-> parents[p].generation, phase |-> NoPhase, job |-> 0]

NewExecution(p) ==
    [owner |-> p, generation |-> parentCache[p].generation, phase |-> NoPhase, job |-> 0]

CreateExecution(p) ==
    /\ Found(p)
    /\ \/ OwnedExecutions(p) = {}
       \/ \E x \in Newest(OwnedExecutions(p)) : Due(p, x)
    /\ Len(executions) < MaxExecutions
    /\ executions' = Append(executions, NewExecution(p))
    /\ UNCHANGED <<parents, jobs, caches, left>>

\* Fault: only the phase is compared.
MirrorPhase(copy, x, phase) ==
    IF copy.status.phase = phase THEN copy
    ELSE [copy EXCEPT !.status =
                [phase |-> phase, lastExecution |-> x, observed |-> copy.generation]]

\* observedGeneration is set only with a change of name or phase.
Mirror(copy, x, phase) ==
    IF copy.status.lastExecution = x /\ copy.status.phase = phase THEN copy
    ELSE [copy EXCEPT !.status =
                [phase |-> phase, lastExecution |-> x, observed |-> copy.generation]]

\* The update is refused when the cached copy is not the latest one (copies
\* are compared by what they say, a version being left out).
UpdateStatus(p) ==
    /\ Found(p)
    /\ parents[p] = parentCache[p]
    /\ \E x \in Newest(OwnedExecutions(p)) :
        /\ ~Due(p, x)
        /\ parents' = [parents EXCEPT ![p] = Mirror(@, x, executionCache[x].phase)]
    /\ UNCHANGED <<executions, jobs, caches, left>>

----------------------------------------------------------------------------
(* The execution controller.                                               *)

\* Fault: a Job that waits is reported under a name of its own.
PhaseWaiting(stage) == IF stage = "waiting" THEN "Waiting" ELSE "Failed"

Phase(stage) ==
    CASE stage = "waiting" -> "Pending"
      [] stage = "succeeded" -> "Succeeded"
      [] stage \in {"retrying", "failed"} -> "Failed"

\* Fault: the controller reference is not compared.
AllJobs(x) == {j \in DOMAIN jobCache : jobCache[j].state = "live"}

OwnedJobs(x) == {j \in DOMAIN jobCache : jobCache[j].state = "live" /\ jobCache[j].owner = x}

\* constructJobFromExecution gets the module from the cache that the module
\* controller reads, and fails while it is not there.
CreateJob(x) ==
    LET module == parentCache[Target(executionCache[x].owner)]
    IN  /\ OwnedJobs(x) = {}
        /\ module.generation > 0
        /\ Len(jobs) < MaxJobs
        /\ jobs' = Append(jobs, [state |-> "live", owner |-> x,
                                 built |-> module.generation, stage |-> "waiting"])
        /\ UNCHANGED executions

Stale(x, latest) == {j \in OwnedJobs(x) \ {latest} : jobs[j].state = "live"}

\* All but the newest Job are deleted, one by one, before it is reported.
PruneJob(x) ==
    /\ \E latest \in Newest(OwnedJobs(x)) :
        \E j \in Stale(x, latest) : jobs' = [jobs EXCEPT ![j].state = "pruned"]
    /\ UNCHANGED executions

\* The update is refused when the cached copy is not the latest one.
ReportJob(x) ==
    /\ executions[x] = executionCache[x]
    /\ \E latest \in Newest(OwnedJobs(x)) :
        /\ Stale(x, latest) = {}
        /\ executions' = [executions EXCEPT ![x].phase = Phase(jobCache[latest].stage),
                                            ![x].job = latest]
    /\ UNCHANGED jobs

ReconcileExecution(x) ==
    /\ CreateJob(x) \/ PruneJob(x) \/ ReportJob(x)
    /\ UNCHANGED <<parents, caches, left>>

----------------------------------------------------------------------------
(* The informers: modules and stacks have one each.                        *)

DeliverParents(kind) ==
    /\ parentCache' = [p \in Parents |-> IF p \in kind THEN parents[p] ELSE parentCache[p]]
    /\ UNCHANGED <<cluster, executionCache, jobCache, left>>

DeliverExecutions ==
    /\ executionCache' = executions
    /\ UNCHANGED <<cluster, parentCache, jobCache, left>>

DeliverJobs ==
    /\ jobCache' = jobs
    /\ UNCHANGED <<cluster, parentCache, executionCache, left>>

----------------------------------------------------------------------------
(* Users and the Job controller.  With UsersWait they write only when the  *)
(* cache of that kind of object is current, so that one such write is on   *)
(* its way at a time (the controllers write at any time).                  *)

\* A change of the spec.
EditParent(p) ==
    /\ Disturb
    /\ UsersWait => parentCache = parents
    /\ parents[p].generation > 0
    /\ parents' = [parents EXCEPT ![p].generation = @ + 1]
    /\ UNCHANGED <<executions, jobs, caches>>

SetJob(j, object) ==
    /\ jobs[j].state = "live"
    /\ UsersWait => jobCache = jobs
    /\ jobs' = [jobs EXCEPT ![j] = object]
    /\ UNCHANGED <<parents, executions, caches>>

\* A user or a TTL controller deletes a Job.
LoseJob(j) ==
    /\ Disturb
    /\ SetJob(j, [jobs[j] EXCEPT !.state = "lost"])

Later(stage) ==
    CASE stage = "waiting" -> {"succeeded", "retrying"}
      [] stage = "retrying" -> {"failed"}
      [] OTHER -> {}

RunJob(j) ==
    /\ \E stage \in Later(jobs[j].stage) : SetJob(j, [jobs[j] EXCEPT !.stage = stage])
    /\ UNCHANGED left

----------------------------------------------------------------------------
Init ==
    /\ parents \in [Parents -> [generation: {0, 1}, status: {NoStatus}]]
    /\ executions = <<>>
    /\ jobs = <<>>
    /\ parentCache = parents
    /\ executionCache = <<>>
    /\ jobCache = <<>>
    /\ left = Budget

Next ==
    \/ \E p \in Parents :
        CreateExecution(p) \/ UpdateStatus(p) \/ EditParent(p)
    \/ \E x \in DOMAIN executionCache : ReconcileExecution(x)
    \/ \E j \in DOMAIN jobs : RunJob(j) \/ LoseJob(j)
    \/ DeliverParents(Modules)
    \/ DeliverParents(Stacks)
    \/ DeliverExecutions
    \/ DeliverJobs

Spec == Init /\ [][Next]_vars

----------------------------------------------------------------------------
(* Properties.                                                             *)

\* Types of the cluster, and of the caches, which know no more objects than
\* there are.
TypeOK ==
    /\ parents \in [Parents -> Parent]
    /\ executions \in Seq(Execution) /\ Len(executions) <= MaxExecutions
    /\ jobs \in Seq(Job) /\ Len(jobs) <= MaxJobs
    /\ parentCache \in [Parents -> Parent]
    /\ executionCache \in Seq(Execution) /\ Len(executionCache) <= Len(executions)
    /\ jobCache \in Seq(Job) /\ Len(jobCache) <= Len(jobs)
    /\ left \in Nat

FailedOnce(stage) == stage \in {"retrying", "failed"}

PodHasEnded(x) ==
    \E j \in DOMAIN jobs : jobs[j].owner = x /\ jobs[j].stage # "waiting"

\* Once a module or a stack has reported an execution, it creates the next one
\* only when a pod of that execution, or of a younger one of its own, has
\* ended, although the end came through a Job's status, a cache, a phase and
\* another cache.  A retry of that pod may still be running, and so may a Job
\* that replaced a lost one (tofumodule_controller.go:85).
NextRunAfterAPod ==
    [][\A p \in Parents :
        LET x == parents[p].status.lastExecution
            new == Len(executions) + 1
        IN  x # 0 /\ new \in DOMAIN executions' /\ executions'[new].owner = p =>
                \E z \in DOMAIN executions :
                    x <= z /\ executions[z].owner = p /\ PodHasEnded(z)]_vars

\* What a module or a stack reports has happened in a pod: the execution it
\* names is its own, and a Job of that execution did what the phase says,
\* although the phase came through two caches and two status writes, and
\* Jobs may have been replaced since.
ReportsAreBacked ==
    \A p \in Parents :
        LET status == parents[p].status
            x == status.lastExecution
        IN  x # 0 =>
                /\ executions[x].owner = p
                /\ status.observed <= parents[p].generation
                /\ status.phase = "Failed" =>
                        \E j \in DOMAIN jobs : jobs[j].owner = x /\ FailedOnce(jobs[j].stage)
                /\ status.phase = "Succeeded" =>
                        \E j \in DOMAIN jobs : jobs[j].owner = x /\ jobs[j].stage = "succeeded"

\* A Job that runs for a generation of a module is built from that generation
\* or a later one, never from one before: the module controller and the job
\* builder read the module at different times, but from one cache
\* (tofumodule_controller.go:182, tofuexecution_controller.go:186).
JobsAreNotOlder ==
    \A j \in DOMAIN jobs :
        LET x == jobs[j].owner
        IN  executions[x].owner \in Modules => executions[x].generation <= jobs[j].built

\* The caches are current, a reconcile of any key would change nothing, and
\* all Jobs have ended.
AtRest ==
    /\ parentCache = parents /\ executionCache = executions /\ jobCache = jobs
    /\ \A j \in DOMAIN jobs : jobs[j].state = "live" => Later(jobs[j].stage) = {}
    /\ \A x \in DOMAIN executions :
        /\ OwnedJobs(x) = {executions[x].job}
        /\ executions[x].phase = Phase(jobs[executions[x].job].stage)
    /\ \A p \in Parents :
        Found(p) =>
            /\ OwnedExecutions(p) # {}
            /\ \A x \in Newest(OwnedExecutions(p)) :
                ~Due(p, x) /\ parents[p] = Mirror(parents[p], x, executions[x].phase)

\* When nothing is left to do, each module and stack reports the end of a run
\* for its latest generation, says that it observed that generation, and a
\* module's run was built from it: none of the decisions that the three
\* controllers make from generations and phases comes to rest too early.
AtRestIsCurrent ==
    AtRest =>
        \A p \in Parents :
            parents[p].generation > 0 =>
                LET status == parents[p].status
                    x == status.lastExecution
                IN  /\ executions[x].owner = p
                    /\ executions[x].generation = parents[p].generation
                    /\ status.observed = parents[p].generation
                    /\ IsExecutionTerminal(status.phase)
                    /\ p \in Modules => jobs[executions[x].job].built = parents[p].generation

Lives == [x \in 1 .. MaxExecutions |-> IF x \in DOMAIN executions THEN "live" ELSE "unborn"]

RunOf(job, j) ==
    [state |-> job.state, owner |-> job.owner, number |-> j, started |-> job.stage # "waiting",
     failed |-> FailedOnce(job.stage), succeeded |-> job.stage = "succeeded"]

NoRun ==
    [state |-> "unborn", owner |-> 0, number |-> 0,
     started |-> FALSE, failed |-> FALSE, succeeded |-> FALSE]

Runs == [j \in 1 .. MaxJobs |-> IF j \in DOMAIN jobs THEN RunOf(jobs[j], j) ELSE NoRun]

Reports ==
    [x \in 1 .. MaxExecutions |->
        IF x \in DOMAIN executions
        THEN [phase |-> executions[x].phase, job |-> executions[x].job]
        ELSE [phase |-> NoPhase, job |-> 0]]

Life == INSTANCE ExecutionLife WITH
    Executions <- 1 .. MaxExecutions,
    Jobs <- 1 .. MaxJobs,
    NoExecution <- 0,
    NoJob <- 0,
    life <- Lives,
    runs <- Runs,
    launched <- Len(jobs),
    report <- Reports

\* The execution controller of this module implements the same abstract
\* controller as the detailed one does: with three controllers on shared
\* caches too, only superseded Jobs are pruned and reports follow one another.
ImplementsLife == Life!Spec

----------------------------------------------------------------------------
(* What the documentation promises.                                        *)

\* docs/crds.md:62: the stack's "Reconciler watches the referenced module and
\* stack state to decide when to mint new TofuExecution objects": at rest a
\* stack's last run was built from the present spec of its module.
StackFollowsModule ==
    AtRest =>
        \A s \in Stacks :
            parents[s].generation > 0 /\ parents[ModuleRef[s]].generation > 0
                => LET x == parents[s].status.lastExecution
                   IN  jobs[executions[x].job].built = parents[ModuleRef[s]].generation

=============================================================================

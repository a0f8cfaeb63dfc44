-------------------------- MODULE ModuleController --------------------------
(***************************************************************************)
(* The TofuModule reconciler (internal/controller/opentofu/                *)
(* tofumodule_controller.go): it creates a TofuExecution for each          *)
(* generation of a module, once the one before has finished, and copies    *)
(* name and phase of the newest into the module's status.                  *)
(*                                                                         *)
(* As in ExecutionController the reconciler reads informer caches that lag *)
(* behind the API server, and each API call is a step of its own.  What    *)
(* the TofuExecution reconciler does to an execution is reduced here to    *)
(* the phase it reports: forward with one Job, back again when the Job is  *)
(* lost and another takes its place.  A reported end is not the end of the *)
(* run: "Failed" is reported from the first pod that fails, and a Job      *)
(* retries its pods.  The spec of a module, and the execution template in  *)
(* it, are represented by metadata.generation, which the API server        *)
(* increments when the spec changes.                                       *)
(***************************************************************************)
EXTENDS Naturals, Sequences, FiniteSets

CONSTANTS
    Modules,        \* the TofuModule objects (one element per UID)
    Executions,     \* the names the API server may generate
    NoModule,       \* "no module"
    NoExecution,    \* the empty execution name
    SameSecond,     \* do all executions carry the same creationTimestamp?
    MaxLag,         \* events in flight beyond which the cluster makes no write of its own
    Budget          \* how often each disturbance, and any of them, may still happen

Disturbances ==
    {"edit", "touch", "deletion", "executionLoss", "rerun", "apiError", "restart", "any"}

ASSUME ConstantsAssumption ==
    /\ NoModule \notin Modules
    /\ NoExecution \notin Executions
    /\ SameSecond \in BOOLEAN
    /\ MaxLag \in Nat \ {0}
    /\ Budget \in [Disturbances -> Nat]

VARIABLES
    modules,        \* TofuModules in the API server
    executions,     \* TofuExecutions in the API server
    clock,          \* number of executions created
    moduleWatch,    \* watch events on their way to the manager
    executionWatch,
    moduleCache,    \* the manager's informer caches
    executionCache,
    queue,          \* keys in the work queue
    timers,         \* keys that the rate limiter will add after an error
    pc,             \* where the worker is in Reconcile
    req,            \* the key being reconciled
    module,         \* Reconcile's local copy of the module, status updated
    left            \* disturbances left

cluster == <<modules, executions, clock>>
informers == <<moduleWatch, executionWatch, moduleCache, executionCache>>
worker == <<pc, req, module>>
vars == <<cluster, informers, queue, timers, worker, left>>

Spend(d) ==
    /\ left[d] > 0 /\ left["any"] > 0
    /\ left' = [left EXCEPT ![d] = @ - 1, !["any"] = @ - 1]

----------------------------------------------------------------------------
(* Objects.                                                                *)

\* An execution has no phase before its first status update.
NoPhase == ""

\* "Pending" is left out: the reconciler treats it as it treats "Running".
Phases == {NoPhase, "Running", "Succeeded", "Failed"}

Ends == {"Succeeded", "Failed"}

Status == [phase: Phases, lastExecution: Executions \cup {NoExecution}, observed: Nat]

NoStatus == [phase |-> NoPhase, lastExecution |-> NoExecution, observed |-> 0]

\* version is the resourceVersion, observed is ObservedGeneration.
Module ==
    [state: {"unborn", "live", "deleted"}, version: Nat, generation: Nat, status: Status]

UnbornModule == [state |-> "unborn", version |-> 0, generation |-> 0, status |-> NoStatus]

\* generation is the module-generation annotation of the execution; created
\* numbers the executions in the order of their creation; past is a history
\* variable: the ends that the execution reported before the present phase.
Execution ==
    [state: {"unborn", "live", "deleted"}, owner: Modules \cup {NoModule},
     generation: Nat, created: Nat, phase: Phases, past: SUBSET Ends]

UnbornExecution ==
    [state |-> "unborn", owner |-> NoModule, generation |-> 0, created |-> 0,
     phase |-> NoPhase, past |-> {}]

UnbornExecutions == {x \in Executions : executions[x].state = "unborn"}

Event(name, object) == [name |-> name, object |-> object]
Notify(watch, name, object) == Append(watch, Event(name, object))

----------------------------------------------------------------------------
(* What Reconcile computes.                                                *)

IsExecutionTerminal(phase) == phase \in Ends

\* Fault: the controller reference is not compared.
AllExecutions(m) == {x \in Executions : executionCache[x].state = "live"}

OwnedExecutions(m) ==
    {x \in Executions : executionCache[x].state = "live" /\ executionCache[x].owner = m}

\* Fault: the list is not sorted.
Unsorted(xs) == xs

\* creationTimestamp counts whole seconds.
Timestamp(x) == IF SameSecond THEN 0 ELSE executionCache[x].created

\* lastExecution sorts by creationTimestamp, newest first; the order of a cache
\* List is arbitrary, so any of the newest may come first.
Newest(xs) == {x \in xs : \A y \in xs : Timestamp(y) <= Timestamp(x)}

\* Fault: the last execution need not have finished.
DueAtOnce(copy, last) == last.generation # copy.generation

\* A new execution is due when the last one has another generation and has
\* finished.
Due(copy, last) ==
    /\ last.generation # copy.generation
    /\ IsExecutionTerminal(last.phase)

\* Fault: the status is built afresh, without the generation.
MirrorFresh(copy, x, last) ==
    IF copy.status.lastExecution = x /\ copy.status.phase = last.phase THEN copy.status
    ELSE [phase |-> last.phase, lastExecution |-> x, observed |-> 0]

\* updateModuleStatus copies name and phase; observedGeneration is set only
\* when one of them changes.
Mirror(copy, x, last) ==
    IF copy.status.lastExecution = x /\ copy.status.phase = last.phase THEN copy.status
    ELSE [phase |-> last.phase, lastExecution |-> x, observed |-> copy.generation]

----------------------------------------------------------------------------
(* The worker.                                                             *)

WorkerIdle == pc' = "idle" /\ req' = NoModule /\ module' = UnbornModule

\* Fault: an error result is ignored.
ReturnForgets(failed) == UNCHANGED timers /\ WorkerIdle

\* Reconcile returns; after an error the key is added again.
Return(failed) ==
    /\ timers' = IF failed THEN timers \cup {req} ELSE timers
    /\ WorkerIdle

StartReconcile(m) ==
    /\ pc = "idle"
    /\ m \in queue
    /\ queue' = queue \ {m}
    /\ IF moduleCache[m].state = "live"
       THEN pc' = "list" /\ req' = m /\ module' = moduleCache[m]
       ELSE UNCHANGED worker
    /\ UNCHANGED <<cluster, informers, timers, left>>

\* The worker lists the executions of the module and decides.
ListExecutions ==
    /\ pc = "list"
    /\ \/ OwnedExecutions(req) = {} /\ pc' = "create" /\ UNCHANGED <<req, module, timers>>
       \/ \E x \in Newest(OwnedExecutions(req)) :
            LET last == executionCache[x]
                status == Mirror(module, x, last)
            IN  \/ Due(module, last) /\ pc' = "create" /\ UNCHANGED <<req, module, timers>>
                \/ /\ ~Due(module, last) /\ status # module.status
                   /\ pc' = "update"
                   /\ module' = [module EXCEPT !.status = status]
                   /\ UNCHANGED <<req, timers>>
                \/ ~Due(module, last) /\ status = module.status /\ Return(FALSE)
    /\ UNCHANGED <<cluster, informers, queue, left>>

\* Fault: the new execution gets no controller reference.
NewExecutionUnowned(m, generation, now) ==
    [UnbornExecution EXCEPT !.state = "live", !.generation = generation, !.created = now]

NewExecution(m, generation, now) ==
    [state |-> "live", owner |-> m, generation |-> generation, created |-> now,
     phase |-> NoPhase, past |-> {}]

\* createExecution takes template and generation from the same copy of the
\* module.  Success returns without a requeue: the watch event of the new
\* execution brings the key back.  An error answer may hide a create that was
\* done.  When all names are used up (the bound of the model) the create fails.
CreateExecution ==
    /\ pc = "create"
    /\ \/ /\ clock' = clock + 1
          /\ \E x \in UnbornExecutions :
                /\ executions' = [executions EXCEPT ![x] = NewExecution(req, module.generation, clock')]
                /\ executionWatch' = Notify(executionWatch, x, executions'[x])
          /\ \/ Return(FALSE) /\ UNCHANGED left
             \/ Return(TRUE) /\ Spend("apiError")
       \/ /\ \/ UnbornExecutions = {} /\ UNCHANGED left
             \/ Spend("apiError")
          /\ Return(TRUE)
          /\ UNCHANGED <<executions, clock, executionWatch>>
    /\ UNCHANGED <<modules, moduleWatch, moduleCache, executionCache, queue>>

Current == modules[req].state = "live" /\ modules[req].version = module.version

\* The status update is refused when the local copy is not the latest version.
\* A conflict is swallowed ("will retry naturally"): no requeue.  Any other
\* error, NotFound included, is returned.
UpdateModuleStatus ==
    /\ pc = "update"
    /\ \/ /\ Current
          /\ modules' = [modules EXCEPT ![req] =
                            [modules[req] EXCEPT !.status = module.status, !.version = @ + 1]]
          /\ moduleWatch' = Notify(moduleWatch, req, modules'[req])
          /\ \/ Return(FALSE) /\ UNCHANGED left
             \/ Return(TRUE) /\ Spend("apiError")
       \/ /\ modules[req].state = "live" /\ ~Current
          /\ Return(FALSE)
          /\ UNCHANGED <<modules, moduleWatch, left>>
       \/ /\ \/ modules[req].state # "live" /\ UNCHANGED left
             \/ Spend("apiError")
          /\ Return(TRUE)
          /\ UNCHANGED <<modules, moduleWatch>>
    /\ UNCHANGED <<executions, clock, executionWatch, moduleCache, executionCache, queue>>

Reconcile == ListExecutions \/ CreateExecution \/ UpdateModuleStatus

----------------------------------------------------------------------------
(* controller-runtime: informers, work queue, process restarts.            *)

\* For(TofuModule)
DeliverModule ==
    /\ moduleWatch # <<>>
    /\ LET event == Head(moduleWatch)
       IN  /\ moduleCache' = [moduleCache EXCEPT ![event.name] = event.object]
           /\ queue' = queue \cup {event.name}
    /\ moduleWatch' = Tail(moduleWatch)
    /\ UNCHANGED <<cluster, executionWatch, executionCache, timers, worker, left>>

\* Fault: executions are not watched.
DeliverUnowned ==
    /\ executionWatch # <<>>
    /\ LET event == Head(executionWatch)
       IN  executionCache' = [executionCache EXCEPT ![event.name] = event.object]
    /\ executionWatch' = Tail(executionWatch)
    /\ UNCHANGED <<cluster, moduleWatch, moduleCache, queue, timers, worker, left>>

\* Owns(TofuExecution)
DeliverExecution ==
    /\ executionWatch # <<>>
    /\ LET event == Head(executionWatch)
       IN  /\ executionCache' = [executionCache EXCEPT ![event.name] = event.object]
           /\ queue' = queue \cup {event.object.owner}
    /\ executionWatch' = Tail(executionWatch)
    /\ UNCHANGED <<cluster, moduleWatch, moduleCache, timers, worker, left>>

TimerFires(m) ==
    /\ m \in timers
    /\ timers' = timers \ {m}
    /\ queue' = queue \cup {m}
    /\ UNCHANGED <<cluster, informers, worker, left>>

Resync(m) ==
    /\ moduleCache[m].state = "live"
    /\ queue' = queue \cup {m}
    /\ UNCHANGED <<cluster, informers, timers, worker, left>>

Restart ==
    /\ Spend("restart")
    /\ moduleCache' = modules
    /\ executionCache' = executions
    /\ moduleWatch' = <<>>
    /\ executionWatch' = <<>>
    /\ queue' = {m \in Modules : modules[m].state = "live"}
    /\ timers' = {}
    /\ WorkerIdle
    /\ UNCHANGED cluster

----------------------------------------------------------------------------
(* The rest of the cluster.                                                *)

SetModule(m, object) ==
    /\ Len(moduleWatch) < MaxLag
    /\ modules' = [modules EXCEPT ![m] = object]
    /\ moduleWatch' = Notify(moduleWatch, m, object)
    /\ UNCHANGED <<executions, clock, executionWatch, moduleCache, executionCache,
                   queue, timers, worker>>

CreateModule(m) ==
    /\ modules[m].state = "unborn"
    /\ SetModule(m, [UnbornModule EXCEPT !.state = "live", !.version = 1, !.generation = 1])
    /\ UNCHANGED left

\* A change of the spec ...
EditModule(m) ==
    /\ modules[m].state = "live"
    /\ Spend("edit")
    /\ SetModule(m, [modules[m] EXCEPT !.version = @ + 1, !.generation = @ + 1])

\* ... and one of the metadata.
TouchModule(m) ==
    /\ modules[m].state = "live"
    /\ Spend("touch")
    /\ SetModule(m, [modules[m] EXCEPT !.version = @ + 1])

DeleteModule(m) ==
    /\ modules[m].state = "live"
    /\ Spend("deletion")
    /\ SetModule(m, [modules[m] EXCEPT !.state = "deleted"])

SetExecution(x, object) ==
    /\ Len(executionWatch) < MaxLag
    /\ executions' = [executions EXCEPT ![x] = object]
    /\ executionWatch' = Notify(executionWatch, x, object)
    /\ UNCHANGED <<modules, clock, moduleWatch, moduleCache, executionCache,
                   queue, timers, worker>>

\* The phases that one Job leads to.
Later(phase) ==
    CASE phase = NoPhase -> {"Running", "Succeeded", "Failed"}
      [] phase = "Running" -> {"Succeeded", "Failed"}
      [] OTHER -> {}

\* The TofuExecution reconciler reports how the Job goes on.
AdvanceExecution(x) ==
    /\ executions[x].state = "live"
    /\ \E phase \in Later(executions[x].phase) :
            SetExecution(x, [executions[x] EXCEPT !.phase = phase])
    /\ UNCHANGED left

\* The Job that had ended is lost: the TofuExecution reconciler creates another
\* one, and reports what that does.
RerunExecution(x) ==
    /\ executions[x].state = "live"
    /\ IsExecutionTerminal(executions[x].phase)
    /\ Spend("rerun")
    /\ \E phase \in {"Running", "Succeeded", "Failed"} \ {executions[x].phase} :
            SetExecution(x, [executions[x] EXCEPT !.phase = phase,
                                                  !.past = @ \cup {executions[x].phase}])

\* A user deletes an execution.
LoseExecution(x) ==
    /\ executions[x].state = "live"
    /\ Spend("executionLoss")
    /\ SetExecution(x, [executions[x] EXCEPT !.state = "deleted"])

\* The garbage collector deletes the executions of a deleted module.
CollectExecution(x) ==
    /\ executions[x].state = "live"
    /\ modules[executions[x].owner].state = "deleted"
    /\ SetExecution(x, [executions[x] EXCEPT !.state = "deleted"])
    /\ UNCHANGED left

----------------------------------------------------------------------------
Init ==
    /\ modules = [m \in Modules |-> UnbornModule]
    /\ executions = [x \in Executions |-> UnbornExecution]
    /\ clock = 0
    /\ moduleWatch = <<>>
    /\ executionWatch = <<>>
    /\ moduleCache = modules
    /\ executionCache = executions
    /\ queue = {}
    /\ timers = {}
    /\ pc = "idle"
    /\ req = NoModule
    /\ module = UnbornModule
    /\ left = Budget

Next ==
    \/ \E m \in Modules :
        \/ StartReconcile(m)
        \/ TimerFires(m)
        \/ Resync(m)
        \/ CreateModule(m)
        \/ EditModule(m)
        \/ TouchModule(m)
        \/ DeleteModule(m)
    \/ \E x \in Executions :
        \/ AdvanceExecution(x)
        \/ RerunExecution(x)
        \/ LoseExecution(x)
        \/ CollectExecution(x)
    \/ ListExecutions
    \/ CreateExecution
    \/ UpdateModuleStatus
    \/ DeliverModule
    \/ DeliverExecution
    \/ Restart

Spec == Init /\ [][Next]_vars

\* The manager and the watch streams keep going, a queued key is eventually
\* served, executions end (what ExecutionController shows as Converges) and
\* garbage is collected.  Nothing is assumed of the periodic resync.
Fairness ==
    /\ WF_vars(DeliverModule)
    /\ WF_vars(DeliverExecution)
    /\ WF_vars(Reconcile)
    /\ \A m \in Modules : SF_vars(StartReconcile(m)) /\ WF_vars(TimerFires(m))
    /\ \A x \in Executions : WF_vars(AdvanceExecution(x)) /\ WF_vars(CollectExecution(x))

LiveSpec == Spec /\ Fairness

----------------------------------------------------------------------------
(* Properties.                                                             *)

EventsOf(names, objects) == Seq([name: names, object: objects])

WellTyped ==
    /\ modules \in [Modules -> Module]
    /\ executions \in [Executions -> Execution]
    /\ clock \in Nat
    /\ moduleWatch \in EventsOf(Modules, Module)
    /\ executionWatch \in EventsOf(Executions, Execution)
    /\ moduleCache \in [Modules -> Module]
    /\ executionCache \in [Executions -> Execution]
    /\ queue \subseteq Modules
    /\ timers \subseteq Modules
    /\ pc \in {"idle", "list", "create", "update"}
    /\ req \in Modules \cup {NoModule}
    /\ module \in Module
    /\ left \in [Disturbances -> Nat]

\* Types of the cluster, the informers, the queue and Reconcile's variables;
\* whoever creates an execution gives it a module as its controller
\* (createExecution, line 187).
TypeOK ==
    /\ WellTyped
    /\ \A x \in Executions : executions[x].state # "unborn" => executions[x].owner \in Modules

ExecutionsOf(m) == {x \in Executions : executions[x].owner = m}

\* The execution has reported this end at some time.
HasReported(execution, end) == end \in execution.past \cup {execution.phase}

\* Once the module has reported an execution, the next one is created only
\* after that one, or one created after it, has reported an end or was deleted,
\* although it was read from a cache (lines 63-85).  What is reported may not
\* last: a pod may be tried again after "Failed", and a lost Job is replaced.
ReportedRunEndsFirst ==
    [][\A m \in Modules :
        \A x \in ExecutionsOf(m), y \in Executions :
            /\ modules[m].status.lastExecution = x
            /\ executions[y].state = "unborn" /\ executions'[y].owner = m
            => \E z \in ExecutionsOf(m) :
                /\ executions[x].created <= executions[z].created
                /\ \/ \E end \in Ends : HasReported(executions[z], end)
                   \/ executions[z].state = "deleted"]_vars

\* "Running" is not recorded: the execution has reported something.
HasReached(execution, phase) ==
    IF IsExecutionTerminal(phase) THEN HasReported(execution, phase)
    ELSE phase # NoPhase => execution.phase # NoPhase

\* What a module reports is true of the execution it names: it belongs to the
\* module, and an end that it reports is one the execution has reported; the
\* generation reported as observed exists (lines 106-132).
StatusIsTrue ==
    \A m \in Modules :
        LET status == modules[m].status
        IN  status.lastExecution \in Executions =>
                /\ executions[status.lastExecution].owner = m
                /\ HasReached(executions[status.lastExecution], status.phase)
                /\ status.observed \in 1 .. modules[m].generation

\* The module never goes back to reporting an older execution while the one it
\* reports exists (lines 152-157, 110).
LatestNeverRegresses ==
    [][\A m \in Modules :
        LET before == modules[m].status.lastExecution
            after == modules'[m].status.lastExecution
        IN  before \in Executions /\ executions[before].state = "live" =>
                /\ after \in Executions
                /\ executions[before].created <= executions[after].created
                /\ executions[before].generation <= executions[after].generation]_vars

Quiescent == pc = "idle" /\ queue = {} /\ timers = {} /\ moduleWatch = <<>> /\ executionWatch = <<>>

LiveExecutions(m) == {x \in ExecutionsOf(m) : executions[x].state = "live"}

RolledOut(m) ==
    \E x \in LiveExecutions(m) :
        /\ \A y \in LiveExecutions(m) : executions[y].created <= executions[x].created
        /\ executions[x].generation = modules[m].generation
        /\ modules[m].status.lastExecution = x
        /\ modules[m].status.phase = executions[x].phase
        /\ modules[m].status.observed = modules[m].generation

Ended(m) == \A x \in LiveExecutions(m) : IsExecutionTerminal(executions[x].phase)

\* When nothing is left that would start a reconcile, and the executions have
\* ended, the newest execution runs the module's generation and the module
\* reports it: a conflict that was swallowed, a create without a requeue and
\* a restart lose nothing (lines 78, 92, 122-126).
QuiescentIsRolledOut ==
    Quiescent => \A m \in Modules : modules[m].state = "live" /\ Ended(m) => RolledOut(m)

\* All names are used up before the latest generation got its execution: a
\* bound of the model.
OutOfNames(m) ==
    /\ UnbornExecutions = {}
    /\ \A x \in LiveExecutions(m) : executions[x].generation # modules[m].generation

\* Every module that is not edited for ever is rolled out in the end, and of
\* a deleted module nothing remains (Reconcile and SetupWithManager).
EventuallyRolledOut ==
    <>[]\A m \in Modules :
        CASE modules[m].state = "live" -> RolledOut(m) \/ OutOfNames(m)
          [] modules[m].state = "deleted" -> LiveExecutions(m) = {}
          [] OTHER -> TRUE

=============================================================================

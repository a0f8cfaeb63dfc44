------------------------ MODULE ModuleControllerProofs ------------------------
(***************************************************************************)
(* What holds of the TofuModule reconciler for any number of modules and   *)
(* executions, any lag of the caches and any number of disturbances.       *)
(*                                                                         *)
(* The inductive invariant says of every copy of an object - in a cache,   *)
(* in a watch event, in Reconcile - how it relates to the object itself,   *)
(* of every status what it names, and of every module to which no reconcile *)
(* is due that its last one found nothing to do.                           *)
(***************************************************************************)
EXTENDS ModuleController, SequenceLemmas

\* The worker has a key; an event of an execution leads to its module.
KeysInv ==
    /\ pc # "idle" => req \in Modules
    /\ \A i \in 1 .. Len(executionWatch) : executionWatch[i].object.owner \in Modules

\* Executions are born one after the other.
BornInv ==
    /\ \A x \in Executions :
        IF executions[x].state = "unborn" THEN executions[x].owner = NoModule
        ELSE executions[x].owner \in Modules /\ executions[x].created \in 1 .. clock
    /\ \A x, y \in Executions :
        /\ executions[x].state # "unborn" /\ executions[y].state # "unborn"
        /\ executions[x].created = executions[y].created
        => x = y

TypeInv == WellTyped /\ KeysInv /\ BornInv

----------------------------------------------------------------------------
(* Copies of executions.                                                   *)

\* The object of an execution may have become another one.
Precedes(old, new) ==
    old.state # "unborn" =>
        /\ new.state # "unborn" /\ (old.state = "deleted" => new.state = "deleted")
        /\ new.owner = old.owner /\ new.generation = old.generation /\ new.created = old.created
        /\ old.past \subseteq new.past /\ HasReached(new, old.phase)
        /\ old.phase # NoPhase => new.phase # NoPhase

ExecutionCopies ==
    /\ \A x \in Executions : Precedes(executionCache[x], executions[x])
    /\ \A i \in 1 .. Len(executionWatch) :
        /\ executionWatch[i].object.state # "unborn"
        /\ Precedes(executionWatch[i].object, executions[executionWatch[i].name])

\* The caches have what the last event, if there is one, will make of them.
ExecutionsSynced == Synced(Executions, executions, executionCache, executionWatch)

----------------------------------------------------------------------------
(* Copies of modules.                                                      *)

Follows(old, new) ==
    /\ old.version <= new.version /\ old.generation <= new.generation
    /\ old.version = new.version => old.generation = new.generation

\* The manager has seen the execution that a status names.  The generation
\* observed is not older than the execution's.
StatusOK(m, status, generation) ==
    LET x == status.lastExecution
    IN  x \in Executions =>
            /\ executionCache[x].state # "unborn"
            /\ executions[x].owner = m
            /\ HasReached(executions[x], status.phase)
            /\ executions[x].generation <= status.observed
            /\ 1 <= status.observed /\ status.observed <= generation

CopyOK(m, copy) ==
    /\ Follows(copy, modules[m])
    /\ copy.state = "live" => 1 <= copy.generation
    /\ StatusOK(m, copy.status, copy.generation)

ModuleCopies ==
    /\ \A m \in Modules : CopyOK(m, modules[m]) /\ CopyOK(m, moduleCache[m])
    /\ \A i \in 1 .. Len(moduleWatch) : CopyOK(moduleWatch[i].name, moduleWatch[i].object)
    /\ pc # "idle" => module.state = "live" /\ CopyOK(req, module)

UnbornModules ==
    \A m \in Modules :
        modules[m].state = "unborn" => modules[m].version = 0 /\ modules[m].generation = 0

\* Events come in the order of the changes.
EventsInOrder ==
    /\ \A i \in 1 .. Len(moduleWatch) :
        Follows(moduleCache[moduleWatch[i].name], moduleWatch[i].object)
    /\ \A i, j \in 1 .. Len(moduleWatch) :
        i < j /\ moduleWatch[i].name = moduleWatch[j].name
            => Follows(moduleWatch[i].object, moduleWatch[j].object)
    /\ pc # "idle" => Follows(module, moduleCache[req])

ModulesSynced == Synced(Modules, modules, moduleCache, moduleWatch)

\* An execution has no generation that its module, as the manager knows it,
\* has not; of two executions the younger has not the older generation.
Generations ==
    /\ \A x \in Executions : executions[x].state # "unborn" =>
        /\ executions[x].generation <= moduleCache[executions[x].owner].generation
        /\ pc # "idle" /\ executions[x].owner = req => executions[x].generation <= module.generation
    /\ \A x, y \in Executions :
        /\ executions[x].state # "unborn" /\ executions[y].state # "unborn"
        /\ executions[x].owner = executions[y].owner
        /\ executions[x].created <= executions[y].created
        => executions[x].generation <= executions[y].generation

----------------------------------------------------------------------------
(* The worker's decisions.                                                 *)

\* What Reconcile is about to create or to report is not older than what the
\* module reports.
Over(z) ==
    (\E end \in Ends : HasReported(executions[z], end)) \/ executions[z].state = "deleted"

Decided ==
    LET x == modules[req].status.lastExecution
        y == module.status.lastExecution
    IN  /\ pc = "create" /\ x \in Executions =>
            \E z \in ExecutionsOf(req) : executions[x].created <= executions[z].created /\ Over(z)
        /\ pc = "update" =>
            /\ y \in Executions
            /\ x \in Executions /\ executions[x].state = "live" =>
                executions[x].created <= executions[y].created

\* The worker has the module as it is in the cache, or will look again.
WorkerCurrent ==
    pc # "idle" /\ req \notin queue =>
        /\ module.version = moduleCache[req].version
        /\ pc # "update" => module = moduleCache[req]

Attended(m) ==
    \/ m \in queue \cup timers
    \/ pc # "idle" /\ req = m
    \/ \E i \in 1 .. Len(moduleWatch) : moduleWatch[i].name = m
    \/ \E i \in 1 .. Len(executionWatch) : executionWatch[i].object.owner = m

NothingToDo(m) ==
    \E x \in Newest(OwnedExecutions(m)) :
        /\ ~Due(moduleCache[m], executionCache[x])
        /\ Mirror(moduleCache[m], x, executionCache[x]) = moduleCache[m].status

NothingForgotten ==
    \A m \in Modules : moduleCache[m].state = "live" => Attended(m) \/ NothingToDo(m)

----------------------------------------------------------------------------
(* Types.                                                                  *)

LEMMA NewType ==
    /\ UnbornModule \in Module /\ UnbornExecution \in Execution /\ NoStatus \in Status
    /\ NoExecution \notin Executions /\ NoModule \notin Modules
    /\ [UnbornModule EXCEPT !.state = "live", !.version = 1, !.generation = 1] \in Module
<1>1. NoStatus \in Status
  BY DEF NoStatus, Status, Phases
<1>2. UnbornModule \in Module
  BY <1>1 DEF UnbornModule, Module
<1>3. UnbornExecution \in Execution
  BY DEF UnbornExecution, Execution, Phases
<1>4. [UnbornModule EXCEPT !.state = "live", !.version = 1, !.generation = 1] \in Module
  BY <1>2 DEF Module
<1> QED
  BY <1>1, <1>2, <1>3, <1>4, ConstantsAssumption

LEMMA NewExecutionType ==
    ASSUME NEW m \in Modules, NEW generation \in Nat, NEW now \in Nat
    PROVE  NewExecution(m, generation, now) \in Execution
BY DEF NewExecution, Execution, Phases

LEMMA MirrorType ==
    ASSUME NEW copy \in Module, NEW x \in Executions, NEW last \in Execution
    PROVE  Mirror(copy, x, last) \in Status
BY DEF Mirror, Module, Execution, Status

\* The cluster's own writes, and those of a status.
LEMMA WriteTypes ==
    /\ \A m \in Module :
        /\ [m EXCEPT !.version = @ + 1, !.generation = @ + 1] \in Module
        /\ [m EXCEPT !.version = @ + 1] \in Module
        /\ [m EXCEPT !.state = "deleted"] \in Module
        /\ \A status \in Status : [m EXCEPT !.status = status] \in Module
                                    /\ [m EXCEPT !.status = status, !.version = @ + 1] \in Module
    /\ \A x \in Execution :
        /\ \A phase \in Phases : [x EXCEPT !.phase = phase] \in Execution
        /\ \A phase \in Phases, ends \in SUBSET Ends :
                [x EXCEPT !.phase = phase, !.past = ends] \in Execution
        /\ [x EXCEPT !.state = "deleted"] \in Execution
<1>1. ASSUME NEW m \in Module
      PROVE  /\ [m EXCEPT !.version = @ + 1, !.generation = @ + 1] \in Module
             /\ [m EXCEPT !.version = @ + 1] \in Module
             /\ [m EXCEPT !.state = "deleted"] \in Module
  <2>1. m.version + 1 \in Nat /\ m.generation + 1 \in Nat
    BY DEF Module
  <2> QED
    BY <2>1 DEF Module
<1>2. ASSUME NEW m \in Module, NEW status \in Status
      PROVE  [m EXCEPT !.status = status] \in Module
             /\ [m EXCEPT !.status = status, !.version = @ + 1] \in Module
  <2>1. m.version + 1 \in Nat
    BY DEF Module
  <2> QED
    BY <2>1 DEF Module
<1>3. ASSUME NEW x \in Execution
      PROVE  /\ \A phase \in Phases : [x EXCEPT !.phase = phase] \in Execution
             /\ \A phase \in Phases, ends \in SUBSET Ends :
                    [x EXCEPT !.phase = phase, !.past = ends] \in Execution
             /\ [x EXCEPT !.state = "deleted"] \in Execution
  BY DEF Execution
<1> QED
  BY <1>1, <1>2, <1>3

LEMMA NoPhaseYet == NoPhase \notin {"Running", "Succeeded", "Failed"}
BY Zenon DEF NoPhase

LEMMA LaterType == \A phase : Later(phase) \subseteq Phases \ {NoPhase}
BY Zenon DEF Later, Phases, NoPhase

LEMMA EndsEnd == \A phase : IsExecutionTerminal(phase) => Later(phase) = {}
BY NoPhaseYet DEF Later, IsExecutionTerminal, Ends

LEMMA RerunType ==
    /\ {"Running", "Succeeded", "Failed"} \subseteq Phases \ {NoPhase}
    /\ Ends \subseteq Phases
BY NoPhaseYet DEF Phases, Ends

LEMMA SpendType ==
    ASSUME WellTyped, NEW d \in Disturbances \ {"any"}, Spend(d)
    PROVE  left' \in [Disturbances -> Nat]
BY DEF WellTyped, Spend, Disturbances

LEMMA Events ==
    ASSUME WellTyped
    PROVE  /\ Len(moduleWatch) \in Nat /\ Len(executionWatch) \in Nat
           /\ \A i \in 1 .. Len(moduleWatch) :
                moduleWatch[i].name \in Modules /\ moduleWatch[i].object \in Module
           /\ \A i \in 1 .. Len(executionWatch) :
                executionWatch[i].name \in Executions /\ executionWatch[i].object \in Execution
<1>1. /\ moduleWatch \in Seq([name: Modules, object: Module])
      /\ executionWatch \in Seq([name: Executions, object: Execution])
  BY DEF WellTyped, EventsOf
<1>2. /\ Len(moduleWatch) \in Nat /\ Len(executionWatch) \in Nat
      /\ moduleWatch \in [1 .. Len(moduleWatch) -> [name: Modules, object: Module]]
      /\ executionWatch \in [1 .. Len(executionWatch) -> [name: Executions, object: Execution]]
  BY <1>1, LenProperties
<1> QED
  BY <1>2

----------------------------------------------------------------------------
(* What a step may do to the executions and their copies.                  *)

LEMMA PrecedesReflexive == \A x : Precedes(x, x)
BY DEF Precedes, HasReached, HasReported

\* What an execution has reported it has reported for ever.
LEMMA ReachedStays ==
    ASSUME NEW a, NEW b, a.state # "unborn", Precedes(a, b), NEW phase, HasReached(a, phase)
    PROVE  HasReached(b, phase)
<1>1. CASE IsExecutionTerminal(phase)
  BY <1>1 DEF Precedes, HasReached, HasReported
<1>2. CASE ~IsExecutionTerminal(phase)
  BY <1>2 DEF Precedes, HasReached
<1> QED
  BY <1>1, <1>2

LEMMA PrecedesTransitive ==
    ASSUME NEW a, NEW b, NEW c, Precedes(a, b), Precedes(b, c)
    PROVE  Precedes(a, c)
<1> SUFFICES ASSUME a.state # "unborn" PROVE Precedes(a, c)
  BY DEF Precedes
<1>1. b.state # "unborn" /\ HasReached(b, a.phase)
  BY DEF Precedes
<1>2. HasReached(c, a.phase)
  BY <1>1, ReachedStays
<1> QED
  BY <1>1, <1>2 DEF Precedes

WriteExecution(x, object) ==
    /\ executions' = [executions EXCEPT ![x] = object]
    /\ executionWatch' = Append(executionWatch, Event(x, object))
    /\ UNCHANGED executionCache

Birth(x, object) ==
    /\ pc = "create" /\ pc' = "idle"
    /\ executions[x].state = "unborn" /\ object = NewExecution(req, module.generation, clock')
    /\ clock' = clock + 1
    /\ UNCHANGED <<modules, moduleWatch, moduleCache, queue>>

Change(x, object) ==
    /\ executions[x].state = "live" /\ Precedes(executions[x], object)
    /\ UNCHANGED <<clock, modules, moduleWatch, moduleCache, queue, timers, worker>>

LEMMA ExecutionSteps ==
    ASSUME TypeInv, [Next]_vars
    PROVE  \/ UNCHANGED <<executions, clock, executionWatch, executionCache>>
           \/ \E x \in Executions, object \in Execution :
                WriteExecution(x, object) /\ (Birth(x, object) \/ Change(x, object))
           \/ DeliverExecution
           \/ Restart
<1> DEFINE Written == \E x \in Executions, object \in Execution :
                WriteExecution(x, object) /\ (Birth(x, object) \/ Change(x, object))
           Same == UNCHANGED <<executions, clock, executionWatch, executionCache>>
<1> USE DEF cluster, informers
<1>1. ASSUME NEW m \in Modules,
             \/ StartReconcile(m) \/ TimerFires(m) \/ Resync(m)
             \/ CreateModule(m) \/ EditModule(m) \/ TouchModule(m) \/ DeleteModule(m)
      PROVE  Same
  BY <1>1 DEF StartReconcile, TimerFires, Resync, CreateModule, EditModule, TouchModule,
              DeleteModule, SetModule
<1>2. CASE ListExecutions \/ UpdateModuleStatus \/ DeliverModule \/ UNCHANGED vars
  BY <1>2 DEF ListExecutions, UpdateModuleStatus, DeliverModule, vars
<1>3. CASE CreateExecution
  <2>1. CASE UNCHANGED <<executions, clock, executionWatch>>
    BY <1>3, <2>1 DEF CreateExecution
  <2>2. ASSUME NEW x \in UnbornExecutions, clock' = clock + 1,
               executions' = [executions EXCEPT ![x] = NewExecution(req, module.generation, clock')],
               executionWatch' = Notify(executionWatch, x, executions'[x])
        PROVE  Written
    <3> DEFINE object == NewExecution(req, module.generation, clock')
    <3>1. /\ pc = "create" /\ pc' = "idle"
          /\ UNCHANGED <<modules, moduleWatch, moduleCache, executionCache, queue>>
      BY <1>3 DEF CreateExecution, Return, WorkerIdle
    <3>2. x \in Executions /\ executions[x].state = "unborn"
      BY <2>2 DEF UnbornExecutions
    <3>3. req \in Modules /\ module.generation \in Nat /\ clock' \in Nat
      BY <2>2, <3>1 DEF TypeInv, WellTyped, KeysInv, Module
    <3>4. object \in Execution /\ executions'[x] = object
      BY <2>2, <3>2, <3>3, NewExecutionType DEF TypeInv, WellTyped
    <3> HIDE DEF object
    <3>5. WriteExecution(x, object)
      BY <2>2, <3>1, <3>4 DEF WriteExecution, Notify, object
    <3>6. Birth(x, object)
      BY <2>2, <3>1, <3>2 DEF Birth, object
    <3> QED
      BY <3>2, <3>4, <3>5, <3>6
  <2> QED
    BY <1>3, <2>1, <2>2 DEF CreateExecution
<1>4. ASSUME NEW x \in Executions, NEW object \in Execution, SetExecution(x, object),
             executions[x].state = "live", Precedes(executions[x], object)
      PROVE  Written
  <2>1. WriteExecution(x, object)
    BY <1>4 DEF SetExecution, WriteExecution, Notify
  <2>2. Change(x, object)
    BY <1>4 DEF SetExecution, Change
  <2> QED
    BY <2>1, <2>2
<1>5. ASSUME NEW x \in Executions, AdvanceExecution(x) PROVE Written
  <2>1. PICK phase \in Later(executions[x].phase) :
            SetExecution(x, [executions[x] EXCEPT !.phase = phase])
    BY <1>5 DEF AdvanceExecution
  <2> DEFINE object == [executions[x] EXCEPT !.phase = phase]
  <2>2. executions[x] \in Execution /\ executions[x].state = "live" /\ phase \in Phases
    BY <1>5, LaterType DEF AdvanceExecution, TypeInv, WellTyped
  <2>3. object \in Execution
    BY <2>2, WriteTypes
  <2>4. ~IsExecutionTerminal(executions[x].phase) /\ phase # NoPhase
    BY <2>1, EndsEnd, LaterType
  <2>5. object.past = executions[x].past /\ object.phase = phase
    BY <2>2 DEF Execution
  <2>6. Precedes(executions[x], object)
    BY <2>2, <2>4, <2>5 DEF Precedes, Execution, HasReached
  <2> QED
    BY <1>4, <2>1, <2>2, <2>3, <2>6
<1>7. ASSUME NEW x \in Executions, RerunExecution(x) PROVE Written
  <2>1. PICK phase \in {"Running", "Succeeded", "Failed"} :
            SetExecution(x, [executions[x] EXCEPT !.phase = phase,
                                                  !.past = @ \cup {executions[x].phase}])
    BY <1>7 DEF RerunExecution
  <2> DEFINE object == [executions[x] EXCEPT !.phase = phase,
                                             !.past = executions[x].past \cup {executions[x].phase}]
  <2>2. /\ executions[x] \in Execution /\ executions[x].state = "live"
        /\ executions[x].phase \in Ends /\ phase \in Phases \ {NoPhase}
    BY <1>7, RerunType DEF RerunExecution, IsExecutionTerminal, TypeInv, WellTyped
  <2>3. executions[x].past \cup {executions[x].phase} \in SUBSET Ends
    BY <2>2 DEF Execution
  <2>4. object \in Execution
    BY <2>2, <2>3, WriteTypes
  <2>5. SetExecution(x, object)
    BY <2>1
  <2>6. /\ object.past = executions[x].past \cup {executions[x].phase} /\ object.phase = phase
        /\ object.state = executions[x].state /\ object.owner = executions[x].owner
        /\ object.generation = executions[x].generation /\ object.created = executions[x].created
    BY <2>2 DEF Execution
  <2> HIDE DEF object
  <2>7. Precedes(executions[x], object)
    BY <2>2, <2>6 DEF Precedes, HasReached, HasReported, IsExecutionTerminal
  <2> QED
    BY <1>4, <2>2, <2>4, <2>5, <2>7
<1>6. ASSUME NEW x \in Executions, LoseExecution(x) \/ CollectExecution(x) PROVE Written
  <2> DEFINE object == [executions[x] EXCEPT !.state = "deleted"]
  <2>1. executions[x] \in Execution /\ executions[x].state = "live" /\ SetExecution(x, object)
    BY <1>6 DEF LoseExecution, CollectExecution, TypeInv, WellTyped
  <2>2. object \in Execution
    BY <2>1, WriteTypes
  <2>3. Precedes(executions[x], object)
    BY <2>1 DEF Precedes, Execution, HasReached, HasReported
  <2> QED
    BY <1>4, <2>1, <2>2, <2>3
<1> QED
  BY <1>1, <1>2, <1>3, <1>5, <1>6, <1>7 DEF Next

----------------------------------------------------------------------------
(* ... and to the modules.                                                 *)

WriteModule(m, object) ==
    /\ modules' = [modules EXCEPT ![m] = object]
    /\ moduleWatch' = Append(moduleWatch, Event(m, object))
    /\ UNCHANGED <<moduleCache, executions, clock, executionWatch, executionCache, queue>>

Edit(m, object) ==
    /\ IF modules[m].state = "unborn"
       THEN object.version = 1 /\ object.generation = 1 /\ object.status = NoStatus
       ELSE /\ modules[m].state = "live" /\ Follows(modules[m], object)
            /\ object.status = modules[m].status /\ modules[m].generation <= object.generation
    /\ object.state # "unborn"
    /\ UNCHANGED <<timers, worker>>

Report(m, object) ==
    /\ pc = "update" /\ pc' = "idle" /\ m = req /\ Current
    /\ object.state = "live" /\ object.version = modules[m].version + 1
    /\ object.generation = modules[m].generation /\ object.status = module.status

LEMMA ModuleSteps ==
    ASSUME TypeInv, [Next]_vars
    PROVE  \/ UNCHANGED <<modules, moduleWatch, moduleCache>>
           \/ \E m \in Modules, object \in Module :
                WriteModule(m, object) /\ (Edit(m, object) \/ Report(m, object))
           \/ DeliverModule
           \/ Restart
<1> DEFINE Written == \E m \in Modules, object \in Module :
                WriteModule(m, object) /\ (Edit(m, object) \/ Report(m, object))
           Same == UNCHANGED <<modules, moduleWatch, moduleCache>>
<1> USE DEF cluster, informers
<1>1. ASSUME NEW m \in Modules, StartReconcile(m) \/ TimerFires(m) \/ Resync(m) PROVE Same
  BY <1>1 DEF StartReconcile, TimerFires, Resync
<1>2. ASSUME NEW x \in Executions,
             \/ AdvanceExecution(x) \/ RerunExecution(x)
             \/ LoseExecution(x) \/ CollectExecution(x)
      PROVE  Same
  BY <1>2 DEF AdvanceExecution, RerunExecution, LoseExecution, CollectExecution, SetExecution
<1>3. CASE ListExecutions \/ CreateExecution \/ DeliverExecution \/ UNCHANGED vars
  BY <1>3 DEF ListExecutions, CreateExecution, DeliverExecution, vars
<1>4. CASE UpdateModuleStatus
  <2>1. CASE UNCHANGED <<modules, moduleWatch>>
    BY <1>4, <2>1 DEF UpdateModuleStatus
  <2> DEFINE object == [modules[req] EXCEPT !.status = module.status, !.version = @ + 1]
  <2>2. ASSUME Current, modules' = [modules EXCEPT ![req] = object],
               moduleWatch' = Notify(moduleWatch, req, modules'[req]), pc' = "idle"
        PROVE  Written
    <3>1. /\ pc = "update" /\ req \in Modules
          /\ UNCHANGED <<moduleCache, executions, clock, executionWatch, executionCache, queue>>
      BY <1>4 DEF UpdateModuleStatus, TypeInv, KeysInv
    <3>2. modules[req] \in Module /\ module.status \in Status /\ modules[req].state = "live"
      BY <2>2, <3>1 DEF TypeInv, WellTyped, Module, Current
    <3>3. object \in Module /\ modules'[req] = object
      BY <2>2, <3>1, <3>2, WriteTypes DEF TypeInv, WellTyped
    <3>4. /\ object.state = "live" /\ object.version = modules[req].version + 1
          /\ object.generation = modules[req].generation /\ object.status = module.status
      <4>1. modules[req].version + 1 \in Nat
        BY <3>2 DEF Module
      <4> QED
        BY <3>2, <4>1 DEF Module
    <3> HIDE DEF object
    <3>5. WriteModule(req, object)
      BY <2>2, <3>1, <3>3 DEF WriteModule, Notify
    <3>6. Report(req, object)
      BY <2>2, <3>1, <3>4 DEF Report
    <3> QED
      BY <3>1, <3>3, <3>5, <3>6
  <2> QED
    BY <1>4, <2>1, <2>2 DEF UpdateModuleStatus, Return, WorkerIdle
<1>5. ASSUME NEW m \in Modules, NEW object \in Module, SetModule(m, object), Edit(m, object)
      PROVE  Written
  <2>1. WriteModule(m, object)
    BY <1>5 DEF SetModule, WriteModule, Notify
  <2> QED
    BY <1>5, <2>1
<1>6. ASSUME NEW m \in Modules, CreateModule(m) PROVE Written
  <2> DEFINE object == [UnbornModule EXCEPT !.state = "live", !.version = 1, !.generation = 1]
  <2>1. modules[m].state = "unborn" /\ SetModule(m, object) /\ object \in Module
    BY <1>6, NewType DEF CreateModule
  <2>2. object.state = "live" /\ object.version = 1 /\ object.generation = 1 /\ object.status = NoStatus
    BY DEF UnbornModule
  <2>3. Edit(m, object)
    BY <2>1, <2>2 DEF Edit, SetModule
  <2> QED
    BY <1>5, <2>1, <2>3
<1>7. ASSUME NEW m \in Modules, EditModule(m) \/ TouchModule(m) \/ DeleteModule(m) PROVE Written
  <2>1. modules[m] \in Module /\ modules[m].state = "live"
    BY <1>7 DEF EditModule, TouchModule, DeleteModule, TypeInv, WellTyped
  <2>2. /\ modules[m].version \in Nat /\ modules[m].version + 1 \in Nat
        /\ modules[m].generation \in Nat /\ modules[m].generation + 1 \in Nat
    BY <2>1 DEF Module
  <2>3. PICK object \in Module :
            /\ SetModule(m, object) /\ object.state # "unborn" /\ object.status = modules[m].status
            /\ \/ object.version = modules[m].version + 1 /\ object.generation = modules[m].generation + 1
               \/ object.version = modules[m].version + 1 /\ object.generation = modules[m].generation
               \/ object.version = modules[m].version /\ object.generation = modules[m].generation
    <3>1. CASE EditModule(m)
      <4> DEFINE object == [modules[m] EXCEPT !.version = @ + 1, !.generation = @ + 1]
      <4>1. SetModule(m, object) /\ object \in Module
        BY <2>1, <3>1, WriteTypes DEF EditModule
      <4>2. /\ object.state = "live" /\ object.status = modules[m].status
            /\ object.version = modules[m].version + 1
            /\ object.generation = modules[m].generation + 1
        BY <2>1, <2>2 DEF Module
      <4> HIDE DEF object
      <4> QED
        BY <4>1, <4>2
    <3>2. CASE TouchModule(m)
      <4> DEFINE object == [modules[m] EXCEPT !.version = @ + 1]
      <4>1. SetModule(m, object) /\ object \in Module
        BY <2>1, <3>2, WriteTypes DEF TouchModule
      <4>2. /\ object.state = "live" /\ object.status = modules[m].status
            /\ object.version = modules[m].version + 1
            /\ object.generation = modules[m].generation
        BY <2>1, <2>2 DEF Module
      <4> HIDE DEF object
      <4> QED
        BY <4>1, <4>2
    <3>3. CASE DeleteModule(m)
      <4> DEFINE object == [modules[m] EXCEPT !.state = "deleted"]
      <4>1. SetModule(m, object) /\ object \in Module
        BY <2>1, <3>3, WriteTypes DEF DeleteModule
      <4>2. /\ object.state = "deleted" /\ object.status = modules[m].status
            /\ object.version = modules[m].version
            /\ object.generation = modules[m].generation
        BY <2>1, <2>2 DEF Module
      <4> HIDE DEF object
      <4> QED
        BY <4>1, <4>2
    <3> QED
      BY <1>7, <3>1, <3>2, <3>3
  <2>4. Edit(m, object)
    BY <2>1, <2>2, <2>3 DEF Edit, Follows, SetModule
  <2> QED
    BY <1>5, <2>3, <2>4
<1> QED
  BY <1>1, <1>2, <1>3, <1>4, <1>6, <1>7 DEF Next

----------------------------------------------------------------------------
(* The types are kept.                                                     *)

LEMMA ExecutionEvents ==
    ASSUME TypeInv, executionWatch # <<>>
    PROVE  /\ Head(executionWatch) = executionWatch[1] /\ 1 \in 1 .. Len(executionWatch)
           /\ Tail(executionWatch) \in EventsOf(Executions, Execution)
           /\ Len(Tail(executionWatch)) = Len(executionWatch) - 1
           /\ \A i \in 1 .. Len(Tail(executionWatch)) :
                i + 1 \in 1 .. Len(executionWatch) /\ Tail(executionWatch)[i] = executionWatch[i + 1]
<1>1. executionWatch \in Seq([name: Executions, object: Execution])
  BY DEF TypeInv, WellTyped, EventsOf
<1> QED
  BY <1>1, Taken DEF EventsOf

LEMMA ModuleEvents ==
    ASSUME TypeInv, moduleWatch # <<>>
    PROVE  /\ Head(moduleWatch) = moduleWatch[1] /\ 1 \in 1 .. Len(moduleWatch)
           /\ Tail(moduleWatch) \in EventsOf(Modules, Module)
           /\ Len(Tail(moduleWatch)) = Len(moduleWatch) - 1
           /\ \A i \in 1 .. Len(Tail(moduleWatch)) :
                i + 1 \in 1 .. Len(moduleWatch) /\ Tail(moduleWatch)[i] = moduleWatch[i + 1]
<1>1. moduleWatch \in Seq([name: Modules, object: Module])
  BY DEF TypeInv, WellTyped, EventsOf
<1> QED
  BY <1>1, Taken DEF EventsOf

LEMMA ExecutionAppended ==
    ASSUME TypeInv, NEW x \in Executions, NEW object \in Execution, WriteExecution(x, object)
    PROVE  /\ executionWatch' \in EventsOf(Executions, Execution)
           /\ Len(executionWatch') = Len(executionWatch) + 1 /\ Len(executionWatch) \in Nat
           /\ \A i \in 1 .. Len(executionWatch) : executionWatch'[i] = executionWatch[i]
           /\ executionWatch'[Len(executionWatch) + 1].name = x
           /\ executionWatch'[Len(executionWatch) + 1].object = object
<1>1. executionWatch \in Seq([name: Executions, object: Execution])
  BY DEF TypeInv, WellTyped, EventsOf
<1>2. Event(x, object) \in [name: Executions, object: Execution]
      /\ Event(x, object).name = x /\ Event(x, object).object = object
  BY DEF Event
<1>3. executionWatch' = Append(executionWatch, Event(x, object))
  BY DEF WriteExecution
<1> QED
  BY <1>1, <1>2, <1>3, Appended, Elements DEF EventsOf

LEMMA ModuleAppended ==
    ASSUME TypeInv, NEW m \in Modules, NEW object \in Module, WriteModule(m, object)
    PROVE  /\ moduleWatch' \in EventsOf(Modules, Module)
           /\ Len(moduleWatch') = Len(moduleWatch) + 1 /\ Len(moduleWatch) \in Nat
           /\ \A i \in 1 .. Len(moduleWatch) : moduleWatch'[i] = moduleWatch[i]
           /\ moduleWatch'[Len(moduleWatch) + 1].name = m
           /\ moduleWatch'[Len(moduleWatch) + 1].object = object
<1>1. moduleWatch \in Seq([name: Modules, object: Module])
  BY DEF TypeInv, WellTyped, EventsOf
<1>2. Event(m, object) \in [name: Modules, object: Module]
      /\ Event(m, object).name = m /\ Event(m, object).object = object
  BY DEF Event
<1>3. moduleWatch' = Append(moduleWatch, Event(m, object))
  BY DEF WriteModule
<1> QED
  BY <1>1, <1>2, <1>3, Appended, Elements DEF EventsOf

LEMMA ExecutionsType ==
    ASSUME TypeInv, [Next]_vars
    PROVE  /\ executions' \in [Executions -> Execution]
           /\ executionCache' \in [Executions -> Execution]
           /\ executionWatch' \in EventsOf(Executions, Execution)
           /\ clock' \in Nat
<1>1. CASE UNCHANGED <<executions, clock, executionWatch, executionCache>>
  BY <1>1 DEF TypeInv, WellTyped
<1>2. ASSUME NEW x \in Executions, NEW object \in Execution, WriteExecution(x, object),
             Birth(x, object) \/ Change(x, object)
      PROVE  /\ executions' \in [Executions -> Execution]
             /\ executionCache' \in [Executions -> Execution]
             /\ executionWatch' \in EventsOf(Executions, Execution)
             /\ clock' \in Nat
  <2>1. executionWatch' \in EventsOf(Executions, Execution)
    BY <1>2, ExecutionAppended
  <2>2. clock' \in Nat
    BY <1>2 DEF TypeInv, WellTyped, Birth, Change
  <2> QED
    BY <1>2, <2>1, <2>2 DEF TypeInv, WellTyped, WriteExecution
<1>3. CASE DeliverExecution
  <2>1. /\ executionWatch' \in EventsOf(Executions, Execution)
        /\ Head(executionWatch).name \in Executions /\ Head(executionWatch).object \in Execution
    BY <1>3, ExecutionEvents, Events DEF DeliverExecution, TypeInv
  <2> QED
    BY <1>3, <2>1 DEF DeliverExecution, TypeInv, WellTyped, cluster
<1>4. CASE Restart
  <2>1. <<>> \in EventsOf(Executions, Execution) /\ <<>> \in EventsOf(Modules, Module)
    BY EmptySeq DEF EventsOf
  <2> QED
    BY <1>4, <2>1 DEF Restart, TypeInv, WellTyped, cluster
<1> QED
  BY <1>1, <1>2, <1>3, <1>4, ExecutionSteps

LEMMA ModulesType ==
    ASSUME TypeInv, [Next]_vars
    PROVE  /\ modules' \in [Modules -> Module]
           /\ moduleCache' \in [Modules -> Module]
           /\ moduleWatch' \in EventsOf(Modules, Module)
<1>1. CASE UNCHANGED <<modules, moduleWatch, moduleCache>>
  BY <1>1 DEF TypeInv, WellTyped
<1>2. ASSUME NEW m \in Modules, NEW object \in Module, WriteModule(m, object)
      PROVE  /\ modules' \in [Modules -> Module]
             /\ moduleCache' \in [Modules -> Module]
             /\ moduleWatch' \in EventsOf(Modules, Module)
  BY <1>2, ModuleAppended DEF TypeInv, WellTyped, WriteModule
<1>3. CASE DeliverModule
  <2>1. /\ moduleWatch' \in EventsOf(Modules, Module)
        /\ Head(moduleWatch).name \in Modules /\ Head(moduleWatch).object \in Module
    BY <1>3, ModuleEvents, Events DEF DeliverModule, TypeInv
  <2> QED
    BY <1>3, <2>1 DEF DeliverModule, TypeInv, WellTyped, cluster
<1>4. CASE Restart
  <2>1. <<>> \in EventsOf(Executions, Execution) /\ <<>> \in EventsOf(Modules, Module)
    BY EmptySeq DEF EventsOf
  <2> QED
    BY <1>4, <2>1 DEF Restart, TypeInv, WellTyped, cluster
<1> QED
  BY <1>1, <1>2, <1>3, <1>4, ModuleSteps

\* The worker takes modules only, from the queue, and creates or updates for
\* the module it took.
LEMMA WorkerType ==
    ASSUME TypeInv, [Next]_vars
    PROVE  /\ queue' \subseteq Modules /\ timers' \subseteq Modules
           /\ pc' \in {"idle", "list", "create", "update"}
           /\ req' \in Modules \cup {NoModule} /\ module' \in Module
           /\ pc' # "idle" => req' \in Modules
<1> DEFINE Typed == /\ queue' \subseteq Modules /\ timers' \subseteq Modules
                    /\ pc' \in {"idle", "list", "create", "update"}
                    /\ req' \in Modules \cup {NoModule} /\ module' \in Module
                    /\ pc' # "idle" => req' \in Modules
<1> USE DEF cluster, informers, worker, TypeInv, WellTyped, KeysInv
<1>1. ASSUME NEW failed \in BOOLEAN, Return(failed), pc # "idle"
      PROVE  /\ timers' \subseteq Modules /\ pc' = "idle" /\ req' = NoModule /\ module' \in Module
  BY <1>1, NewType DEF Return, WorkerIdle
<1>2. ASSUME NEW m \in Modules, StartReconcile(m) PROVE Typed
  BY <1>2 DEF StartReconcile
<1>3. CASE ListExecutions
  <2>1. pc = "list" /\ req \in Modules /\ UNCHANGED queue
    BY <1>3 DEF ListExecutions
  <2>2. CASE pc' = "create" /\ UNCHANGED <<req, module, timers>>
    BY <2>1, <2>2
  <2>3. CASE Return(FALSE)
    BY <1>1, <2>1, <2>3
  <2>4. ASSUME NEW x \in Executions, pc' = "update", UNCHANGED <<req, timers>>,
               module' = [module EXCEPT !.status = Mirror(module, x, executionCache[x])]
        PROVE  Typed
    <3>1. module' \in Module
      BY <2>4, MirrorType, WriteTypes
    <3> QED
      BY <2>1, <2>4, <3>1
  <2> QED
    BY <1>3, <2>2, <2>3, <2>4 DEF ListExecutions, Newest, OwnedExecutions
<1>4. CASE CreateExecution \/ UpdateModuleStatus
  <2>1. pc # "idle" /\ UNCHANGED queue /\ (Return(TRUE) \/ Return(FALSE))
    BY <1>4 DEF CreateExecution, UpdateModuleStatus
  <2> QED
    BY <1>1, <2>1
<1>5. CASE DeliverModule
  BY <1>5, ModuleEvents, Events DEF DeliverModule
<1>6. CASE DeliverExecution
  BY <1>6, ExecutionEvents, Events DEF DeliverExecution
<1>7. ASSUME NEW m \in Modules, TimerFires(m) \/ Resync(m) PROVE Typed
  BY <1>7 DEF TimerFires, Resync
<1>8. CASE Restart
  BY <1>8, NewType DEF Restart, WorkerIdle
<1>9. ASSUME NEW m \in Modules,
             CreateModule(m) \/ EditModule(m) \/ TouchModule(m) \/ DeleteModule(m)
      PROVE  Typed
  BY <1>9 DEF CreateModule, EditModule, TouchModule, DeleteModule, SetModule
<1>10. ASSUME NEW x \in Executions,
              \/ AdvanceExecution(x) \/ RerunExecution(x)
              \/ LoseExecution(x) \/ CollectExecution(x)
       PROVE  Typed
  BY <1>10 DEF AdvanceExecution, RerunExecution, LoseExecution, CollectExecution, SetExecution
<1>11. CASE UNCHANGED vars
  BY <1>11 DEF vars
<1> QED
  BY <1>2, <1>3, <1>4, <1>5, <1>6, <1>7, <1>8, <1>9, <1>10, <1>11 DEF Next

LEMMA LeftType ==
    ASSUME TypeInv, [Next]_vars
    PROVE  left' \in [Disturbances -> Nat]
<1>1. UNCHANGED left \/ \E d \in Disturbances \ {"any"} : Spend(d)
  BY DEF Next, vars, StartReconcile, TimerFires, Resync, CreateModule, EditModule, TouchModule,
         DeleteModule, AdvanceExecution, RerunExecution, LoseExecution, CollectExecution,
         ListExecutions, CreateExecution, UpdateModuleStatus, DeliverModule, DeliverExecution,
         Restart, Disturbances
<1> QED
  BY <1>1, SpendType DEF TypeInv, WellTyped

LEMMA BornStep ==
    ASSUME TypeInv, [Next]_vars
    PROVE  BornInv'
<1>1. CASE UNCHANGED <<executions, clock>>
  BY <1>1 DEF TypeInv, BornInv
<1>2. ASSUME NEW x \in Executions, NEW object \in Execution, WriteExecution(x, object),
             Birth(x, object)
      PROVE  BornInv'
  <2>1. /\ executions' = [executions EXCEPT ![x] = object] /\ clock' = clock + 1 /\ clock \in Nat
        /\ object.state = "live" /\ object.owner = req /\ object.created = clock'
        /\ req \in Modules
    BY <1>2 DEF WriteExecution, Birth, NewExecution, TypeInv, WellTyped, KeysInv
  <2>2. \A y \in Executions \ {x} : executions'[y] = executions[y]
    BY <2>1 DEF TypeInv, WellTyped
  <2>3. executions'[x] = object
    BY <2>1 DEF TypeInv, WellTyped
  <2>4. \A y \in Executions \ {x} :
            executions'[y].state # "unborn" => executions'[y].created \in 1 .. clock
    BY <2>2 DEF TypeInv, BornInv
  <2> QED
    BY <2>1, <2>2, <2>3, <2>4 DEF TypeInv, BornInv
<1>3. ASSUME NEW x \in Executions, NEW object \in Execution, WriteExecution(x, object),
             Change(x, object)
      PROVE  BornInv'
  <2>1. /\ executions' = [executions EXCEPT ![x] = object] /\ UNCHANGED clock
        /\ executions[x].state # "unborn" /\ object.state # "unborn"
        /\ object.owner = executions[x].owner /\ object.created = executions[x].created
    BY <1>3 DEF WriteExecution, Change, Precedes
  <2>2. \A y \in Executions :
            /\ executions'[y].owner = executions[y].owner
            /\ executions'[y].created = executions[y].created
            /\ executions'[y].state = "unborn" <=> executions[y].state = "unborn"
    BY <2>1 DEF TypeInv, WellTyped
  <2> QED
    BY <2>1, <2>2 DEF TypeInv, BornInv
<1>4. CASE DeliverExecution \/ Restart
  BY <1>4 DEF DeliverExecution, Restart, cluster, TypeInv, BornInv
<1> QED
  BY <1>1, <1>2, <1>3, <1>4, ExecutionSteps

LEMMA OwnersStep ==
    ASSUME TypeInv, [Next]_vars
    PROVE  \A i \in 1 .. Len(executionWatch') : executionWatch'[i].object.owner \in Modules
<1>1. \A i \in 1 .. Len(executionWatch) : executionWatch[i].object.owner \in Modules
  BY DEF TypeInv, KeysInv
<1>2. CASE UNCHANGED executionWatch
  BY <1>1, <1>2
<1>3. ASSUME NEW x \in Executions, NEW object \in Execution, WriteExecution(x, object),
             Birth(x, object) \/ Change(x, object)
      PROVE  \A i \in 1 .. Len(executionWatch') : executionWatch'[i].object.owner \in Modules
  <2>1. object.owner \in Modules
    BY <1>3 DEF Birth, Change, NewExecution, Precedes, TypeInv, KeysInv, BornInv
  <2>2. /\ Len(executionWatch') = Len(executionWatch) + 1 /\ Len(executionWatch) \in Nat
        /\ \A i \in 1 .. Len(executionWatch) : executionWatch'[i] = executionWatch[i]
        /\ executionWatch'[Len(executionWatch) + 1].object = object
    BY <1>3, ExecutionAppended
  <2>3. \A i \in 1 .. Len(executionWatch') : i \in 1 .. Len(executionWatch) \/ i = Len(executionWatch) + 1
    BY <2>2
  <2> QED
    BY <1>1, <2>1, <2>2, <2>3
<1>4. CASE DeliverExecution
  BY <1>1, <1>4, ExecutionEvents DEF DeliverExecution
<1>5. CASE Restart
  BY <1>5, EmptySeq DEF Restart
<1> QED
  BY <1>2, <1>3, <1>4, <1>5, ExecutionSteps

LEMMA TypeStep == TypeInv /\ [Next]_vars => TypeInv'
BY ExecutionsType, ModulesType, WorkerType, LeftType, BornStep, OwnersStep
DEF TypeInv, WellTyped, KeysInv

LEMMA TypeInit == Init => TypeInv
<1> SUFFICES ASSUME Init PROVE TypeInv
  OBVIOUS
<1>1. <<>> \in EventsOf(Executions, Execution) /\ <<>> \in EventsOf(Modules, Module)
      /\ Len(<<>>) = 0
  BY EmptySeq DEF EventsOf
<1>2. WellTyped
  BY <1>1, NewType, ConstantsAssumption DEF Init, WellTyped
<1>3. KeysInv /\ BornInv
  BY <1>1, NewType DEF Init, KeysInv, BornInv, UnbornExecution
<1> QED
  BY <1>2, <1>3 DEF TypeInv

LEMMA Types == Spec => []TypeInv
BY TypeInit, TypeStep, PTL DEF Spec

\* Cluster, informers, queue and worker keep their types: every key that is
\* queued, the owner of any execution included, is that of a module.
THEOREM TypeCorrect == Spec => []TypeOK
<1>1. TypeInv => TypeOK
  BY DEF TypeInv, BornInv, TypeOK
<1> QED
  BY <1>1, Types, PTL

----------------------------------------------------------------------------
(* Copies of executions: invariance.                                       *)

LEMMA ExecutionsPrecede ==
    ASSUME TypeInv, [Next]_vars
    PROVE  \A x \in Executions : Precedes(executions[x], executions'[x])
<1>1. CASE UNCHANGED executions
  BY <1>1, PrecedesReflexive
<1>2. ASSUME NEW x \in Executions, NEW object \in Execution, WriteExecution(x, object),
             Birth(x, object) \/ Change(x, object)
      PROVE  \A y \in Executions : Precedes(executions[y], executions'[y])
  <2>1. Precedes(executions[x], object)
    BY <1>2 DEF Birth, Change, Precedes
  <2>2. executions'[x] = object /\ \A y \in Executions \ {x} : executions'[y] = executions[y]
    BY <1>2 DEF WriteExecution, TypeInv, WellTyped
  <2> QED
    BY <2>1, <2>2, PrecedesReflexive
<1> QED
  BY <1>1, <1>2, ExecutionSteps DEF DeliverExecution, Restart, cluster

LEMMA ExecutionCopiesStep ==
    ASSUME TypeInv, ExecutionCopies, [Next]_vars
    PROVE  ExecutionCopies'
<1>1. \A x \in Executions : Precedes(executions[x], executions'[x])
  BY ExecutionsPrecede
<1>2. \A x \in Executions : Precedes(executionCache[x], executions'[x])
  BY <1>1, PrecedesTransitive DEF ExecutionCopies
<1>3. \A i \in 1 .. Len(executionWatch) :
        /\ executionWatch[i].object.state # "unborn"
        /\ Precedes(executionWatch[i].object, executions'[executionWatch[i].name])
  <2> TAKE i \in 1 .. Len(executionWatch)
  <2>1. executionWatch[i].name \in Executions
    BY Events DEF TypeInv
  <2> QED
    BY <1>1, <2>1, PrecedesTransitive DEF ExecutionCopies
<1>4. CASE UNCHANGED <<executionWatch, executionCache>>
  BY <1>2, <1>3, <1>4 DEF ExecutionCopies
<1>5. ASSUME NEW x \in Executions, NEW object \in Execution, WriteExecution(x, object),
             Birth(x, object) \/ Change(x, object)
      PROVE  ExecutionCopies'
  <2>1. object.state # "unborn" /\ executions'[x] = object /\ UNCHANGED executionCache
    BY <1>5 DEF WriteExecution, Birth, Change, Precedes, NewExecution, TypeInv, WellTyped
  <2>2. /\ Len(executionWatch') = Len(executionWatch) + 1 /\ Len(executionWatch) \in Nat
        /\ \A i \in 1 .. Len(executionWatch) : executionWatch'[i] = executionWatch[i]
        /\ executionWatch'[Len(executionWatch) + 1].name = x
        /\ executionWatch'[Len(executionWatch) + 1].object = object
    BY <1>5, ExecutionAppended
  <2>3. \A i \in 1 .. Len(executionWatch') : i \in 1 .. Len(executionWatch) \/ i = Len(executionWatch) + 1
    BY <2>2
  <2>4. \A i \in 1 .. Len(executionWatch') :
        /\ executionWatch'[i].object.state # "unborn"
        /\ Precedes(executionWatch'[i].object, executions'[executionWatch'[i].name])
    BY <1>3, <2>1, <2>2, <2>3, PrecedesReflexive
  <2> QED
    BY <1>2, <2>1, <2>4 DEF ExecutionCopies
<1>6. CASE DeliverExecution
  <2>1. /\ 1 \in 1 .. Len(executionWatch)
        /\ executionCache' = [executionCache EXCEPT ![executionWatch[1].name] = executionWatch[1].object]
        /\ executionWatch[1].name \in Executions
    BY <1>6, ExecutionEvents, Events DEF DeliverExecution, TypeInv
  <2>2. \A x \in Executions : Precedes(executionCache'[x], executions'[x])
    BY <1>2, <1>3, <2>1 DEF TypeInv, WellTyped
  <2>3. \A i \in 1 .. Len(executionWatch') :
        /\ executionWatch'[i].object.state # "unborn"
        /\ Precedes(executionWatch'[i].object, executions'[executionWatch'[i].name])
    BY <1>3, <1>6, ExecutionEvents DEF DeliverExecution
  <2> QED
    BY <2>2, <2>3 DEF ExecutionCopies
<1>7. CASE Restart
  BY <1>7, EmptySeq, PrecedesReflexive DEF Restart, cluster, ExecutionCopies
<1> QED
  BY <1>4, <1>5, <1>6, <1>7, ExecutionSteps

\* The manager does not forget that it has seen an execution.
LEMMA SeenStays ==
    ASSUME TypeInv, ExecutionCopies, [Next]_vars
    PROVE  \A x \in Executions : Precedes(executionCache[x], executionCache'[x])
                                    \/ executionCache'[x].state # "unborn"
<1>1. CASE UNCHANGED executionCache
  BY <1>1, PrecedesReflexive
<1>2. CASE DeliverExecution
  <2>1. /\ executionCache' = [executionCache EXCEPT ![executionWatch[1].name] = executionWatch[1].object]
        /\ executionWatch[1].object.state # "unborn"
    BY <1>2, ExecutionEvents DEF DeliverExecution, ExecutionCopies
  <2> QED
    BY <2>1, PrecedesReflexive DEF TypeInv, WellTyped
<1>3. CASE Restart
  BY <1>3 DEF Restart, ExecutionCopies
<1> QED
  BY <1>1, <1>2, <1>3, ExecutionSteps DEF WriteExecution

LEMMA ExecutionsSyncedStep ==
    ASSUME TypeInv, ExecutionsSynced, [Next]_vars
    PROVE  ExecutionsSynced'
<1>1. /\ executionWatch \in Seq([name: Executions, object: Execution])
      /\ executions \in [Executions -> Execution] /\ executionCache \in [Executions -> Execution]
  BY DEF TypeInv, WellTyped, EventsOf
<1>2. CASE UNCHANGED <<executions, executionWatch, executionCache>>
  BY <1>2 DEF ExecutionsSynced
<1>3. ASSUME NEW x \in Executions, NEW object \in Execution, WriteExecution(x, object)
      PROVE  ExecutionsSynced'
  BY <1>1, <1>3, SyncedWhenWritten DEF WriteExecution, Event, ExecutionsSynced
<1>4. CASE DeliverExecution
  BY <1>1, <1>4, SyncedWhenDelivered DEF DeliverExecution, cluster, ExecutionsSynced
<1>5. CASE Restart
  BY <1>1, <1>5, SyncedWhenEmpty DEF Restart, cluster, ExecutionsSynced
<1> QED
  BY <1>2, <1>3, <1>4, <1>5, ExecutionSteps

LEMMA ModulesSyncedStep ==
    ASSUME TypeInv, ModulesSynced, [Next]_vars
    PROVE  ModulesSynced'
<1>1. /\ moduleWatch \in Seq([name: Modules, object: Module])
      /\ modules \in [Modules -> Module] /\ moduleCache \in [Modules -> Module]
  BY DEF TypeInv, WellTyped, EventsOf
<1>2. CASE UNCHANGED <<modules, moduleWatch, moduleCache>>
  BY <1>2 DEF ModulesSynced
<1>3. ASSUME NEW m \in Modules, NEW object \in Module, WriteModule(m, object)
      PROVE  ModulesSynced'
  BY <1>1, <1>3, SyncedWhenWritten DEF WriteModule, Event, ModulesSynced
<1>4. CASE DeliverModule
  BY <1>1, <1>4, SyncedWhenDelivered DEF DeliverModule, cluster, ModulesSynced
<1>5. CASE Restart
  BY <1>1, <1>5, SyncedWhenEmpty DEF Restart, cluster, ModulesSynced
<1> QED
  BY <1>2, <1>3, <1>4, <1>5, ModuleSteps

----------------------------------------------------------------------------
(* Copies of modules: invariance.                                          *)

LEMMA FollowsReflexive == \A m \in Module : Follows(m, m)
BY DEF Follows, Module

LEMMA FollowsTransitive ==
    ASSUME NEW a \in Module, NEW b \in Module, NEW c \in Module, Follows(a, b), Follows(b, c)
    PROVE  Follows(a, c)
BY DEF Follows, Module

\* What the worker does next.
Take(m) ==
    /\ pc = "idle" /\ pc' = "list" /\ m \in queue /\ queue' = queue \ {m}
    /\ moduleCache[m].state = "live"
    /\ req' = m /\ module' = moduleCache[m]
    /\ UNCHANGED <<cluster, informers, timers>>

DecideUpdate(x) ==
    /\ pc = "list" /\ pc' = "update"
    /\ x \in Newest(OwnedExecutions(req))
    /\ ~Due(module, executionCache[x])
    /\ Mirror(module, x, executionCache[x]) # module.status
    /\ module' = [module EXCEPT !.status = Mirror(module, x, executionCache[x])]
    /\ UNCHANGED <<req, cluster, informers, queue, timers>>

DecideCreate ==
    /\ pc = "list" /\ pc' = "create"
    /\ \/ OwnedExecutions(req) = {}
       \/ \E x \in Newest(OwnedExecutions(req)) : Due(module, executionCache[x])
    /\ UNCHANGED <<req, module, cluster, informers, queue, timers>>

LEMMA WorkerSteps ==
    ASSUME TypeInv, [Next]_vars
    PROVE  \/ UNCHANGED worker
           \/ pc' = "idle"
           \/ \E m \in Modules : Take(m)
           \/ \E x \in Executions : DecideUpdate(x)
           \/ DecideCreate
<1> DEFINE Goal == \/ UNCHANGED worker
                   \/ pc' = "idle"
                   \/ \E m \in Modules : Take(m)
                   \/ \E x \in Executions : DecideUpdate(x)
                   \/ DecideCreate
<1>1. ASSUME NEW m \in Modules, StartReconcile(m) PROVE Goal
  BY <1>1 DEF StartReconcile, Take
<1>2. CASE ListExecutions
  <2>1. CASE Return(FALSE)
    BY <2>1 DEF Return, WorkerIdle
  <2>2. CASE pc' = "create" /\ UNCHANGED <<req, module, timers>>
              /\ (OwnedExecutions(req) = {}
                    \/ \E x \in Newest(OwnedExecutions(req)) : Due(module, executionCache[x]))
    BY <1>2, <2>2 DEF ListExecutions, DecideCreate
  <2>3. ASSUME NEW x \in Newest(OwnedExecutions(req)),
               ~Due(module, executionCache[x]),
               Mirror(module, x, executionCache[x]) # module.status,
               pc' = "update", UNCHANGED <<req, timers>>,
               module' = [module EXCEPT !.status = Mirror(module, x, executionCache[x])]
        PROVE  Goal
    <3>1. x \in Executions
      BY DEF Newest, OwnedExecutions
    <3>2. DecideUpdate(x)
      BY <1>2, <2>3 DEF ListExecutions, DecideUpdate
    <3> QED
      BY <3>1, <3>2
  <2> QED
    BY <1>2, <2>1, <2>2, <2>3 DEF ListExecutions
<1>3. CASE CreateExecution \/ UpdateModuleStatus \/ Restart
  BY <1>3 DEF CreateExecution, UpdateModuleStatus, Restart, Return, WorkerIdle
<1>4. ASSUME NEW m \in Modules,
             \/ TimerFires(m) \/ Resync(m)
             \/ CreateModule(m) \/ EditModule(m) \/ TouchModule(m) \/ DeleteModule(m)
      PROVE  Goal
  BY <1>4 DEF TimerFires, Resync, CreateModule, EditModule, TouchModule, DeleteModule, SetModule, worker
<1>5. ASSUME NEW x \in Executions,
             \/ AdvanceExecution(x) \/ RerunExecution(x)
             \/ LoseExecution(x) \/ CollectExecution(x)
      PROVE  Goal
  BY <1>5 DEF AdvanceExecution, RerunExecution, LoseExecution, CollectExecution,
              SetExecution, worker
<1>6. CASE DeliverModule \/ DeliverExecution \/ UNCHANGED vars
  BY <1>6 DEF DeliverModule, DeliverExecution, vars
<1> QED
  BY <1>1, <1>2, <1>3, <1>4, <1>5, <1>6 DEF Next

LEMMA ModulesFollow ==
    ASSUME TypeInv, UnbornModules, [Next]_vars
    PROVE  UnbornModules' /\ \A m \in Modules : Follows(modules[m], modules'[m])
<1>1. CASE UNCHANGED modules
  BY <1>1, FollowsReflexive DEF TypeInv, WellTyped, UnbornModules
<1>2. ASSUME NEW m \in Modules, NEW object \in Module, WriteModule(m, object),
             Edit(m, object) \/ Report(m, object)
      PROVE  UnbornModules' /\ \A k \in Modules : Follows(modules[k], modules'[k])
  <2>1. modules'[m] = object /\ \A k \in Modules \ {m} : modules'[k] = modules[k]
    BY <1>2 DEF WriteModule, TypeInv, WellTyped
  <2>2. modules[m] \in Module /\ modules[m].version \in Nat /\ modules[m].generation \in Nat
    BY DEF TypeInv, WellTyped, Module
  <2>3. CASE Edit(m, object)
    <3>1. Follows(modules[m], object) /\ object.state # "unborn"
      BY <2>2, <2>3 DEF Edit, Follows, UnbornModules
    <3> QED
      BY <2>1, <3>1, FollowsReflexive DEF UnbornModules, TypeInv, WellTyped
  <2>4. CASE Report(m, object)
    <3>1. Follows(modules[m], object) /\ object.state # "unborn"
      BY <2>2, <2>4 DEF Report, Follows
    <3> QED
      BY <2>1, <3>1, FollowsReflexive DEF UnbornModules, TypeInv, WellTyped
  <2> QED
    BY <1>2, <2>3, <2>4
<1> QED
  BY <1>1, <1>2, ModuleSteps DEF DeliverModule, Restart, cluster

CoreInv ==
    /\ TypeInv
    /\ ExecutionCopies /\ ExecutionsSynced
    /\ UnbornModules /\ ModuleCopies /\ EventsInOrder /\ ModulesSynced
    /\ Generations

\* A copy that was right stays right.
LEMMA CopyKept ==
    ASSUME TypeInv, ExecutionCopies, UnbornModules, [Next]_vars
    PROVE  \A m \in Modules, copy \in Module : CopyOK(m, copy) => CopyOK(m, copy)'
<1> SUFFICES ASSUME NEW m \in Modules, NEW copy \in Module, CopyOK(m, copy)
             PROVE  CopyOK(m, copy)'
  OBVIOUS
<1>1. Follows(copy, modules'[m])
  <2>1. modules[m] \in Module /\ modules'[m] \in Module /\ Follows(modules[m], modules'[m])
    BY ModulesFollow, ModulesType DEF TypeInv, WellTyped
  <2> QED
    BY <2>1, FollowsTransitive DEF CopyOK
<1>2. StatusOK(m, copy.status, copy.generation)'
  <2> DEFINE x == copy.status.lastExecution
  <2> HIDE DEF x
  <2>1. CASE x \in Executions
    <3>1. /\ executionCache[x].state # "unborn" /\ executions[x].owner = m
          /\ HasReached(executions[x], copy.status.phase)
          /\ executions[x].generation <= copy.status.observed
          /\ 1 <= copy.status.observed /\ copy.status.observed <= copy.generation
      BY <2>1 DEF CopyOK, StatusOK, x
    <3>2. executionCache'[x].state # "unborn"
      BY <2>1, <3>1, SeenStays DEF Precedes
    <3>3. /\ executions'[x].owner = m /\ executions'[x].generation = executions[x].generation
          /\ executions[x].state # "unborn" /\ Precedes(executions[x], executions'[x])
      BY <2>1, <3>1, ExecutionsPrecede DEF Precedes, ExecutionCopies, CoreInv
    <3>4. HasReached(executions'[x], copy.status.phase)
      BY <3>1, <3>3, ReachedStays
    <3> QED
      BY <3>1, <3>2, <3>3, <3>4 DEF StatusOK, x
  <2>2. CASE x \notin Executions
    BY <2>2 DEF StatusOK, x
  <2> QED
    BY <2>1, <2>2
<1> QED
  BY <1>1, <1>2 DEF CopyOK

LEMMA CopyOfModule ==
    ASSUME CoreInv, NEW m \in Modules, NEW object \in Module,
           Edit(m, object) \/ Report(m, object)
    PROVE  /\ object.state = "live" => 1 <= object.generation
           /\ StatusOK(m, object.status, object.generation)
<1>1. CopyOK(m, modules[m]) /\ modules[m] \in Module
      /\ modules[m].generation \in Nat /\ module.generation \in Nat /\ object.generation \in Nat
  BY DEF CoreInv, ModuleCopies, TypeInv, WellTyped, Module
<1>2. CASE Edit(m, object) /\ modules[m].state = "unborn"
  <2>1. object.generation = 1 /\ object.status.lastExecution \notin Executions
    BY <1>2, NewType DEF Edit, NoStatus
  <2> QED
    BY <2>1 DEF StatusOK
<1>3. CASE Edit(m, object) /\ modules[m].state # "unborn"
  <2>1. /\ object.status = modules[m].status /\ modules[m].generation <= object.generation
        /\ modules[m].state = "live"
    BY <1>3 DEF Edit
  <2>2. modules[m].status.observed \in Nat
    BY <1>1 DEF Module, Status
  <2> QED
    BY <1>1, <2>1, <2>2 DEF CopyOK, StatusOK
<1>4. CASE Report(m, object)
  <2>1. /\ object.status = module.status /\ object.generation = modules[m].generation /\ m = req
        /\ modules[m].state = "live" /\ pc # "idle"
    BY <1>4 DEF Report, Current
  <2>2. CopyOK(m, module) /\ module.status.observed \in Nat
    BY <2>1 DEF CoreInv, ModuleCopies, TypeInv, WellTyped, Module, Status
  <2>3. module.generation <= object.generation
    BY <2>1, <2>2 DEF CopyOK, Follows
  <2> QED
    BY <1>1, <2>1, <2>2, <2>3 DEF CopyOK, StatusOK
<1> QED
  BY <1>2, <1>3, <1>4

\* The status that the worker decides to report.
LEMMA DecidedStatus ==
    ASSUME CoreInv, NEW x \in Executions, DecideUpdate(x)
    PROVE  /\ module'.state = "live" /\ module'.version = module.version
           /\ module'.generation = module.generation
           /\ module'.status.lastExecution = x
           /\ module'.status.phase = executionCache[x].phase
           /\ module'.status.observed = module.generation
           /\ executionCache[x].state = "live" /\ executionCache[x].owner = req
           /\ executions[x].state # "unborn" /\ executions[x].owner = req
           /\ StatusOK(req, module'.status, module.generation)
<1>1. pc = "list" /\ req \in Modules
  BY DEF DecideUpdate, CoreInv, TypeInv, KeysInv
<1>2. module \in Module /\ module.state = "live" /\ 1 <= module.generation
  BY <1>1 DEF CoreInv, TypeInv, WellTyped, ModuleCopies, CopyOK
<1>3. executionCache[x].state = "live" /\ executionCache[x].owner = req
  BY DEF DecideUpdate, Newest, OwnedExecutions
<1>4. /\ executions[x].state # "unborn" /\ executions[x].owner = req
      /\ HasReached(executions[x], executionCache[x].phase)
  BY <1>3 DEF CoreInv, ExecutionCopies, Precedes
<1>5. executions[x].generation <= module.generation
  BY <1>1, <1>4 DEF CoreInv, Generations
<1> DEFINE status == Mirror(module, x, executionCache[x])
<1>6. status = [phase |-> executionCache[x].phase, lastExecution |-> x, observed |-> module.generation]
  BY DEF DecideUpdate, Mirror
<1>7. module' = [module EXCEPT !.status = status]
  BY DEF DecideUpdate
<1> HIDE DEF status
<1>8. /\ module'.status = status /\ module'.state = module.state
      /\ module'.version = module.version /\ module'.generation = module.generation
  BY <1>2, <1>7 DEF Module
<1>9. module.generation \in Nat /\ module'.status.observed = module.generation
  BY <1>2, <1>6, <1>8 DEF Module
<1>10. StatusOK(req, module'.status, module.generation)
  BY <1>2, <1>3, <1>4, <1>5, <1>6, <1>8, <1>9 DEF StatusOK
<1> QED
  BY <1>2, <1>3, <1>4, <1>6, <1>8, <1>10

LEMMA ModuleCopiesStep ==
    ASSUME CoreInv, [Next]_vars
    PROVE  ModuleCopies'
<1>1. TypeInv /\ TypeInv' /\ ExecutionCopies /\ UnbornModules
  BY TypeStep DEF CoreInv
<1>2. \A m \in Modules, copy \in Module : CopyOK(m, copy) => CopyOK(m, copy)'
  BY <1>1, CopyKept
<1>3. \A m \in Modules : modules[m] \in Module /\ moduleCache[m] \in Module
                            /\ modules'[m] \in Module
  BY <1>1 DEF TypeInv, WellTyped
<1>4. ASSUME NEW m \in Modules, NEW object \in Module, WriteModule(m, object),
             Edit(m, object) \/ Report(m, object)
      PROVE  CopyOK(m, object)' /\ modules'[m] = object
  <2>1. /\ object.state = "live" => 1 <= object.generation
        /\ StatusOK(m, object.status, object.generation)
    BY <1>4, CopyOfModule
  <2>2. modules'[m] = object
    BY <1>4 DEF WriteModule, TypeInv, WellTyped, CoreInv
  <2>3. Follows(object, modules'[m])
    BY <2>2, FollowsReflexive
  <2>4. UNCHANGED <<executions, executionCache>>
    BY <1>4 DEF WriteModule
  <2>5. StatusOK(m, object.status, object.generation)'
    BY <2>1, <2>4 DEF StatusOK
  <2> QED
    BY <2>1, <2>2, <2>3, <2>5 DEF CopyOK
<1>5. ASSUME NEW m \in Modules, NEW copy \in Module, copy = modules'[m]
      PROVE  CopyOK(m, copy)'
  <2>1. ASSUME modules'[m] = modules[m] PROVE CopyOK(m, copy)'
    BY <1>2, <1>5, <2>1 DEF CoreInv, ModuleCopies
  <2>2. ASSUME NEW k \in Modules, NEW object \in Module, WriteModule(k, object),
               Edit(k, object) \/ Report(k, object)
        PROVE  CopyOK(m, copy)'
    <3>1. CASE k = m
      BY <1>4, <1>5, <2>2, <3>1
    <3>2. CASE k # m
      BY <1>1, <2>1, <2>2, <3>2 DEF WriteModule, TypeInv, WellTyped
    <3> QED
      BY <3>1, <3>2
  <2> QED
    BY <1>1, <2>1, <2>2, ModuleSteps DEF DeliverModule, Restart, cluster
<1>6. ASSUME NEW m \in Modules, NEW copy \in Module, copy = moduleCache'[m]
      PROVE  CopyOK(m, copy)'
  <2>1. CASE moduleCache'[m] = moduleCache[m]
    BY <1>2, <1>6, <2>1 DEF CoreInv, ModuleCopies
  <2>2. CASE DeliverModule
    <3>1. /\ 1 \in 1 .. Len(moduleWatch)
          /\ moduleCache' = [moduleCache EXCEPT ![moduleWatch[1].name] = moduleWatch[1].object]
      BY <1>1, <2>2, ModuleEvents DEF DeliverModule
    <3>2. moduleCache'[m] = moduleCache[m] \/ (m = moduleWatch[1].name /\ copy = moduleWatch[1].object)
      BY <1>1, <1>6, <3>1 DEF TypeInv, WellTyped
    <3>3. CopyOK(moduleWatch[1].name, moduleWatch[1].object)
      BY <3>1 DEF CoreInv, ModuleCopies
    <3> QED
      BY <1>2, <2>1, <3>2, <3>3
  <2>3. CASE Restart
    BY <1>2, <1>6, <2>3 DEF Restart, CoreInv, ModuleCopies
  <2> QED
    BY <1>1, <2>1, <2>2, <2>3, ModuleSteps DEF WriteModule
<1>7. ASSUME NEW i \in 1 .. Len(moduleWatch'), NEW m \in Modules, NEW copy \in Module,
             m = moduleWatch'[i].name, copy = moduleWatch'[i].object
      PROVE  CopyOK(m, copy)'
  <2>1. ASSUME NEW j \in 1 .. Len(moduleWatch), moduleWatch'[i] = moduleWatch[j]
        PROVE  CopyOK(m, copy)'
    BY <1>2, <1>7, <2>1 DEF CoreInv, ModuleCopies
  <2>2. ASSUME NEW k \in Modules, NEW object \in Module, WriteModule(k, object),
               Edit(k, object) \/ Report(k, object)
        PROVE  CopyOK(m, copy)'
    <3>1. /\ Len(moduleWatch') = Len(moduleWatch) + 1 /\ Len(moduleWatch) \in Nat
          /\ \A j \in 1 .. Len(moduleWatch) : moduleWatch'[j] = moduleWatch[j]
          /\ moduleWatch'[Len(moduleWatch) + 1].name = k
          /\ moduleWatch'[Len(moduleWatch) + 1].object = object
      BY <1>1, <2>2, ModuleAppended
    <3>2. CASE i = Len(moduleWatch) + 1
      BY <1>4, <1>7, <2>2, <3>1, <3>2
    <3>3. CASE i # Len(moduleWatch) + 1
      <4>1. i \in 1 .. Len(moduleWatch)
        BY <3>1, <3>3
      <4> QED
        BY <2>1, <3>1, <4>1
    <3> QED
      BY <3>2, <3>3
  <2>3. CASE DeliverModule
    BY <1>1, <2>1, <2>3, ModuleEvents DEF DeliverModule
  <2>4. CASE Restart
    BY <2>4, EmptySeq DEF Restart
  <2> QED
    BY <1>1, <2>1, <2>2, <2>3, <2>4, ModuleSteps
<1>8. ASSUME NEW m \in Modules, NEW copy \in Module, m = req', copy = module', pc' # "idle"
      PROVE  copy.state = "live" /\ CopyOK(m, copy)'
  <2>1. CASE UNCHANGED worker \/ DecideCreate
    <3>1. pc # "idle" /\ m = req /\ copy = module
      BY <1>8, <2>1 DEF worker, DecideCreate
    <3> QED
      BY <1>2, <3>1 DEF CoreInv, ModuleCopies
  <2>2. ASSUME NEW k \in Modules, Take(k)
        PROVE  copy.state = "live" /\ CopyOK(m, copy)'
    BY <1>2, <1>8, <2>2 DEF Take, CoreInv, ModuleCopies
  <2>3. ASSUME NEW x \in Executions, DecideUpdate(x)
        PROVE  copy.state = "live" /\ CopyOK(m, copy)'
    <3>1. m = req /\ UNCHANGED <<modules, executions, executionCache>> /\ pc # "idle"
      BY <1>8, <2>3 DEF DecideUpdate, cluster, informers
    <3>2. /\ copy.state = "live" /\ copy.version = module.version
          /\ copy.generation = module.generation
          /\ StatusOK(m, copy.status, module.generation)
      BY <1>8, <2>3, <3>1, DecidedStatus
    <3>3. Follows(module, modules[m]) /\ 1 <= module.generation
      BY <3>1 DEF CoreInv, ModuleCopies, CopyOK
    <3>4. CopyOK(m, copy)
      BY <3>2, <3>3 DEF CopyOK, Follows
    <3> QED
      BY <1>2, <3>2, <3>4
  <2> QED
    BY <1>1, <1>8, <2>1, <2>2, <2>3, WorkerSteps
<1>9. /\ \A i \in 1 .. Len(moduleWatch') :
            moduleWatch'[i].name \in Modules /\ moduleWatch'[i].object \in Module
      /\ \A m \in Modules : modules'[m] \in Module /\ moduleCache'[m] \in Module
      /\ module' \in Module /\ (pc' # "idle" => req' \in Modules)
  <2>1. moduleWatch' \in Seq([name: Modules, object: Module])
    BY <1>1 DEF TypeInv, WellTyped, EventsOf
  <2>2. \A i \in 1 .. Len(moduleWatch') : moduleWatch'[i] \in [name: Modules, object: Module]
    BY <2>1, Elements
  <2> QED
    BY <1>1, <2>2 DEF TypeInv, WellTyped, KeysInv
<1>10. \A m \in Modules : CopyOK(m, modules[m])' /\ CopyOK(m, moduleCache[m])'
  BY <1>5, <1>6, <1>9 DEF CopyOK, StatusOK, Follows
<1>11. \A i \in 1 .. Len(moduleWatch') : CopyOK(moduleWatch[i].name, moduleWatch[i].object)'
  BY <1>7, <1>9 DEF CopyOK, StatusOK, Follows
<1>12. pc' # "idle" => module'.state = "live" /\ CopyOK(req, module)'
  BY <1>8, <1>9 DEF CopyOK, StatusOK, Follows
<1> QED
  BY <1>10, <1>11, <1>12 DEF ModuleCopies

LEMMA EventsInOrderStep ==
    ASSUME CoreInv, [Next]_vars
    PROVE  EventsInOrder'
<1>1. TypeInv /\ TypeInv' /\ UnbornModules
  BY TypeStep DEF CoreInv
<1>2. /\ \A m \in Modules :
            /\ modules[m] \in Module /\ modules'[m] \in Module
            /\ moduleCache[m] \in Module /\ moduleCache'[m] \in Module
            /\ Follows(modules[m], modules'[m]) /\ Follows(moduleCache[m], modules[m])
      /\ \A i \in 1 .. Len(moduleWatch) :
            /\ moduleWatch[i].name \in Modules /\ moduleWatch[i].object \in Module
            /\ Follows(moduleWatch[i].object, modules[moduleWatch[i].name])
            /\ Follows(moduleCache[moduleWatch[i].name], moduleWatch[i].object)
      /\ Len(moduleWatch) \in Nat
      /\ module \in Module /\ module' \in Module
  <2>1. \A i \in 1 .. Len(moduleWatch) :
            moduleWatch[i].name \in Modules /\ moduleWatch[i].object \in Module
    BY <1>1, Events DEF TypeInv
  <2>2. \A m \in Modules : Follows(modules[m], modules'[m])
    BY <1>1, ModulesFollow
  <2>3. /\ \A m \in Modules : Follows(moduleCache[m], modules[m])
        /\ \A i \in 1 .. Len(moduleWatch) :
            /\ Follows(moduleWatch[i].object, modules[moduleWatch[i].name])
            /\ Follows(moduleCache[moduleWatch[i].name], moduleWatch[i].object)
    BY DEF CoreInv, ModuleCopies, CopyOK, EventsInOrder
  <2> QED
    BY <1>1, <2>1, <2>2, <2>3, Events DEF TypeInv, WellTyped
<1>3. \A i, j \in 1 .. Len(moduleWatch) :
        i < j /\ moduleWatch[i].name = moduleWatch[j].name
            => Follows(moduleWatch[i].object, moduleWatch[j].object)
  BY DEF CoreInv, EventsInOrder
<1> DEFINE Watch == /\ \A i \in 1 .. Len(moduleWatch) :
                        Follows(moduleCache[moduleWatch[i].name], moduleWatch[i].object)
                    /\ \A i, j \in 1 .. Len(moduleWatch) :
                        i < j /\ moduleWatch[i].name = moduleWatch[j].name
                            => Follows(moduleWatch[i].object, moduleWatch[j].object)
<1>4. ASSUME UNCHANGED <<moduleWatch, moduleCache>> PROVE Watch'
  BY <1>4 DEF CoreInv, EventsInOrder
<1>5. ASSUME NEW m \in Modules, NEW object \in Module, WriteModule(m, object),
             Edit(m, object) \/ Report(m, object)
      PROVE  Watch'
  <2> DEFINE n == Len(moduleWatch)
  <2>1. /\ Len(moduleWatch') = n + 1 /\ n \in Nat
        /\ \A j \in 1 .. n : moduleWatch'[j] = moduleWatch[j]
        /\ moduleWatch'[n + 1].name = m /\ moduleWatch'[n + 1].object = object
    BY <1>1, <1>5, ModuleAppended
  <2>2. modules'[m] = object /\ UNCHANGED moduleCache
    BY <1>1, <1>5 DEF WriteModule, TypeInv, WellTyped
  <2>3. Follows(moduleCache[m], object)
    BY <1>2, <2>2, FollowsTransitive
  <2>4. \A i \in 1 .. n : moduleWatch[i].name = m => Follows(moduleWatch[i].object, object)
    BY <1>2, <2>2, FollowsTransitive
  <2>5. \A i \in 1 .. Len(moduleWatch') : i = n + 1 \/ i \in 1 .. n
    BY <2>1
  <2>6. \A i \in 1 .. Len(moduleWatch') :
            Follows(moduleCache'[moduleWatch'[i].name], moduleWatch'[i].object)
    BY <1>2, <2>1, <2>2, <2>3, <2>5
  <2>7. ASSUME NEW i \in 1 .. Len(moduleWatch'), NEW j \in 1 .. Len(moduleWatch'),
               i < j, moduleWatch'[i].name = moduleWatch'[j].name
        PROVE  Follows(moduleWatch'[i].object, moduleWatch'[j].object)
    <3>1. i \in 1 .. n
      BY <2>1, <2>7
    <3> QED
      BY <1>3, <2>1, <2>4, <2>5, <2>7, <3>1
  <2> QED
    BY <2>6, <2>7
<1>6. ASSUME DeliverModule PROVE Watch'
  <2> DEFINE n == Len(moduleWatch')
  <2>1. /\ moduleCache' = [moduleCache EXCEPT ![moduleWatch[1].name] = moduleWatch[1].object]
        /\ 1 \in 1 .. Len(moduleWatch)
        /\ \A i \in 1 .. n : moduleWatch'[i] = moduleWatch[i + 1] /\ i + 1 \in 1 .. Len(moduleWatch)
    BY <1>1, <1>6, ModuleEvents DEF DeliverModule
  <2>2. ASSUME NEW i \in 1 .. n
        PROVE  Follows(moduleCache'[moduleWatch'[i].name], moduleWatch'[i].object)
    <3>1. i + 1 \in 1 .. Len(moduleWatch) /\ 1 < i + 1 /\ moduleWatch'[i] = moduleWatch[i + 1]
      BY <2>1
    <3>2. CASE moduleWatch[1].name = moduleWatch'[i].name
      BY <1>1, <1>2, <1>3, <2>1, <3>1, <3>2 DEF TypeInv, WellTyped
    <3>3. CASE moduleWatch[1].name # moduleWatch'[i].name
      BY <1>1, <1>2, <2>1, <3>1, <3>3 DEF TypeInv, WellTyped
    <3> QED
      BY <3>2, <3>3
  <2>3. ASSUME NEW i \in 1 .. n, NEW j \in 1 .. n, i < j, moduleWatch'[i].name = moduleWatch'[j].name
        PROVE  Follows(moduleWatch'[i].object, moduleWatch'[j].object)
    <3>1. /\ i + 1 \in 1 .. Len(moduleWatch) /\ j + 1 \in 1 .. Len(moduleWatch) /\ i + 1 < j + 1
          /\ moduleWatch'[i] = moduleWatch[i + 1] /\ moduleWatch'[j] = moduleWatch[j + 1]
      BY <2>1, <2>3
    <3> QED
      BY <1>3, <2>3, <3>1
  <2> QED
    BY <2>2, <2>3
<1>7. ASSUME Restart PROVE Watch'
  BY <1>7, EmptySeq DEF Restart
<1>8. Watch'
  BY <1>1, <1>4, <1>5, <1>6, <1>7, ModuleSteps
<1>9. \A m \in Modules : Follows(moduleCache[m], moduleCache'[m])
  <2>1. CASE UNCHANGED moduleCache
    BY <1>2, <2>1, FollowsReflexive
  <2>2. CASE DeliverModule
    <3>1. /\ moduleCache' = [moduleCache EXCEPT ![moduleWatch[1].name] = moduleWatch[1].object]
          /\ 1 \in 1 .. Len(moduleWatch)
      BY <1>1, <2>2, ModuleEvents DEF DeliverModule
    <3> QED
      BY <1>1, <1>2, <3>1, FollowsReflexive DEF TypeInv, WellTyped
  <2>3. CASE Restart
    BY <1>2, <2>3 DEF Restart
  <2> QED
    BY <1>1, <2>1, <2>2, <2>3, ModuleSteps DEF WriteModule
<1>10. pc' # "idle" => Follows(module', moduleCache'[req'])
  <2>1. CASE UNCHANGED worker \/ DecideCreate
    <3>1. UNCHANGED <<req, module>> /\ (pc' # "idle" => pc # "idle" /\ req \in Modules)
      BY <1>1, <2>1 DEF worker, DecideCreate, TypeInv, KeysInv
    <3>2. pc # "idle" => Follows(module, moduleCache[req])
      BY DEF CoreInv, EventsInOrder
    <3> QED
      BY <1>2, <1>9, <3>1, <3>2, FollowsTransitive
  <2>2. ASSUME NEW k \in Modules, Take(k) PROVE Follows(module', moduleCache'[req'])
    BY <1>2, <2>2, FollowsReflexive DEF Take, informers
  <2>3. ASSUME NEW x \in Executions, DecideUpdate(x) PROVE Follows(module', moduleCache'[req'])
    <3>1. UNCHANGED <<req, moduleCache>> /\ Follows(module, moduleCache[req])
      BY <2>3 DEF DecideUpdate, informers, CoreInv, EventsInOrder
    <3>2. module'.version = module.version /\ module'.generation = module.generation
      BY <2>3, DecidedStatus
    <3> QED
      BY <3>1, <3>2 DEF Follows
  <2> QED
    BY <1>1, <2>1, <2>2, <2>3, WorkerSteps
<1> QED
  BY <1>8, <1>10 DEF EventsInOrder

LEMMA GenerationsStep ==
    ASSUME CoreInv, [Next]_vars
    PROVE  Generations'
<1>1. /\ TypeInv /\ TypeInv' /\ UnbornModules /\ BornInv
      /\ clock \in Nat /\ module.generation \in Nat
      /\ \A x \in Executions : executions[x].generation \in Nat
      /\ \A m \in Modules : moduleCache[m].generation \in Nat /\ moduleCache'[m].generation \in Nat
  BY TypeStep DEF CoreInv, TypeInv, WellTyped, Module, Execution
\* The cached generation of a module only grows, and the worker's copy is not
\* younger than the cache.
<1>2. \A m \in Modules : moduleCache[m].generation <= moduleCache'[m].generation
  <2>1. CASE UNCHANGED moduleCache
    BY <1>1, <2>1
  <2>2. CASE DeliverModule
    <3>1. /\ moduleCache' = [moduleCache EXCEPT ![moduleWatch[1].name] = moduleWatch[1].object]
          /\ 1 \in 1 .. Len(moduleWatch)
      BY <1>1, <2>2, ModuleEvents DEF DeliverModule
    <3>2. moduleCache[moduleWatch[1].name].generation <= moduleWatch[1].object.generation
      BY <3>1 DEF CoreInv, EventsInOrder, Follows
    <3> QED
      BY <1>1, <3>1, <3>2 DEF TypeInv, WellTyped
  <2>3. CASE Restart
    BY <2>3 DEF Restart, CoreInv, ModuleCopies, CopyOK, Follows
  <2> QED
    BY <1>1, <2>1, <2>2, <2>3, ModuleSteps DEF WriteModule
<1>3. pc # "idle" => req \in Modules /\ module.generation <= moduleCache[req].generation
  BY DEF CoreInv, TypeInv, KeysInv, EventsInOrder, Follows
<1>4. \A x \in Executions : executions[x].state # "unborn" =>
        /\ executions[x].owner \in Modules
        /\ executions[x].generation <= moduleCache[executions[x].owner].generation
        /\ pc # "idle" /\ executions[x].owner = req => executions[x].generation <= module.generation
  BY <1>1 DEF CoreInv, Generations, BornInv
\* A new execution ...
<1>5. ASSUME NEW x \in Executions, NEW object \in Execution, WriteExecution(x, object),
             Birth(x, object)
      PROVE  Generations'
  <2>1. /\ executions' = [executions EXCEPT ![x] = object] /\ clock' = clock + 1
        /\ object.owner = req /\ object.created = clock' /\ object.generation = module.generation
        /\ pc = "create" /\ pc' = "idle" /\ UNCHANGED moduleCache /\ executions[x].state = "unborn"
    BY <1>5 DEF WriteExecution, Birth, NewExecution
  <2>2. executions'[x] = object /\ \A y \in Executions \ {x} : executions'[y] = executions[y]
    BY <1>1, <2>1 DEF TypeInv, WellTyped
  <2>3. \A y \in Executions \ {x} : executions[y].state # "unborn" =>
            executions[y].created \in Nat /\ executions[y].created < object.created
    BY <1>1, <2>1 DEF BornInv
  <2>4. ASSUME NEW y \in Executions, executions'[y].state # "unborn"
        PROVE  executions'[y].generation <= moduleCache'[executions'[y].owner].generation
    <3>1. CASE y = x
      BY <1>3, <2>1, <2>2, <3>1
    <3>2. CASE y # x
      BY <1>4, <2>1, <2>2, <2>4, <3>2
    <3> QED
      BY <3>1, <3>2
  <2>5. ASSUME NEW y \in Executions, NEW z \in Executions,
               executions'[y].state # "unborn", executions'[z].state # "unborn",
               executions'[y].owner = executions'[z].owner,
               executions'[y].created <= executions'[z].created
        PROVE  executions'[y].generation <= executions'[z].generation
    <3>1. CASE y = x /\ z = x
      BY <1>1, <2>1, <2>2, <3>1
    <3>2. CASE y = x /\ z # x
      <4>1. FALSE
        BY <1>1, <2>1, <2>2, <2>3, <2>5, <3>2
      <4> QED
        BY <4>1
    <3>3. CASE y # x /\ z = x
      BY <1>4, <2>1, <2>2, <2>5, <3>3
    <3>4. CASE y # x /\ z # x
      BY <2>2, <2>5, <3>4 DEF CoreInv, Generations
    <3> QED
      BY <3>1, <3>2, <3>3, <3>4
  <2> QED
    BY <2>1, <2>4, <2>5 DEF Generations
\* ... and the steps that leave generation, owner and age of the executions.
<1>6. ASSUME \A x \in Executions :
                /\ executions'[x].generation = executions[x].generation
                /\ executions'[x].owner = executions[x].owner
                /\ executions'[x].created = executions[x].created
                /\ executions'[x].state # "unborn" => executions[x].state # "unborn"
      PROVE  Generations'
  <2>1. pc' # "idle" => \A x \in Executions :
            executions[x].state # "unborn" /\ executions[x].owner = req'
                => executions[x].generation <= module'.generation
    <3>1. CASE UNCHANGED worker \/ DecideCreate
      BY <1>4, <3>1 DEF worker, DecideCreate
    <3>2. ASSUME NEW k \in Modules, Take(k)
          PROVE  \A x \in Executions : executions[x].state # "unborn" /\ executions[x].owner = req'
                    => executions[x].generation <= module'.generation
      BY <1>4, <3>2 DEF Take
    <3>3. ASSUME NEW y \in Executions, DecideUpdate(y)
          PROVE  \A x \in Executions : executions[x].state # "unborn" /\ executions[x].owner = req'
                    => executions[x].generation <= module'.generation
      <4>1. req' = req /\ pc # "idle" /\ module'.generation = module.generation
        BY <3>3, DecidedStatus DEF DecideUpdate
      <4> QED
        BY <1>4, <4>1
    <3> QED
      BY <1>1, <3>1, <3>2, <3>3, WorkerSteps
  <2>2. ASSUME NEW x \in Executions, executions'[x].state # "unborn"
        PROVE  executions'[x].generation <= moduleCache'[executions'[x].owner].generation
    BY <1>1, <1>2, <1>4, <1>6, <2>2
  <2>3. \A x, y \in Executions :
            /\ executions'[x].state # "unborn" /\ executions'[y].state # "unborn"
            /\ executions'[x].owner = executions'[y].owner
            /\ executions'[x].created <= executions'[y].created
            => executions'[x].generation <= executions'[y].generation
    BY <1>6 DEF CoreInv, Generations
  <2> QED
    BY <1>6, <2>1, <2>2, <2>3 DEF Generations
<1>7. CASE UNCHANGED executions
  BY <1>6, <1>7
<1>8. ASSUME NEW x \in Executions, NEW object \in Execution, WriteExecution(x, object),
             Change(x, object)
      PROVE  Generations'
  <2>1. /\ executions' = [executions EXCEPT ![x] = object] /\ executions[x].state # "unborn"
        /\ object.owner = executions[x].owner /\ object.created = executions[x].created
        /\ object.generation = executions[x].generation
    BY <1>8 DEF WriteExecution, Change, Precedes
  <2>2. executions'[x] = object /\ \A y \in Executions \ {x} : executions'[y] = executions[y]
    BY <1>1, <2>1 DEF TypeInv, WellTyped
  <2> QED
    BY <1>6, <2>1, <2>2
<1> QED
  BY <1>1, <1>5, <1>7, <1>8, ExecutionSteps DEF DeliverExecution, Restart, cluster

LEMMA CoreInit == Init => CoreInv
<1> SUFFICES ASSUME Init PROVE CoreInv
  OBVIOUS
<1>1. TypeInv /\ Len(<<>>) = 0
  BY TypeInit, EmptySeq
<1>2. /\ modules = [m \in Modules |-> UnbornModule] /\ moduleCache = modules
      /\ executions = [x \in Executions |-> UnbornExecution] /\ executionCache = executions
      /\ moduleWatch = <<>> /\ executionWatch = <<>> /\ pc = "idle"
  BY DEF Init
<1>3. ExecutionCopies
  BY <1>1, <1>2, PrecedesReflexive DEF ExecutionCopies
<1>4. ExecutionsSynced /\ ModulesSynced
  BY <1>2, SyncedWhenEmpty DEF ExecutionsSynced, ModulesSynced
<1>5. UnbornModules
  BY <1>2 DEF UnbornModules, UnbornModule
<1>6. EventsInOrder /\ Generations
  BY <1>1, <1>2 DEF EventsInOrder, Generations, UnbornExecution
<1>7. \A m \in Modules : CopyOK(m, modules[m])
  <2>1. /\ UnbornModule \in Module /\ UnbornModule.state = "unborn"
        /\ UnbornModule.status.lastExecution \notin Executions
    BY NewType DEF UnbornModule, NoStatus
  <2> QED
    BY <1>2, <2>1, FollowsReflexive DEF CopyOK, StatusOK
<1>8. ModuleCopies
  BY <1>1, <1>2, <1>7 DEF ModuleCopies
<1> QED
  BY <1>1, <1>3, <1>4, <1>5, <1>6, <1>8 DEF CoreInv

LEMMA CoreStep == CoreInv /\ [Next]_vars => CoreInv'
<1> SUFFICES ASSUME CoreInv, [Next]_vars PROVE CoreInv'
  OBVIOUS
<1>1. TypeInv' /\ ExecutionCopies' /\ ExecutionsSynced' /\ UnbornModules' /\ ModulesSynced'
  BY TypeStep, ExecutionCopiesStep, ExecutionsSyncedStep, ModulesFollow, ModulesSyncedStep
  DEF CoreInv
<1> QED
  BY <1>1, ModuleCopiesStep, EventsInOrderStep, GenerationsStep DEF CoreInv

LEMMA Core == Spec => []CoreInv
BY CoreInit, CoreStep, PTL DEF Spec

\* In every reachable state the execution that a module's status names is the
\* module's own, and an end reported is one that it has reported, whatever the caches, a
\* status update against an old copy, a restart or a deletion did before; the
\* generation observed is one the module has had.
THEOREM WhatIsReportedIsTrue == Spec => []StatusIsTrue
<1>1. CoreInv => StatusIsTrue
  <2> SUFFICES ASSUME CoreInv, NEW m \in Modules,
                      modules[m].status.lastExecution \in Executions
               PROVE  LET status == modules[m].status
                      IN  /\ executions[status.lastExecution].owner = m
                          /\ HasReached(executions[status.lastExecution], status.phase)
                          /\ status.observed \in 1 .. modules[m].generation
    BY DEF StatusIsTrue
  <2>1. StatusOK(m, modules[m].status, modules[m].generation)
    BY DEF CoreInv, ModuleCopies, CopyOK
  <2>2. modules[m].status.observed \in Nat /\ modules[m].generation \in Nat
    BY DEF CoreInv, TypeInv, WellTyped, Module, Status
  <2> QED
    BY <2>1, <2>2 DEF StatusOK
<1> QED
  BY <1>1, Core, PTL

----------------------------------------------------------------------------
(* The worker's decisions.                                                 *)

\* The caches tell owner and age of the executions they hold, and, of one that
\* they hold as deleted or ended, that it was.
LEMMA WhatCachesTell ==
    ASSUME CoreInv, NEW x \in Executions, executionCache[x].state # "unborn"
    PROVE  /\ executions[x].state # "unborn"
           /\ executions[x].owner = executionCache[x].owner
           /\ executions[x].created = executionCache[x].created
           /\ executions[x].generation = executionCache[x].generation
           /\ executionCache[x].state = "deleted" => Over(x)
           /\ IsExecutionTerminal(executionCache[x].phase) => Over(x)
           /\ executionCache[x].state = "live" \/ executionCache[x].state = "deleted"
<1>1. executionCache[x] \in Execution /\ Precedes(executionCache[x], executions[x])
  BY DEF CoreInv, ExecutionCopies, TypeInv, WellTyped
<1>2. ASSUME IsExecutionTerminal(executionCache[x].phase)
      PROVE  HasReported(executions[x], executionCache[x].phase) /\ executionCache[x].phase \in Ends
  BY <1>1, <1>2 DEF Precedes, HasReached, IsExecutionTerminal
<1> QED
  BY <1>1, <1>2 DEF Precedes, Over, Execution

LEMMA OverStays ==
    ASSUME CoreInv, [Next]_vars, NEW x \in Executions, executions[x].state # "unborn"
    PROVE  /\ executions'[x].state # "unborn"
           /\ executions'[x].owner = executions[x].owner
           /\ executions'[x].created = executions[x].created
           /\ executions'[x].state = "live" => executions[x].state = "live"
           /\ Over(x) => Over(x)'
<1>1. executions[x] \in Execution /\ Precedes(executions[x], executions'[x])
  BY ExecutionsPrecede DEF CoreInv, TypeInv, WellTyped
<1>2. \A end \in Ends : HasReported(executions[x], end) => HasReported(executions'[x], end)
  BY <1>1 DEF Precedes, HasReached, HasReported, IsExecutionTerminal
<1> QED
  BY <1>1, <1>2 DEF Precedes, Over, Execution

\* A status that is reported names an execution the manager has seen.
LEMMA ReportedIsSeen ==
    ASSUME CoreInv, NEW m \in Modules, modules[m].status.lastExecution \in Executions
    PROVE  /\ executionCache[modules[m].status.lastExecution].state # "unborn"
           /\ executions[modules[m].status.lastExecution].owner = m
           /\ modules[m].state # "unborn"
<1>1. StatusOK(m, modules[m].status, modules[m].generation)
  BY DEF CoreInv, ModuleCopies, CopyOK
<1>2. modules[m].state = "unborn" => modules[m].generation = 0
  BY DEF CoreInv, UnbornModules
<1>3. modules[m].status.observed \in Nat
  BY DEF CoreInv, TypeInv, WellTyped, Module, Status
<1> QED
  BY <1>1, <1>2, <1>3 DEF StatusOK

\* Only the worker's own update changes what is reported.
LEMMA ReportedStays ==
    ASSUME CoreInv, [Next]_vars, NEW m \in Modules
    PROVE  \/ modules'[m].status = modules[m].status
           \/ modules'[m].status = NoStatus /\ modules[m].status.lastExecution \notin Executions
           \/ pc = "update" /\ pc' = "idle" /\ m = req /\ modules'[m].status = module.status
<1>1. CASE UNCHANGED modules
  BY <1>1
<1>2. ASSUME NEW k \in Modules, NEW object \in Module, WriteModule(k, object),
             Edit(k, object) \/ Report(k, object)
      PROVE  \/ modules'[m].status = modules[m].status
             \/ modules'[m].status = NoStatus /\ modules[m].status.lastExecution \notin Executions
             \/ pc = "update" /\ pc' = "idle" /\ m = req /\ modules'[m].status = module.status
  <2>1. (k = m /\ modules'[m] = object) \/ modules'[m] = modules[m]
    BY <1>2 DEF WriteModule, CoreInv, TypeInv, WellTyped
  <2>2. CASE k = m /\ modules'[m] = object /\ Edit(m, object)
    BY <2>2, ReportedIsSeen DEF Edit
  <2>3. CASE k = m /\ modules'[m] = object /\ Report(m, object)
    BY <2>3 DEF Report
  <2> QED
    BY <1>2, <2>1, <2>2, <2>3
<1> QED
  BY <1>1, <1>2, ModuleSteps DEF CoreInv, DeliverModule, Restart, cluster

\* Of the execution that is reported and the newest one in the cache.
LEMMA NewestIsNewer ==
    ASSUME CoreInv, ~SameSecond, req \in Modules,
           NEW x \in Executions, x = modules[req].status.lastExecution,
           NEW z \in Newest(OwnedExecutions(req))
    PROVE  executions[x].state = "deleted" \/ executions[x].created <= executions[z].created
<1>1. /\ z \in Executions /\ executionCache[z].state = "live"
      /\ \A y \in OwnedExecutions(req) : executionCache[y].created <= executionCache[z].created
  BY DEF Newest, OwnedExecutions, Timestamp
<1>2. executionCache[x].state # "unborn" /\ executions[x].owner = req
  BY ReportedIsSeen
<1>3. CASE executionCache[x].state = "deleted"
  BY <1>3 DEF CoreInv, ExecutionCopies, Precedes
<1>4. CASE executionCache[x].state = "live"
  <2>1. x \in OwnedExecutions(req)
    BY <1>2, <1>4, WhatCachesTell DEF OwnedExecutions
  <2> QED
    BY <1>1, <1>2, <2>1, WhatCachesTell
<1> QED
  BY <1>2, <1>3, <1>4, WhatCachesTell

LEMMA DecidedStep ==
    ASSUME ~SameSecond, CoreInv, Decided, [Next]_vars
    PROVE  Decided'
<1> DEFINE x == modules[req].status.lastExecution
           y == module.status.lastExecution
<1>1. TypeInv /\ (pc # "idle" => req \in Modules) /\ \A e \in Executions : executions[e].created \in Nat
  BY DEF CoreInv, TypeInv, WellTyped, KeysInv, Execution
<1>2. CASE pc' = "idle"
  BY <1>2 DEF Decided
<1>3. ASSUME NEW m \in Modules, Take(m) PROVE Decided'
  BY <1>3 DEF Take, Decided
<1>4. ASSUME NEW e \in Executions, DecideUpdate(e) PROVE Decided'
  <2>1. /\ pc = "list" /\ pc' = "update" /\ e \in Newest(OwnedExecutions(req))
        /\ UNCHANGED <<req, modules, executions>>
    BY <1>4 DEF DecideUpdate, cluster
  <2>2. module'.status.lastExecution = e
    BY <1>4, DecidedStatus
  <2>3. x \in Executions /\ executions[x].state = "live" => executions[x].created <= executions[e].created
    BY <1>1, <2>1, NewestIsNewer
  <2> QED
    BY <2>1, <2>2, <2>3 DEF Decided
<1>5. CASE DecideCreate
  <2>1. pc = "list" /\ pc' = "create" /\ UNCHANGED <<req, modules, executions>> /\ req \in Modules
    BY <1>1, <1>5 DEF DecideCreate, cluster
  <2>2. ASSUME x \in Executions
        PROVE  \E z \in ExecutionsOf(req) : executions[x].created <= executions[z].created /\ Over(z)
    <3>1. executionCache[x].state # "unborn" /\ executions[x].owner = req
      BY <2>1, <2>2, ReportedIsSeen
    <3>2. ASSUME Over(x)
          PROVE  \E z \in ExecutionsOf(req) : executions[x].created <= executions[z].created /\ Over(z)
      BY <1>1, <2>2, <3>1, <3>2 DEF ExecutionsOf
    <3>3. CASE OwnedExecutions(req) = {}
      <4>1. executionCache[x].state = "deleted"
        BY <2>2, <3>1, <3>3, WhatCachesTell DEF OwnedExecutions
      <4> QED
        BY <2>2, <3>1, <3>2, <4>1, WhatCachesTell
    <3>4. ASSUME NEW e \in Newest(OwnedExecutions(req)), Due(module, executionCache[e])
          PROVE  \E z \in ExecutionsOf(req) : executions[x].created <= executions[z].created /\ Over(z)
      <4>1. e \in Executions /\ executionCache[e].state = "live" /\ executionCache[e].owner = req
        BY DEF Newest, OwnedExecutions
      <4>2. executions[e].owner = req /\ Over(e)
        BY <3>4, <4>1, WhatCachesTell DEF Due
      <4>3. Over(x) \/ executions[x].created <= executions[e].created
        BY <2>1, <2>2, NewestIsNewer DEF Over
      <4> QED
        BY <3>2, <4>1, <4>2, <4>3 DEF ExecutionsOf
    <3> QED
      BY <1>5, <3>3, <3>4 DEF DecideCreate
  <2>3. (\E z \in ExecutionsOf(req) : executions[x].created <= executions[z].created /\ Over(z))
            => (\E z \in ExecutionsOf(req) : executions[x].created <= executions[z].created /\ Over(z))'
    BY <2>1 DEF ExecutionsOf, Over
  <2> QED
    BY <2>1, <2>2, <2>3 DEF Decided
<1>6. CASE UNCHANGED worker /\ pc # "idle"
  <2>1. UNCHANGED <<pc, req, module>> /\ req \in Modules
    BY <1>1, <1>6 DEF worker
  <2>2. x' \in Executions => x' = x
    BY <1>6, <2>1, ReportedStays, NewType DEF NoStatus
  <2>3. CASE pc = "create"
    <3> SUFFICES ASSUME x \in Executions, x' = x
                 PROVE  (\E z \in ExecutionsOf(req) : executions[x].created <= executions[z].created /\ Over(z))'
      BY <2>1, <2>2, <2>3 DEF Decided
    <3>1. executions[x].state # "unborn"
      BY <2>1, ReportedIsSeen, WhatCachesTell
    <3>2. PICK z \in ExecutionsOf(req) : executions[x].created <= executions[z].created /\ Over(z)
      BY <2>3 DEF Decided
    <3>3. z \in Executions /\ executions[z].owner = req /\ executions[z].state # "unborn"
      BY <1>1, <2>1, ConstantsAssumption DEF ExecutionsOf, TypeInv, BornInv
    <3>4. /\ executions'[z].owner = req /\ executions'[z].created = executions[z].created /\ Over(z)'
          /\ executions'[x].created = executions[x].created
      BY <3>1, <3>2, <3>3, OverStays
    <3> QED
      BY <2>1, <3>2, <3>3, <3>4 DEF ExecutionsOf
  <2>4. CASE pc = "update"
    <3>1. y \in Executions /\ y' = y
      BY <2>1, <2>4 DEF Decided
    <3>2. ASSUME x \in Executions, x' = x, executions'[x].state = "live"
          PROVE  executions'[x].created <= executions'[y].created
      <4>1. executions[x].state # "unborn"
        BY <2>1, <3>2, ReportedIsSeen, WhatCachesTell
      <4>2. executions[y].state # "unborn"
        <5>1. CopyOK(req, module)
          BY <2>4 DEF CoreInv, ModuleCopies
        <5> QED
          BY <3>1, <5>1, WhatCachesTell DEF CopyOK, StatusOK
      <4>3. executions'[x].created = executions[x].created /\ executions'[y].created = executions[y].created
            /\ executions[x].state = "live"
        BY <3>1, <3>2, <4>1, <4>2, OverStays
      <4> QED
        BY <2>4, <3>2, <4>3 DEF Decided
    <3> QED
      BY <2>1, <2>2, <2>4, <3>1, <3>2 DEF Decided
  <2>5. CASE pc # "create" /\ pc # "update"
    BY <2>1, <2>5 DEF Decided
  <2> QED
    BY <2>3, <2>4, <2>5
<1>7. CASE UNCHANGED worker /\ pc = "idle"
  BY <1>7 DEF worker, Decided
<1> QED
  BY <1>1, <1>2, <1>3, <1>4, <1>5, <1>6, <1>7, WorkerSteps

LEMMA Decisions ==
    ASSUME ~SameSecond
    PROVE  Spec => [](CoreInv /\ Decided)
<1>1. Init => Decided
  BY DEF Init, Decided
<1>2. CoreInv /\ Decided /\ [Next]_vars => Decided'
  BY DecidedStep
<1> QED
  BY <1>1, <1>2, CoreInit, CoreStep, PTL DEF Spec

\* When no two executions carry the same creation timestamp, a module's status
\* never goes from an execution that exists to an older one, nor to one of an
\* older generation, however far the caches lag behind and whatever is lost.
THEOREM NewestIsReported ==
    ASSUME ~SameSecond
    PROVE  Spec => LatestNeverRegresses
<1>1. ASSUME CoreInv, Decided, [Next]_vars, NEW m \in Modules,
             modules[m].status.lastExecution \in Executions,
             executions[modules[m].status.lastExecution].state = "live"
      PROVE  LET before == modules[m].status.lastExecution
                 after == modules'[m].status.lastExecution
             IN  /\ after \in Executions
                 /\ executions[before].created <= executions[after].created
                 /\ executions[before].generation <= executions[after].generation
  <2> DEFINE before == modules[m].status.lastExecution
  <2>1. executions[before].created \in Nat /\ executions[before].generation \in Nat
    BY <1>1 DEF CoreInv, TypeInv, WellTyped, Execution
  <2>2. CASE modules'[m].status = modules[m].status
    BY <1>1, <2>1, <2>2
  <2>3. CASE pc = "update" /\ m = req /\ modules'[m].status = module.status
    <3> DEFINE after == module.status.lastExecution
    <3>1. after \in Executions /\ executions[before].created <= executions[after].created
      BY <1>1, <2>3 DEF Decided
    <3>2. StatusOK(m, module.status, module.generation)
      BY <1>1, <2>3 DEF CoreInv, ModuleCopies, CopyOK
    <3>3. executions[after].owner = m /\ executions[after].state # "unborn"
      BY <1>1, <3>1, <3>2, WhatCachesTell DEF StatusOK
    <3>4. executions[before].owner = m /\ executions[before].state # "unborn"
      BY <1>1, ReportedIsSeen
    <3>5. executions[before].generation <= executions[after].generation
      BY <1>1, <3>1, <3>3, <3>4 DEF CoreInv, Generations
    <3> QED
      BY <2>3, <3>1, <3>5
  <2> QED
    BY <1>1, <2>2, <2>3, ReportedStays
<1>2. CoreInv /\ Decided /\ [Next]_vars =>
        [\A m \in Modules :
            LET before == modules[m].status.lastExecution
                after == modules'[m].status.lastExecution
            IN  before \in Executions /\ executions[before].state = "live" =>
                    /\ after \in Executions
                    /\ executions[before].created <= executions[after].created
                    /\ executions[before].generation <= executions[after].generation]_vars
  BY <1>1
<1> QED
  BY <1>2, Decisions, PTL DEF Spec, LatestNeverRegresses

\* When no two executions carry the same creation timestamp, one is created
\* for a module only after the one that the module reports, or a newer one of
\* the module, has reported an end or was deleted.  The end reported
\* need not last: a pod of it may be tried again, a lost Job be replaced.
THEOREM OneRunAfterTheOther ==
    ASSUME ~SameSecond
    PROVE  Spec => ReportedRunEndsFirst
<1>1. ASSUME CoreInv, Decided, [Next]_vars, NEW m \in Modules, NEW x \in ExecutionsOf(m),
             NEW y \in Executions, modules[m].status.lastExecution = x,
             executions[y].state = "unborn", executions'[y].owner = m
      PROVE  \E z \in ExecutionsOf(m) :
                /\ executions[x].created <= executions[z].created
                /\ \/ \E end \in Ends : HasReported(executions[z], end)
                   \/ executions[z].state = "deleted"
  <2>1. executions[y].owner = NoModule /\ NoModule # m
    BY <1>1, ConstantsAssumption DEF CoreInv, TypeInv, BornInv
  <2>2. executions' # executions
    BY <1>1, <2>1
  <2>3. PICK e \in Executions, object \in Execution :
            WriteExecution(e, object) /\ (Birth(e, object) \/ Change(e, object))
    BY <1>1, <2>2, ExecutionSteps DEF CoreInv, DeliverExecution, Restart, cluster
  <2>4. y = e /\ object.owner = m
    BY <1>1, <2>1, <2>3 DEF WriteExecution, CoreInv, TypeInv, WellTyped
  <2>5. Birth(e, object)
    BY <1>1, <2>3, <2>4 DEF Change
  <2>6. pc = "create" /\ req = m
    BY <2>4, <2>5 DEF Birth, NewExecution
  <2>7. x \in Executions
    BY DEF ExecutionsOf
  <2> QED
    BY <1>1, <2>6, <2>7 DEF Decided, Over
<1>2. CoreInv /\ Decided /\ [Next]_vars =>
        [\A m \in Modules :
            \A x \in ExecutionsOf(m), y \in Executions :
                /\ modules[m].status.lastExecution = x
                /\ executions[y].state = "unborn" /\ executions'[y].owner = m
                => \E z \in ExecutionsOf(m) :
                    /\ executions[x].created <= executions[z].created
                    /\ \/ \E end \in Ends : HasReported(executions[z], end)
                       \/ executions[z].state = "deleted"]_vars
  BY <1>1
<1> QED
  BY <1>2, Decisions, PTL DEF Spec, ReportedRunEndsFirst

----------------------------------------------------------------------------
(* Nothing is forgotten.                                                   *)

LEMMA WorkerCurrentStep ==
    ASSUME CoreInv, WorkerCurrent, [Next]_vars
    PROVE  WorkerCurrent'
<1>1. TypeInv /\ (pc # "idle" => req \in Modules)
  BY DEF CoreInv, TypeInv, KeysInv
<1>2. CASE pc' = "idle"
  BY <1>2 DEF WorkerCurrent
<1>3. ASSUME NEW m \in Modules, Take(m) PROVE WorkerCurrent'
  BY <1>3 DEF Take, informers, WorkerCurrent
<1>4. ASSUME NEW x \in Executions, DecideUpdate(x) PROVE WorkerCurrent'
  <2>1. module'.version = module.version
    BY <1>4, DecidedStatus
  <2> QED
    BY <1>4, <2>1 DEF DecideUpdate, informers, WorkerCurrent
<1>5. CASE DecideCreate
  BY <1>5 DEF DecideCreate, informers, WorkerCurrent
<1>6. CASE UNCHANGED worker /\ pc # "idle"
  <2>1. \/ queue \subseteq queue' /\ UNCHANGED moduleCache
        \/ DeliverModule
    BY <1>6 DEF Next, vars, worker, StartReconcile, TimerFires, Resync, CreateModule, EditModule,
                TouchModule, DeleteModule, SetModule, AdvanceExecution, RerunExecution, LoseExecution,
                CollectExecution, SetExecution, ListExecutions, CreateExecution,
                UpdateModuleStatus, DeliverExecution, Restart, Return, WorkerIdle, informers
  <2>2. CASE queue \subseteq queue' /\ UNCHANGED moduleCache
    BY <1>6, <2>2 DEF worker, WorkerCurrent
  <2>3. CASE DeliverModule
    <3>1. /\ queue' = queue \cup {moduleWatch[1].name}
          /\ moduleCache' = [moduleCache EXCEPT ![moduleWatch[1].name] = moduleWatch[1].object]
      BY <1>1, <2>3, ModuleEvents DEF DeliverModule
    <3>2. req \notin queue' => req \notin queue /\ moduleCache'[req] = moduleCache[req]
      BY <1>1, <1>6, <3>1 DEF TypeInv, WellTyped
    <3> QED
      BY <1>6, <3>2 DEF worker, WorkerCurrent
  <2> QED
    BY <2>1, <2>2, <2>3
<1>7. CASE UNCHANGED worker /\ pc = "idle"
  BY <1>7 DEF worker, WorkerCurrent
<1> QED
  BY <1>1, <1>2, <1>3, <1>4, <1>5, <1>6, <1>7, WorkerSteps

\* What is known of a module depends on the caches' entries for it only.
LEMMA NothingToDoStays ==
    ASSUME CoreInv, NEW m \in Modules, NothingToDo(m),
           moduleCache'[m] = moduleCache[m],
           OwnedExecutions(m)' = OwnedExecutions(m),
           \A x \in OwnedExecutions(m) : executionCache'[x] = executionCache[x]
    PROVE  NothingToDo(m)'
<1>1. PICK x \in Newest(OwnedExecutions(m)) :
        /\ ~Due(moduleCache[m], executionCache[x])
        /\ Mirror(moduleCache[m], x, executionCache[x]) = moduleCache[m].status
  BY DEF NothingToDo
<1>2. /\ x \in OwnedExecutions(m) /\ executionCache'[x] = executionCache[x]
      /\ \A y \in OwnedExecutions(m) : Timestamp(y) <= Timestamp(x)
  BY DEF Newest
<1>3. \A y \in OwnedExecutions(m) : Timestamp(y)' = Timestamp(y)
  BY DEF Timestamp
<1>4. x \in Newest(OwnedExecutions(m))'
  BY <1>2, <1>3 DEF Newest
<1>5. /\ ~Due(moduleCache'[m], executionCache'[x])
      /\ Mirror(moduleCache'[m], x, executionCache'[x]) = moduleCache'[m].status
  BY <1>1, <1>2
<1> QED
  BY <1>4, <1>5 DEF NothingToDo

\* An event stays in the stream, or its delivery queues the module.
LEMMA EventsStay ==
    ASSUME TypeInv, [Next]_vars, NEW m \in Modules
    PROVE  \/ Restart
           \/ /\ \A i \in 1 .. Len(moduleWatch) : moduleWatch[i].name = m =>
                    m \in queue' \/ \E j \in 1 .. Len(moduleWatch') : moduleWatch'[j].name = m
              /\ \A i \in 1 .. Len(executionWatch) : executionWatch[i].object.owner = m =>
                    m \in queue' \/ \E j \in 1 .. Len(executionWatch') :
                                        executionWatch'[j].object.owner = m
<1>1. CASE DeliverModule
  <2>1. /\ queue' = queue \cup {moduleWatch[1].name}
        /\ UNCHANGED executionWatch
        /\ \A i \in 1 .. Len(moduleWatch') : moduleWatch'[i] = moduleWatch[i + 1]
        /\ Len(moduleWatch') = Len(moduleWatch) - 1 /\ Len(moduleWatch) \in Nat
    BY <1>1, ModuleEvents, Events DEF DeliverModule, TypeInv
  <2>2. ASSUME NEW i \in 1 .. Len(moduleWatch), moduleWatch[i].name = m, i # 1
        PROVE  \E j \in 1 .. Len(moduleWatch') : moduleWatch'[j].name = m
    <3>1. i - 1 \in 1 .. Len(moduleWatch') /\ (i - 1) + 1 = i
      BY <2>1, <2>2
    <3>2. moduleWatch'[i - 1] = moduleWatch[(i - 1) + 1]
      BY <2>1, <3>1
    <3> QED
      BY <2>2, <3>1, <3>2
  <2> QED
    BY <2>1, <2>2
<1>2. CASE DeliverExecution
  <2>1. /\ queue' = queue \cup {executionWatch[1].object.owner}
        /\ UNCHANGED moduleWatch
        /\ \A i \in 1 .. Len(executionWatch') : executionWatch'[i] = executionWatch[i + 1]
        /\ Len(executionWatch') = Len(executionWatch) - 1 /\ Len(executionWatch) \in Nat
    BY <1>2, ExecutionEvents, Events DEF DeliverExecution, TypeInv
  <2>2. ASSUME NEW i \in 1 .. Len(executionWatch), executionWatch[i].object.owner = m, i # 1
        PROVE  \E j \in 1 .. Len(executionWatch') : executionWatch'[j].object.owner = m
    <3>1. i - 1 \in 1 .. Len(executionWatch') /\ (i - 1) + 1 = i
      BY <2>1, <2>2
    <3>2. executionWatch'[i - 1] = executionWatch[(i - 1) + 1]
      BY <2>1, <3>1
    <3> QED
      BY <2>2, <3>1, <3>2
  <2> QED
    BY <2>1, <2>2
<1> DEFINE ModuleEvent == \A i \in 1 .. Len(moduleWatch) : moduleWatch[i].name = m =>
                \E j \in 1 .. Len(moduleWatch') : moduleWatch'[j].name = m
           ExecutionEvent == \A i \in 1 .. Len(executionWatch) : executionWatch[i].object.owner = m =>
                \E j \in 1 .. Len(executionWatch') : executionWatch'[j].object.owner = m
<1>3. ASSUME UNCHANGED moduleWatch PROVE ModuleEvent
  BY <1>3
<1>4. ASSUME NEW k \in Modules, NEW object \in Module, WriteModule(k, object)
      PROVE  ModuleEvent
  <2>1. /\ Len(moduleWatch') = Len(moduleWatch) + 1 /\ Len(moduleWatch) \in Nat
        /\ \A i \in 1 .. Len(moduleWatch) : moduleWatch'[i] = moduleWatch[i]
    BY <1>4, ModuleAppended
  <2>2. 1 .. Len(moduleWatch) \subseteq 1 .. Len(moduleWatch')
    BY <2>1
  <2> QED
    BY <2>1, <2>2
<1>5. ASSUME UNCHANGED executionWatch PROVE ExecutionEvent
  BY <1>5
<1>6. ASSUME NEW x \in Executions, NEW object \in Execution, WriteExecution(x, object)
      PROVE  ExecutionEvent
  <2>1. /\ Len(executionWatch') = Len(executionWatch) + 1 /\ Len(executionWatch) \in Nat
        /\ \A i \in 1 .. Len(executionWatch) : executionWatch'[i] = executionWatch[i]
    BY <1>6, ExecutionAppended
  <2>2. 1 .. Len(executionWatch) \subseteq 1 .. Len(executionWatch')
    BY <2>1
  <2> QED
    BY <2>1, <2>2
<1> HIDE DEF ModuleEvent, ExecutionEvent
<1>7. DeliverModule \/ Restart \/ ModuleEvent
  BY <1>3, <1>4, ModuleSteps
<1>8. DeliverExecution \/ Restart \/ ExecutionEvent
  BY <1>5, <1>6, ExecutionSteps
<1> QED
  BY <1>1, <1>2, <1>7, <1>8 DEF ModuleEvent, ExecutionEvent

\* A module stays attended to, unless it is gone or its reconcile ends without
\* an error.
LEMMA AttendedStays ==
    ASSUME CoreInv, [Next]_vars, NEW m \in Modules, Attended(m), moduleCache'[m].state = "live"
    PROVE  Attended(m)' \/ (pc # "idle" /\ req = m /\ Return(FALSE))
<1> DEFINE Goal == Attended(m)' \/ (pc # "idle" /\ req = m /\ Return(FALSE))
<1>1. TypeInv
  BY DEF CoreInv
<1>2. ASSUME m \in queue \cup timers => m \in queue' \cup timers' \/ (pc' # "idle" /\ req' = m),
             pc # "idle" /\ req = m => (pc' # "idle" /\ req' = m) \/ m \in timers',
             ~Restart
      PROVE  Goal
  BY <1>1, <1>2, EventsStay DEF Attended
<1>3. CASE Restart
  BY <1>3 DEF Restart, Attended
<1>4. ASSUME NEW k \in Modules, StartReconcile(k), ~Restart PROVE Goal
  <2>1. /\ pc = "idle" /\ queue' = queue \ {k} /\ UNCHANGED timers
        /\ moduleCache[k].state = "live" => pc' # "idle" /\ req' = k
        /\ UNCHANGED moduleCache
    BY <1>4 DEF StartReconcile, informers
  <2> QED
    BY <1>2, <1>4, <2>1
<1>5. CASE (ListExecutions \/ CreateExecution \/ UpdateModuleStatus) /\ ~Restart
  <2>1. pc # "idle" /\ UNCHANGED queue
    BY <1>5 DEF ListExecutions, CreateExecution, UpdateModuleStatus
  <2>2. (pc' # "idle" /\ UNCHANGED <<req, timers>>) \/ Return(FALSE) \/ Return(TRUE)
    BY <1>5 DEF ListExecutions, CreateExecution, UpdateModuleStatus
  <2>3. CASE pc' # "idle" /\ UNCHANGED <<req, timers>>
    BY <1>2, <1>5, <2>1, <2>3
  <2>4. CASE Return(FALSE) /\ req # m
    BY <1>2, <1>5, <2>1, <2>4 DEF Return
  <2>5. CASE Return(TRUE)
    BY <1>2, <1>5, <2>1, <2>5 DEF Return
  <2> QED
    BY <2>1, <2>2, <2>3, <2>4, <2>5
<1>6. CASE (DeliverModule \/ DeliverExecution \/ UNCHANGED vars) /\ ~Restart
  <2>1. queue \subseteq queue' /\ UNCHANGED <<timers, pc, req>>
    BY <1>6 DEF DeliverModule, DeliverExecution, vars, worker
  <2> QED
    BY <1>2, <1>6, <2>1
<1>7. ASSUME NEW k \in Modules, ~Restart,
             \/ TimerFires(k) \/ Resync(k)
             \/ CreateModule(k) \/ EditModule(k) \/ TouchModule(k) \/ DeleteModule(k)
      PROVE  Goal
  <2>1. queue \cup timers \subseteq queue' \cup timers' /\ UNCHANGED <<pc, req>>
    BY <1>7 DEF TimerFires, Resync, CreateModule, EditModule, TouchModule, DeleteModule,
                SetModule, worker
  <2> QED
    BY <1>2, <1>7, <2>1
<1>8. ASSUME NEW x \in Executions, ~Restart,
             \/ AdvanceExecution(x) \/ RerunExecution(x)
             \/ LoseExecution(x) \/ CollectExecution(x)
      PROVE  Goal
  <2>1. UNCHANGED <<queue, timers, pc, req>>
    BY <1>8 DEF AdvanceExecution, RerunExecution, LoseExecution, CollectExecution,
              SetExecution, worker
  <2> QED
    BY <1>2, <1>8, <2>1
<1> QED
  BY <1>3, <1>4, <1>5, <1>6, <1>7, <1>8 DEF Next

\* Without an event for it the manager's knowledge of a module does not change.
LEMMA UnattendedIsUnchanged ==
    ASSUME CoreInv, [Next]_vars, ~Restart, NEW m \in Modules, ~Attended(m)
    PROVE  /\ moduleCache'[m] = moduleCache[m]
           /\ OwnedExecutions(m)' = OwnedExecutions(m)
           /\ \A x \in OwnedExecutions(m) : executionCache'[x] = executionCache[x]
<1>1. TypeInv
  BY DEF CoreInv
<1>2. moduleCache'[m] = moduleCache[m]
  <2>1. CASE DeliverModule
    <3>1. /\ 1 \in 1 .. Len(moduleWatch)
          /\ moduleCache' = [moduleCache EXCEPT ![moduleWatch[1].name] = moduleWatch[1].object]
      BY <1>1, <2>1, ModuleEvents DEF DeliverModule
    <3>2. moduleWatch[1].name # m
      BY <3>1 DEF Attended
    <3> QED
      BY <1>1, <3>1, <3>2 DEF TypeInv, WellTyped
  <2> QED
    BY <1>1, <2>1, ModuleSteps DEF WriteModule
<1>3. CASE UNCHANGED executionCache
  BY <1>2, <1>3 DEF OwnedExecutions
<1>4. CASE DeliverExecution
  <2> DEFINE x == executionWatch[1].name
             object == executionWatch[1].object
  <2>1. /\ 1 \in 1 .. Len(executionWatch) /\ x \in Executions
        /\ executionCache' = [executionCache EXCEPT ![x] = object]
    BY <1>1, <1>4, ExecutionEvents, Events DEF DeliverExecution, TypeInv
  <2>2. object.owner # m
    BY <2>1 DEF Attended
  <2>3. executionCache'[x] = object /\ \A y \in Executions \ {x} : executionCache'[y] = executionCache[y]
    BY <1>1, <2>1 DEF TypeInv, WellTyped
  <2>4. object.state # "unborn" /\ Precedes(object, executions[x])
    BY <2>1 DEF CoreInv, ExecutionCopies
  <2>5. executionCache[x].state = "live" => executionCache[x].owner = object.owner
    BY <2>1, <2>4, WhatCachesTell DEF Precedes
  <2>6. x \notin OwnedExecutions(m) /\ ~(executionCache'[x].owner = m)
    BY <2>2, <2>3, <2>5 DEF OwnedExecutions
  <2>7. OwnedExecutions(m)' = OwnedExecutions(m)
    BY <2>3, <2>6 DEF OwnedExecutions
  <2>8. \A y \in OwnedExecutions(m) : executionCache'[y] = executionCache[y]
    BY <2>3, <2>6 DEF OwnedExecutions
  <2> QED
    BY <1>2, <2>7, <2>8
<1> QED
  BY <1>1, <1>3, <1>4, ExecutionSteps DEF WriteExecution

LEMMA NothingForgottenStep ==
    ASSUME CoreInv, WorkerCurrent, NothingForgotten, [Next]_vars
    PROVE  NothingForgotten'
<1> SUFFICES ASSUME NEW m \in Modules, moduleCache'[m].state = "live", ~Attended(m)'
             PROVE  NothingToDo(m)'
  BY DEF NothingForgotten
<1>1. TypeInv /\ TypeInv'
  BY TypeStep DEF CoreInv
<1>2. ~Restart
  BY DEF Restart, Attended
<1>3. m \notin queue' /\ m \notin timers'
      /\ (\A i \in 1 .. Len(moduleWatch') : moduleWatch'[i].name # m)
      /\ (\A i \in 1 .. Len(executionWatch') : executionWatch'[i].object.owner # m)
  BY DEF Attended
<1>4. CASE ~Attended(m)
  <2>1. /\ moduleCache'[m] = moduleCache[m]
        /\ OwnedExecutions(m)' = OwnedExecutions(m)
        /\ \A x \in OwnedExecutions(m) : executionCache'[x] = executionCache[x]
    BY <1>2, <1>4, UnattendedIsUnchanged
  <2>2. NothingToDo(m)
    BY <1>4, <2>1 DEF NothingForgotten
  <2> QED
    BY <2>1, <2>2, NothingToDoStays
<1>5. CASE Attended(m)
  <2>1. pc # "idle" /\ req = m /\ Return(FALSE)
    BY <1>5, AttendedStays
  <2>2. pc' = "idle"
    BY <2>1 DEF Return, WorkerIdle
  <2>3. ListExecutions \/ CreateExecution \/ UpdateModuleStatus
    BY <1>2, <2>1, <2>2
    DEF Next, vars, worker, StartReconcile, TimerFires, Resync, CreateModule, EditModule,
        TouchModule, DeleteModule, SetModule, AdvanceExecution, RerunExecution, LoseExecution, CollectExecution,
        SetExecution, DeliverModule, DeliverExecution
  <2>4. CASE ListExecutions
    <3>1. PICK x \in Newest(OwnedExecutions(m)) :
            /\ ~Due(module, executionCache[x])
            /\ Mirror(module, x, executionCache[x]) = module.status
      BY <2>1, <2>2, <2>4 DEF ListExecutions
    <3>2. UNCHANGED <<queue, moduleCache, executionCache>> /\ pc # "update"
      BY <2>4 DEF ListExecutions, informers
    <3>3. module = moduleCache[m]
      BY <1>3, <2>1, <3>2 DEF WorkerCurrent
    <3>4. NothingToDo(m)
      BY <3>1, <3>3 DEF NothingToDo
    <3>5. OwnedExecutions(m)' = OwnedExecutions(m)
      BY <3>2 DEF OwnedExecutions
    <3> QED
      BY <3>2, <3>4, <3>5, NothingToDoStays
  <2>5. CASE CreateExecution
    <3>1. pc = "create" /\ (Return(TRUE) => m \in timers')
      BY <2>1, <2>5 DEF CreateExecution, Return
    <3>2. executions' # executions
      <4>1. PICK x \in UnbornExecutions :
                executions' = [executions EXCEPT ![x] = NewExecution(req, module.generation, clock')]
        BY <1>3, <2>5, <3>1 DEF CreateExecution
      <4>2. x \in Executions /\ executions[x].state = "unborn"
        BY DEF UnbornExecutions
      <4>3. executions'[x].state = "live"
        BY <1>1, <4>1, <4>2 DEF NewExecution, TypeInv, WellTyped
      <4> QED
        BY <4>2, <4>3
    <3>3. PICK x \in Executions, object \in Execution :
            WriteExecution(x, object) /\ (Birth(x, object) \/ Change(x, object))
      BY <1>1, <1>2, <2>5, <3>2, ExecutionSteps DEF DeliverExecution, cluster
    <3>4. object.owner = m
      BY <2>1, <2>2, <3>1, <3>3 DEF Birth, Change, NewExecution, worker
    <3>5. /\ executionWatch'[Len(executionWatch) + 1].object = object
          /\ Len(executionWatch') = Len(executionWatch) + 1 /\ Len(executionWatch) \in Nat
      BY <1>1, <3>3, ExecutionAppended
    <3>6. Len(executionWatch) + 1 \in 1 .. Len(executionWatch')
      BY <3>5
    <3> QED
      BY <1>3, <3>4, <3>5, <3>6
  <2>6. CASE UpdateModuleStatus
    <3>1. pc = "update" /\ (Return(TRUE) => m \in timers') /\ UNCHANGED <<queue, moduleCache>>
      BY <2>1, <2>6 DEF UpdateModuleStatus, Return
    <3>2. CASE Current /\ moduleWatch' = Notify(moduleWatch, req, modules'[req])
                /\ modules' = [modules EXCEPT ![req] =
                            [modules[req] EXCEPT !.status = module.status, !.version = @ + 1]]
      <4>1. moduleWatch \in Seq([name: Modules, object: Module])
            /\ modules'[req] \in Module /\ req \in Modules
        BY <1>1, <2>1 DEF TypeInv, WellTyped, EventsOf
      <4>2. Event(req, modules'[req]) \in [name: Modules, object: Module]
            /\ Event(req, modules'[req]).name = req
        BY <4>1 DEF Event
      <4>3. /\ Len(moduleWatch') = Len(moduleWatch) + 1 /\ Len(moduleWatch) \in Nat
            /\ moduleWatch'[Len(moduleWatch) + 1].name = m
        BY <2>1, <3>2, <4>1, <4>2, Appended, Elements DEF Notify
      <4>4. Len(moduleWatch) + 1 \in 1 .. Len(moduleWatch')
        BY <4>3
      <4> QED
        BY <1>3, <4>3, <4>4
    <3>3. CASE modules[req].state = "live" /\ ~Current /\ UNCHANGED moduleWatch
      <4>1. module.version = moduleCache[m].version
        BY <1>3, <2>1, <3>1 DEF WorkerCurrent
      <4>2. moduleCache[m] = modules[m]
        BY <1>3, <3>3 DEF CoreInv, ModulesSynced, Synced
      <4> QED
        BY <2>1, <3>3, <4>1, <4>2 DEF Current
    <3> QED
      BY <1>3, <2>6, <3>1, <3>2, <3>3 DEF UpdateModuleStatus
  <2> QED
    BY <2>3, <2>4, <2>5, <2>6
<1> QED
  BY <1>4, <1>5

\* When the executions carry different creation timestamps, and no event, key
\* or reconcile is left, the newest execution of a live module whose executions
\* have ended runs the module's generation, and the module reports it: neither
\* a conflict that Reconcile swallows, nor a create without a requeue, nor a
\* restart leaves a module behind.
THEOREM NothingIsForgotten ==
    ASSUME ~SameSecond
    PROVE  Spec => []QuiescentIsRolledOut
<1>1. ASSUME CoreInv, NothingForgotten, Quiescent, NEW m \in Modules,
             modules[m].state = "live", Ended(m)
      PROVE  RolledOut(m)
  <2>1. moduleCache[m] = modules[m] /\ executionCache = executions
    <3>1. Len(moduleWatch) = 0 /\ Len(executionWatch) = 0
      BY <1>1, EmptySeq DEF Quiescent
    <3>2. moduleCache[m] = modules[m]
      BY <1>1, <3>1 DEF CoreInv, ModulesSynced, Synced
    <3>3. \A x \in Executions : executionCache[x] = executions[x]
      BY <1>1, <3>1 DEF CoreInv, ExecutionsSynced, Synced
    <3>4. executionCache \in [Executions -> Execution] /\ executions \in [Executions -> Execution]
      BY <1>1 DEF CoreInv, TypeInv, WellTyped
    <3> QED
      BY <3>2, <3>3, <3>4
  <2>2. ~Attended(m)
    BY <1>1, EmptySeq DEF Quiescent, Attended
  <2>3. PICK x \in Newest(OwnedExecutions(m)) :
            /\ ~Due(modules[m], executions[x])
            /\ Mirror(modules[m], x, executions[x]) = modules[m].status
    BY <1>1, <2>1, <2>2 DEF NothingForgotten, NothingToDo
  <2>4. OwnedExecutions(m) = LiveExecutions(m)
    BY <2>1 DEF OwnedExecutions, LiveExecutions, ExecutionsOf
  <2>5. x \in LiveExecutions(m) /\ \A y \in LiveExecutions(m) : executions[y].created <= executions[x].created
    BY <2>1, <2>4 DEF Newest, Timestamp
  <2>6. executions[x].generation = modules[m].generation
    BY <1>1, <2>3, <2>5 DEF Ended, Due
  <2>7. modules[m].status.lastExecution = x /\ modules[m].status.phase = executions[x].phase
    BY <2>3 DEF Mirror
  <2>8. modules[m].status.observed = modules[m].generation
    <3>1. StatusOK(m, modules[m].status, modules[m].generation) /\ x \in Executions
      BY <1>1, <2>5 DEF CoreInv, ModuleCopies, CopyOK, LiveExecutions, ExecutionsOf
    <3>2. executions[x].generation <= modules[m].status.observed
          /\ modules[m].status.observed <= modules[m].generation
      BY <2>7, <3>1 DEF StatusOK
    <3>3. modules[m].status.observed \in Nat /\ modules[m].generation \in Nat
      BY <1>1 DEF CoreInv, TypeInv, WellTyped, Module, Status
    <3> QED
      BY <2>6, <3>2, <3>3
  <2> QED
    BY <2>5, <2>6, <2>7, <2>8 DEF RolledOut
<1>2. CoreInv /\ NothingForgotten => QuiescentIsRolledOut
  BY <1>1 DEF QuiescentIsRolledOut
<1>3. Init => WorkerCurrent /\ NothingForgotten
  BY DEF Init, WorkerCurrent, NothingForgotten, UnbornModule
<1>4. CoreInv /\ WorkerCurrent /\ NothingForgotten /\ [Next]_vars => WorkerCurrent' /\ NothingForgotten'
  BY WorkerCurrentStep, NothingForgottenStep
<1> QED
  BY <1>2, <1>3, <1>4, CoreInit, CoreStep, PTL DEF Spec

===============================================================================

--------------------------- MODULE SoyplaneProofs ---------------------------
(***************************************************************************)
(* What holds of the three controllers over one cluster, for any modules,  *)
(* stacks and references between them, any number of executions and Jobs   *)
(* and any number of edits and lost Jobs.                                  *)
(*                                                                         *)
(* The argument is that objects only move forward, that whatever a cache   *)
(* holds is an earlier state of the object, and that what an execution     *)
(* reports is not ahead of the Job cache.                                  *)
(***************************************************************************)
EXTENDS Soyplane, SequenceLemmas

----------------------------------------------------------------------------
(* Lists of executions and Jobs.                                           *)

LEMMA NewestNames ==
    ASSUME NEW n \in Nat, NEW T \in SUBSET (1 .. n)
    PROVE  /\ Newest(T) \subseteq T
           /\ T # {} => Newest(T) # {}
           /\ ~SameSecond => \A x \in Newest(T), y \in T : y <= x
<1>1. ASSUME T # {} PROVE Newest(T) # {}
  <2>1. PICK x \in T : \A y \in T : y <= x
    BY <1>1, Largest
  <2> QED
    BY <2>1 DEF Newest, Timestamp
<1> QED
  BY <1>1 DEF Newest, Timestamp

----------------------------------------------------------------------------
(* Types.                                                                  *)

LEMMA LastExecution ==
    ASSUME TypeOK, NEW p \in Parents
    PROVE  /\ Newest(OwnedExecutions(p)) \subseteq OwnedExecutions(p)
           /\ OwnedExecutions(p) # {} => Newest(OwnedExecutions(p)) # {}
           /\ ~SameSecond =>
                \A x \in Newest(OwnedExecutions(p)), y \in OwnedExecutions(p) : y <= x
<1>1. OwnedExecutions(p) \subseteq 1 .. Len(executionCache) /\ Len(executionCache) \in Nat
  BY Elements DEF TypeOK, OwnedExecutions
<1> QED
  BY <1>1, NewestNames

LEMMA NewestJob ==
    ASSUME TypeOK, NEW x
    PROVE  /\ Newest(OwnedJobs(x)) \subseteq OwnedJobs(x)
           /\ ~SameSecond => \A latest \in Newest(OwnedJobs(x)), j \in OwnedJobs(x) : j <= latest
<1>1. OwnedJobs(x) \subseteq 1 .. Len(jobCache) /\ Len(jobCache) \in Nat
  BY Elements DEF TypeOK, OwnedJobs
<1> QED
  BY <1>1, NewestNames

\* The names in the caches are names.
LEMMA CachedNames ==
    ASSUME TypeOK
    PROVE  /\ DOMAIN executionCache \subseteq DOMAIN executions
           /\ DOMAIN executions \subseteq 1 .. MaxExecutions
           /\ DOMAIN jobCache \subseteq DOMAIN jobs
           /\ DOMAIN jobs \subseteq 1 .. MaxJobs
<1>1. /\ executions \in Seq(Execution) /\ executionCache \in Seq(Execution)
      /\ jobs \in Seq(Job) /\ jobCache \in Seq(Job)
      /\ Len(executionCache) <= Len(executions) /\ Len(executions) <= MaxExecutions
      /\ Len(jobCache) <= Len(jobs) /\ Len(jobs) <= MaxJobs
  BY DEF TypeOK
<1>2. /\ DOMAIN executions = 1 .. Len(executions) /\ Len(executions) \in Nat
      /\ DOMAIN executionCache = 1 .. Len(executionCache) /\ Len(executionCache) \in Nat
      /\ DOMAIN jobs = 1 .. Len(jobs) /\ Len(jobs) \in Nat
      /\ DOMAIN jobCache = 1 .. Len(jobCache) /\ Len(jobCache) \in Nat
  BY <1>1, LenProperties
<1> QED
  BY <1>1, <1>2, ConstantsAssumption

\* What the controllers and the cluster write has the type of the object.
LEMMA MirrorType ==
    ASSUME NEW copy \in Parent, NEW x \in 0 .. MaxExecutions, NEW phase \in Phases
    PROVE  Mirror(copy, x, phase) \in Parent /\ Mirror(copy, x, phase).generation = copy.generation
BY DEF Mirror, Parent, Status

LEMMA PhaseType == \A stage \in Stages : Phase(stage) \in Phases
BY DEF Phase, Phases, Stages

LEMMA TypeInit == Init => TypeOK
<1> SUFFICES ASSUME Init PROVE TypeOK
  OBVIOUS
<1>1. NoStatus \in Status
  BY ConstantsAssumption DEF NoStatus, Status, Phases
<1>2. parents \in [Parents -> Parent]
  BY <1>1 DEF Init, Parent
<1>3. Len(executions) = 0 /\ Len(executionCache) = 0 /\ Len(jobs) = 0 /\ Len(jobCache) = 0
  BY DEF Init
<1> QED
  BY <1>2, <1>3, ConstantsAssumption DEF Init, TypeOK

\* The writes to parents, executions and Jobs.
LEMMA ParentWrite ==
    ASSUME TypeOK, [Next]_vars
    PROVE  \/ UNCHANGED parents
           \/ \E p \in Parents, object \in Parent :
                /\ parents' = [parents EXCEPT ![p] = object]
                /\ parents[p].generation <= object.generation
                /\ UpdateStatus(p) \/ object.status = parents[p].status
<1>1. ASSUME NEW p \in Parents, UpdateStatus(p)
      PROVE  \E object \in Parent :
                /\ parents' = [parents EXCEPT ![p] = object]
                /\ parents[p].generation <= object.generation
  <2>1. PICK x \in Newest(OwnedExecutions(p)) :
            parents' = [parents EXCEPT ![p] = Mirror(parents[p], x, executionCache[x].phase)]
    BY <1>1 DEF UpdateStatus
  <2>2. x \in DOMAIN executionCache /\ parents[p] \in Parent
    BY LastExecution DEF OwnedExecutions, TypeOK
  <2>3. x \in 1 .. MaxExecutions
    BY <2>2, CachedNames
  <2>4. executionCache[x] \in Execution
    BY <2>2, Elements DEF TypeOK
  <2>5. x \in 0 .. MaxExecutions /\ executionCache[x].phase \in Phases
    BY <2>3, <2>4, ConstantsAssumption DEF Execution
  <2>6. /\ Mirror(parents[p], x, executionCache[x].phase) \in Parent
        /\ parents[p].generation <= Mirror(parents[p], x, executionCache[x].phase).generation
    BY <2>2, <2>5, MirrorType DEF Parent
  <2> QED
    BY <2>1, <2>6
<1>2. ASSUME NEW p \in Parents, EditParent(p)
      PROVE  \E object \in Parent :
                /\ parents' = [parents EXCEPT ![p] = object]
                /\ parents[p].generation <= object.generation
                /\ object.status = parents[p].status
  <2> DEFINE object == [parents[p] EXCEPT !.generation = @ + 1]
  <2>1. parents[p] \in Parent /\ parents' = [parents EXCEPT ![p] = object]
    BY <1>2 DEF EditParent, TypeOK
  <2>2. object \in Parent /\ parents[p].generation <= object.generation
        /\ object.status = parents[p].status
    BY <2>1 DEF Parent
  <2> QED
    BY <2>1, <2>2
<1> QED
  BY <1>1, <1>2
  DEF Next, vars, cluster, CreateExecution, ReconcileExecution, RunJob, LoseJob, SetJob,
      DeliverParents, DeliverExecutions, DeliverJobs

LEMMA NewExecutionType == TypeOK => \A p \in Parents : NewExecution(p) \in Execution
<1> SUFFICES ASSUME TypeOK, NEW p \in Parents PROVE NewExecution(p) \in Execution
  OBVIOUS
<1>1. parentCache[p].generation \in Nat
  BY DEF TypeOK, Parent
<1> QED
  BY <1>1, ConstantsAssumption DEF NewExecution, Execution, Phases

LEMMA ReportWrite ==
    ASSUME TypeOK, NEW x \in DOMAIN executionCache, ReportJob(x)
    PROVE  \E latest \in Newest(OwnedJobs(x)), object \in Execution :
                /\ executions' = [executions EXCEPT ![x] = object]
                /\ object.owner = executions[x].owner
                /\ object.generation = executions[x].generation
                /\ object.phase = Phase(jobCache[latest].stage)
                /\ object.job = latest
<1>1. PICK latest \in Newest(OwnedJobs(x)) :
            executions' = [executions EXCEPT ![x].phase = Phase(jobCache[latest].stage),
                                             ![x].job = latest]
  BY DEF ReportJob
<1> DEFINE phase == Phase(jobCache[latest].stage)
           object == [executions[x] EXCEPT !.phase = phase, !.job = latest]
<1>2. latest \in DOMAIN jobCache /\ x \in DOMAIN executions
  BY NewestJob, CachedNames DEF OwnedJobs
<1>3. executions[x] \in Execution /\ jobCache[latest] \in Job
  BY <1>2, Elements DEF TypeOK
<1>4. phase \in Phases /\ latest \in 0 .. MaxJobs
  BY <1>2, <1>3, CachedNames, PhaseType, ConstantsAssumption DEF Job
<1>5. executions' = [executions EXCEPT ![x] = object]
  BY <1>1, <1>2, <1>3 DEF Execution
<1> HIDE DEF phase
<1>6. /\ object \in Execution /\ object.owner = executions[x].owner
      /\ object.generation = executions[x].generation
      /\ object.phase = phase /\ object.job = latest
  BY <1>3, <1>4 DEF Execution
<1> QED
  BY <1>5, <1>6 DEF phase

LEMMA ExecutionWrite ==
    ASSUME TypeOK, [Next]_vars
    PROVE  \/ UNCHANGED executions
           \/ \E p \in Parents :
                /\ CreateExecution(p)
                /\ NewExecution(p) \in Execution
           \/ \E x \in DOMAIN executionCache, object \in Execution :
                \E latest \in Newest(OwnedJobs(x)) :
                    /\ executions' = [executions EXCEPT ![x] = object]
                    /\ object.owner = executions[x].owner
                    /\ object.generation = executions[x].generation
                    /\ object.phase = Phase(jobCache[latest].stage)
                    /\ object.job = latest
BY NewExecutionType, ReportWrite
DEF Next, vars, cluster, UpdateStatus, EditParent, ReconcileExecution, CreateJob, PruneJob,
    RunJob, LoseJob, SetJob, DeliverParents, DeliverExecutions, DeliverJobs

\* The life of a Job only goes forward.
Precedes(old, new) ==
    /\ new.owner = old.owner /\ new.built = old.built
    /\ old.state # "live" => new.state # "live"
    /\ FailedOnce(old.stage) => FailedOnce(new.stage)
    /\ old.stage = "succeeded" => new.stage = "succeeded"

NewJob(x) ==
    [state |-> "live", owner |-> x,
     built |-> parentCache[Target(executionCache[x].owner)].generation, stage |-> "waiting"]

LEMMA JobCreated ==
    ASSUME TypeOK, NEW x \in DOMAIN executionCache, CreateJob(x)
    PROVE  Len(jobs) < MaxJobs /\ jobs' = Append(jobs, NewJob(x)) /\ NewJob(x) \in Job
<1>1. executionCache[x] \in Execution /\ x \in 1 .. MaxExecutions
  BY Elements, CachedNames DEF TypeOK
<1>2. Target(executionCache[x].owner) \in Parents
  BY <1>1, ConstantsAssumption DEF Execution, Target, Parents
<1>3. parentCache[Target(executionCache[x].owner)].generation \in Nat
  BY <1>2 DEF TypeOK, Parent
<1> QED
  BY <1>1, <1>3 DEF CreateJob, NewJob, Job, Stages

LEMMA JobWrite ==
    ASSUME TypeOK, [Next]_vars
    PROVE  \/ UNCHANGED jobs
           \/ \E x \in DOMAIN executionCache :
                /\ Len(jobs) < MaxJobs
                /\ jobs' = Append(jobs, NewJob(x))
                /\ NewJob(x) \in Job
           \/ \E j \in DOMAIN jobs, object \in Job :
                /\ jobs' = [jobs EXCEPT ![j] = object]
                /\ Precedes(jobs[j], object)
<1>1. ASSUME NEW j \in DOMAIN jobs
      PROVE  /\ \A state \in {"pruned", "lost"} :
                    /\ [jobs[j] EXCEPT !.state = state] \in Job
                    /\ Precedes(jobs[j], [jobs[j] EXCEPT !.state = state])
             /\ \A stage \in Later(jobs[j].stage) :
                    /\ [jobs[j] EXCEPT !.stage = stage] \in Job
                    /\ Precedes(jobs[j], [jobs[j] EXCEPT !.stage = stage])
  <2>1. jobs[j] \in Job
    BY Elements DEF TypeOK
  <2> QED
    BY <2>1 DEF Job, Precedes, Later, Stages, FailedOnce
<1>2. ASSUME NEW x \in DOMAIN executionCache, PruneJob(x)
      PROVE  \E j \in DOMAIN jobs : jobs' = [jobs EXCEPT ![j] = [jobs[j] EXCEPT !.state = "pruned"]]
  BY <1>2, CachedNames DEF PruneJob, Stale, OwnedJobs
<1>3. ASSUME NEW j \in DOMAIN jobs, RunJob(j) \/ LoseJob(j)
      PROVE  \/ \E stage \in Later(jobs[j].stage) :
                    jobs' = [jobs EXCEPT ![j] = [jobs[j] EXCEPT !.stage = stage]]
             \/ jobs' = [jobs EXCEPT ![j] = [jobs[j] EXCEPT !.state = "lost"]]
  BY <1>3 DEF RunJob, LoseJob, SetJob
<1> QED
  BY JobCreated, <1>1, <1>2, <1>3
  DEF Next, vars, cluster, CreateExecution, UpdateStatus, EditParent, ReconcileExecution, ReportJob,
      DeliverParents, DeliverExecutions, DeliverJobs

\* The caches change only when an informer delivers.
LEMMA CacheWrite ==
    ASSUME [Next]_vars
    PROVE  /\ UNCHANGED parentCache \/ DeliverParents(Modules) \/ DeliverParents(Stacks)
           /\ UNCHANGED executionCache \/ DeliverExecutions
           /\ UNCHANGED jobCache \/ DeliverJobs
<1>1. ASSUME NEW p \in Parents, CreateExecution(p) \/ UpdateStatus(p) \/ EditParent(p)
      PROVE  UNCHANGED caches
  BY <1>1 DEF CreateExecution, UpdateStatus, EditParent, caches
<1>2. ASSUME NEW x \in DOMAIN executionCache, ReconcileExecution(x)
      PROVE  UNCHANGED caches
  BY <1>2 DEF ReconcileExecution
<1>3. ASSUME NEW j \in DOMAIN jobs, RunJob(j) \/ LoseJob(j)
      PROVE  UNCHANGED caches
  BY <1>3 DEF RunJob, LoseJob, SetJob
<1>4. ASSUME NEW kind, DeliverParents(kind)
      PROVE  UNCHANGED <<executionCache, jobCache>>
  BY <1>4 DEF DeliverParents
<1>5. CASE DeliverExecutions
  BY <1>5 DEF DeliverExecutions
<1>6. CASE DeliverJobs
  BY <1>6 DEF DeliverJobs
<1>7. CASE UNCHANGED vars
  BY <1>7 DEF vars, caches
<1> QED
  BY <1>1, <1>2, <1>3, <1>4, <1>5, <1>6, <1>7 DEF Next, caches

LEMMA TypeStep == TypeOK /\ [Next]_vars => TypeOK'
<1> SUFFICES ASSUME TypeOK, [Next]_vars PROVE TypeOK'
  OBVIOUS
<1>1. parents' \in [Parents -> Parent]
  <2>1. parents \in [Parents -> Parent]
    BY DEF TypeOK
  <2> QED
    BY <2>1, ParentWrite
<1>2. /\ executions' \in Seq(Execution) /\ Len(executions') <= MaxExecutions
      /\ Len(executions) <= Len(executions') /\ Len(executions) \in Nat
  <2> DEFINE Goal == /\ executions' \in Seq(Execution) /\ Len(executions') <= MaxExecutions
                     /\ Len(executions) <= Len(executions') /\ Len(executions) \in Nat
  <2>1. /\ executions \in Seq(Execution) /\ Len(executions) \in Nat
        /\ Len(executions) <= MaxExecutions
    BY LenProperties DEF TypeOK
  <2>2. ASSUME NEW p \in Parents, CreateExecution(p), NewExecution(p) \in Execution
        PROVE  Goal
    BY <2>1, <2>2, Appended, ConstantsAssumption DEF CreateExecution
  <2>3. ASSUME NEW x \in DOMAIN executionCache, NEW object \in Execution,
               executions' = [executions EXCEPT ![x] = object]
        PROVE  Goal
    BY <2>1, <2>3, CachedNames, Replaced
  <2> QED
    BY <2>1, <2>2, <2>3, ExecutionWrite
<1>3. /\ jobs' \in Seq(Job) /\ Len(jobs') <= MaxJobs
      /\ Len(jobs) <= Len(jobs') /\ Len(jobs) \in Nat
  <2> DEFINE Goal == /\ jobs' \in Seq(Job) /\ Len(jobs') <= MaxJobs
                     /\ Len(jobs) <= Len(jobs') /\ Len(jobs) \in Nat
  <2>1. jobs \in Seq(Job) /\ Len(jobs) \in Nat /\ Len(jobs) <= MaxJobs
    BY LenProperties DEF TypeOK
  <2>2. ASSUME NEW x \in DOMAIN executionCache, Len(jobs) < MaxJobs,
               jobs' = Append(jobs, NewJob(x)), NewJob(x) \in Job
        PROVE  Goal
    BY <2>1, <2>2, Appended, ConstantsAssumption
  <2>3. ASSUME NEW j \in DOMAIN jobs, NEW object \in Job, jobs' = [jobs EXCEPT ![j] = object]
        PROVE  Goal
    BY <2>1, <2>3, Replaced
  <2> QED
    BY <2>1, <2>2, <2>3, JobWrite
<1>4. parentCache' \in [Parents -> Parent]
  <2>1. ASSUME NEW kind, DeliverParents(kind) PROVE parentCache' \in [Parents -> Parent]
    BY <2>1 DEF DeliverParents, TypeOK
  <2> QED
    BY <2>1, CacheWrite DEF TypeOK
<1>5. executionCache' \in Seq(Execution) /\ Len(executionCache') <= Len(executions')
  <2>1. executionCache' = executionCache \/ executionCache' = executions
    BY CacheWrite DEF DeliverExecutions
  <2>2. Len(executionCache) \in Nat /\ Len(executions') \in Nat
    BY <1>2, LenProperties DEF TypeOK
  <2> QED
    BY <1>2, <2>1, <2>2 DEF TypeOK
<1>6. jobCache' \in Seq(Job) /\ Len(jobCache') <= Len(jobs')
  <2>1. jobCache' = jobCache \/ jobCache' = jobs
    BY CacheWrite DEF DeliverJobs
  <2>2. Len(jobCache) \in Nat /\ Len(jobs') \in Nat
    BY <1>3, LenProperties DEF TypeOK
  <2> QED
    BY <1>3, <2>1, <2>2 DEF TypeOK
<1>7. left' \in Nat
  <2>1. left' = left \/ Disturb
    BY DEF Next, vars, CreateExecution, UpdateStatus, EditParent, ReconcileExecution, RunJob,
           LoseJob, DeliverParents, DeliverExecutions, DeliverJobs
  <2> QED
    BY <2>1 DEF TypeOK, Disturb
<1> QED
  BY <1>1, <1>2, <1>3, <1>4, <1>5, <1>6, <1>7 DEF TypeOK

\* In every behaviour the cluster and the caches have their types, and the
\* caches know no more objects than there are.
THEOREM TypeCorrect == Spec => []TypeOK
BY TypeInit, TypeStep, PTL DEF Spec

----------------------------------------------------------------------------
(* Objects move forward, and caches hold earlier states of them.           *)

LEMMA PrecedesReflexive == \A x : Precedes(x, x)
BY DEF Precedes

LEMMA PrecedesTransitive ==
    \A x, y, z : Precedes(x, y) /\ Precedes(y, z) => Precedes(x, z)
BY DEF Precedes

JobsAdvance ==
    /\ DOMAIN jobs \subseteq DOMAIN jobs'
    /\ \A j \in DOMAIN jobs : Precedes(jobs[j], jobs'[j])

ExecutionsAdvance ==
    /\ DOMAIN executions \subseteq DOMAIN executions'
    /\ \A x \in DOMAIN executions :
        executions'[x].owner = executions[x].owner
            /\ executions'[x].generation = executions[x].generation

ParentsAdvance == \A p \in Parents : parents[p].generation <= parents'[p].generation

LEMMA Advance ==
    ASSUME TypeOK, [Next]_vars
    PROVE  JobsAdvance /\ ExecutionsAdvance /\ ParentsAdvance
<1>1. JobsAdvance
  <2>1. jobs \in Seq(Job)
    BY DEF TypeOK
  <2>2. CASE UNCHANGED jobs
    BY <2>2, PrecedesReflexive DEF JobsAdvance
  <2>3. ASSUME NEW x \in DOMAIN executionCache, jobs' = Append(jobs, NewJob(x)), NewJob(x) \in Job
        PROVE  JobsAdvance
    BY <2>1, <2>3, Appended, PrecedesReflexive DEF JobsAdvance
  <2>4. ASSUME NEW j \in DOMAIN jobs, NEW object \in Job,
               jobs' = [jobs EXCEPT ![j] = object], Precedes(jobs[j], object)
        PROVE  JobsAdvance
    BY <2>1, <2>4, Replaced, PrecedesReflexive DEF JobsAdvance
  <2> QED
    BY <2>2, <2>3, <2>4, JobWrite
<1>2. ExecutionsAdvance
  <2>1. executions \in Seq(Execution)
    BY DEF TypeOK
  <2>2. CASE UNCHANGED executions
    BY <2>2 DEF ExecutionsAdvance
  <2>3. ASSUME NEW p \in Parents, CreateExecution(p), NewExecution(p) \in Execution
        PROVE  ExecutionsAdvance
    BY <2>1, <2>3, Appended DEF ExecutionsAdvance, CreateExecution
  <2>4. ASSUME NEW x \in DOMAIN executionCache, NEW object \in Execution,
               executions' = [executions EXCEPT ![x] = object],
               object.owner = executions[x].owner, object.generation = executions[x].generation
        PROVE  ExecutionsAdvance
    BY <2>1, <2>4, CachedNames, Replaced DEF ExecutionsAdvance
  <2> QED
    BY <2>2, <2>3, <2>4, ExecutionWrite
<1>3. ParentsAdvance
  <2>1. \A p \in Parents : parents[p].generation \in Nat
    BY DEF TypeOK, Parent
  <2>2. parents \in [Parents -> Parent]
    BY DEF TypeOK
  <2> QED
    BY <2>1, <2>2, ParentWrite DEF ParentsAdvance
<1> QED
  BY <1>1, <1>2, <1>3

ParentCopies == \A p \in Parents : parentCache[p].generation <= parents[p].generation

ExecutionCopies ==
    \A x \in DOMAIN executionCache :
        /\ executionCache[x].owner = executions[x].owner
        /\ executionCache[x].generation = executions[x].generation

JobCopies == \A j \in DOMAIN jobCache : Precedes(jobCache[j], jobs[j])

CopiesInv == ParentCopies /\ ExecutionCopies /\ JobCopies

LEMMA CopiesStep ==
    ASSUME TypeOK, CopiesInv, [Next]_vars
    PROVE  CopiesInv'
<1> USE DEF CopiesInv
<1>1. ParentCopies'
  <2>1. \A p \in Parents :
            /\ parentCache'[p] = parentCache[p] \/ parentCache'[p] = parents[p]
            /\ parents[p].generation <= parents'[p].generation
    BY CacheWrite, Advance DEF DeliverParents, ParentsAdvance
  <2>2. \A p \in Parents : /\ parentCache[p].generation \in Nat
                           /\ parents[p].generation \in Nat /\ parents'[p].generation \in Nat
    BY TypeStep DEF TypeOK, Parent
  <2> QED
    BY <2>1, <2>2 DEF ParentCopies
<1>2. ExecutionCopies'
  BY CacheWrite, Advance, CachedNames
  DEF DeliverExecutions, ExecutionCopies, ExecutionsAdvance
<1>3. JobCopies'
  <2>1. CASE UNCHANGED jobCache
    BY <2>1, Advance, CachedNames, PrecedesTransitive DEF JobCopies, JobsAdvance
  <2>2. CASE DeliverJobs
    BY <2>2, Advance DEF DeliverJobs, JobCopies, JobsAdvance, cluster
  <2> QED
    BY <2>1, <2>2, CacheWrite
<1> QED
  BY <1>1, <1>2, <1>3

----------------------------------------------------------------------------
(* What a Job is built from.                                               *)

\* The module cache is never behind the executions it led to.
Generations ==
    \A x \in DOMAIN executions :
        executions[x].generation <= parentCache[executions[x].owner].generation

JobOwners == \A j \in DOMAIN jobs : jobs[j].owner \in DOMAIN executions

BuiltInv == Generations /\ JobOwners /\ JobsAreNotOlder

LEMMA GenerationsStep ==
    ASSUME TypeOK, CopiesInv, Generations, [Next]_vars
    PROVE  Generations'
<1>1. executions \in Seq(Execution)
  BY DEF TypeOK
<1>2. \A x \in DOMAIN executions : executions[x].owner \in Parents /\ executions[x].generation \in Nat
  <2>1. \A x \in DOMAIN executions : executions[x] \in Execution
    BY <1>1, Elements
  <2> QED
    BY <2>1 DEF Execution
<1>3. \A p \in Parents :
            /\ parentCache'[p] = parentCache[p] \/ parentCache'[p] = parents[p]
            /\ parentCache[p].generation <= parents[p].generation
            /\ parentCache[p].generation \in Nat /\ parents[p].generation \in Nat
  BY CacheWrite DEF DeliverParents, CopiesInv, ParentCopies, TypeOK, Parent
<1>4. \A x \in DOMAIN executions :
            executions'[x].generation <= parentCache'[executions'[x].owner].generation
  BY <1>2, <1>3, Advance DEF Generations, ExecutionsAdvance
<1>5. ASSUME NEW p \in Parents, CreateExecution(p), NewExecution(p) \in Execution
      PROVE  Generations'
  <2>1. /\ DOMAIN executions' = DOMAIN executions \cup {Len(executions) + 1}
        /\ executions'[Len(executions) + 1] = NewExecution(p)
        /\ parentCache' = parentCache
    BY <1>1, <1>5, Appended DEF CreateExecution, caches
  <2>2. NewExecution(p).owner = p /\ NewExecution(p).generation <= parentCache[p].generation
    BY <1>3 DEF NewExecution
  <2> QED
    BY <1>4, <2>1, <2>2 DEF Generations
<1>6. \/ DOMAIN executions' = DOMAIN executions
      \/ \E p \in Parents : CreateExecution(p) /\ NewExecution(p) \in Execution
  BY <1>1, ExecutionWrite, CachedNames, Replaced
<1> QED
  BY <1>4, <1>5, <1>6 DEF Generations

LEMMA BuiltStep ==
    ASSUME TypeOK, CopiesInv, BuiltInv, [Next]_vars
    PROVE  BuiltInv'
<1> USE DEF BuiltInv
<1>1. Generations'
  BY GenerationsStep
<1>2. jobs \in Seq(Job)
  BY DEF TypeOK
<1>3. \A j \in DOMAIN jobs :
        /\ jobs'[j].owner \in DOMAIN executions'
        /\ executions'[jobs'[j].owner].owner \in Modules =>
                executions'[jobs'[j].owner].generation <= jobs'[j].built
  BY Advance DEF JobOwners, JobsAreNotOlder, JobsAdvance, ExecutionsAdvance, Precedes
<1>4. ASSUME NEW x \in DOMAIN executionCache, jobs' = Append(jobs, NewJob(x)), NewJob(x) \in Job
      PROVE  JobOwners' /\ JobsAreNotOlder'
  <2>1. /\ DOMAIN jobs' = DOMAIN jobs \cup {Len(jobs) + 1}
        /\ jobs'[Len(jobs) + 1] = NewJob(x)
    BY <1>2, <1>4, Appended
  <2>2. x \in DOMAIN executions /\ x \in DOMAIN executions'
    BY CachedNames, Advance DEF ExecutionsAdvance
  <2>3. /\ executions'[x].owner = executionCache[x].owner
        /\ executions'[x].generation <= parentCache[executionCache[x].owner].generation
    BY <2>2, Advance DEF ExecutionsAdvance, CopiesInv, ExecutionCopies, Generations
  <2>4. executions'[x].owner \in Modules => executions'[x].generation <= NewJob(x).built
    BY <2>3 DEF NewJob, Target
  <2> QED
    BY <1>3, <2>1, <2>2, <2>4 DEF JobOwners, JobsAreNotOlder, NewJob
<1>5. DOMAIN jobs' = DOMAIN jobs
      \/ \E x \in DOMAIN executionCache : jobs' = Append(jobs, NewJob(x)) /\ NewJob(x) \in Job
  BY <1>2, JobWrite, Replaced
<1>6. JobOwners' /\ JobsAreNotOlder'
  BY <1>3, <1>4, <1>5 DEF JobOwners, JobsAreNotOlder
<1> QED
  BY <1>1, <1>6

LEMMA BuiltInit == Init => TypeOK /\ CopiesInv /\ BuiltInv
<1> SUFFICES ASSUME Init PROVE TypeOK /\ CopiesInv /\ BuiltInv
  OBVIOUS
<1>1. TypeOK
  BY TypeInit
<1>2. \A p \in Parents : parents[p].generation \in Nat
  BY <1>1 DEF TypeOK, Parent
<1> QED
  BY <1>1, <1>2
  DEF Init, CopiesInv, ParentCopies, ExecutionCopies, JobCopies, BuiltInv, Generations, JobOwners,
      JobsAreNotOlder

\* A module's Job is never built from an older generation than the one its
\* execution stands for.
THEOREM JobsAreCurrent == Spec => []JobsAreNotOlder
<1>1. Init => TypeOK /\ CopiesInv /\ BuiltInv
  BY BuiltInit
<1>2. TypeOK /\ CopiesInv /\ BuiltInv /\ [Next]_vars => (TypeOK /\ CopiesInv /\ BuiltInv)'
  BY TypeStep, CopiesStep, BuiltStep
<1>3. BuiltInv => JobsAreNotOlder
  BY DEF BuiltInv
<1> QED
  BY <1>1, <1>2, <1>3, PTL DEF Spec

----------------------------------------------------------------------------
(* What is reported.                                                       *)

\* The phase that execution x reports is one its Job has reached in a copy
\* of the Jobs.
Reached(copy, x, status) ==
    IF status.job = 0 THEN status.phase = NoPhase
    ELSE /\ status.job \in DOMAIN copy
         /\ copy[status.job].owner = x
         /\ status.phase \in {"Pending", Phase(copy[status.job].stage)}

ReportsReached == \A x \in DOMAIN executions : Reached(jobCache, x, executions[x])

\* Some Job of execution x did what the phase says.
Backed(x, phase) ==
    /\ phase = "Failed" => \E j \in DOMAIN jobs : jobs[j].owner = x /\ FailedOnce(jobs[j].stage)
    /\ phase = "Succeeded" => \E j \in DOMAIN jobs : jobs[j].owner = x /\ jobs[j].stage = "succeeded"

CacheBacked == \A x \in DOMAIN executionCache : Backed(x, executionCache[x].phase)

ParentsBacked ==
    \A p \in Parents :
        LET status == parents[p].status
            x == status.lastExecution
        IN  x # 0 => /\ x \in DOMAIN executions
                     /\ executions[x].owner = p
                     /\ status.observed <= parents[p].generation
                     /\ Backed(x, status.phase)

ReportInv == ReportsReached /\ CacheBacked /\ ParentsBacked

LEMMA PhaseKept ==
    ASSUME NEW old \in Job, NEW new \in Job, Precedes(old, new),
           NEW phase \in {"Pending", Phase(old.stage)}
    PROVE  phase \in {"Pending", Phase(new.stage)}
BY DEF Precedes, Phase, FailedOnce, Job, Stages

\* The Job cache moves forward.
LEMMA JobCacheAdvance ==
    ASSUME TypeOK, CopiesInv, [Next]_vars, NEW j \in DOMAIN jobCache
    PROVE  /\ j \in DOMAIN jobCache'
           /\ Precedes(jobCache[j], jobCache'[j])
           /\ jobCache[j] \in Job /\ jobCache'[j] \in Job
<1>1. j \in DOMAIN jobs /\ Precedes(jobCache[j], jobs[j])
  BY CachedNames DEF CopiesInv, JobCopies
<1>2. j \in DOMAIN jobCache' /\ Precedes(jobCache[j], jobCache'[j])
  BY <1>1, CacheWrite, PrecedesReflexive DEF DeliverJobs
<1>3. jobCache \in Seq(Job) /\ jobCache' \in Seq(Job)
  BY TypeStep DEF TypeOK
<1> QED
  BY <1>2, <1>3, Elements

LEMMA ReportsReachedStep ==
    ASSUME TypeOK, CopiesInv, ReportsReached, [Next]_vars
    PROVE  ReportsReached'
<1>1. executions \in Seq(Execution)
  BY DEF TypeOK
<1>2. ASSUME NEW x \in DOMAIN executions
      PROVE  Reached(jobCache', x, executions[x])
  <2>1. CASE executions[x].job = 0
    BY <2>1 DEF ReportsReached, Reached
  <2>2. CASE executions[x].job # 0
    <3>1. /\ executions[x].job \in DOMAIN jobCache
          /\ jobCache[executions[x].job].owner = x
          /\ executions[x].phase \in {"Pending", Phase(jobCache[executions[x].job].stage)}
      BY <2>2 DEF ReportsReached, Reached
    <3>2. executions[x].phase \in {"Pending", Phase(jobCache'[executions[x].job].stage)}
      BY <3>1, JobCacheAdvance, PhaseKept
    <3> QED
      BY <2>2, <3>1, <3>2, JobCacheAdvance DEF Reached, Precedes
  <2> QED
    BY <2>1, <2>2
<1>3. CASE UNCHANGED executions
  BY <1>2, <1>3 DEF ReportsReached
<1>4. ASSUME NEW p \in Parents, CreateExecution(p), NewExecution(p) \in Execution
      PROVE  ReportsReached'
  <2>1. /\ DOMAIN executions' = DOMAIN executions \cup {Len(executions) + 1}
        /\ executions'[Len(executions) + 1] = NewExecution(p)
        /\ \A x \in DOMAIN executions : executions'[x] = executions[x]
    BY <1>1, <1>4, Appended DEF CreateExecution
  <2>2. \A x : Reached(jobCache', x, NewExecution(p))
    BY DEF Reached, NewExecution
  <2> QED
    BY <1>2, <2>1, <2>2 DEF ReportsReached
<1>5. ASSUME NEW x \in DOMAIN executionCache, NEW object \in Execution,
             executions' = [executions EXCEPT ![x] = object],
             object.job \in Newest(OwnedJobs(x)),
             object.phase = Phase(jobCache[object.job].stage)
      PROVE  ReportsReached'
  <2>1. object.job \in DOMAIN jobCache /\ jobCache[object.job].owner = x
    <3>1. object.job \in OwnedJobs(x)
      BY <1>5, NewestJob
    <3> QED
      BY <3>1 DEF OwnedJobs
  <2>2. object.phase \in {"Pending", Phase(jobCache'[object.job].stage)}
    <3>1. object.phase \in {"Pending", Phase(jobCache[object.job].stage)}
      BY <1>5
    <3>2. /\ Precedes(jobCache[object.job], jobCache'[object.job])
          /\ jobCache[object.job] \in Job /\ jobCache'[object.job] \in Job
      BY <2>1, JobCacheAdvance
    <3> QED
      BY <3>1, <3>2, PhaseKept
  <2>3. Reached(jobCache', x, object)
    <3>1. object.job # 0
      BY <2>1, CachedNames
    <3>2. object.job \in DOMAIN jobCache' /\ jobCache'[object.job].owner = x
      BY <2>1, JobCacheAdvance DEF Precedes
    <3> QED
      BY <2>2, <3>1, <3>2 DEF Reached
  <2>4. /\ DOMAIN executions' = DOMAIN executions
        /\ executions'[x] = object
        /\ \A y \in DOMAIN executions \ {x} : executions'[y] = executions[y]
    BY <1>1, <1>5, CachedNames, Replaced
  <2> QED
    BY <1>2, <2>3, <2>4 DEF ReportsReached
<1> QED
  BY <1>3, <1>4, <1>5, ExecutionWrite

LEMMA BackedKept ==
    ASSUME JobsAdvance, NEW x, NEW phase, Backed(x, phase)
    PROVE  Backed(x, phase)'
BY DEF JobsAdvance, Precedes, Backed

LEMMA CacheBackedStep ==
    ASSUME TypeOK, CopiesInv, ReportsReached, CacheBacked, [Next]_vars
    PROVE  CacheBacked'
<1>1. CASE UNCHANGED executionCache
  BY <1>1, BackedKept, Advance DEF CacheBacked
<1>2. CASE DeliverExecutions
  <2>1. ASSUME NEW x \in DOMAIN executions PROVE Backed(x, executions[x].phase)
    <3>1. CASE executions[x].job = 0
      <4>1. executions[x].phase = NoPhase
        BY <3>1 DEF ReportsReached, Reached
      <4>2. NoPhase \notin {"Succeeded", "Failed"}
        BY Zenon DEF NoPhase
      <4> QED
        BY <4>1, <4>2 DEF Backed
    <3>2. CASE executions[x].job # 0
      <4> DEFINE j == executions[x].job
      <4>1. /\ j \in DOMAIN jobCache /\ jobCache[j].owner = x
            /\ executions[x].phase \in {"Pending", Phase(jobCache[j].stage)}
        BY <3>2 DEF ReportsReached, Reached
      <4>2. j \in DOMAIN jobs /\ Precedes(jobCache[j], jobs[j])
        BY <4>1, CachedNames DEF CopiesInv, JobCopies
      <4>3. jobCache[j] \in Job /\ jobs[j] \in Job
        BY <4>1, <4>2, Elements DEF TypeOK
      <4>4. executions[x].phase \in {"Pending", Phase(jobs[j].stage)} /\ jobs[j].owner = x
        BY <4>1, <4>2, <4>3, PhaseKept DEF Precedes
      <4> QED
        BY <4>2, <4>3, <4>4 DEF Backed, Phase, FailedOnce, Job, Stages
    <3> QED
      BY <3>1, <3>2
  <2>2. executionCache' = executions /\ UNCHANGED <<executions, jobs>>
    BY <1>2 DEF DeliverExecutions, cluster
  <2> QED
    BY <2>1, <2>2 DEF CacheBacked, Backed
<1> QED
  BY <1>1, <1>2, CacheWrite

LEMMA ParentsBackedStep ==
    ASSUME TypeOK, CopiesInv, CacheBacked, ParentsBacked, [Next]_vars
    PROVE  ParentsBacked'
<1> DEFINE Good(p, object) ==
             object.status.lastExecution # 0 =>
                /\ object.status.lastExecution \in DOMAIN executions
                /\ executions[object.status.lastExecution].owner = p
                /\ object.status.observed <= object.generation
                /\ Backed(object.status.lastExecution, object.status.phase)
<1>1. parents \in [Parents -> Parent]
  BY DEF TypeOK
<1>2. \A p \in Parents : Good(p, parents[p])
  BY DEF ParentsBacked
<1>3. ASSUME \A p \in Parents : Good(p, parents'[p])
      PROVE  ParentsBacked'
  BY <1>3, Advance, BackedKept DEF ParentsBacked, ExecutionsAdvance
<1>4. CASE UNCHANGED parents
  BY <1>2, <1>3, <1>4
<1>5. ASSUME NEW p \in Parents, NEW object \in Parent, parents' = [parents EXCEPT ![p] = object],
             parents[p].generation <= object.generation, object.status = parents[p].status
      PROVE  ParentsBacked'
  <2>1. parents[p].generation \in Nat /\ parents[p].status.observed \in Nat
        /\ object.generation \in Nat
    BY <1>1 DEF Parent, Status
  <2>2. Good(p, object)
    BY <1>2, <1>5, <2>1
  <2> QED
    BY <1>1, <1>2, <1>3, <1>5, <2>2
<1>6. ASSUME NEW p \in Parents, UpdateStatus(p)
      PROVE  ParentsBacked'
  <2>0. PICK x \in Newest(OwnedExecutions(p)) :
            parents' = [parents EXCEPT ![p] = Mirror(parents[p], x, executionCache[x].phase)]
    BY <1>6 DEF UpdateStatus
  <2> DEFINE object == Mirror(parents[p], x, executionCache[x].phase)
  <2>1. parents[p] \in Parent /\ parents' = [parents EXCEPT ![p] = object]
    BY <1>1, <2>0
  <2>2. x \in DOMAIN executionCache /\ executionCache[x].owner = p
    BY LastExecution DEF OwnedExecutions
  <2>3. /\ x \in DOMAIN executions /\ executions[x].owner = p
        /\ Backed(x, executionCache[x].phase)
    BY <2>2, CachedNames DEF CopiesInv, ExecutionCopies, CacheBacked
  <2>4. Good(p, object)
    BY <1>2, <2>1, <2>3 DEF Mirror, Parent, Status
  <2> HIDE DEF object
  <2>5. ASSUME NEW q \in Parents PROVE Good(q, parents'[q])
    <3>1. parents'[q] = IF q = p THEN object ELSE parents[q]
      BY <1>1, <2>1
    <3> QED
      BY <1>2, <2>4, <3>1
  <2> QED
    BY <1>3, <2>5
<1> QED
  BY <1>4, <1>5, <1>6, ParentWrite

LEMMA ReportInit == Init => TypeOK /\ CopiesInv /\ ReportInv
<1> SUFFICES ASSUME Init PROVE TypeOK /\ CopiesInv /\ ReportInv
  OBVIOUS
<1>1. TypeOK
  BY TypeInit
<1>2. \A p \in Parents : parents[p].generation \in Nat
  BY <1>1 DEF TypeOK, Parent
<1>3. CopiesInv /\ ReportsReached /\ CacheBacked
  BY <1>2 DEF Init, CopiesInv, ParentCopies, ExecutionCopies, JobCopies, ReportsReached, CacheBacked
<1>4. ParentsBacked
  <2>1. \A p \in Parents : parents[p].status = NoStatus
    BY DEF Init
  <2>2. NoStatus.lastExecution = 0
    BY DEF NoStatus
  <2> QED
    BY <2>1, <2>2 DEF ParentsBacked
<1> QED
  BY <1>1, <1>3, <1>4 DEF ReportInv

LEMMA ReportStep ==
    TypeOK /\ CopiesInv /\ ReportInv /\ [Next]_vars => (TypeOK /\ CopiesInv /\ ReportInv)'
BY TypeStep, CopiesStep, ReportsReachedStep, CacheBackedStep, ParentsBackedStep DEF ReportInv

\* Whatever a module or a stack reports has happened in a pod of an
\* execution of its own.
THEOREM ReportsAreTrue == Spec => []ReportsAreBacked
<1>1. ReportInv => ReportsAreBacked
  BY DEF ReportInv, ParentsBacked, ReportsAreBacked, Backed
<1> QED
  BY <1>1, ReportInit, ReportStep, PTL DEF Spec

----------------------------------------------------------------------------
(* One run after the other.                                                *)

\* The manager has seen the execution that a parent reports.
ParentsSeen ==
    \A p \in Parents :
        parents[p].status.lastExecution # 0 =>
            parents[p].status.lastExecution \in DOMAIN executionCache

LEMMA ParentsSeenStep ==
    ASSUME TypeOK, ParentsSeen, [Next]_vars
    PROVE  ParentsSeen'
<1>1. parents \in [Parents -> Parent]
  BY DEF TypeOK
<1>2. DOMAIN executionCache \subseteq DOMAIN executionCache'
  BY CacheWrite, CachedNames DEF DeliverExecutions
<1>3. CASE UNCHANGED parents
  BY <1>2, <1>3 DEF ParentsSeen
<1>4. ASSUME NEW p \in Parents, NEW object \in Parent, parents' = [parents EXCEPT ![p] = object],
             \/ object.status.lastExecution = parents[p].status.lastExecution
             \/ object.status.lastExecution \in DOMAIN executionCache
      PROVE  ParentsSeen'
  <2>1. ASSUME NEW q \in Parents, parents'[q].status.lastExecution # 0
        PROVE  parents'[q].status.lastExecution \in DOMAIN executionCache
    <3>1. parents'[q] = IF q = p THEN object ELSE parents[q]
      BY <1>1, <1>4
    <3> QED
      BY <1>4, <2>1, <3>1 DEF ParentsSeen
  <2> QED
    BY <1>2, <2>1 DEF ParentsSeen
<1>5. ASSUME NEW p \in Parents, UpdateStatus(p), NEW object \in Parent,
             parents' = [parents EXCEPT ![p] = object]
      PROVE  ParentsSeen'
  <2>1. PICK x \in Newest(OwnedExecutions(p)) :
            parents' = [parents EXCEPT ![p] = Mirror(parents[p], x, executionCache[x].phase)]
    BY <1>5 DEF UpdateStatus
  <2>2. object = Mirror(parents[p], x, executionCache[x].phase) /\ parents[p] \in Parent
    BY <1>1, <1>5, <2>1
  <2>3. x \in DOMAIN executionCache
    BY LastExecution DEF OwnedExecutions
  <2>4. object.status.lastExecution \in {x, parents[p].status.lastExecution}
    BY <2>2 DEF Mirror, Parent
  <2> QED
    BY <1>4, <1>5, <2>3, <2>4
<1> QED
  BY <1>3, <1>4, <1>5, ParentWrite

\* When no two executions carry the same creation timestamp, a parent creates
\* an execution only after a pod of the one it reports, or of a younger one of
\* its own, has ended, however far the caches lag and whatever Jobs were lost.
THEOREM OneRunAfterAPod ==
    ASSUME ~SameSecond
    PROVE  Spec => NextRunAfterAPod
<1> DEFINE Seen == TypeOK /\ CopiesInv /\ ReportInv /\ ParentsSeen
           After(p) ==
             LET x == parents[p].status.lastExecution
                 new == Len(executions) + 1
             IN  x # 0 /\ new \in DOMAIN executions' /\ executions'[new].owner = p =>
                    \E z \in DOMAIN executions :
                        x <= z /\ executions[z].owner = p /\ PodHasEnded(z)
<1>1. ASSUME TypeOK, CopiesInv, ReportInv, ParentsSeen, [Next]_vars, NEW p \in Parents
      PROVE  After(p)
  <2> DEFINE x == parents[p].status.lastExecution
             new == Len(executions) + 1
  <2> SUFFICES ASSUME x # 0, new \in DOMAIN executions', executions'[new].owner = p
               PROVE  \E z \in DOMAIN executions :
                            x <= z /\ executions[z].owner = p /\ PodHasEnded(z)
    OBVIOUS
  <2>1. executions \in Seq(Execution) /\ DOMAIN executions = 1 .. Len(executions)
        /\ Len(executions) \in Nat
    BY <1>1, LenProperties DEF TypeOK
  <2>2. new \notin DOMAIN executions
    BY <2>1
  <2>3. PICK q \in Parents : CreateExecution(q) /\ NewExecution(q) \in Execution
    BY <1>1, <2>1, <2>2, ExecutionWrite, CachedNames, Replaced
  <2>4. CreateExecution(p)
    <3>1. executions'[new] = NewExecution(q)
      BY <2>1, <2>3, Appended DEF CreateExecution
    <3> QED
      BY <2>3, <3>1 DEF NewExecution
  <2>5. x \in OwnedExecutions(p)
    BY <1>1 DEF ParentsSeen, ReportInv, ParentsBacked, CopiesInv, ExecutionCopies, OwnedExecutions
  <2>6. PICK z \in Newest(OwnedExecutions(p)) : Due(p, z)
    BY <2>4, <2>5 DEF CreateExecution
  <2>7. z \in OwnedExecutions(p) /\ x <= z
    BY <1>1, <2>5, LastExecution
  <2>8. z \in DOMAIN executionCache /\ z \in DOMAIN executions /\ executions[z].owner = p
    BY <1>1, <2>7, CachedNames DEF OwnedExecutions, CopiesInv, ExecutionCopies
  <2>9. PodHasEnded(z)
    BY <1>1, <2>6, <2>8
    DEF Due, IsExecutionTerminal, ReportInv, CacheBacked, Backed, FailedOnce, PodHasEnded
  <2> QED
    BY <2>7, <2>8, <2>9
<1>2. Init => Seen
  <2> SUFFICES ASSUME Init PROVE Seen
    OBVIOUS
  <2>1. \A p \in Parents : parents[p].status.lastExecution = 0
    BY DEF Init, NoStatus
  <2> QED
    BY <2>1, ReportInit DEF ParentsSeen
<1>3. Seen /\ [Next]_vars => Seen'
  BY ReportStep, ParentsSeenStep
<1>4. Seen /\ [Next]_vars => [\A p \in Parents : After(p)]_vars
  BY <1>1
<1> QED
  BY <1>2, <1>3, <1>4, PTL DEF Spec, NextRunAfterAPod

----------------------------------------------------------------------------
(* When nothing is left to do.                                             *)

\* A parent has observed at least the generation of the execution it reports.
Observes(p, status) ==
    status.lastExecution # 0 =>
        /\ status.lastExecution \in DOMAIN executions
        /\ executions[status.lastExecution].generation <= status.observed

ParentsObserve == \A p \in Parents : Observes(p, parents[p].status)

\* No Job is built from a generation that its module has not had yet.
JobsNotAhead ==
    \A j \in DOMAIN jobs :
        jobs[j].built <= parents[Target(executions[jobs[j].owner].owner)].generation

RestInv == TypeOK /\ CopiesInv /\ BuiltInv /\ ReportInv /\ ParentsObserve /\ JobsNotAhead

LEMMA ParentsObserveStep ==
    ASSUME TypeOK, CopiesInv, Generations, ParentsObserve, [Next]_vars
    PROVE  ParentsObserve'
<1>1. parents \in [Parents -> Parent]
  BY DEF TypeOK
<1>2. \A p \in Parents : Observes(p, parents[p].status)
  BY DEF ParentsObserve
<1>3. ASSUME \A p \in Parents : Observes(p, parents'[p].status)
      PROVE  ParentsObserve'
  BY <1>3, Advance DEF ParentsObserve, Observes, ExecutionsAdvance
<1>4. CASE UNCHANGED parents
  BY <1>2, <1>3, <1>4
<1>5. ASSUME NEW p \in Parents, NEW object \in Parent, parents' = [parents EXCEPT ![p] = object],
             Observes(p, object.status)
      PROVE  ParentsObserve'
  <2>1. ASSUME NEW q \in Parents PROVE Observes(q, parents'[q].status)
    <3>1. parents'[q] = IF q = p THEN object ELSE parents[q]
      BY <1>1, <1>5
    <3> QED
      BY <1>2, <1>5, <3>1
  <2> QED
    BY <1>3, <2>1
<1>6. ASSUME NEW p \in Parents, UpdateStatus(p)
      PROVE  ParentsObserve'
  <2>0. PICK x \in Newest(OwnedExecutions(p)) :
            parents' = [parents EXCEPT ![p] = Mirror(parents[p], x, executionCache[x].phase)]
    BY <1>6 DEF UpdateStatus
  <2> DEFINE phase == executionCache[x].phase
             object == Mirror(parents[p], x, phase)
  <2>1. /\ parents[p] \in Parent /\ parents[p] = parentCache[p]
        /\ parents' = [parents EXCEPT ![p] = object]
    BY <1>1, <1>6, <2>0 DEF UpdateStatus
  <2>2. x \in DOMAIN executionCache /\ executionCache[x].owner = p
    BY LastExecution DEF OwnedExecutions
  <2>3. x \in DOMAIN executions /\ executions[x].owner = p /\ x \in 0 .. MaxExecutions
    BY <2>2, CachedNames, ConstantsAssumption DEF CopiesInv, ExecutionCopies
  <2>4. executions[x].generation <= parents[p].generation
    BY <2>1, <2>3 DEF Generations
  <2>5. phase \in Phases
    <3>1. executionCache[x] \in Execution
      BY <2>2, Elements DEF TypeOK
    <3> QED
      BY <3>1 DEF Execution
  <2> HIDE DEF phase
  <2>6. object \in Parent
    BY <2>1, <2>3, <2>5, MirrorType
  <2>7. Observes(p, object.status)
    BY <1>2, <2>1, <2>3, <2>4 DEF Mirror, Parent, Status, Observes
  <2> HIDE DEF object
  <2> QED
    BY <1>5, <2>1, <2>6, <2>7
<1> QED
  BY <1>2, <1>4, <1>5, <1>6, ParentWrite

LEMMA JobsNotAheadStep ==
    ASSUME TypeOK, CopiesInv, JobOwners, JobsNotAhead, [Next]_vars
    PROVE  JobsNotAhead'
<1>1. jobs \in Seq(Job)
  BY DEF TypeOK
<1>2. \A x \in DOMAIN executions : Target(executions[x].owner) \in Parents
  <2>1. \A x \in DOMAIN executions : executions[x] \in Execution
    BY Elements DEF TypeOK
  <2> QED
    BY <2>1, ConstantsAssumption DEF Execution, Target, Parents
<1>3. \A p \in Parents : /\ parentCache[p].generation <= parents[p].generation
                         /\ parents[p].generation <= parents'[p].generation
                         /\ parentCache[p].generation \in Nat
                         /\ parents[p].generation \in Nat /\ parents'[p].generation \in Nat
  BY Advance, TypeStep DEF ParentsAdvance, CopiesInv, ParentCopies, TypeOK, Parent
<1>4. ASSUME NEW j \in DOMAIN jobs
      PROVE  jobs'[j].built <= parents'[Target(executions'[jobs'[j].owner].owner)].generation
  <2> DEFINE x == jobs[j].owner
             p == Target(executions[x].owner)
  <2>1. /\ jobs'[j].built = jobs[j].built /\ jobs'[j].owner = x
        /\ x \in DOMAIN executions /\ executions'[x].owner = executions[x].owner
    BY Advance DEF JobOwners, JobsAdvance, ExecutionsAdvance, Precedes
  <2>2. p \in Parents /\ jobs[j].built <= parents[p].generation /\ jobs[j].built \in Nat
    <3>1. jobs[j] \in Job
      BY <1>1, Elements
    <3> QED
      BY <1>2, <2>1, <3>1 DEF JobsNotAhead, Job
  <2>3. Target(executions'[jobs'[j].owner].owner) = p
    BY <2>1
  <2> HIDE DEF p
  <2>4. jobs[j].built <= parents'[p].generation
    BY <1>3, <2>2
  <2> QED
    BY <2>1, <2>3, <2>4
<1>5. ASSUME NEW x \in DOMAIN executionCache, jobs' = Append(jobs, NewJob(x)), NewJob(x) \in Job
      PROVE  JobsNotAhead'
  <2>1. /\ DOMAIN jobs' = DOMAIN jobs \cup {Len(jobs) + 1}
        /\ jobs'[Len(jobs) + 1] = NewJob(x)
    BY <1>1, <1>5, Appended
  <2>2. x \in DOMAIN executions
    BY CachedNames
  <2>3. executions'[x].owner = executionCache[x].owner /\ Target(executionCache[x].owner) \in Parents
    BY <1>2, <2>2, Advance DEF ExecutionsAdvance, CopiesInv, ExecutionCopies
  <2>4. NewJob(x).built <= parents'[Target(executions'[x].owner)].generation
    BY <1>3, <2>3 DEF NewJob
  <2>5. NewJob(x).owner = x
    BY DEF NewJob
  <2> QED
    BY <1>4, <2>1, <2>4, <2>5 DEF JobsNotAhead
<1>6. DOMAIN jobs' = DOMAIN jobs
      \/ \E x \in DOMAIN executionCache : jobs' = Append(jobs, NewJob(x)) /\ NewJob(x) \in Job
  BY <1>1, JobWrite, Replaced
<1> QED
  BY <1>4, <1>5, <1>6 DEF JobsNotAhead

\* An execution at rest reports the end of its one Job.
LEMMA RestingExecution ==
    ASSUME TypeOK, AtRest, NEW x \in DOMAIN executions
    PROVE  /\ IsExecutionTerminal(executions[x].phase)
           /\ executions[x].job \in DOMAIN jobs
           /\ jobs[executions[x].job].owner = x
<1> DEFINE j == executions[x].job
<1>1. /\ jobCache = jobs /\ OwnedJobs(x) = {j}
      /\ executions[x].phase = Phase(jobs[j].stage)
  BY DEF AtRest
<1>2. j \in DOMAIN jobs /\ jobs[j].state = "live" /\ jobs[j].owner = x
  BY <1>1 DEF OwnedJobs
<1>3. jobs[j] \in Job
  BY <1>2, Elements DEF TypeOK
<1>4. Later(jobs[j].stage) = {}
  BY <1>2 DEF AtRest
<1>5. jobs[j].stage \in {"succeeded", "failed"}
  BY <1>3, <1>4 DEF Later, Job, Stages
<1> HIDE DEF j
<1>6. IsExecutionTerminal(executions[x].phase)
  BY <1>1, <1>5 DEF Phase, IsExecutionTerminal
<1> QED
  BY <1>2, <1>6 DEF j

\* A status that the mirror leaves alone names the execution and its phase.
LEMMA Mirrored ==
    ASSUME NEW copy \in Parent, NEW x \in 0 .. MaxExecutions, NEW phase \in Phases,
           copy = Mirror(copy, x, phase)
    PROVE  copy.status.lastExecution = x /\ copy.status.phase = phase
BY DEF Mirror, Parent, Status

LEMMA RestIsCurrent == RestInv => AtRestIsCurrent
<1> SUFFICES ASSUME RestInv, AtRest, NEW p \in Parents, parents[p].generation > 0
             PROVE  LET status == parents[p].status
                        last == status.lastExecution
                    IN  /\ executions[last].owner = p
                        /\ executions[last].generation = parents[p].generation
                        /\ status.observed = parents[p].generation
                        /\ IsExecutionTerminal(status.phase)
                        /\ p \in Modules =>
                                jobs[executions[last].job].built = parents[p].generation
  BY DEF AtRestIsCurrent
<1> USE DEF RestInv
<1>1. /\ parentCache = parents /\ executionCache = executions /\ jobCache = jobs
  BY DEF AtRest
<1>2. PICK x \in Newest(OwnedExecutions(p)) :
            ~Due(p, x) /\ parents[p] = Mirror(parents[p], x, executions[x].phase)
  BY <1>1, LastExecution DEF AtRest, Found
<1>3. x \in OwnedExecutions(p)
  BY LastExecution
<1>4. x \in DOMAIN executions /\ executions[x].owner = p
  BY <1>1, <1>3 DEF OwnedExecutions
<1>5. executions[x] \in Execution /\ parents[p] \in Parent /\ x \in 0 .. MaxExecutions /\ x # 0
  BY <1>4, Elements, CachedNames, ConstantsAssumption DEF TypeOK
<1>6. /\ IsExecutionTerminal(executions[x].phase)
      /\ executions[x].job \in DOMAIN jobs /\ jobs[executions[x].job].owner = x
  BY <1>4, RestingExecution
<1>7. executions[x].generation = parents[p].generation
  BY <1>1, <1>2, <1>6 DEF Due
<1>8. parents[p].status.lastExecution = x /\ parents[p].status.phase = executions[x].phase
  BY <1>2, <1>5, Mirrored DEF Execution
<1>9. parents[p].status.observed = parents[p].generation
  <2>1. parents[p].status.observed <= parents[p].generation
    BY <1>5, <1>8 DEF ReportInv, ParentsBacked
  <2>2. parents[p].generation <= parents[p].status.observed
    BY <1>5, <1>7, <1>8 DEF ParentsObserve, Observes
  <2> QED
    BY <1>5, <2>1, <2>2 DEF Parent, Status
<1>10. ASSUME p \in Modules PROVE jobs[executions[x].job].built = parents[p].generation
  <2> DEFINE j == executions[x].job
  <2>1. jobs[j] \in Job
    BY <1>6, Elements DEF TypeOK
  <2>2. executions[x].generation <= jobs[j].built
    BY <1>4, <1>6, <1>10 DEF BuiltInv, JobsAreNotOlder
  <2>3. jobs[j].built <= parents[p].generation
    BY <1>4, <1>6, <1>10 DEF JobsNotAhead, Target
  <2> QED
    BY <1>5, <1>7, <2>1, <2>2, <2>3 DEF Job, Parent
<1> QED
  BY <1>4, <1>6, <1>7, <1>8, <1>9, <1>10

\* When nothing is left to do, each module and each stack reports the end of
\* a run for its latest generation and says that it observed it, and the run
\* of a module was built from it: none of the three controllers, deciding
\* from cached generations and phases, comes to rest too early.
THEOREM RestIsReached == Spec => []AtRestIsCurrent
<1>1. Init => RestInv
  <2> SUFFICES ASSUME Init PROVE RestInv
    OBVIOUS
  <2>1. \A p \in Parents : parents[p].status.lastExecution = 0
    BY DEF Init, NoStatus
  <2> QED
    BY <2>1, BuiltInit, ReportInit DEF RestInv, ParentsObserve, Observes, JobsNotAhead, Init
<1>2. RestInv /\ [Next]_vars => RestInv'
  BY TypeStep, CopiesStep, BuiltStep, ReportStep, ParentsObserveStep, JobsNotAheadStep
  DEF RestInv, BuiltInv
<1> QED
  BY <1>1, <1>2, RestIsCurrent, PTL DEF Spec

----------------------------------------------------------------------------
(* The abstract execution controller.                                      *)

\* An action of ExecutionLife is a step of it, or changes nothing.
LEMMA RunSteps ==
    ASSUME NEW j \in 1 .. MaxJobs, Life!Progress(j) \/ Life!Prune(j) \/ Life!Lose(j)
    PROVE  [Life!Next]_Life!vars
<1>1. UNCHANGED <<Lives, Len(jobs), Reports>>
  BY DEF Life!Progress, Life!Prune, Life!Lose, Life!Becomes
<1> QED
  BY <1>1 DEF Life!Next, Life!vars

LEMMA LifeSteps ==
    ASSUME NEW x \in 1 .. MaxExecutions, NEW j \in 1 .. MaxJobs
    PROVE  /\ Life!Launch(j, x) => [Life!Next]_Life!vars
           /\ \A phase \in Life!Phases : Life!Report(x, j, phase) => [Life!Next]_Life!vars
<1>1. ASSUME Life!Launch(j, x) PROVE [Life!Next]_Life!vars
  <2>1. Runs[j].state = "unborn" /\ Runs'[j].state = "live" /\ UNCHANGED <<Lives, Reports>>
    BY <1>1 DEF Life!Launch, Life!Unborn, Runs
  <2> QED
    BY <1>1, <2>1 DEF Life!Next, Life!vars
<1>2. ASSUME NEW phase \in Life!Phases, Life!Report(x, j, phase) PROVE [Life!Next]_Life!vars
  BY <1>2 DEF Life!Report, Life!Next, Life!vars
<1> QED
  BY <1>1, <1>2

LEMMA LifeStutters ==
    ASSUME UNCHANGED <<executions, jobs>>
    PROVE  UNCHANGED Life!vars
BY DEF Life!vars, Lives, Runs, Reports, RunOf

\* Runs are compared field by field.
Run ==
    [state: {"unborn", "live", "pruned", "lost"}, owner: Nat, number: Nat,
     started: BOOLEAN, failed: BOOLEAN, succeeded: BOOLEAN]

LEMMA SameRun ==
    ASSUME NEW x \in Run, NEW y \in Run,
           x.state = y.state, x.owner = y.owner, x.number = y.number,
           x.started <=> y.started, x.failed <=> y.failed, x.succeeded <=> y.succeeded
    PROVE  x = y
<1>0. x.started = y.started /\ x.failed = y.failed /\ x.succeeded = y.succeeded
  BY DEF Run
<1>1. x = [state |-> x.state, owner |-> x.owner, number |-> x.number,
           started |-> x.started, failed |-> x.failed, succeeded |-> x.succeeded]
  BY DEF Run
<1>2. y = [state |-> y.state, owner |-> y.owner, number |-> y.number,
           started |-> y.started, failed |-> y.failed, succeeded |-> y.succeeded]
  BY DEF Run
<1> QED
  BY <1>0, <1>1, <1>2, Zenon

LEMMA RunType ==
    ASSUME NEW object \in Job, NEW j \in Nat
    PROVE  /\ RunOf(object, j) \in Run
           /\ RunOf(object, j).state = object.state
           /\ RunOf(object, j).owner = object.owner
           /\ RunOf(object, j).number = j
           /\ RunOf(object, j).started <=> object.stage # "waiting"
           /\ RunOf(object, j).failed <=> FailedOnce(object.stage)
           /\ RunOf(object, j).succeeded <=> object.stage = "succeeded"
<1>1. object.owner \in Nat /\ object.state \in {"live", "pruned", "lost"}
  BY ConstantsAssumption DEF Job
<1>2. FailedOnce(object.stage) \in BOOLEAN
  BY DEF FailedOnce
<1> QED
  BY <1>1, <1>2 DEF RunOf, Run

\* How writes look in the abstract state.
LEMMA RunWritten ==
    ASSUME TypeOK, NEW j \in DOMAIN jobs, NEW object \in Job,
           jobs' = [jobs EXCEPT ![j] = object]
    PROVE  /\ Runs' = [Runs EXCEPT ![j] = RunOf(object, j)]
           /\ Len(jobs') = Len(jobs)
           /\ j \in 1 .. MaxJobs
           /\ Runs[j] = RunOf(jobs[j], j)
<1>1. /\ Len(jobs') = Len(jobs) /\ DOMAIN jobs' = DOMAIN jobs
      /\ jobs'[j] = object /\ \A k \in DOMAIN jobs \ {j} : jobs'[k] = jobs[k]
  BY Replaced DEF TypeOK
<1>2. j \in 1 .. MaxJobs
  BY CachedNames
<1> QED
  BY <1>1, <1>2 DEF Runs

LEMMA ReportWritten ==
    ASSUME TypeOK, NEW x \in DOMAIN executions, NEW object \in Execution,
           executions' = [executions EXCEPT ![x] = object]
    PROVE  /\ Reports' = [Reports EXCEPT ![x] = [phase |-> object.phase, job |-> object.job]]
           /\ Lives' = Lives
           /\ x \in 1 .. MaxExecutions
           /\ Reports[x] = [phase |-> executions[x].phase, job |-> executions[x].job]
           /\ Lives[x] = "live"
<1>1. /\ DOMAIN executions' = DOMAIN executions
      /\ executions'[x] = object
      /\ \A y \in DOMAIN executions \ {x} : executions'[y] = executions[y]
  BY Replaced DEF TypeOK
<1>2. x \in 1 .. MaxExecutions
  BY CachedNames
<1> QED
  BY <1>1, <1>2 DEF Reports, Lives

LEMMA SimulateCreateExecution ==
    ASSUME TypeOK, NEW p \in Parents, CreateExecution(p), NewExecution(p) \in Execution
    PROVE  \E x \in 1 .. MaxExecutions : Life!Appear(x)
<1> DEFINE x == Len(executions) + 1
<1>1. /\ executions \in Seq(Execution) /\ Len(executions) \in Nat
      /\ DOMAIN executions = 1 .. Len(executions)
  BY LenProperties DEF TypeOK
<1>2. x \in 1 .. MaxExecutions /\ x \notin DOMAIN executions
  BY <1>1, ConstantsAssumption DEF CreateExecution
<1>3. /\ DOMAIN executions' = DOMAIN executions \cup {x}
      /\ executions'[x] = NewExecution(p)
      /\ \A y \in DOMAIN executions : executions'[y] = executions[y]
  BY <1>1, Appended DEF CreateExecution
<1> HIDE DEF x
<1>4. Lives[x] = "unborn" /\ Lives' = [Lives EXCEPT ![x] = "live"]
  BY <1>2, <1>3 DEF Lives
<1>5. Reports' = Reports
  <2>1. executions'[x].phase = NoPhase /\ executions'[x].job = 0
    <3>1. NewExecution(p).phase = NoPhase /\ NewExecution(p).job = 0
      BY DEF NewExecution
    <3> QED
      BY <1>3, <3>1
  <2>2. ASSUME NEW y \in 1 .. MaxExecutions PROVE Reports'[y] = Reports[y]
    BY <1>2, <1>3, <2>1 DEF Reports
  <2> QED
    BY <2>2 DEF Reports
<1>6. UNCHANGED <<Runs, Len(jobs)>>
  BY DEF CreateExecution, Runs, RunOf
<1> QED
  BY <1>2, <1>4, <1>5, <1>6 DEF Life!Appear

LEMMA SimulateCreateJob ==
    ASSUME TypeOK, NEW x \in DOMAIN executionCache, UNCHANGED executions,
           Len(jobs) < MaxJobs, jobs' = Append(jobs, NewJob(x)), NewJob(x) \in Job
    PROVE  \E j \in 1 .. MaxJobs, y \in 1 .. MaxExecutions : Life!Launch(j, y)
<1> DEFINE j == Len(jobs) + 1
<1>1. jobs \in Seq(Job) /\ Len(jobs) \in Nat /\ DOMAIN jobs = 1 .. Len(jobs)
  BY LenProperties DEF TypeOK
<1>2. j \in 1 .. MaxJobs /\ j \notin DOMAIN jobs
  BY <1>1, ConstantsAssumption
<1>3. /\ DOMAIN jobs' = DOMAIN jobs \cup {j} /\ jobs'[j] = NewJob(x) /\ Len(jobs') = j
      /\ \A k \in DOMAIN jobs : jobs'[k] = jobs[k]
  BY <1>1, Appended
<1>4. x \in 1 .. MaxExecutions /\ Lives[x] = "live"
  BY CachedNames DEF Lives
<1>5. Runs[j].state = "unborn"
  BY <1>2 DEF Runs, NoRun
<1>6. RunOf(NewJob(x), j) =
        [Life!Unborn EXCEPT !.state = "live", !.owner = x, !.number = Len(jobs) + 1]
  <2> DEFINE new == [Life!Unborn EXCEPT !.state = "live", !.owner = x, !.number = Len(jobs) + 1]
  <2>1. NewJob(x).state = "live" /\ NewJob(x).owner = x /\ NewJob(x).stage = "waiting"
    BY DEF NewJob
  <2>2. x \in Nat /\ Len(jobs) + 1 \in Nat
    BY <1>1, <1>4
  <2>3. /\ new \in Run /\ new.state = "live" /\ new.owner = x /\ new.number = j
        /\ ~new.started /\ ~new.failed /\ ~new.succeeded
    BY <2>2 DEF Life!Unborn, Run
  <2> HIDE DEF new
  <2> DEFINE run == RunOf(NewJob(x), j)
  <2>4. ~FailedOnce("waiting")
    BY DEF FailedOnce
  <2>5. /\ run \in Run /\ run.state = "live" /\ run.owner = x /\ run.number = j
        /\ ~run.started /\ ~run.failed /\ ~run.succeeded
    BY <2>1, <2>2, <2>4, RunType
  <2> HIDE DEF run
  <2>6. run = new
    BY <2>3, <2>5, SameRun
  <2> QED
    BY <2>6 DEF new, run
<1>7. Len(jobs') = Len(jobs) + 1
  BY <1>3
<1> HIDE DEF j
<1>8. Runs' = [Runs EXCEPT ![j] = RunOf(NewJob(x), j)]
  BY <1>2, <1>3 DEF Runs
<1>9. UNCHANGED <<Lives, Reports>>
  BY DEF Lives, Reports
<1>10. Life!Launch(j, x)
  BY <1>4, <1>5, <1>6, <1>7, <1>8, <1>9 DEF Life!Launch
<1> QED
  BY <1>2, <1>4, <1>10

\* A live Job that becomes another object is a live run that becomes another.
LEMMA JobBecomes ==
    ASSUME TypeOK, UNCHANGED executions, NEW j \in DOMAIN jobs, jobs[j].state = "live",
           NEW object \in Job, jobs' = [jobs EXCEPT ![j] = object]
    PROVE  /\ Life!Becomes(j, RunOf(object, j))
           /\ j \in 1 .. MaxJobs
           /\ Runs[j] = RunOf(jobs[j], j)
           /\ jobs[j] \in Job /\ j \in Nat
<1>1. /\ Runs' = [Runs EXCEPT ![j] = RunOf(object, j)] /\ Len(jobs') = Len(jobs)
      /\ j \in 1 .. MaxJobs /\ Runs[j] = RunOf(jobs[j], j)
  BY RunWritten
<1>2. jobs[j] \in Job /\ j \in Nat
  BY <1>1, Elements DEF TypeOK
<1>3. Runs[j].state = "live"
  BY <1>1, <1>2, RunType
<1>4. UNCHANGED <<Lives, Reports>>
  BY DEF Lives, Reports
<1> QED
  BY <1>1, <1>2, <1>3, <1>4 DEF Life!Becomes

LEMMA RemovedRun ==
    ASSUME NEW object \in Job, NEW j \in Nat, NEW state \in {"pruned", "lost"}
    PROVE  /\ [object EXCEPT !.state = state] \in Job
           /\ RunOf([object EXCEPT !.state = state], j) = [RunOf(object, j) EXCEPT !.state = state]
<1> DEFINE gone == [object EXCEPT !.state = state]
           run == RunOf(object, j)
           after == [run EXCEPT !.state = state]
<1>1. gone \in Job /\ gone.state = state /\ gone.owner = object.owner /\ gone.stage = object.stage
  BY DEF Job
<1> HIDE DEF gone
<1>2. run \in Run
  BY RunType
<1> HIDE DEF run
<1>3. /\ after \in Run /\ after.state = state /\ after.owner = run.owner
      /\ after.number = run.number /\ after.started = run.started
      /\ after.failed = run.failed /\ after.succeeded = run.succeeded
  BY <1>2 DEF Run
<1> HIDE DEF after
<1>4. RunOf(gone, j) = after
  <2>1. /\ run.owner = object.owner /\ run.number = j
        /\ run.started <=> object.stage # "waiting"
        /\ run.failed <=> FailedOnce(object.stage)
        /\ run.succeeded <=> object.stage = "succeeded"
    BY RunType DEF run
  <2>2. /\ RunOf(gone, j) \in Run /\ RunOf(gone, j).state = state
        /\ RunOf(gone, j).owner = object.owner /\ RunOf(gone, j).number = j
        /\ RunOf(gone, j).started <=> object.stage # "waiting"
        /\ RunOf(gone, j).failed <=> FailedOnce(object.stage)
        /\ RunOf(gone, j).succeeded <=> object.stage = "succeeded"
    BY <1>1, RunType
  <2> QED
    BY <1>3, <2>1, <2>2, SameRun
<1> QED
  BY <1>1, <1>4 DEF gone, after, run

LEMMA SimulatePruneJob ==
    ASSUME ~SameSecond, TypeOK, CopiesInv, NEW x \in DOMAIN executionCache, PruneJob(x)
    PROVE  \E j \in 1 .. MaxJobs : Life!Prune(j)
<1>1. PICK k \in Newest(OwnedJobs(x)) :
        \E j \in Stale(x, k) :
            jobs' = [jobs EXCEPT ![j] = [jobs[j] EXCEPT !.state = "pruned"]]
  BY DEF PruneJob
<1>0. PICK j \in Stale(x, k) :
            jobs' = [jobs EXCEPT ![j] = [jobs[j] EXCEPT !.state = "pruned"]]
  BY <1>1
<1>2. /\ j \in OwnedJobs(x) /\ j # k /\ jobs[j].state = "live"
      /\ k \in OwnedJobs(x) /\ j <= k
  BY NewestJob DEF Stale
<1>3. /\ j \in DOMAIN jobs /\ k \in DOMAIN jobs
      /\ jobs[j].owner = x /\ jobs[k].owner = x
  BY <1>2, CachedNames DEF OwnedJobs, CopiesInv, JobCopies, Precedes
<1>4. jobs[j] \in Job /\ jobs[k] \in Job /\ j \in 1 .. MaxJobs /\ k \in 1 .. MaxJobs
  BY <1>3, Elements, CachedNames DEF TypeOK
<1>5. Runs[j] = RunOf(jobs[j], j) /\ Runs[k] = RunOf(jobs[k], k)
  BY <1>3, <1>4 DEF Runs
<1>6. Life!Superseded(j)
  <2>1. /\ Runs[j].owner = x /\ Runs[k].owner = x /\ Runs[j].number = j /\ Runs[k].number = k
    BY <1>3, <1>4, <1>5, RunType
  <2>2. j < k
    BY <1>2, <1>4
  <2> QED
    BY <1>4, <2>1, <2>2 DEF Life!Superseded
<1>7. Life!Becomes(j, [Runs[j] EXCEPT !.state = "pruned"])
  <2>1. /\ [jobs[j] EXCEPT !.state = "pruned"] \in Job
        /\ RunOf([jobs[j] EXCEPT !.state = "pruned"], j) = [Runs[j] EXCEPT !.state = "pruned"]
    <3>1. j \in Nat /\ "pruned" \in {"pruned", "lost"} /\ jobs[j] \in Job
      BY <1>4
    <3>2. Runs[j] = RunOf(jobs[j], j)
      BY <1>5
    <3> QED
      BY <3>1, <3>2, RemovedRun, Zenon
  <2>2. UNCHANGED executions
    BY DEF PruneJob
  <2>3. Life!Becomes(j, RunOf([jobs[j] EXCEPT !.state = "pruned"], j))
    BY <1>0, <1>2, <1>3, <2>1, <2>2, JobBecomes
  <2> QED
    BY <2>1, <2>3
<1> QED
  BY <1>4, <1>6, <1>7 DEF Life!Prune

LEMMA SimulateLoseJob ==
    ASSUME TypeOK, NEW j \in DOMAIN jobs, LoseJob(j)
    PROVE  \E k \in 1 .. MaxJobs : Life!Lose(k)
<1>1. /\ jobs[j].state = "live" /\ UNCHANGED executions
      /\ jobs' = [jobs EXCEPT ![j] = [jobs[j] EXCEPT !.state = "lost"]]
  BY DEF LoseJob, SetJob
<1>2. jobs[j] \in Job /\ j \in 1 .. MaxJobs /\ Runs[j] = RunOf(jobs[j], j)
  BY Elements, CachedNames DEF TypeOK, Runs
<1>3. /\ [jobs[j] EXCEPT !.state = "lost"] \in Job
      /\ RunOf([jobs[j] EXCEPT !.state = "lost"], j) = [Runs[j] EXCEPT !.state = "lost"]
  <2>1. j \in Nat /\ "lost" \in {"pruned", "lost"}
    BY <1>2
  <2> QED
    BY <1>2, <2>1, RemovedRun, Zenon
<1>4. Life!Becomes(j, [Runs[j] EXCEPT !.state = "lost"])
  <2>1. Life!Becomes(j, RunOf([jobs[j] EXCEPT !.state = "lost"], j))
    BY <1>1, <1>3, JobBecomes
  <2> QED
    BY <1>3, <2>1
<1> QED
  BY <1>2, <1>4 DEF Life!Lose

\* A Job that fails for good has failed before.
LEMMA SimulateRunJob ==
    ASSUME TypeOK, NEW j \in DOMAIN jobs, RunJob(j)
    PROVE  \E k \in 1 .. MaxJobs : Life!Progress(k)
<1>1. PICK stage \in Later(jobs[j].stage) : SetJob(j, [jobs[j] EXCEPT !.stage = stage])
  BY DEF RunJob
<1> DEFINE object == [jobs[j] EXCEPT !.stage = stage]
           run == Runs[j]
           fails == [run EXCEPT !.started = TRUE, !.failed = TRUE]
           succeeds == [run EXCEPT !.started = TRUE, !.succeeded = TRUE]
<1>2. /\ jobs[j].state = "live" /\ UNCHANGED executions
      /\ jobs' = [jobs EXCEPT ![j] = object]
  BY <1>1 DEF SetJob
<1>3. jobs[j] \in Job /\ j \in 1 .. MaxJobs /\ Runs[j] = RunOf(jobs[j], j)
  BY Elements, CachedNames DEF TypeOK, Runs
<1>4. /\ stage \in Stages /\ jobs[j].stage \in {"waiting", "retrying"}
      /\ stage \in {"retrying", "failed"} \/ (stage = "succeeded" /\ jobs[j].stage = "waiting")
  BY <1>1 DEF Later, Stages
<1>5. /\ object \in Job /\ object.state = jobs[j].state /\ object.owner = jobs[j].owner
      /\ object.stage = stage
  BY <1>3, <1>4 DEF Job
<1> HIDE DEF object
<1>6. /\ run \in Run /\ run.state = jobs[j].state /\ run.owner = jobs[j].owner /\ run.number = j
      /\ ~run.succeeded
      /\ run.failed <=> FailedOnce(jobs[j].stage)
  BY <1>3, <1>4, RunType
<1>7. /\ RunOf(object, j) \in Run /\ RunOf(object, j).state = run.state
      /\ RunOf(object, j).owner = run.owner /\ RunOf(object, j).number = run.number
      /\ RunOf(object, j).started <=> stage # "waiting"
      /\ RunOf(object, j).failed <=> FailedOnce(stage)
      /\ RunOf(object, j).succeeded <=> stage = "succeeded"
  BY <1>3, <1>5, <1>6, RunType
<1> HIDE DEF run
<1>8. /\ fails \in Run /\ fails.state = run.state /\ fails.owner = run.owner
      /\ fails.number = run.number /\ fails.started /\ fails.failed
      /\ fails.succeeded = run.succeeded
  BY <1>6 DEF Run
<1>9. /\ succeeds \in Run /\ succeeds.state = run.state /\ succeeds.owner = run.owner
      /\ succeeds.number = run.number /\ succeeds.started /\ succeeds.succeeded
      /\ succeeds.failed = run.failed
  BY <1>6 DEF Run
<1> HIDE DEF fails, succeeds
<1>10. RunOf(object, j) = fails \/ RunOf(object, j) = succeeds
  <2>1. CASE stage \in {"retrying", "failed"}
    <3>1. /\ RunOf(object, j).started /\ RunOf(object, j).failed
          /\ ~RunOf(object, j).succeeded
      BY <1>7, <2>1 DEF FailedOnce
    <3> QED
      BY <1>6, <1>7, <1>8, <3>1, SameRun
  <2>2. CASE stage = "succeeded" /\ jobs[j].stage = "waiting"
    <3>1. /\ RunOf(object, j).started /\ ~RunOf(object, j).failed
          /\ RunOf(object, j).succeeded /\ ~run.failed
      BY <1>6, <1>7, <2>2 DEF FailedOnce
    <3> QED
      BY <1>7, <1>9, <3>1, SameRun
  <2> QED
    BY <1>4, <2>1, <2>2
<1>11. Life!Becomes(j, fails) \/ Life!Becomes(j, succeeds)
  <2>1. Life!Becomes(j, RunOf(object, j))
    BY <1>2, <1>5, JobBecomes
  <2> QED
    BY <1>10, <2>1
<1> QED
  BY <1>3, <1>6, <1>11 DEF Life!Progress, fails, succeeds, run

LEMMA Ranks ==
    /\ \A phase \in {"Succeeded", "Failed"} : Life!Rank("Pending") < Life!Rank(phase)
    /\ \A stage \in Stages : Phase(stage) \in {"Pending", "Succeeded", "Failed"}
    /\ {"Pending", "Succeeded", "Failed"} \subseteq Life!Phases
<1>1. Life!NoPhase \notin {"Pending", "Succeeded", "Failed"}
  BY Zenon DEF Life!NoPhase
<1> QED
  BY <1>1 DEF Life!Rank, Life!Phases, Phase, Stages

\* What the controller reports follows what it has reported before.
LEMMA SimulateReportJob ==
    ASSUME ~SameSecond, TypeOK, CopiesInv, ReportsReached,
           NEW x \in DOMAIN executionCache, ReportJob(x)
    PROVE  \/ UNCHANGED Life!vars
           \/ \E y \in 1 .. MaxExecutions, j \in 1 .. MaxJobs, phase \in Life!Phases :
                Life!Report(y, j, phase)
<1>0. PICK latest \in Newest(OwnedJobs(x)) :
        \E object \in Execution :
            /\ executions' = [executions EXCEPT ![x] = object]
            /\ object.phase = Phase(jobCache[latest].stage) /\ object.job = latest
  BY ReportWrite
<1> DEFINE phase == Phase(jobCache[latest].stage)
<1>1. PICK object \in Execution : /\ executions' = [executions EXCEPT ![x] = object]
                                  /\ object.phase = phase /\ object.job = latest
  BY <1>0
<1>2. /\ latest \in DOMAIN jobCache /\ jobCache[latest].owner = x
      /\ \A k \in OwnedJobs(x) : k <= latest
  <2>1. latest \in OwnedJobs(x) /\ \A k \in OwnedJobs(x) : k <= latest
    BY NewestJob
  <2> QED
    BY <2>1 DEF OwnedJobs
<1>3. latest \in DOMAIN jobs /\ latest \in 1 .. MaxJobs /\ x \in DOMAIN executions
  BY <1>2, CachedNames
<1>4. /\ jobCache[latest] \in Job /\ jobs[latest] \in Job
      /\ Precedes(jobCache[latest], jobs[latest]) /\ jobs[latest].owner = x
  BY <1>2, <1>3, Elements DEF TypeOK, CopiesInv, JobCopies, Precedes
<1>5. phase \in {"Pending", "Succeeded", "Failed"} /\ phase \in Life!Phases
  BY <1>4, Ranks DEF Job
<1>6. /\ Reports' = [Reports EXCEPT ![x] = [phase |-> phase, job |-> latest]]
      /\ Lives' = Lives /\ x \in 1 .. MaxExecutions
      /\ Reports[x] = [phase |-> executions[x].phase, job |-> executions[x].job]
      /\ Lives[x] = "live"
  <2>1. /\ Reports' = [Reports EXCEPT ![x] = [phase |-> object.phase, job |-> object.job]]
        /\ Lives' = Lives /\ x \in 1 .. MaxExecutions
        /\ Reports[x] = [phase |-> executions[x].phase, job |-> executions[x].job]
        /\ Lives[x] = "live"
    BY <1>1, <1>3, ReportWritten, Zenon
  <2> QED
    BY <1>1, <2>1
<1>7. UNCHANGED <<Runs, Len(jobs)>>
  BY DEF ReportJob, Runs, RunOf
<1>8. CASE executions[x].job = latest /\ executions[x].phase = phase
  <2>1. Reports[x] = [phase |-> phase, job |-> latest]
    BY <1>6, <1>8
  <2>2. Reports' = Reports
    BY <1>6, <2>1 DEF Reports
  <2> QED
    BY <1>6, <1>7, <2>2 DEF Life!vars
<1>9. CASE ~(executions[x].job = latest /\ executions[x].phase = phase)
  <2>1. /\ Runs[latest] = RunOf(jobs[latest], latest)
        /\ Runs[latest].owner = x /\ Runs[latest].number = latest
        /\ Runs[latest].failed <=> FailedOnce(jobs[latest].stage)
        /\ Runs[latest].succeeded <=> jobs[latest].stage = "succeeded"
    <3>1. Runs[latest] = RunOf(jobs[latest], latest)
      BY <1>3 DEF Runs
    <3> QED
      BY <1>3, <1>4, <3>1, RunType
  <2>2. Life!Shows(Runs[latest], phase)
    <3>1. CASE phase = "Pending"
      BY <3>1 DEF Life!Shows
    <3>2. CASE phase = "Succeeded"
      <4>1. jobs[latest].stage = "succeeded"
        BY <1>4, <3>2 DEF Phase, Precedes, Job, Stages
      <4>2. Runs[latest].succeeded /\ ~Runs[latest].failed
        BY <2>1, <4>1 DEF FailedOnce
      <4> QED
        BY <3>2, <4>2 DEF Life!Shows
    <3>3. CASE phase = "Failed"
      <4>1. FailedOnce(jobs[latest].stage)
        BY <1>4, <3>3 DEF Phase, Precedes, Job, Stages, FailedOnce
      <4>2. Runs[latest].failed
        BY <2>1, <4>1
      <4> QED
        BY <3>3, <4>2 DEF Life!Shows
    <3> QED
      BY <1>5, <3>1, <3>2, <3>3
  <2>3. Life!Follows(latest, phase, Reports[x])
    <3> DEFINE k == executions[x].job
    <3>1. Reports[x].job = k /\ Reports[x].phase = executions[x].phase
      BY <1>6
    <3>2. CASE k = latest
      <4>1. executions[x].phase \in {"Pending", phase}
        <5>1. Reached(jobCache, x, executions[x]) /\ latest # 0
          BY <1>3 DEF ReportsReached
        <5> QED
          BY <3>2, <5>1 DEF Reached
      <4>2. executions[x].phase = "Pending" /\ phase \in {"Succeeded", "Failed"}
        BY <1>5, <1>9, <3>2, <4>1
      <4>3. Life!Rank(Reports[x].phase) < Life!Rank(phase)
        BY <3>1, <4>2, Ranks
      <4> QED
        BY <3>1, <3>2, <4>3 DEF Life!Follows
    <3>3. CASE k = 0
      BY <1>3, <3>1, <3>3 DEF Life!Follows
    <3>4. CASE k # latest /\ k # 0
      <4>1. k \in DOMAIN jobCache /\ jobCache[k].owner = x
        BY <1>3, <3>4 DEF ReportsReached, Reached
      <4>2. k \in DOMAIN jobs /\ k \in 1 .. MaxJobs
        BY <4>1, CachedNames
      <4>3. jobs[k] \in Job /\ Precedes(jobCache[k], jobs[k])
        BY <4>1, <4>2, Elements DEF TypeOK, CopiesInv, JobCopies
      <4>4. Runs[k].state = jobs[k].state /\ Runs[k].number = k
        <5>1. Runs[k] = RunOf(jobs[k], k)
          BY <4>2 DEF Runs
        <5> QED
          BY <4>2, <4>3, <5>1, RunType
      <4>5. jobs[k].state # "live" \/ k <= latest
        BY <1>2, <4>1, <4>3 DEF OwnedJobs, Precedes
      <4>6. Runs[k].state # "live" \/ Runs[k].number < Runs[latest].number
        BY <1>3, <2>1, <3>4, <4>2, <4>4, <4>5
      <4> QED
        BY <3>1, <3>4, <4>6 DEF Life!Follows
    <3> QED
      BY <3>2, <3>3, <3>4
  <2>4. Life!Report(x, latest, phase)
    BY <1>6, <1>7, <2>1, <2>2, <2>3 DEF Life!Report
  <2> QED
    BY <1>3, <1>5, <1>6, <2>4
<1> QED
  BY <1>8, <1>9

LEMMA LifeInit == Init => Life!Init
<1> SUFFICES ASSUME Init PROVE Life!Init
  OBVIOUS
<1>1. executions = <<>> /\ jobs = <<>>
  BY DEF Init
<1>2. DOMAIN executions = {} /\ DOMAIN jobs = {} /\ Len(jobs) = 0
  BY <1>1
<1>3. Lives = [x \in 1 .. MaxExecutions |-> "unborn"]
  BY <1>2 DEF Lives
<1>4. Runs = [j \in 1 .. MaxJobs |-> Life!Unborn]
  BY <1>2 DEF Runs, NoRun, Life!Unborn
<1>5. Reports = [x \in 1 .. MaxExecutions |-> Life!NoReport]
  <2>1. NoPhase = Life!NoPhase
    BY Zenon DEF NoPhase, Life!NoPhase
  <2> QED
    BY <1>2, <2>1 DEF Reports, Life!NoReport
<1> QED
  BY <1>2, <1>3, <1>4, <1>5 DEF Life!Init

LEMMA LifeStep ==
    ASSUME ~SameSecond, TypeOK, CopiesInv, ReportsReached, [Next]_vars
    PROVE  [Life!Next]_Life!vars
<1>1. CASE UNCHANGED <<executions, jobs>>
  BY <1>1, LifeStutters
<1>2. ASSUME NEW p \in Parents, CreateExecution(p)
      PROVE  [Life!Next]_Life!vars
  <2>1. PICK x \in 1 .. MaxExecutions : Life!Appear(x)
    BY <1>2, NewExecutionType, SimulateCreateExecution
  <2> QED
    BY <2>1 DEF Life!Appear, Life!Next, Life!vars
<1>3. ASSUME NEW x \in DOMAIN executionCache, CreateJob(x)
      PROVE  [Life!Next]_Life!vars
  <2>1. Len(jobs) < MaxJobs /\ jobs' = Append(jobs, NewJob(x)) /\ NewJob(x) \in Job
    BY <1>3, JobCreated
  <2>2. PICK j \in 1 .. MaxJobs, y \in 1 .. MaxExecutions : Life!Launch(j, y)
    BY <1>3, <2>1, SimulateCreateJob DEF CreateJob
  <2> QED
    BY <2>2, LifeSteps
<1>4. ASSUME NEW x \in DOMAIN executionCache, PruneJob(x)
      PROVE  [Life!Next]_Life!vars
  <2>1. PICK j \in 1 .. MaxJobs : Life!Prune(j)
    BY <1>4, SimulatePruneJob
  <2> QED
    BY <2>1, RunSteps
<1>5. ASSUME NEW x \in DOMAIN executionCache, ReportJob(x)
      PROVE  [Life!Next]_Life!vars
  <2>1. CASE UNCHANGED Life!vars
    BY <2>1
  <2>2. ASSUME NEW y \in 1 .. MaxExecutions, NEW j \in 1 .. MaxJobs,
               NEW phase \in Life!Phases, Life!Report(y, j, phase)
        PROVE  [Life!Next]_Life!vars
    BY <2>2, LifeSteps
  <2> QED
    BY <1>5, <2>1, <2>2, SimulateReportJob
<1>6. ASSUME NEW j \in DOMAIN jobs, RunJob(j)
      PROVE  [Life!Next]_Life!vars
  <2>1. PICK k \in 1 .. MaxJobs : Life!Progress(k)
    BY <1>6, SimulateRunJob
  <2> QED
    BY <2>1, RunSteps
<1>7. ASSUME NEW j \in DOMAIN jobs, LoseJob(j)
      PROVE  [Life!Next]_Life!vars
  <2>1. PICK k \in 1 .. MaxJobs : Life!Lose(k)
    BY <1>7, SimulateLoseJob
  <2> QED
    BY <2>1, RunSteps
<1> QED
  BY <1>1, <1>2, <1>3, <1>4, <1>5, <1>6, <1>7
  DEF Next, vars, cluster, UpdateStatus, EditParent, ReconcileExecution,
      DeliverParents, DeliverExecutions, DeliverJobs

\* When no two Jobs carry the same creation timestamp, the execution controller,
\* run with the parent controllers over shared caches, implements the abstract
\* one: every step of the system is a step of ExecutionLife or changes nothing
\* that it speaks of.
THEOREM Refinement ==
    ASSUME ~SameSecond
    PROVE  Spec => ImplementsLife
<1>1. Init => TypeOK /\ CopiesInv /\ ReportInv /\ Life!Init
  BY ReportInit, LifeInit
<1>2. TypeOK /\ CopiesInv /\ ReportInv /\ [Next]_vars => (TypeOK /\ CopiesInv /\ ReportInv)'
  BY ReportStep
<1>3. TypeOK /\ CopiesInv /\ ReportInv /\ [Next]_vars => [Life!Next]_Life!vars
  BY LifeStep DEF ReportInv
<1> QED
  BY <1>1, <1>2, <1>3, PTL DEF Spec, ImplementsLife, Life!Spec

=============================================================================

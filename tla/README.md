# Soyplane in TLA+

Soyplane is a Kubernetes operator that runs OpenTofu or Terraform in Jobs. Its
manager holds three reconcilers and the settings package. This directory holds
TLA+ modules of its components, the TLC configurations that check them on small
instances, and proofs, checked by TLAPS, that hold for instances of any size.

## Inventory

| Component | Source | State | Operations |
|---|---|---|---|
| TofuExecution controller | `tofuexecution_controller.go`, `common.go` | the execution's status; the Jobs it controls | `Reconcile`, `job` (list, prune), `constructJobFromExecution`, status update |
| TofuModule controller | `tofumodule_controller.go` | the module's status; the executions it controls | `Reconcile`, `lastExecution`, `createExecution`, `updateModuleStatus` |
| TofuStack controller | `tofustack_controller.go` | the stack's status; the executions it controls | as for the module |
| Job builder | `constructJobFromExecution` | the pod template of a Job | choice of image, directory and script |
| Agent | `internal/agent`, `cmd/agent` | a checkout | fetch execution and module, `git clone`, `git checkout` |
| Settings | `internal/settings` | providers, the published snapshot, the readiness flag, watchers, event recorder | `Init`, `Load`, watcher callbacks, `ConfigureEvents`, `Snapshot`, `Execution` |
| Manager | `cmd/manager/main.go` | none of its own | flags, `settings.Init`, controllers, `mgr.Start` |
| API types | `api/opentofu/v1alpha1` | the custom resources | none |

How they interact. A user creates a TofuModule, or a TofuStack that refers to
one. The controller of that parent creates a TofuExecution for each of its
generations, the execution controller creates a Job for each execution, built
from the module, and Kubernetes runs the Job's pods. Status flows back: the
Job's counters become the execution's phase and summary, and the execution's
name and phase become the parent's status. There is no call from one reconciler
to another: they share objects in the API server, read them from informer
caches that lag behind it, and are woken by watch events of the objects they
own (`SetupWithManager`). A stack owns its executions but not its module. The
execution controller reads the default image from the settings whenever it
constructs a Job. Today a pod runs a shell script from its Job; the agent, which
reads execution and module itself, is meant to replace it.

What is hard:

- every read comes from a cache that may be older than the reconciler's own
  last write, and lists have no order;
- every reconcile is a sequence of API calls, and anything may happen between
  two of them: users edit and delete, Jobs progress, the collector works, a
  call fails, or is done and its answer lost, the manager dies;
- a status write is optimistic: it may be refused, and the controllers treat a
  refusal differently (one returns the error, two swallow it);
- a reconcile that returns without an error or a requeue is over: something
  must still be due that wakes the key up if its work is not done;
- creation timestamps count whole seconds;
- what a Job is built from is read later than what its execution was created
  for, and what its pods clone later still;
- configuration files change while they are being read, and watchers outlive
  the `Init` that attached them.

What makes each component correct:

- *TofuExecution*: the newest Job is never pruned; the status says what
  happened to a Job of the execution; the phase only advances while the Job is
  the same; no wakeup is lost; every execution ends with one Job and its
  result.
- *TofuModule, TofuStack*: the latest generation is run and reported; the next
  run waits until the last one reported has reported an end; the report is true
  and never goes back.
- *Together*: what a parent reports has happened in a pod; a Job is not built
  from an older spec than its execution stands for.
- *Job builder, Agent*: nothing acts without its preparation or with another
  engine than asked for; the agent works on the version asked for or fails.
- *Settings*: controllers only see complete and valid settings; a failed load
  changes nothing; what is published catches up with the files.

`PROJECT.json` lists the hazards line by line, with the properties that watch
over each.

## Modules

| Module | What it is |
|---|---|
| `ExecutionLife` | the abstract execution controller: launches, prunings, reports |
| `ExecutionController`, `MCExecutionController` | the TofuExecution reconciler with its caches, queue and cluster; it implements `ExecutionLife` |
| `ExecutionControllerProofs`, `ExecutionSettledProofs`, `ExecutionLifeProofs` | theorems about it, with proofs: types and safety; no lost wakeup; order and refinement |
| `ModuleController`, `MCModuleController` | the TofuModule reconciler in the same detail |
| `ModuleControllerProofs` | theorems about it, with proofs |
| `Soyplane`, `MCSoyplane` | modules, stacks, executions and Jobs: the three controllers over one cluster and one set of caches; it implements `ExecutionLife` too |
| `SoyplaneProofs` | theorems about the composition, with proofs |
| `Runner`, `MCRunner` | what the Job builder puts into a Job, and what script and agent do in a pod |
| `RunnerProofs` | theorems about it, with proofs |
| `Settings`, `MCSettings` | the settings package and main's start |
| `SettingsProofs` | theorems about it, with proofs |
| `SequenceLemmas` | lemmas about lists and watch streams that the proofs share |

The `MC` modules hold the instances that TLC checks.

### ExecutionController

| State | Code |
|---|---|
| `executions`, `jobs`, `clock` | TofuExecutions and Jobs in the API server; how many Jobs were created (a Job's creation order) |
| `executionWatch`, `jobWatch` | the watch streams to the manager, in order |
| `executionCache`, `jobCache`, `moduleCached` | informer caches behind `r.Get` and `r.List` |
| `queue`, `timers` | the controller's work queue; keys to be added later (`Requeue`, `RequeueAfter`, an error) |
| `pc`, `req`, `execution`, `job`, `jobSeen`, `stale` | where the one worker is in `Reconcile`, and its local variables |
| `left` | how often each disturbance may still happen (a bound) |

`StartReconcile` is the `Get` of lines 63-67. `ListJobs` is `job()` up to its
loop, and each turn of the loop is a `PruneStale`. `CreateJob` is lines 74-88
with every outcome of the `Create`. `UpdateStatus` is lines 90-160: the phase,
the summary, the optimistic write and the result. `DeliverExecution` and
`DeliverJob` are the watches of `For` and `Owns`. `Restart` empties what the
process holds in memory. The environment is the parent or user who creates,
edits and deletes executions, the Job controller (`RunJob`), whoever deletes
Jobs (`LoseJob`), and the garbage collector.

What is abstracted: the summary message (a function of the phase), a timestamp
copied from a Job (represented by the Job), the pod template (see `Runner`), the
fields of the spec. `job.Status` is reduced to the four facts the code reads:
whether the Job was started (`StartTime`, and with it `Active` or the
`UncountedTerminatedPods` that Kubernetes never clears), the failed and succeeded
counters, and whether it completed. `SameSecond` makes all creation timestamps
equal, so that the sort leaves any order.

One worker serves the queue, as `MaxConcurrentReconciles` is left at its
default. Deleted objects keep their last state under a `state` field, so that
properties can speak of the past; the actions that read the cluster look at
live objects only.

### ExecutionLife, and how it is implemented

`ExecutionLife` is what the rest of the system may rely on. It knows executions
(unborn, live, deleted), runs (who owns one, its number in the order of launch,
whether it started, failed, succeeded, and whether it was pruned by the
controller or lost to somebody else) and what each execution reports. A run is
pruned only when a younger one of the same execution exists. A report shows what
a run of the execution has done, and follows the one before: a later phase of
the same run, or a run that is younger than the last reported one, unless that
is gone.

The refinement mapping of `ExecutionController` takes the cluster's objects and
forgets caches, watches, queue and worker: an execution's life is its `state`, a
run is `RunOf` its Job, a report is phase and name in the status. Steps of the
controller that only read, queue or refuse map to stutters, `CreateJob` to a
launch, `PruneStale` to a pruning, a status write to a report (or to a stutter
when only times change), the Job controller to progress, whoever deletes a Job
to a loss. `exec_loss` checks it with restarts, lost answers, deletions and lost
Jobs. `Soyplane` implements the same specification with reconciles of one step,
so that what it assumes of the execution controller is what was shown of it.

### ModuleController

The same architecture one level up: `modules` and `executions` in the API
server, two watch streams, two caches, the queue, one worker. `ListExecutions`
is lines 63-104, from `lastExecution` to the decision: create, update or
return. `CreateExecution` and `UpdateModuleStatus` are the calls, with every
outcome, the conflict that is swallowed included. `metadata.generation` stands
for the spec and the template in it, as the API server increments it when the
spec changes; `TouchModule` is a change that does not. The execution reconciler
is reduced to what it writes. `AdvanceExecution` takes a phase further, as
`PhaseForward` and `Converges` show of the detailed one while an execution keeps
its Job. `RerunExecution` is what happens when the Job of an ended execution is
lost or replaced: the phase leaves `Succeeded` or `Failed` for whatever the new
Job does, as often as the budget allows. The field `past` of an execution is a
history variable: the ends it reported before its present phase. Properties that
speak of an execution that has ended can only mean that it has *reported* an end.

### Soyplane

| State | Code |
|---|---|
| `parents` | TofuModules and TofuStacks: generation (0 while there is none) and status |
| `executions`, `jobs` | in the order of creation, which numbers them |
| `parentCache`, `executionCache`, `jobCache` | the informer caches: earlier states of the same |
| `left` | disturbances that may still happen |

`SameSecond` says, as in the detailed modules, whether creation timestamps tell
objects apart; `Newest` is the set of the objects that the sort may put first.
`UsersWait` is a bound of the instance that TLC checks, see below.

`CreateExecution` and `UpdateStatus` are a parent's `Reconcile`; `CreateJob`,
`PruneJob` and `ReportJob` are the execution's. Module and stack controller are
the same code with different names, and so are the same actions here: they are
mapped to the stack's source, as the module's has a module of its own. They
differ in the module a Job is built from (`Target`). `DeliverParents` brings the
caches of modules and of stacks up to date separately, as their informers do.

What the composition leaves to the detailed modules: a reconcile is one step;
there are no queues, so any key may be reconciled at any time and nothing is
said about wakeups; calls do not fail, and the manager does not restart (which
only brings the caches up to date). It adds what they cannot have: stacks,
stale copies that pass through two controllers, Jobs built from a module that
changed meanwhile, executions that go back to `Pending` when their Job was lost.
`Running` is merged with `Pending`, as the code never tells them apart. A
`retrying` Job has failed pods and goes on.

### Runner

`BuildJob` is `constructJobFromExecution`: which image, which directory. `Script`
and `Agent` are the commands of a pod; `RunCommand` runs the next one, which
changes the pod (`Done`), cannot succeed (`Impossible`), or fails for a reason of
its own. `StartPod` is the Job controller, which replaces a failed pod by one with
an empty file system. Meanwhile the branch moves (`Push`), the tag is made,
moved or removed (`PushTag`) and the module is edited (`EditModule`). A clone keeps
the tag as it found it.

The repository is the sequence of commits that were the tip of the branch, by
pushes or forced pushes; a forced push back to a former tip is left out. `tags`
is a history variable: all commits that the tag has named. A directory is a name, and an image is
the engine and version it holds. `Tag` stands for any version that is not the
default branch; it is assumed not to be the name of a path in the tree, which
`git checkout` would restore instead.

### Settings

`files` are the configuration files, read one at a time by the holder of
`mutex` (`ReadFile`), so that they may change in between. `StartInit`,
`InitFails`, `AttachWatcher`, `InitSucceeds` are `Init`; `StartReload`,
`ReloadFails`, `ReloadSucceeds` are a watcher's callback and `reloadLocked`;
`StartManager` is `ConfigureEvents` and what follows it in `main`. `Hydrate`
merges the files in order, key by key, and fills in the default; `Valid` is the
validator's `required`. A content is the two keys the code reads, or malformed.
After a failed `Init` the model may call `Init` again (`CallInitAgain`), as
`docs/settings.md:8` allows, or exit as `main` does (`ExitProcess`). Changes of
a file that find its watcher busy are merged into one pending reload, as the
watcher handles its events one after the other and each reload reads
everything.

## Runs

The passing runs take up to three minutes each with two workers.

| Run | Instance | What it shows |
|---|---|---|
| `exec_core` | 1 execution, 2 Jobs, backoff limit 1; an edit, the module disappears | pruning, truth of the status, order of phases, no lost wakeup |
| `exec_loss` | 1 execution, 2 Jobs; a restart, an API error, a Job deleted by others, the execution is deleted | `ExecutionLife` is implemented and no wakeup is lost when the manager dies, calls fail and things vanish |
| `exec_live` | 1 execution, 2 Jobs; a delete error; fairness | convergence |
| `mod_core` | 1 module, 2 executions; any three of an edit, an API error, a restart, an execution deleted by a user, an ended one that runs again | roll-out, truth of the status, order of runs, order of reports |
| `mod_live` | 1 module, 2 executions; any two of an edit, a touch, a deletion; fairness | roll-out in the end |
| `soyplane` | a module, a stack that refers to it, or both; 2 executions, 2 Jobs; an edit or a lost Job | reports backed by pods, Jobs not older than their execution, the next run waits for a pod of the last, everything current at rest, `ExecutionLife` is implemented |
| `runner` | 2 pods, 3 commits, a tag that moves, edits | no action without preparation, the engine asked for, an agent's tag; nothing of the commit the script takes |
| `settings` | 2 files, 4 contents; 3 changes, a failed watch, a crash; fairness | readiness, validity, nothing lags behind, now and in the end |

Bounds. Two Jobs are the fewest with which the code's `default` branch prunes.
Two executions are the fewest for a roll-over, and in `soyplane`, where they may
have two owners and Jobs of their own, for mixed ownership. When all names are
used up a create fails and is tried again, which is a behaviour the code has
anyway. `MaxLag` only keeps the *cluster* from writing while that many events
are in flight, the reconciler itself writes at any time: a lag of one lets a
stale cache meet every step of a reconcile, and the runs `doc_*` of the
execution take two. `Soyplane` has the same bound in another form: with
`UsersWait`, users and Jobs write when the cache of that kind is current. Its
caches lag by any number of writes of the controllers. It starts with caches that know which parents exist,
as a manager does once its informers have synced, and with any of the parents
there. The budgets allow each disturbance of a run once (a file change three
times; in `soyplane` an edit or a lost Job; in the runs of the module at most three or
two altogether), at any moment: what goes wrong in these protocols goes wrong with
the first occurrence, and combinations of two or three are what the budgets of a run
combine. In `runner`, two pods show a retry, and
three commits that one is pushed before and one while the second pod runs; edits
are not bounded. The
theorems hold without these bounds: `MaxLag`, the budgets and the numbers of names are
any, and `UsersWait` is either value. What they assume instead is listed under Proofs.

`Converges` does depend on its budget: one delete that fails is healed, because
the status write that follows wakes the key up, and its reconcile prunes again.
When that delete fails too, the error is only logged (lines 304-306) and the
stale Job stays until the next resync.

`CHECK_DEADLOCK FALSE` is set in all runs: in these models everything does come
to rest, with nothing queued and nothing to report, and `QuiescentIsSettled`,
`QuiescentIsRolledOut`, `AtRestIsCurrent` and `SettledIsCurrent` say what is true
then.

Symmetry is used for names in runs without liveness where no action
distinguishes them. The numbers of `Soyplane` are ordered, and so not symmetric.

### Fairness

`Fairness` asks of each module that watch streams deliver, that the worker's
calls return, that timers fire, that a key in the queue is served (strong
fairness, as the queue is first-in first-out and the worker returns again and
again), that Jobs or executions advance and that the collector works. It
asks nothing of faults or the periodic resync, and one thing of users: that a module
that is missing appears and is seen (`ModuleChanges`), as no Job can be built without
it. In particular progress
must come from the requeues and watches that the code sets up itself. For the
settings, goroutines go on and the mutex is handed to whoever keeps waiting, as
Go's `sync` guarantees by its starvation mode. The run `settings` also assumes that a
process that exits is started again, which the Deployment does. `Soyplane` and
`Runner` state no fairness and no liveness.

### Where code and documents differ

Each of these runs checks one sentence of the documentation, a comment or a
test, and TLC finds a behaviour that breaks it.

| Run | Claim | What happens |
|---|---|---|
| `doc_one_run` | an execution is the record of a single run (`docs/crds.md:32`) | the requeue after a create finds a cache without the Job and creates another; pods of both start |
| `doc_success` | `Succeeded` once the Job completes (`docs/prototype-plan.md:45`) | one failed pod makes it `Failed` for ever, though the Job completed |
| `doc_keeps_newest` | keeps the newest Job (`tofuexecution_controller_test.go:173`) | equal timestamps: both Jobs are pruned, each by a reconcile that kept the other |
| `doc_stack` | the reconciler watches the module and the stack to decide when to create executions (`docs/crds.md:62`) | the module is edited, and everything comes to rest with the stack's run built from the spec before |

The passing properties are stated so that they are about what the code can
promise in spite of these: `NewestNeverPruned` assumes different timestamps,
`Settled` asks for one Job at rest rather than one Job ever,
`ReportedRunEndsFirst` and `NextRunAfterAPod` speak of executions the parent has
reported, and of an end that was reported or a pod that has ended rather than of a run
that is over, and the last conjunct of `AtRestIsCurrent` of modules only.

Two differences are as serious and have no run, since the code does them without any
race that a run would explore:

- **The script ignores `spec.version`.** `docs/crds.md:15` has `source` and `version`
  identify the commit. The script, which is all that runs in a Job today, clones the
  default branch and checks nothing out (`tofuexecution_controller.go:212-217`), so a
  module with a version is planned and applied at the tip of the branch. No property
  of `Runner` holds of the commit the script takes: `TagIsCheckedOut` is about the agent.
  Only the agent checks the version out, and as its clone has depth 1 it fails for
  anything but the tip of the branch.
- **The next run may start beside an unfinished one.** `Plan.md:29` has a new generation
  wait until "the last execution has finished". A Job within its backoff limit is
  `Failed` for its parent while its pods are tried again (line 91), and a finished
  execution whose Job is removed runs again (line 74). `ModuleController` has the second,
  `Soyplane` both, and what the properties claim there is what remains.

Smaller differences. The times in an execution's summary may belong to
the Job before the one it names (lines 107-121); `TruthfulStatus` says what
still holds of them. A list from before the first execution was seen gives a
duplicate of the same generation, or after an edit two generations that run
together (`tofumodule_controller.go:71`; `Plan.md:29` refreshes "when the last
execution finished"). Watch failures cannot be reported as events, as
`docs/settings.md:10` says, since the recorder is configured after `Init`
(`main.go:234`). A file that changes between its read by `Init` and its watch is
not read again: the variable `missed` of `Settings` records such files, and
`SettledIsCurrent` excludes them and nothing else.

## Proofs

Every invariant, action property and refinement that a passing run checks is also
proved for all values of the constants: any sets of objects, any lag, any budget.
All proofs start from the `ConstantsAssumption` of the module. Three more
assumptions are made, each where the code gives no more:

- `~SameSecond`, in seven theorems: objects created one after the other carry
  different creation timestamps. Kubernetes keeps whole seconds, and with equal ones
  the code's sorts leave any order; `doc_keeps_newest` shows what happens then.
- `Budget["deleteError"] = 0`, in `NoWakeupIsLost`: no delete of a stale Job fails. The code
  only logs a failed delete (lines 304-306), and if the next one fails as well, or
  nothing is left to report, nothing wakes the key up. `exec_core` and `exec_loss`
  check the property under the same assumption; `Converges` of `exec_live` has one
  delete fail.
- `WatchConfig`, in `NothingLags`: without `--watch-config` nobody reads a file again.

| Theorem | Property | Also assumes |
|---|---|---|
| `ExecutionControllerProofs!TypeCorrect` | `TypeOK` | |
| `ExecutionControllerProofs!ReportsAreTrue` | `TruthfulStatus` | |
| `ExecutionControllerProofs!PruningIsSafe` | `NewestNeverPruned` | `~SameSecond` |
| `ExecutionSettledProofs!NoWakeupIsLost` | `QuiescentIsSettled` | no delete fails |
| `ExecutionLifeProofs!PhasesGoForward` | `PhaseForward` | |
| `ExecutionLifeProofs!Refinement` | `ImplementsLife` | `~SameSecond` |
| `ModuleControllerProofs!TypeCorrect` | `TypeOK` | |
| `ModuleControllerProofs!WhatIsReportedIsTrue` | `StatusIsTrue` | |
| `ModuleControllerProofs!NewestIsReported` | `LatestNeverRegresses` | `~SameSecond` |
| `ModuleControllerProofs!OneRunAfterTheOther` | `ReportedRunEndsFirst` | `~SameSecond` |
| `ModuleControllerProofs!NothingIsForgotten` | `QuiescentIsRolledOut` | `~SameSecond` |
| `SoyplaneProofs!TypeCorrect` | `TypeOK` | |
| `SoyplaneProofs!JobsAreCurrent` | `JobsAreNotOlder` | |
| `SoyplaneProofs!ReportsAreTrue` | `ReportsAreBacked` | |
| `SoyplaneProofs!RestIsReached` | `AtRestIsCurrent` | |
| `SoyplaneProofs!OneRunAfterAPod` | `NextRunAfterAPod` | `~SameSecond` |
| `SoyplaneProofs!Refinement` | `ImplementsLife` | `~SameSecond` |
| `SettingsProofs!TypeCorrect` | `TypeOK` | |
| `SettingsProofs!NothingBeforeInit` | `ReadyMeansInitialised` | |
| `SettingsProofs!AlwaysSettings` | `ControllersHaveSettings` | |
| `SettingsProofs!NothingLags` | `SettledIsCurrent` | `WatchConfig` |
| `RunnerProofs!TypeCorrect` | `TypeOK` | |
| `RunnerProofs!NoUnpreparedAction` | `ActionIsPrepared` | |
| `RunnerProofs!NoOtherEngine` | `EngineAsAsked` | |
| `RunnerProofs!AgentTakesTheTag` | `TagIsCheckedOut` | |

Each theorem follows from an inductive invariant, a conjunction of named parts with
a lemma for each part, and for an action property or a refinement from a lemma about
one step.

### The execution controller

*Types, truth, pruning* (`ExecutionControllerProofs`). `TypeOK` alone is not
inductive, since `Return` adds `req` to the timers: `WorkerInv` says that a busy
worker has a key, and what `job` is in each part of the reconcile. For the other two,
the key fact is that a Job only moves forward. `Precedes(old, new)` relates two
contents of a Job: same owner and creation once it was created; born, gone, started
and completed stay, failures only grow, and a Job that succeeded fails no more.
`JobStep` shows that each step takes each Job forward. `CopiesInv` says that all
copies of a Job, in the cache, in the watch stream and in the worker, precede the
Job itself. This makes staleness harmless for what `TruthfulStatus` says:
`Backed(js, e, status)` is preserved when Jobs move forward, and a status computed
from a preceding copy is backed by the Job. `StatusInv` extends this to every copy
of a status, as a status may be written back from the worker's copy of the
execution. `AgeInv` carries `PruningIsSafe`: creation numbers differ, and whatever
is stale or pruned is superseded by a younger Job of the same execution, which
stays true whatever is created later.

*No lost wakeup* (`ExecutionSettledProofs`). At rest the queue, the timers and the
watch streams are empty, so what has to be invariant is what holds of a key for
which one of them is not. `NothingForgotten` says of each live execution in the
cache that something is still due (`Attended`) or that a reconcile of it would
change nothing (`NothingToDo`). That needs two more parts. `WatchInv`: cache and
events together give the cluster (`Synced`, with its lemmas in `SequenceLemmas`),
so that empty streams mean a current cache. `WorkerCurrent`: unless its key is
queued again, the worker decides from what the cache has now, which makes the
decision to return without a requeue one about the present. A delivery that changes
what the worker has read queues the key, by the watches of `SetupWithManager`. A
delete that fails breaks `WorkerCurrent`: the worker goes on with a Job that it
takes to be gone and that no event will announce.

*Order and refinement* (`ExecutionLifeProofs`). `VersionsInv` says that copies of an
execution are told apart by their versions, so that an accepted status write
replaces what the worker has read. `JobOrder` and `SeenEarlier` put the copies of a Job
in a line from the worker over the cache and the events to the API server.
`CopiesShown`: whatever phase any copy of an execution reports, the cached Job has
it or has left it behind; a report is never ahead of the cache, as it was computed
from an earlier one. With `WorkShown`, that gives `PhaseForward`. For the
refinement, `WorkNewer` is about a report of another Job than before: that one is
gone or older. There is one `Simulate` lemma for each action that changes the
cluster, and every other step is a stutter.

### The module controller

`ModuleControllerProofs` has the same architecture. `ExecutionCopies`,
`ModuleCopies`, `ExecutionsSynced` and `ModulesSynced` relate caches, events, the
worker's copy and the cluster; `EventsInOrder` says that modules are delivered in the
order of their changes. `StatusOK` is what is true of each copy of a status: the
execution it names is known to the manager, belongs to the module, has reached the
phase and has a generation that was observed. It is about copies too, as
`UpdateModuleStatus` writes the worker's copy back.

`Generations` carries the order of runs. No execution has a generation that the
cached module has not reached, and of two executions of a module the younger one
has no older generation: the list of executions may be stale, the module it is
compared with is never behind an execution created from it. `Decided` says of the
worker what the step it is about to take relies on: before a create, the reported
execution, or a younger one, has reported an end or is gone, which stays true when it
runs again, as `past` only grows; before an update, the one to be
reported is no older than the reported one. `NothingForgotten` is built as above.
Its hard steps are the ones the code takes without a requeue: a conflict that
`Reconcile` swallows is harmless as the event of the write that caused it is still
on its way (`WorkerCurrent`), and a create is followed by the event of the execution.

### The controllers together

`Advance` shows that every step takes every object forward: a parent's generation
grows, an execution keeps owner and generation, and a Job's new state is one that the
old one `Precedes`. From that follows `CopiesInv`: what a cache holds is an earlier
state of the object. `JobsAreNotOlder` is not inductive: a Job is built later than its
execution was created, from a cache that might be behind. `Generations` says that it
is not: the module cache has reached the generation of every execution it led to, and
caches do not go back. `ReportsAreBacked` rests on a chain with one link for each cache
on the way: `ReportsReached` (an execution's phase is one that its Job has reached in
the Job cache), `CacheBacked` (each phase in the execution cache was reached by a Job)
and `ParentsBacked` (so was each phase in a parent's status). The first link is also
what the refinement needs of a report: if the Job reported before is still the
newest, its phase can only be later now, and if it is not, it is gone or older.

`AtRestIsCurrent` combines all of these with two bounds from the other side.
`ParentsObserve`: a status has observed at least the generation of the execution it
names, although `observedGeneration` is written only when name or phase change.
`JobsNotAhead`: no Job is built from a generation its module has not had. At rest,
then, the mirrored execution has one Job, that Job has ended, so the phase is
terminal, so no new execution is due only if the generations agree, and the two
bounds close.

### Settings and pod

`SettingsProofs`. `LockInv` ties what the holder of the mutex has read to main and
to the watchers; with `ReadyInv` only an `Init` that succeeded publishes, and only valid
settings. For `NothingLags`, `ReadIsCurrent` says of each file that was read that it
is unchanged, or that its watcher will start a reload (`pending`), or that it changed
before it was watched (`missed`); `CachedIsCurrent` that with nothing pending the
published settings are those of the files.

`RunnerProofs`. `ScriptInv` and `AgentInv` say what the commands before the current
one have left in the pod, by the number of the command. `Cloned` is the part that has to
survive pushes: the clone is a commit between the tip when the pod started and the
tip now. The tag in a clone of depth 1, if there is one, is the commit cloned, and one
that the tag has named, wherever it is moved.

### What is not proved

Liveness (`Converges`, `EventuallyRolledOut` and `EventuallyCurrent`) is only
model-checked, as the prover has no ENABLED and so no fairness. The properties of
the four `doc_*` runs are false, and TLC shows why.

## Not modelled

- Deletion in `Soyplane`: with deletion of parents and the collector its instance
  grows to many millions of states, with the foreground deletion of modules (a
  deletion timestamp on an object that is still found) further still. The
  detailed modules delete in one step. So what a parent in foreground deletion
  has its controller create is not covered.
- Pods that outlive their Job (`Delete` is called without a propagation policy):
  pods are part of their Job.
- A watcher that dies: inside the file provider. Requests still in flight when
  the manager dies. More than one manager: leader election is off by default.
- A `moduleRef` that changes, and namespaces: names stand for both.
- The agent's context, whose deadline git does not get; `repository.go`,
  `outputs.go` and `variables.go`, which do nothing yet.
- Flags, TLS, metrics server, manifests, generated code: wiring without
  behaviour of this program. TofuProvider: a type without a controller.

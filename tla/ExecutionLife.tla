---------------------------- MODULE ExecutionLife ----------------------------
(***************************************************************************)
(* What the TofuExecution controller promises, without caches, queue,      *)
(* worker or API calls: runs (Jobs) are launched for executions and go     *)
(* their way, only a superseded run is pruned, and an execution reports    *)
(* what one of its own runs has done.                                      *)
(*                                                                         *)
(* ExecutionController implements it, each Reconcile being many steps, and *)
(* so does Soyplane, where it is one: the modules that build on executions *)
(* need to know no more than this.                                         *)
(***************************************************************************)
EXTENDS Naturals

CONSTANTS
    Executions,     \* the TofuExecution objects
    Jobs,           \* the Jobs, one per run
    NoExecution,    \* the owner of a run that was not launched
    NoJob           \* "no run": the job of an execution that reports nothing

VARIABLES
    life,           \* is an execution unborn, live or deleted?
    runs,           \* what became of each run
    launched,       \* number of runs launched
    report          \* phase and run that each execution reports

vars == <<life, runs, launched, report>>

Phases == {"Pending", "Running", "Succeeded", "Failed"}
NoPhase == ""

Unborn ==
    [state |-> "unborn", owner |-> NoExecution, number |-> 0,
     started |-> FALSE, failed |-> FALSE, succeeded |-> FALSE]

NoReport == [phase |-> NoPhase, job |-> NoJob]

----------------------------------------------------------------------------
Appear(e) ==
    /\ life[e] = "unborn"
    /\ life' = [life EXCEPT ![e] = "live"]
    /\ UNCHANGED <<runs, launched, report>>

Vanish(e) ==
    /\ life[e] = "live"
    /\ life' = [life EXCEPT ![e] = "deleted"]
    /\ UNCHANGED <<runs, launched, report>>

\* An execution that was just deleted may still get a run.
Launch(j, e) ==
    /\ runs[j].state = "unborn"
    /\ life[e] # "unborn"
    /\ launched' = launched + 1
    /\ runs' = [runs EXCEPT ![j] =
                    [Unborn EXCEPT !.state = "live", !.owner = e, !.number = launched + 1]]
    /\ UNCHANGED <<life, report>>

Becomes(j, run) ==
    /\ runs[j].state = "live"
    /\ runs' = [runs EXCEPT ![j] = run]
    /\ UNCHANGED <<life, launched, report>>

\* A run starts; its pods fail until one succeeds.
Progress(j) ==
    /\ ~runs[j].succeeded
    /\ \/ Becomes(j, [runs[j] EXCEPT !.started = TRUE])
       \/ Becomes(j, [runs[j] EXCEPT !.started = TRUE, !.failed = TRUE])
       \/ Becomes(j, [runs[j] EXCEPT !.started = TRUE, !.succeeded = TRUE])

Superseded(j) ==
    \E k \in Jobs : runs[k].owner = runs[j].owner /\ runs[j].number < runs[k].number

\* The controller deletes a run only in favour of a younger one; others may
\* delete any.
Prune(j) == Superseded(j) /\ Becomes(j, [runs[j] EXCEPT !.state = "pruned"])
Lose(j) == Becomes(j, [runs[j] EXCEPT !.state = "lost"])

Shows(run, phase) ==
    CASE phase = "Pending" -> TRUE
      [] phase = "Running" -> run.started
      [] phase = "Succeeded" -> run.succeeded /\ ~run.failed
      [] phase = "Failed" -> run.failed

Rank(phase) ==
    CASE phase = NoPhase -> 0 [] phase = "Pending" -> 1 [] phase = "Running" -> 2 [] OTHER -> 3

\* A report follows another about the same run with a later phase, and one
\* about another run only if that is older or gone.
Follows(j, phase, last) ==
    IF last.job = j THEN Rank(last.phase) < Rank(phase)
    ELSE last.job = NoJob \/ runs[last.job].state # "live" \/ runs[last.job].number < runs[j].number

Report(e, j, phase) ==
    /\ life[e] = "live"
    /\ runs[j].owner = e
    /\ Shows(runs[j], phase)
    /\ Follows(j, phase, report[e])
    /\ report' = [report EXCEPT ![e] = [phase |-> phase, job |-> j]]
    /\ UNCHANGED <<life, runs, launched>>

----------------------------------------------------------------------------
Init ==
    /\ life = [e \in Executions |-> "unborn"]
    /\ runs = [j \in Jobs |-> Unborn]
    /\ launched = 0
    /\ report = [e \in Executions |-> NoReport]

\* What changes is an execution, a run or a report; steps of the controller
\* that change none of them are left to [Next]_vars.
Next ==
    /\ vars' # vars
    /\ \/ /\ life' # life
          /\ \E e \in Executions : Appear(e) \/ Vanish(e)
       \/ /\ runs' # runs
          /\ \E j \in Jobs :
                \/ Progress(j)
                \/ Prune(j)
                \/ Lose(j)
                \/ \E e \in Executions : Launch(j, e)
       \/ /\ report' # report
          /\ \E e \in Executions, j \in Jobs, phase \in Phases : Report(e, j, phase)

Spec == Init /\ [][Next]_vars

=============================================================================

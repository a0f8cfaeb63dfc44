-------------------------------- MODULE Runner --------------------------------
(***************************************************************************)
(* What happens in a pod.  Today the Job builder                           *)
(* (constructJobFromExecution) bakes a shell script into the Job; the      *)
(* agent binary (internal/agent, cmd/agent), started by hand so far, is    *)
(* meant to take its place.  Both are lists of commands, any of which may  *)
(* fail, on a repository that moves meanwhile and for a module that may be *)
(* edited: the script was fixed when the Job was built, the agent reads    *)
(* the module when it runs.                                                *)
(***************************************************************************)
EXTENDS Naturals, Sequences

CONSTANTS
    Workdirs,       \* subdirectories a module may name
    Tag,            \* a tag of the repository
    Branch,         \* its default branch
    EngineVersions, \* engine versions an execution may ask for
    DefaultImage,   \* executionDefaults.image: engine and version it holds
    MaxCommits,     \* commits on the default branch
    MaxPods         \* pods started, one after the other

Engines == {"tofu", "terraform"}

\* What a manifest leaves out and what has not been done.
Empty == ""

ASSUME ConstantsAssumption ==
    /\ {Empty, "."} \cap Workdirs = {}
    /\ Tag # Branch /\ Empty \notin {Tag, Branch} \cup EngineVersions
    /\ DefaultImage.engine \in Engines
    /\ MaxCommits \in Nat \ {0} /\ MaxPods \in Nat

VARIABLES
    tip,            \* last commit of the default branch
    tagged,         \* commit that the tag names, 0 if there is no such tag
    tags,           \* history: the commits it has named
    module,         \* spec of the TofuModule
    job,            \* what the builder put into the Job
    pod,            \* the pod that runs or ran last
    pods            \* number of pods started

vars == <<tip, tagged, tags, module, job, pod, pods>>

----------------------------------------------------------------------------
(* The Job builder.                                                        *)

Module == [version: {Empty, Branch, Tag}, workdir: Workdirs \cup {Empty}]

\* Without an engine of its own in the manifest an execution has empty names.
Engine == [name: Engines \cup {Empty}, version: EngineVersions \cup {Empty}]

EngineName(engine) == IF engine.name = Empty THEN "tofu" ELSE engine.name

\* Fault: "cd" without a directory goes home.
WorkdirAsGiven(m) == m.workdir

Workdir(m) == IF m.workdir = Empty THEN "." ELSE m.workdir

\* Fault: the version is not looked at.
ImageOfDefaults(engine) == DefaultImage

\* Images are told apart by what they hold.
Image(engine) ==
    IF engine.version = Empty THEN DefaultImage
    ELSE [engine |-> EngineName(engine), version |-> engine.version]

NoJob ==
    [built |-> FALSE, engine |-> [name |-> Empty, version |-> Empty],
     image |-> DefaultImage, workdir |-> "."]

BuildJob ==
    /\ ~job.built
    /\ \E engine \in Engine :
        job' = [built |-> TRUE, engine |-> engine,
                image |-> Image(engine), workdir |-> Workdir(module)]
    /\ UNCHANGED <<tip, tagged, tags, module, pod, pods>>

----------------------------------------------------------------------------
(* Pods.                                                                   *)

\* The script, and what agent.Run does; "checkout" is left out when the module
\* names no version.
Script == <<"mkdir", "enter", "clone", "cd", "init", "action">>
Agent == <<"fetchExecution", "fetchModule", "mkdirall", "shallowClone", "checkout">>

Commands(p) == IF p.program = "script" THEN Script ELSE Agent

\* dir is the working directory, head the commit checked out, tag the
\* commit that the clone has under the tag, 0 if it has none; init and acted are the directories in
\* which the engine was run.  since is the tip when the pod started.
NewPod(program) ==
    [program |-> program, stage |-> "running", step |-> 1, module |-> module, dir |-> "start",
     head |-> 0, tag |-> 0, init |-> Empty, acted |-> Empty, since |-> tip]

\* The Job controller starts a pod, and another one after one that failed
\* (RestartPolicy Never): each begins with an empty file system.  One pod runs
\* at a time; initially there is none that could succeed.
StartPod(program) ==
    /\ pods < MaxPods
    /\ pod.stage = "failed"
    /\ program = "script" => job.built
    /\ pod' = NewPod(program)
    /\ pods' = pods + 1
    /\ UNCHANGED <<tip, tagged, tags, module, job>>

\* What a command does to the pod when it succeeds ...
Done(p, command) ==
    CASE command \in {"fetchExecution", "mkdir"} -> p
      [] command = "fetchModule" -> [p EXCEPT !.module = module]
      [] command \in {"enter", "mkdirall"} -> [p EXCEPT !.dir = "workspace"]
      [] command = "clone" -> [p EXCEPT !.head = tip, !.tag = tagged]
      [] command = "shallowClone" -> [p EXCEPT !.head = tip, !.tag = IF tagged = tip THEN tip ELSE 0]
      [] command = "cd" -> [p EXCEPT !.dir = IF job.workdir = Empty THEN "home" ELSE job.workdir]
      [] command = "init" -> [p EXCEPT !.init = p.dir]
      [] command = "action" -> [p EXCEPT !.acted = p.dir]
      [] command = "checkout" -> IF p.module.version = Tag THEN [p EXCEPT !.head = p.tag] ELSE p

\* ... and when it cannot: the image lacks the engine, or the clone the tag.
Impossible(p, command) ==
    \/ command \in {"init", "action"} /\ EngineName(job.engine) # job.image.engine
    \/ command = "checkout" /\ p.module.version = Tag /\ p.tag = 0

Advance(p) ==
    IF p.step = Len(Commands(p)) THEN [p EXCEPT !.stage = "succeeded"] ELSE [p EXCEPT !.step = @ + 1]

\* Fault: "sh -xc" for "sh -exc", or an error that is not returned.
GoesOn(p) == Advance(p)

\* A command that fails ends the script (sh -e) and the agent (the error is
\* returned up to main, which exits with 1).
AfterFailure(p) == [p EXCEPT !.stage = "failed"]

RunCommand ==
    /\ pod.stage = "running"
    /\ LET command == Commands(pod)[pod.step]
       IN  \/ ~Impossible(pod, command) /\ pod' = Advance(Done(pod, command))
           \/ /\ ~(command = "checkout" /\ pod.module.version = Empty)
              /\ pod' = AfterFailure(pod)
    /\ UNCHANGED <<tip, tagged, tags, module, job, pods>>

----------------------------------------------------------------------------
(* The users of repository and module.                                     *)

\* The branch gets a tip it has not had, by a push or a forced push.
Push ==
    /\ tip < MaxCommits
    /\ tip' = tip + 1
    /\ UNCHANGED <<tagged, tags, module, job, pod, pods>>

\* The tag is made, moved or removed.
PushTag ==
    /\ \E commit \in (0 .. tip) \ {tagged} :
        /\ tagged' = commit
        /\ tags' = (tags \cup {commit}) \ {0}
    /\ UNCHANGED <<tip, module, job, pod, pods>>

EditModule ==
    /\ module' \in Module
    /\ UNCHANGED <<tip, tagged, tags, job, pod, pods>>

----------------------------------------------------------------------------
Init ==
    /\ tip = 1
    /\ tagged = 0 /\ tags = {}
    /\ module \in Module
    /\ job = NoJob
    /\ pod = [NewPod("script") EXCEPT !.stage = "failed"]
    /\ pods = 0

Next ==
    \/ BuildJob
    \/ \E program \in {"script", "agent"} : StartPod(program)
    \/ RunCommand
    \/ Push
    \/ PushTag
    \/ EditModule

Spec == Init /\ [][Next]_vars

----------------------------------------------------------------------------
(* Properties.                                                             *)

Dirs == {"start", "workspace", "."} \cup Workdirs

Pod ==
    [program: {"script", "agent"}, stage: {"running", "succeeded", "failed"}, step: 1 .. 6,
     module: Module, dir: Dirs, head: 0 .. MaxCommits, tag: 0 .. MaxCommits,
     init: Dirs \cup {Empty}, acted: Dirs \cup {Empty}, since: 1 .. MaxCommits]

\* Types; no pod ever works in the home directory of its user.
TypeOK ==
    /\ tip \in 1 .. MaxCommits
    /\ tagged \in 0 .. tip /\ tags \subseteq 1 .. tip
    /\ module \in Module
    /\ job.engine \in Engine /\ job.image.engine \in Engines
    /\ pod \in Pod
    /\ pods \in 0 .. MaxPods

\* "plan" or "apply" is run only in the directory that the module named when
\* the Job was built, of a clone that is there, after "init" was run in that
\* directory: whichever command fails, none after it runs
\* (tofuexecution_controller.go:212-217, 260).
ActionIsPrepared ==
    pod.acted # Empty =>
        /\ pod.head # 0
        /\ pod.init = job.workdir
        /\ pod.acted = job.workdir

\* The engine that acts is the one the execution asks for, in the version it
\* asks for if it does (tofuexecution_controller.go:176-211).  The image of the
\* defaults holds one engine: asked for the other one, the pod fails.
EngineAsAsked ==
    pod.acted # Empty =>
        /\ job.image.engine = EngineName(job.engine)
        /\ job.engine.version # Empty => job.image.version = job.engine.version

\* An agent that found a tag in the module and succeeds worked on a commit
\* that the tag named, and that was the tip since its pod started, however
\* branch, tag and module changed meanwhile (runner.go:47-73): the shallow
\* clone makes it fail rather than use another.  The script has no checkout
\* and takes the tip whatever the version: nothing is claimed of it.
TagIsCheckedOut ==
    pod.stage = "succeeded" /\ pod.program = "agent" /\ pod.module.version = Tag =>
        pod.head \in tags /\ pod.since <= pod.head

=============================================================================

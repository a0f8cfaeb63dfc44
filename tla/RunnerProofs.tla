----------------------------- MODULE RunnerProofs -----------------------------
(***************************************************************************)
(* What holds in a pod for any repository, module, execution and number of *)
(* pods.                                                                   *)
(*                                                                         *)
(* The inductive invariant says what the commands before the current one   *)
(* have left in the pod, and that what they left is still true of a        *)
(* repository that moved meanwhile.                                        *)
(***************************************************************************)
EXTENDS Runner, TLAPS

\* The Job is as the builder makes it.
JobInv ==
    /\ job.engine \in Engine
    /\ job.image = Image(job.engine)
    /\ job.workdir \in Workdirs \cup {"."}

\* The clone is a commit that was the tip since the pod started.
Cloned(p) == p.since <= p.head /\ p.head <= tip

ScriptInv(p) ==
    /\ ~job.built => p.stage = "failed" /\ p.step = 1
    /\ p.step > 3 => Cloned(p)
    /\ p.step > 4 => p.dir = job.workdir
    /\ p.step > 5 => p.init = job.workdir /\ EngineName(job.engine) = job.image.engine
    /\ p.acted # Empty => p.step = 6 /\ p.acted = job.workdir
    /\ p.stage = "succeeded" => p.step = 6

\* A clone that knows the tag has it checked out, as it knows one commit; it
\* keeps the tag as it was, wherever the tag is moved.
AgentInv(p) ==
    /\ p.acted = Empty /\ p.step <= 5
    /\ p.step > 4 => Cloned(p)
    /\ p.tag # 0 => p.head = p.tag /\ p.tag \in tags
    /\ p.stage = "succeeded" => p.step = 5 /\ (p.module.version = Tag => p.tag # 0)

PodInv(p) ==
    /\ p.since <= tip
    /\ p.program = "script" => ScriptInv(p)
    /\ p.program = "agent" => AgentInv(p)

TagInv == tagged # 0 => tagged \in tags

Inv == TypeOK /\ JobInv /\ TagInv /\ PodInv(pod)

----------------------------------------------------------------------------
(* The builder.                                                            *)

LEMMA EmptyIsNoDirectory == Empty \notin {"start", "workspace", "."} \cup Workdirs
BY Zenon, ConstantsAssumption DEF Empty

LEMMA ImageType == \A engine \in Engine : Image(engine).engine \in Engines
BY ConstantsAssumption DEF Image, Engine, EngineName, Engines

LEMMA WorkdirType == \A m \in Module : Workdir(m) \in Workdirs \cup {"."}
BY DEF Workdir, Module

LEMMA BuildJobStep ==
    ASSUME Inv, BuildJob
    PROVE  Inv'
<1>1. PICK engine \in Engine :
            job' = [built |-> TRUE, engine |-> engine,
                    image |-> Image(engine), workdir |-> Workdir(module)]
  BY DEF BuildJob
<1>2. UNCHANGED <<tip, tagged, tags, module, pod, pods>> /\ ~job.built
  BY DEF BuildJob
<1>3. /\ job'.built /\ job'.engine = engine /\ job'.image = Image(engine)
      /\ job'.workdir = Workdir(module)
  BY <1>1
<1>4. TypeOK' /\ JobInv' /\ TagInv'
  BY <1>2, <1>3, ImageType, WorkdirType DEF Inv, TypeOK, JobInv, TagInv
<1>5. /\ pod.since <= tip /\ (pod.program = "agent" => AgentInv(pod))
      /\ pod.program = "script" => ScriptInv(pod)
  BY DEF Inv, PodInv
<1>6. pod.program = "script" => ScriptInv(pod)'
  <2> SUFFICES ASSUME pod.program = "script" PROVE ScriptInv(pod)'
    OBVIOUS
  <2>1. pod.stage = "failed" /\ pod.step = 1 /\ pod.acted = Empty
    BY <1>2, <1>5 DEF ScriptInv
  <2> QED
    BY <1>2, <1>3, <2>1 DEF ScriptInv
<1>7. pod.program = "agent" => AgentInv(pod)'
  BY <1>2, <1>5 DEF AgentInv, Cloned
<1>8. PodInv(pod)'
  BY <1>2, <1>5, <1>6, <1>7 DEF PodInv
<1> QED
  BY <1>4, <1>8 DEF Inv

----------------------------------------------------------------------------
(* Pods.                                                                   *)

LEMMA StartPodStep ==
    ASSUME Inv, NEW program \in {"script", "agent"}, StartPod(program)
    PROVE  Inv'
<1>1. /\ pod' = NewPod(program) /\ pods' = pods + 1 /\ pods < MaxPods
      /\ program = "script" => job.built
      /\ UNCHANGED <<tip, tagged, tags, module, job>>
  BY DEF StartPod
<1>2. /\ tip \in 1 .. MaxCommits /\ MaxCommits \in Nat /\ module \in Module
      /\ pods \in 0 .. MaxPods /\ MaxPods \in Nat
  BY ConstantsAssumption DEF Inv, TypeOK
<1>3. pods' \in 0 .. MaxPods
  BY <1>1, <1>2
<1>4. /\ pod'.program = program /\ pod'.stage = "running" /\ pod'.step = 1
      /\ pod'.acted = Empty /\ pod'.since = tip /\ pod'.tag = 0
  BY <1>1 DEF NewPod
<1>5. pod' \in Pod
  BY <1>1, <1>2 DEF NewPod, Pod, Dirs
<1>6. TypeOK' /\ JobInv' /\ TagInv'
  BY <1>1, <1>3, <1>5 DEF Inv, TypeOK, JobInv, TagInv
<1>7. pod'.since <= tip'
  BY <1>1, <1>2, <1>4
<1>8. pod'.program = "script" => ScriptInv(pod)'
  BY <1>1, <1>4 DEF ScriptInv
<1>9. pod'.program = "agent" => AgentInv(pod)'
  BY <1>1, <1>4 DEF AgentInv
<1> QED
  BY <1>6, <1>7, <1>8, <1>9 DEF Inv, PodInv, ScriptInv, AgentInv, Cloned

\* A pod that fails keeps what its commands have done.
LEMMA FailureInv ==
    ASSUME Inv, pod.stage = "running"
    PROVE  AfterFailure(pod) \in Pod /\ PodInv(AfterFailure(pod))
<1> DEFINE p == AfterFailure(pod)
<1>1. pod \in Pod
  BY DEF Inv, TypeOK
<1>2. /\ p \in Pod /\ p.stage = "failed" /\ p.program = pod.program /\ p.step = pod.step
      /\ p.module = pod.module /\ p.dir = pod.dir /\ p.head = pod.head /\ p.tag = pod.tag
      /\ p.init = pod.init /\ p.acted = pod.acted /\ p.since = pod.since
  BY <1>1 DEF AfterFailure, Pod
<1> HIDE DEF p
<1>3. PodInv(p)
  BY <1>2 DEF Inv, PodInv, ScriptInv, AgentInv, Cloned
<1> QED
  BY <1>2, <1>3 DEF p

LEMMA PodFields ==
    \A p \in Pod :
        /\ p.step \in 1 .. 6 /\ p.since \in 1 .. MaxCommits /\ p.head \in 0 .. MaxCommits
        /\ p.module \in Module /\ p.program \in {"script", "agent"} /\ p.tag \in 0 .. MaxCommits
BY DEF Pod

LEMMA Lengths == Len(Script) = 6 /\ Len(Agent) = 5
BY DEF Script, Agent

\* Whether there is another command or not, only stage and step change.
LEMMA AdvanceFields ==
    ASSUME NEW d \in Pod, d.step <= Len(Commands(d)), NEW p, p = Advance(d)
    PROVE  /\ p \in Pod /\ p.program = d.program /\ p.module = d.module /\ p.dir = d.dir
           /\ p.head = d.head /\ p.init = d.init /\ p.acted = d.acted /\ p.since = d.since
           /\ p.tag = d.tag
           /\ \/ d.step = Len(Commands(d)) /\ p.step = d.step /\ p.stage = "succeeded"
              \/ d.step # Len(Commands(d)) /\ p.step = d.step + 1 /\ p.stage = d.stage
<1>1. PICK n \in {5, 6} : n = Len(Commands(d))
  BY Lengths DEF Commands
<1>2. CASE d.step = Len(Commands(d))
  BY <1>2 DEF Advance, Pod
<1>3. CASE d.step # Len(Commands(d))
  <2>1. p = [d EXCEPT !.step = d.step + 1]
    BY <1>3 DEF Advance
  <2>2. d.step \in 1 .. 6
    BY Zenon, PodFields
  <2>3. d.step <= n /\ d.step # n
    BY <1>1, <1>3
  <2>4. d.step + 1 \in 1 .. 6
    BY <2>2, <2>3
  <2> QED
    BY <1>3, <2>1, <2>4 DEF Pod
<1> QED
  BY <1>2, <1>3

\* What the invariant says of the pod, in the parts that its commands need.
LEMMA PodFacts ==
    ASSUME Inv
    PROVE  /\ pod \in Pod /\ pod.since <= tip /\ PodInv(pod)
           /\ MaxCommits \in Nat /\ tip \in 1 .. MaxCommits /\ tagged \in 0 .. tip
           /\ module \in Module
           /\ job.workdir \in Dirs /\ job.workdir # Empty
BY ConstantsAssumption, EmptyIsNoDirectory DEF Inv, TypeOK, PodInv, JobInv, Dirs

\* What a command of the script, known by its place, makes of the pod.
LEMMA ScriptDone ==
    ASSUME Inv, pod.stage = "running", pod.program = "script", NEW command,
           command = Script[pod.step], ~Impossible(pod, command),
           NEW d, d = Done(pod, command)
    PROVE  /\ d \in Pod /\ d.program = "script" /\ d.stage = "running"
           /\ d.step = pod.step /\ d.since = pod.since
           /\ pod.step > 2 => Cloned(d)
           /\ pod.step > 3 => d.dir = job.workdir
           /\ pod.step > 4 => d.init = job.workdir /\ EngineName(job.engine) = job.image.engine
           /\ d.acted # Empty => pod.step = 6 /\ d.acted = job.workdir
<1>1. /\ pod \in Pod /\ pod.since <= tip
      /\ MaxCommits \in Nat /\ tip \in 1 .. MaxCommits /\ tagged \in 0 .. tip
      /\ job.workdir \in Dirs /\ job.workdir # Empty
  BY PodFacts
<1>2. ScriptInv(pod) /\ pod.step \in 1 .. 6 /\ pod.since \in 1 .. MaxCommits
  BY <1>1, PodFacts DEF PodInv, Pod
<1>3. CASE pod.step = 1
  <2>1. d = pod
    BY <1>3 DEF Script, Done
  <2> QED
    BY <1>1, <1>2, <1>3, <2>1 DEF ScriptInv
<1>4. CASE pod.step = 2
  <2>1. d = [pod EXCEPT !.dir = "workspace"]
    BY <1>4 DEF Script, Done
  <2>2. d \in Pod
    BY <1>1, <2>1 DEF Pod, Dirs
  <2> QED
    BY <1>1, <1>2, <1>4, <2>1, <2>2 DEF ScriptInv, Pod
<1>5. CASE pod.step = 3
  <2> command = "clone"
    BY <1>5 DEF Script
  <2>1. d = [pod EXCEPT !.head = tip, !.tag = tagged]
    BY Zenon DEF Done
  <2>2. tip \in 0 .. MaxCommits /\ tagged \in 0 .. MaxCommits /\ pod \in Pod
    BY <1>1
  <2>3. d \in Pod
    BY <2>1, <2>2 DEF Pod
  <2>4. /\ d.program = pod.program /\ d.stage = pod.stage /\ d.step = pod.step
        /\ d.since = pod.since /\ d.head = tip /\ d.acted = pod.acted
    BY <2>1, <2>2 DEF Pod
  <2>5. pod.since <= tip /\ tip <= tip
    BY <1>1, <1>2
  <2> QED
    BY <1>2, <1>5, <2>3, <2>4, <2>5 DEF ScriptInv, Cloned
<1>6. CASE pod.step = 4
  <2>1. d = [pod EXCEPT !.dir = job.workdir]
    BY <1>1, <1>6 DEF Script, Done
  <2>2. d \in Pod
    BY <1>1, <2>1 DEF Pod
  <2> QED
    BY <1>1, <1>2, <1>6, <2>1, <2>2 DEF ScriptInv, Cloned, Pod
<1>7. CASE pod.step = 5
  <2>1. d = [pod EXCEPT !.init = pod.dir] /\ command = "init"
    BY <1>7 DEF Script, Done
  <2>2. d \in Pod
    BY <1>1, <2>1 DEF Pod
  <2>3. EngineName(job.engine) = job.image.engine
    BY <2>1 DEF Impossible
  <2> QED
    BY <1>1, <1>2, <1>7, <2>1, <2>2, <2>3 DEF ScriptInv, Cloned, Pod
<1>8. CASE pod.step = 6
  <2>1. d = [pod EXCEPT !.acted = pod.dir]
    BY <1>8 DEF Script, Done
  <2>2. d \in Pod
    BY <1>1, <2>1 DEF Pod
  <2> QED
    BY <1>1, <1>2, <1>8, <2>1, <2>2 DEF ScriptInv, Cloned, Pod
<1> QED
  BY <1>2, <1>3, <1>4, <1>5, <1>6, <1>7, <1>8

LEMMA ScriptCommand ==
    ASSUME Inv, pod.stage = "running", pod.program = "script", NEW command,
           command = Script[pod.step], ~Impossible(pod, command),
           NEW p, p = Advance(Done(pod, command))
    PROVE  p \in Pod /\ PodInv(p)
<1> DEFINE d == Done(pod, command)
<1>1. /\ d \in Pod /\ d.program = "script" /\ d.stage = "running"
      /\ d.step = pod.step /\ d.since = pod.since
      /\ pod.step > 2 => Cloned(d)
      /\ pod.step > 3 => d.dir = job.workdir
      /\ pod.step > 4 => d.init = job.workdir /\ EngineName(job.engine) = job.image.engine
      /\ d.acted # Empty => pod.step = 6 /\ d.acted = job.workdir
  BY ScriptDone
<1>2. p = Advance(d)
  OBVIOUS
<1> HIDE DEF d
<1>3. pod.step \in 1 .. 6 /\ pod.since <= tip /\ job.built
  BY PodFacts DEF Pod, PodInv, ScriptInv
<1>4. Len(Commands(d)) = 6
  BY <1>1, Lengths DEF Commands
<1>5. /\ p \in Pod /\ p.program = d.program /\ p.module = d.module /\ p.dir = d.dir
      /\ p.head = d.head /\ p.init = d.init /\ p.acted = d.acted /\ p.since = d.since
      /\ \/ d.step = 6 /\ p.step = d.step /\ p.stage = "succeeded"
         \/ d.step # 6 /\ p.step = d.step + 1 /\ p.stage = d.stage
  <2>1. d.step <= Len(Commands(d))
    BY <1>1, <1>3, <1>4
  <2> QED
    BY <1>1, <1>2, <1>4, <2>1, AdvanceFields
<1>6. p.step \in 1 .. 6 /\ (p.step > 3 => pod.step > 2) /\ (p.step > 4 => pod.step > 3)
      /\ (p.step > 5 => pod.step > 4)
  BY <1>1, <1>3, <1>5
<1>7. Cloned(d) => Cloned(p)
  BY <1>5 DEF Cloned
<1>8. p.acted # Empty => p.step = 6 /\ p.acted = job.workdir
  BY <1>1, <1>3, <1>5
<1>9. ScriptInv(p)
  BY <1>1, <1>3, <1>5, <1>6, <1>7, <1>8 DEF ScriptInv
<1> QED
  BY <1>1, <1>3, <1>5, <1>9 DEF PodInv

\* What a command of the agent makes of the pod: the checkout keeps the head.
LEMMA AgentDone ==
    ASSUME Inv, pod.stage = "running", pod.program = "agent", NEW command,
           command = Agent[pod.step], ~Impossible(pod, command),
           NEW d, d = Done(pod, command)
    PROVE  /\ d \in Pod /\ d.program = "agent" /\ d.stage = "running"
           /\ d.step = pod.step /\ d.since = pod.since /\ d.acted = Empty
           /\ pod.step > 3 => Cloned(d)
           /\ d.tag # 0 => d.head = d.tag /\ d.tag \in tags
           /\ pod.step = 5 => (d.module.version = Tag => d.tag # 0)
<1>1. /\ pod \in Pod /\ module \in Module /\ pod.since <= tip
      /\ MaxCommits \in Nat /\ tip \in 1 .. MaxCommits /\ tagged \in 0 .. tip
  BY PodFacts
<1>2. AgentInv(pod) /\ pod.step \in 1 .. 5 /\ pod.since \in 1 .. MaxCommits
  BY <1>1, PodFacts, PodFields DEF PodInv, AgentInv
<1>3. CASE pod.step = 1
  <2>1. d = pod
    BY <1>3 DEF Agent, Done
  <2> QED
    BY <1>1, <1>2, <1>3, <2>1 DEF AgentInv
<1>4. CASE pod.step = 2
  <2>1. d = [pod EXCEPT !.module = module]
    BY <1>4 DEF Agent, Done
  <2>2. d \in Pod
    BY <1>1, <2>1 DEF Pod
  <2> QED
    BY <1>1, <1>2, <1>4, <2>1, <2>2 DEF AgentInv, Pod
<1>5. CASE pod.step = 3
  <2>1. d = [pod EXCEPT !.dir = "workspace"]
    BY <1>5 DEF Agent, Done
  <2>2. d \in Pod
    BY <1>1, <2>1 DEF Pod, Dirs
  <2> QED
    BY <1>1, <1>2, <1>5, <2>1, <2>2 DEF AgentInv, Pod
<1>6. CASE pod.step = 4
  <2> command = "shallowClone"
    BY <1>6 DEF Agent
  <2>1. PICK known \in {0, tip} :
            d = [pod EXCEPT !.head = tip, !.tag = known] /\ (known # 0 => tagged = tip)
    BY Zenon DEF Done
  <2>2. tip \in 0 .. MaxCommits /\ known \in 0 .. MaxCommits /\ pod \in Pod /\ tip # 0
    BY <1>1
  <2>3. d \in Pod
    BY <2>1, <2>2 DEF Pod
  <2>4. /\ d.program = pod.program /\ d.stage = pod.stage /\ d.step = pod.step
        /\ d.since = pod.since /\ d.head = tip /\ d.acted = pod.acted
        /\ d.tag = known
    BY <2>1, <2>2 DEF Pod
  <2>5. pod.since <= tip /\ tip <= tip
    BY <1>1, <1>2
  <2> QED
    BY <1>2, <1>6, <2>1, <2>2, <2>3, <2>4, <2>5 DEF AgentInv, Cloned, Inv, TagInv
<1>7. CASE pod.step = 5
  <2> command = "checkout"
    BY <1>7 DEF Agent
  <2>1. pod.module.version = Tag => pod.tag # 0
    BY DEF Impossible
  <2>2. d = IF pod.module.version = Tag THEN [pod EXCEPT !.head = pod.tag] ELSE pod
    BY Zenon DEF Done
  <2>3. CASE pod.module.version = Tag
    <3>1. pod.head = pod.tag /\ pod.tag \in 0 .. MaxCommits
      BY PodFields, <1>1, <1>2, <2>1, <2>3 DEF AgentInv
    <3>2. d = [pod EXCEPT !.head = pod.tag]
      BY <2>2, <2>3
    <3>3. /\ d \in Pod /\ d.head = pod.tag
          /\ d.program = pod.program /\ d.stage = pod.stage /\ d.step = pod.step
          /\ d.since = pod.since /\ d.acted = pod.acted /\ d.module = pod.module
          /\ d.tag = pod.tag
      BY <1>1, <3>1, <3>2 DEF Pod
    <3> QED
      BY <1>2, <1>7, <2>1, <3>1, <3>3 DEF AgentInv, Cloned
  <2>4. CASE pod.module.version # Tag
    <3>1. d = pod
      BY <2>2, <2>4
    <3> QED
      BY <1>1, <1>2, <1>7, <2>4, <3>1 DEF AgentInv
  <2> QED
    BY <2>3, <2>4
<1> QED
  BY <1>2, <1>3, <1>4, <1>5, <1>6, <1>7

LEMMA AgentCommand ==
    ASSUME Inv, pod.stage = "running", pod.program = "agent", NEW command,
           command = Agent[pod.step], ~Impossible(pod, command),
           NEW p, p = Advance(Done(pod, command))
    PROVE  p \in Pod /\ PodInv(p)
<1> DEFINE d == Done(pod, command)
<1>1. /\ d \in Pod /\ d.program = "agent" /\ d.stage = "running"
      /\ d.step = pod.step /\ d.since = pod.since /\ d.acted = Empty
      /\ pod.step > 3 => Cloned(d)
      /\ d.tag # 0 => d.head = d.tag /\ d.tag \in tags
      /\ pod.step = 5 => (d.module.version = Tag => d.tag # 0)
  BY AgentDone
<1>2. p = Advance(d)
  OBVIOUS
<1> HIDE DEF d
<1>3. pod.step \in 1 .. 5 /\ pod.since <= tip
  BY PodFacts, PodFields DEF PodInv, AgentInv
<1>4. Len(Commands(d)) = 5
  BY <1>1, Lengths DEF Commands
<1>5. /\ p \in Pod /\ p.program = d.program /\ p.module = d.module
      /\ p.head = d.head /\ p.acted = d.acted /\ p.since = d.since
      /\ p.tag = d.tag
      /\ \/ d.step = 5 /\ p.step = d.step /\ p.stage = "succeeded"
         \/ d.step # 5 /\ p.step = d.step + 1 /\ p.stage = d.stage
  <2>1. d.step <= Len(Commands(d))
    BY <1>1, <1>3, <1>4
  <2> QED
    BY <1>1, <1>2, <1>4, <2>1, AdvanceFields
<1>6. p.step \in 1 .. 5 /\ (p.step > 4 => pod.step > 3)
  BY <1>1, <1>3, <1>5
<1>7. Cloned(d) => Cloned(p)
  BY <1>5 DEF Cloned
<1>8. p.stage = "succeeded" => p.step = 5 /\ (p.module.version = Tag => p.tag # 0)
  BY <1>1, <1>5
<1>9. AgentInv(p)
  BY <1>1, <1>5, <1>6, <1>7, <1>8 DEF AgentInv
<1> QED
  BY <1>1, <1>3, <1>5, <1>9 DEF PodInv

LEMMA RunCommandStep ==
    ASSUME Inv, RunCommand
    PROVE  Inv'
<1>1. /\ pod.stage = "running" /\ UNCHANGED <<tip, tagged, tags, module, job, pods>>
      /\ \/ /\ ~Impossible(pod, Commands(pod)[pod.step])
            /\ pod' = Advance(Done(pod, Commands(pod)[pod.step]))
         \/ pod' = AfterFailure(pod)
  BY DEF RunCommand
<1>2. pod.program = "script" \/ pod.program = "agent"
  BY PodFacts DEF Pod
<1>3. pod' \in Pod /\ PodInv(pod')
  <2>1. CASE pod' = AfterFailure(pod)
    BY <1>1, <2>1, FailureInv
  <2>2. CASE pod' # AfterFailure(pod) /\ pod.program = "script"
    <3>1. Commands(pod) = Script
      BY <2>2 DEF Commands
    <3> QED
      BY <1>1, <2>2, <3>1, ScriptCommand
  <2>3. CASE pod' # AfterFailure(pod) /\ pod.program = "agent"
    <3>1. Commands(pod) = Agent
      BY <2>3 DEF Commands
    <3> QED
      BY <1>1, <2>3, <3>1, AgentCommand
  <2> QED
    BY <1>2, <2>1, <2>2, <2>3
<1>4. TypeOK' /\ JobInv' /\ TagInv'
  BY <1>1, <1>3 DEF Inv, TypeOK, JobInv, TagInv
<1>5. PodInv(pod)'
  BY <1>1, <1>3 DEF PodInv, ScriptInv, AgentInv, Cloned
<1> QED
  BY <1>4, <1>5 DEF Inv

----------------------------------------------------------------------------
(* The users.  The clone stays a commit that was the tip; a tag that is    *)
(* moved keeps its place in them.                                          *)

LEMMA PushStep ==
    ASSUME Inv, Push
    PROVE  Inv'
<1>1. tip < MaxCommits /\ tip' = tip + 1 /\ UNCHANGED <<tagged, tags, module, job, pod, pods>>
  BY DEF Push
<1>2. /\ pod \in Pod /\ pod.head \in Nat /\ pod.since \in Nat /\ MaxCommits \in Nat
      /\ tip \in 1 .. MaxCommits /\ tagged \in 0 .. tip
      /\ tags \subseteq 1 .. tip
  BY PodFacts, PodFields DEF Inv, TypeOK
<1>3. TypeOK' /\ JobInv' /\ TagInv'
  <2>1. tip' \in 1 .. MaxCommits /\ tagged \in 0 .. tip' /\ tags \subseteq 1 .. tip'
    BY <1>1, <1>2
  <2> QED
    BY <1>1, <2>1 DEF Inv, TypeOK, JobInv, TagInv
<1>4. Cloned(pod) => Cloned(pod)'
  BY <1>1, <1>2 DEF Cloned
<1>5. pod.since <= tip => pod.since <= tip'
  BY <1>1, <1>2
<1>6. PodInv(pod)'
  BY <1>1, <1>4, <1>5, PodFacts DEF PodInv, ScriptInv, AgentInv
<1> QED
  BY <1>3, <1>6 DEF Inv

LEMMA PushTagStep ==
    ASSUME Inv, PushTag
    PROVE  Inv'
<1>1. PICK commit \in (0 .. tip) \ {tagged} :
          tagged' = commit /\ tags' = (tags \cup {commit}) \ {0}
  BY DEF PushTag
<1>2. UNCHANGED <<tip, module, job, pod, pods>>
  BY DEF PushTag
<1>3. tagged' \in 0 .. tip /\ tags' \subseteq 1 .. tip /\ tags \subseteq tags'
      /\ (tagged' # 0 => tagged' \in tags')
  <2>1. tags \subseteq 1 .. tip /\ tip \in Nat
    BY PodFacts DEF Inv, TypeOK
  <2> QED
    BY <1>1, <2>1
<1>4. TypeOK' /\ JobInv' /\ TagInv'
  BY <1>2, <1>3 DEF Inv, TypeOK, JobInv, TagInv
<1>5. PodInv(pod)'
  BY <1>2, <1>3, PodFacts DEF PodInv, ScriptInv, AgentInv, Cloned
<1> QED
  BY <1>4, <1>5 DEF Inv

LEMMA EditModuleStep ==
    ASSUME Inv, EditModule
    PROVE  Inv'
<1>1. module' \in Module /\ UNCHANGED <<tip, tagged, tags, job, pod, pods>>
  BY DEF EditModule
<1> QED
  BY <1>1 DEF Inv, TypeOK, JobInv, TagInv, PodInv, ScriptInv, AgentInv, Cloned

----------------------------------------------------------------------------
LEMMA InvInit == Init => Inv
<1> SUFFICES ASSUME Init PROVE Inv
  OBVIOUS
<1>1. /\ tip = 1 /\ tagged = 0 /\ tags = {} /\ module \in Module /\ job = NoJob /\ pods = 0
      /\ pod = [NewPod("script") EXCEPT !.stage = "failed"]
      /\ MaxCommits \in Nat \ {0} /\ MaxPods \in Nat
  BY ConstantsAssumption DEF Init
<1>2. pod = [program |-> "script", stage |-> "failed", step |-> 1, module |-> module,
             dir |-> "start", head |-> 0, tag |-> 0, init |-> Empty,
             acted |-> Empty, since |-> 1]
  BY <1>1 DEF NewPod
<1>3. pod \in Pod
  <2>1. 1 \in 1 .. MaxCommits /\ 0 \in 0 .. MaxCommits
    BY <1>1
  <2>2. /\ pod.program = "script" /\ pod.stage = "failed" /\ pod.step \in 1 .. 6
        /\ pod.module \in Module /\ pod.dir \in Dirs /\ pod.head \in 0 .. MaxCommits
        /\ pod.init = Empty /\ pod.acted = Empty /\ pod.since \in 1 .. MaxCommits
        /\ pod.tag \in 0 .. MaxCommits
    BY <1>1, <1>2, <2>1 DEF Dirs
  <2> QED
    BY Zenon, <1>2, <2>2 DEF Pod
<1>4. /\ job.engine \in Engine /\ job.image = DefaultImage /\ job.workdir = "." /\ ~job.built
      /\ Image(job.engine) = DefaultImage
  BY <1>1 DEF NoJob, Engine, Image
<1>5. TypeOK /\ JobInv /\ TagInv
  BY <1>1, <1>3, <1>4, ConstantsAssumption DEF TypeOK, JobInv, TagInv
<1>6. PodInv(pod)
  BY <1>1, <1>2 DEF PodInv, ScriptInv, AgentInv, Cloned
<1> QED
  BY <1>5, <1>6 DEF Inv

LEMMA InvStep == Inv /\ [Next]_vars => Inv'
<1> SUFFICES ASSUME Inv, [Next]_vars PROVE Inv'
  OBVIOUS
<1>1. CASE BuildJob
  BY <1>1, BuildJobStep
<1>2. ASSUME NEW program \in {"script", "agent"}, StartPod(program) PROVE Inv'
  BY <1>2, StartPodStep
<1>3. CASE RunCommand
  BY <1>3, RunCommandStep
<1>4. CASE Push
  BY <1>4, PushStep
<1>5. CASE PushTag
  BY <1>5, PushTagStep
<1>6. CASE EditModule
  BY <1>6, EditModuleStep
<1>7. CASE UNCHANGED vars
  BY <1>7 DEF vars, Inv, TypeOK, JobInv, TagInv, PodInv, ScriptInv, AgentInv, Cloned
<1> QED
  BY <1>1, <1>2, <1>3, <1>4, <1>5, <1>6, <1>7 DEF Next

LEMMA Invariance == Spec => []Inv
BY InvInit, InvStep, PTL DEF Spec

\* Every variable keeps its type, and no pod works in its user's home: the
\* builder and the script's "cd" use "." where the module names no directory
\* (tofuexecution_controller.go:212-217).
THEOREM TypeCorrect == Spec => []TypeOK
<1>1. Inv => TypeOK
  BY DEF Inv
<1> QED
  BY <1>1, Invariance, PTL

\* Whatever commands fail: "plan" or "apply" is run only in a clone, in the
\* directory the Job was built for, after "init" there.
THEOREM NoUnpreparedAction == Spec => []ActionIsPrepared
<1>1. Inv => ActionIsPrepared
  <2> SUFFICES ASSUME Inv, pod.acted # Empty
               PROVE  pod.head # 0 /\ pod.init = job.workdir /\ pod.acted = job.workdir
    BY DEF ActionIsPrepared
  <2>1. PodInv(pod) /\ pod \in Pod /\ pod.since \in 1 .. MaxCommits /\ pod.head \in Nat
        /\ pod.program \in {"script", "agent"} /\ MaxCommits \in Nat
    BY PodFacts, PodFields
  <2>2. ScriptInv(pod) /\ pod.step = 6
    BY <2>1 DEF PodInv, AgentInv, ScriptInv
  <2> QED
    BY <2>1, <2>2 DEF ScriptInv, Cloned
<1> QED
  BY <1>1, Invariance, PTL

\* No plan and no apply by an engine, or in a version, that the execution did
\* not ask for.
THEOREM NoOtherEngine == Spec => []EngineAsAsked
<1>1. Inv => EngineAsAsked
  <2> SUFFICES ASSUME Inv, pod.acted # Empty
               PROVE  /\ job.image.engine = EngineName(job.engine)
                      /\ job.engine.version # Empty => job.image.version = job.engine.version
    BY DEF EngineAsAsked
  <2>1. PodInv(pod) /\ pod.program \in {"script", "agent"}
    BY PodFacts, PodFields
  <2>2. ScriptInv(pod) /\ pod.step = 6
    BY <2>1 DEF PodInv, AgentInv, ScriptInv
  <2>3. job.image = Image(job.engine)
    BY DEF Inv, JobInv
  <2> QED
    BY <2>2, <2>3 DEF ScriptInv, Image
<1> QED
  BY <1>1, Invariance, PTL

\* An agent that succeeds for a module with a tag worked on a commit that the
\* tag named and that was the tip since its pod started, however branch, tag
\* and module changed meanwhile.
THEOREM AgentTakesTheTag == Spec => []TagIsCheckedOut
<1>1. Inv => TagIsCheckedOut
  <2> SUFFICES ASSUME Inv, pod.stage = "succeeded", pod.program = "agent",
                      pod.module.version = Tag
               PROVE  pod.head \in tags /\ pod.since <= pod.head
    BY DEF TagIsCheckedOut
  <2>1. PodInv(pod)
    BY PodFacts
  <2> QED
    BY <2>1 DEF PodInv, AgentInv, Cloned
<1> QED
  BY <1>1, Invariance, PTL

=============================================================================

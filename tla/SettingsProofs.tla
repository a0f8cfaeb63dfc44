---------------------------- MODULE SettingsProofs ----------------------------
(***************************************************************************)
(* What holds of the settings for any number of files and any contents.    *)
(*                                                                         *)
(* The inductive invariant ties main to the mutex and to what is published *)
(* and, where the files are watched, says of everything read so far that   *)
(* it is still in its file or that a reload is due (or the change missed). *)
(***************************************************************************)
EXTENDS Settings, SequenceLemmas

\* The holder of the mutex has read no more than its files; Init attaches
\* watchers once it has read all of them and found them valid.
LockInv ==
    /\ main = "load" <=> mutex = Initialiser
    /\ mutex = Nobody => read = <<>>
    /\ mutex # Nobody => Len(read) <= Sources
    /\ attached # 0 => mutex = Initialiser /\ InitLoaded
    /\ 1 .. attached \subseteq watched

\* What is published comes from an Init that succeeded and led main on.
ReadyInv ==
    /\ ready <=> providers
    /\ ready <=> main \in {"loaded", "running"}
    /\ ready => Valid(cached)

Inv == TypeOK /\ LockInv /\ ReadyInv

\* Nothing that was read is out of date unnoticed.
ReadIsCurrent ==
    \A i \in 1 .. Len(read) : read[i] = files[i] \/ i \in pending \cup missed

CachedIsCurrent ==
    ready /\ mutex = Nobody /\ pending = {} /\ missed = {} /\ Loadable => cached = Hydrate(files)

CurrentInv ==
    /\ ready => watched = Files
    /\ ReadIsCurrent
    /\ CachedIsCurrent

----------------------------------------------------------------------------
(* hydrateSettings.                                                        *)

LEMMA Constants ==
    /\ N \in Nat \ {0} /\ N + 1 \notin 0 .. N
    /\ DefaultImage \in Images /\ Unset \notin Images
    /\ Contents \ {Malformed} \subseteq Content
    /\ Budget \in [Disturbances -> Nat]
<1>1. N \in Nat \ {0}
  BY ConstantsAssumption
<1>2. N + 1 \notin 0 .. N
  BY <1>1
<1> QED
  BY <1>1, <1>2, ConstantsAssumption

\* The last file that sets the image gives it.
LEMMA MergedImage == \A s \in Seq(Content) : Merged(s, "image") \in Images \cup {Unset}
<1> SUFFICES ASSUME NEW s \in Seq(Content) PROVE Merged(s, "image") \in Images \cup {Unset}
  OBVIOUS
<1> DEFINE setting == {i \in DOMAIN s : s[i]["image"] # Unset}
<1>1. DOMAIN s = 1 .. Len(s) /\ Len(s) \in Nat /\ \A i \in DOMAIN s : s[i] \in Content
  BY Elements
<1>2. CASE setting = {}
  BY <1>2 DEF Merged
<1>3. CASE setting # {}
  <2>1. setting \in SUBSET (1 .. Len(s))
    BY <1>1
  <2>2. \E i \in setting : \A j \in setting : j <= i
    <3> HIDE DEF setting
    <3> QED
      BY <1>1, <1>3, <2>1, Largest
  <2> DEFINE last == CHOOSE i \in setting : \A j \in setting : j <= i
  <2>3. last \in setting
    BY <2>2
  <2>4. Merged(s, "image") = s[last]["image"]
    BY <1>3 DEF Merged
  <2>5. s[last] \in Content
    BY <1>1, <2>3
  <2>6. s[last]["image"] \in Images \cup {Unset}
    BY <2>5 DEF Content
  <2> QED
    BY <2>4, <2>6
<1> QED
  BY <1>2, <1>3

LEMMA HydrateType == \A s \in Seq(Content) : Hydrate(s) \in Config
<1> SUFFICES ASSUME NEW s \in Seq(Content) PROVE Hydrate(s) \in Config
  OBVIOUS
<1> DEFINE image == IF Merged(s, "image") = Unset THEN DefaultImage ELSE Merged(s, "image")
           test == Merged(s, "test") = TRUE
<1>1. image \in Images \cup {Unset} /\ test \in BOOLEAN
  BY MergedImage, Constants
<1>2. Hydrate(s) = [image |-> image, test |-> test]
  BY DEF Hydrate
<1> HIDE DEF image, test
<1> QED
  BY <1>1, <1>2 DEF Config

\* A watcher that a failed Init left behind, which reads no file at all, does
\* not find what would pass.
LEMMA NothingIsInvalid == ~Valid(Hydrate(<<>>))
<1>1. Merged(<<>>, "test") = Unset
  BY DEF Merged
<1>2. Unset # TRUE
  BY ConstantsAssumption
<1>3. Hydrate(<<>>).test = FALSE
  BY <1>1, <1>2 DEF Hydrate
<1> QED
  BY <1>3 DEF Valid

\* What was read from every file and is still there is what the files are.
LEMMA ReadAll ==
    ASSUME TypeOK, Len(read) = N, \A i \in 1 .. Len(read) : read[i] = files[i]
    PROVE  read = files
<1>1. DOMAIN read = Files /\ read \in [Files -> Content]
  BY Elements DEF TypeOK, Files
<1>2. DOMAIN files = Files /\ files \in [Files -> Contents]
  BY DEF TypeOK
<1> QED
  BY <1>1, <1>2 DEF Files

----------------------------------------------------------------------------
(* Types.                                                                  *)

\* The sequence of what was read grows by a file that could be read.
LEMMA ReadFileType ==
    ASSUME Inv, ReadFile
    PROVE  /\ read' \in Seq(Content) /\ Len(read') = Len(read) + 1 /\ Len(read) < Sources
           /\ Len(read') <= N /\ Len(read') \in 1 .. N
           /\ read'[Len(read')] = files[Len(read')]
           /\ \A i \in 1 .. Len(read) : read'[i] = read[i]
<1>1. /\ Len(read) < Sources /\ read' = Append(read, files[Len(read) + 1])
      /\ files[Len(read) + 1] # Malformed
  BY DEF ReadFile
<1>2. read \in Seq(Content) /\ Len(read) \in Nat /\ N \in Nat
  BY Constants, Elements DEF Inv, TypeOK
<1>3. Len(read) + 1 \in 1 .. N
  BY <1>1, <1>2 DEF Sources
<1>4. files[Len(read) + 1] \in Content
  <2>1. files[Len(read) + 1] \in Contents
    BY <1>3 DEF Inv, TypeOK, Files
  <2> QED
    BY <1>1, <2>1, Constants
<1>5. /\ read' \in Seq(Content) /\ Len(read') = Len(read) + 1
      /\ read'[Len(read) + 1] = files[Len(read) + 1]
      /\ \A i \in 1 .. Len(read) : read'[i] = read[i]
  BY <1>1, <1>2, <1>4, Appended, Elements
<1> QED
  BY <1>1, <1>2, <1>3, <1>5

LEMMA SpendType ==
    ASSUME TypeOK, NEW d \in Disturbances, Spend(d)
    PROVE  left' \in [Disturbances -> Nat]
BY DEF TypeOK, Spend

LEMMA FailType ==
    ASSUME Inv, NEW stage \in Stages, Fail(stage)
    PROVE  /\ mutex' = Nobody /\ read' = <<>> /\ attached' = 0
           /\ UNCHANGED <<providers, ready, cached, watched, recorder>>
           /\ counted' \subseteq Stages /\ reported' \subseteq counted'
BY DEF Fail, RecordFailure, Unlock, Inv, TypeOK

LEMMA TypeStep == Inv /\ [Next]_vars => TypeOK'
<1> SUFFICES ASSUME Inv, [Next]_vars PROVE TypeOK'
  OBVIOUS
<1>1. TypeOK /\ <<>> \in Seq(Content) /\ Len(<<>>) = 0 /\ N \in Nat \ {0}
  BY Constants DEF Inv
<1> USE DEF loading, memory
<1>2. CASE StartInit
  BY <1>1, <1>2 DEF StartInit, TypeOK, Nobody, Initialiser
<1>3. CASE InitFails
  BY <1>1, <1>3, FailType DEF InitFails, TypeOK, Nobody, Stages
<1>4. CASE AttachWatcher
  <2>1. attached < N /\ UNCHANGED <<files, pending, missed>>
    BY <1>4 DEF AttachWatcher
  <2>2. CASE /\ attached' = attached + 1 /\ watched' = watched \cup {attached'}
             /\ UNCHANGED <<main, mutex, read, providers, ready, cached, recorder, counted, reported, left>>
    <3>1. attached' \in 1 .. N
      BY <1>1, <2>1, <2>2 DEF TypeOK
    <3> QED
      BY <1>1, <2>1, <2>2, <3>1 DEF TypeOK, Files
  <2>3. CASE Spend("watchError") /\ Fail("watch") /\ main' = "failed"
    BY <1>1, <2>1, <2>3, FailType, SpendType DEF TypeOK, Disturbances, Stages, Nobody
  <2> QED
    BY <1>4, <2>2, <2>3 DEF AttachWatcher
<1>5. CASE InitSucceeds
  BY <1>1, <1>5, HydrateType DEF InitSucceeds, TypeOK, Publish, Unlock, Nobody
<1>6. CASE StartManager
  BY <1>1, <1>6 DEF StartManager, TypeOK
<1>7. CASE CallInitAgain
  BY <1>1, <1>7 DEF CallInitAgain, TypeOK
<1>8. CASE ExitProcess
  <2>1. NoSettings \in Config
    BY DEF NoSettings, Config
  <2>2. left' \in [Disturbances -> Nat]
    <3>1. UNCHANGED left \/ Spend("crash")
      BY <1>8 DEF ExitProcess
    <3> QED
      BY <1>1, <3>1, SpendType DEF TypeOK, Disturbances
  <2>3. /\ main' = "start" /\ mutex' = 0 /\ read' = <<>> /\ attached' = 0
        /\ cached' = NoSettings /\ watched' = {} /\ pending' = {}
        /\ counted' = {} /\ reported' = {} /\ missed' = {} /\ files' = files
    BY <1>8 DEF ExitProcess, Unlock, Nobody
  <2>4. {providers, ready, recorder}' \subseteq BOOLEAN
    BY Zenon, <1>8 DEF ExitProcess
  <2> QED
    BY <1>1, <2>1, <2>2, <2>3, <2>4 DEF TypeOK
<1>9. CASE ReadFile
  BY <1>1, <1>9, ReadFileType DEF ReadFile, TypeOK
<1>10. CASE ReloadFails
  BY <1>1, <1>10, FailType DEF ReloadFails, TypeOK, Nobody, Stages
<1>11. CASE ReloadSucceeds
  BY <1>1, <1>11, HydrateType DEF ReloadSucceeds, TypeOK, Publish, Unlock, Nobody
<1>12. ASSUME NEW f \in Files, StartReload(f) PROVE TypeOK'
  BY <1>1, <1>12 DEF StartReload, TypeOK, Files
<1>13. ASSUME NEW f \in Files, NEW content \in Contents, EditFile(f, content) PROVE TypeOK'
  BY <1>1, <1>13, SpendType DEF EditFile, TypeOK, Disturbances
<1>14. CASE UNCHANGED vars
  BY <1>1, <1>14 DEF vars, TypeOK
<1> QED
  BY <1>2, <1>3, <1>4, <1>5, <1>6, <1>7, <1>8, <1>9, <1>10, <1>11, <1>12, <1>13, <1>14
  DEF Next

----------------------------------------------------------------------------
(* main, the mutex and what is published.                                  *)

LEMMA LockStep == Inv /\ [Next]_vars => LockInv'
<1> SUFFICES ASSUME Inv, [Next]_vars PROVE LockInv'
  OBVIOUS
<1>1. /\ TypeOK /\ LockInv /\ N \in Nat \ {0} /\ Len(<<>>) = 0
      /\ Nobody # Initialiser /\ Initialiser \notin Files /\ Nobody \notin Files
  BY Constants DEF Inv, Nobody, Initialiser, Files
<1> USE DEF loading, memory
<1>2. CASE StartInit
  BY <1>1, <1>2 DEF StartInit, LockInv, Sources, InitLoaded
<1>3. CASE InitFails
  BY <1>1, <1>3, FailType DEF InitFails, LockInv, Stages
<1>4. CASE AttachWatcher
  <2>1. main = "load" /\ mutex = Initialiser /\ InitLoaded /\ attached \in 0 .. N
    BY <1>1, <1>4 DEF AttachWatcher, InitLoaded, LockInv, TypeOK
  <2>2. CASE /\ attached' = attached + 1 /\ watched' = watched \cup {attached'}
             /\ UNCHANGED <<main, mutex, read, providers>>
    <3>1. 1 .. attached' = (1 .. attached) \cup {attached'}
      BY <1>1, <2>1, <2>2
    <3> QED
      BY <1>1, <2>1, <2>2, <3>1 DEF LockInv, Sources, InitLoaded
  <2>3. CASE Fail("watch") /\ main' = "failed"
    BY <1>1, <2>3, FailType DEF LockInv, Stages
  <2> QED
    BY <1>4, <2>2, <2>3 DEF AttachWatcher
<1>5. CASE InitSucceeds
  BY <1>1, <1>5 DEF InitSucceeds, LockInv, Unlock
<1>6. CASE StartManager
  BY <1>1, <1>6 DEF StartManager, LockInv, Sources, InitLoaded
<1>7. CASE CallInitAgain
  BY <1>1, <1>7 DEF CallInitAgain, LockInv, Sources, InitLoaded
<1>8. CASE ExitProcess
  BY <1>1, <1>8 DEF ExitProcess, LockInv, Unlock
<1>9. CASE ReadFile
  BY <1>1, <1>9, ReadFileType DEF ReadFile, LockInv, Sources
<1>10. CASE ReloadFails
  BY <1>1, <1>10, FailType DEF ReloadFails, LockInv, Reloading, Stages
<1>11. CASE ReloadSucceeds
  BY <1>1, <1>11 DEF ReloadSucceeds, LockInv, Reloading, Unlock
<1>12. ASSUME NEW f \in Files, StartReload(f) PROVE LockInv'
  BY <1>1, <1>12 DEF StartReload, LockInv, Sources
<1>13. ASSUME NEW f \in Files, NEW content \in Contents, EditFile(f, content) PROVE LockInv'
  BY <1>1, <1>13 DEF EditFile, LockInv, Sources, InitLoaded
<1>14. CASE UNCHANGED vars
  BY <1>1, <1>14 DEF vars, LockInv, Sources, InitLoaded
<1> QED
  BY <1>2, <1>3, <1>4, <1>5, <1>6, <1>7, <1>8, <1>9, <1>10, <1>11, <1>12, <1>13, <1>14
  DEF Next

LEMMA ReadyStep == Inv /\ [Next]_vars => ReadyInv'
<1> SUFFICES ASSUME Inv, [Next]_vars PROVE ReadyInv'
  OBVIOUS
<1>1. /\ TypeOK /\ LockInv /\ ReadyInv /\ N \in Nat \ {0}
      /\ Nobody # Initialiser /\ Initialiser \notin Files /\ Nobody \notin Files
  BY Constants DEF Inv, Nobody, Initialiser, Files
<1> USE DEF loading, memory
<1>2. CASE StartInit
  BY <1>1, <1>2 DEF StartInit, ReadyInv
<1>3. CASE InitFails
  BY <1>1, <1>3, FailType DEF InitFails, ReadyInv, Stages
<1>4. CASE AttachWatcher
  <2>1. CASE UNCHANGED <<main, providers, ready, cached>>
    BY <1>1, <2>1 DEF ReadyInv
  <2>2. CASE Fail("watch") /\ main' = "failed"
    BY <1>1, <1>4, <2>2, FailType DEF AttachWatcher, InitLoaded, ReadyInv, Stages
  <2> QED
    BY <1>4, <2>1, <2>2 DEF AttachWatcher
<1>5. CASE InitSucceeds
  BY <1>1, <1>5 DEF InitSucceeds, InitLoaded, ReadyInv, Publish
<1>6. CASE StartManager
  BY <1>1, <1>6 DEF StartManager, ReadyInv
<1>7. CASE CallInitAgain
  BY <1>1, <1>7 DEF CallInitAgain, ReadyInv
<1>8. CASE ExitProcess
  BY <1>1, <1>8 DEF ExitProcess, ReadyInv
<1>9. CASE ReadFile
  BY <1>1, <1>9 DEF ReadFile, ReadyInv
<1>10. CASE ReloadFails
  BY <1>1, <1>10, FailType DEF ReloadFails, ReadyInv, Stages
<1>11. CASE ReloadSucceeds
  <2>1. mutex \in Files /\ Len(read) = Sources /\ Valid(Hydrate(read))
    BY <1>11 DEF ReloadSucceeds, Reloading
  <2>2. providers
    <3> SUFFICES ASSUME ~providers PROVE FALSE
      OBVIOUS
    <3>1. Len(read) = 0
      BY <1>1, <2>1 DEF Sources
    <3>2. read = <<>>
      BY <3>1, EmptySeq DEF TypeOK
    <3> QED
      BY <2>1, <3>2, NothingIsInvalid
  <2> QED
    BY <1>1, <1>11, <2>1, <2>2 DEF ReloadSucceeds, ReadyInv, Publish
<1>12. ASSUME NEW f \in Files, StartReload(f) PROVE ReadyInv'
  BY <1>1, <1>12 DEF StartReload, ReadyInv
<1>13. ASSUME NEW f \in Files, NEW content \in Contents, EditFile(f, content) PROVE ReadyInv'
  BY <1>1, <1>13 DEF EditFile, ReadyInv
<1>14. CASE UNCHANGED vars
  BY <1>1, <1>14 DEF vars, ReadyInv
<1> QED
  BY <1>2, <1>3, <1>4, <1>5, <1>6, <1>7, <1>8, <1>9, <1>10, <1>11, <1>12, <1>13, <1>14
  DEF Next

LEMMA InvInit == Init => Inv
<1> SUFFICES ASSUME Init PROVE Inv
  OBVIOUS
<1>1. /\ <<>> \in Seq(Content) /\ Len(<<>>) = 0 /\ N \in Nat \ {0}
      /\ Budget \in [Disturbances -> Nat]
  BY Constants
<1>2. {providers, ready, recorder} \subseteq BOOLEAN
  BY Zenon DEF Init
<1>3. NoSettings \in Config
  BY DEF NoSettings, Config
<1>4. TypeOK
  BY <1>1, <1>2, <1>3 DEF Init, TypeOK, Nobody
<1>5. LockInv /\ ReadyInv
  BY <1>1 DEF Init, LockInv, ReadyInv, Nobody, Initialiser
<1> QED
  BY <1>4, <1>5 DEF Inv

LEMMA InvStep == Inv /\ [Next]_vars => Inv'
BY TypeStep, LockStep, ReadyStep DEF Inv

LEMMA Invariance == Spec => []Inv
BY InvInit, InvStep, PTL DEF Spec

\* Every variable keeps its type; events come from watched files only, and
\* every failure that is reported is counted.
THEOREM TypeCorrect == Spec => []TypeOK
<1>1. Inv => TypeOK
  BY DEF Inv
<1> QED
  BY <1>1, Invariance, PTL

\* However many watchers failed Inits have left behind, nothing is published
\* before an Init succeeds.
THEOREM NothingBeforeInit == Spec => []ReadyMeansInitialised
<1>1. Inv => ReadyMeansInitialised
  BY DEF Inv, ReadyInv, ReadyMeansInitialised
<1> QED
  BY <1>1, Invariance, PTL

\* Whenever the controllers run there are valid settings for them, whichever
\* reloads fail.
THEOREM AlwaysSettings == Spec => []ControllersHaveSettings
<1>1. Inv => ControllersHaveSettings
  BY DEF Inv, ReadyInv, ControllersHaveSettings
<1> QED
  BY <1>1, Invariance, PTL

----------------------------------------------------------------------------
(* With --watch-config nothing lags behind the files.                      *)

\* A step that leaves files and what was read alone, and forgets no event.
LEMMA ReadKept ==
    ASSUME ReadIsCurrent, UNCHANGED <<files, read>>,
           pending \subseteq pending', missed \subseteq missed'
    PROVE  ReadIsCurrent'
BY DEF ReadIsCurrent

\* A load that fails with no change to come has found the files invalid.
LEMMA FailedLoad ==
    ASSUME Inv, ReadIsCurrent, mutex # Nobody, Sources = N, LoadFails, Loadable
    PROVE  pending \cup missed # {}
<1>1. Len(read) \in Nat /\ Len(read) <= N /\ N \in Nat
  BY Elements, Constants DEF Inv, TypeOK
<1>2. ASSUME Len(read) < N, files[Len(read) + 1] = Malformed PROVE FALSE
  <2>1. Len(read) + 1 \in Files
    BY <1>1, <1>2 DEF Files
  <2> QED
    BY <1>2, <2>1 DEF Loadable
<1>3. ASSUME Len(read) = N, ~Valid(Hydrate(read)), pending \cup missed = {} PROVE FALSE
  <2>1. read = files
    BY <1>3, ReadAll DEF Inv, ReadIsCurrent
  <2> QED
    BY <1>3, <2>1 DEF Loadable
<1> QED
  BY <1>2, <1>3 DEF LoadFails

LEMMA CurrentStep ==
    ASSUME WatchConfig, Inv, CurrentInv, [Next]_vars
    PROVE  CurrentInv'
<1>1. /\ TypeOK /\ LockInv /\ ReadyInv /\ N \in Nat \ {0} /\ Len(<<>>) = 0
      /\ 1 .. Len(<<>>) = {} /\ Nobody # Initialiser
      /\ Initialiser \notin Files /\ Nobody \notin Files
      /\ ReadIsCurrent /\ CachedIsCurrent /\ (ready => watched = Files)
  BY Constants DEF Inv, Nobody, Initialiser, Files, CurrentInv
<1> USE DEF loading, memory
<1>2. CASE StartInit
  BY <1>1, <1>2 DEF StartInit, CurrentInv, ReadIsCurrent, CachedIsCurrent, LockInv, ReadyInv
<1>3. CASE InitFails
  BY <1>1, <1>3, FailType
  DEF InitFails, CurrentInv, ReadIsCurrent, CachedIsCurrent, LockInv, ReadyInv, Stages
<1>4. CASE AttachWatcher
  <2>1. main = "load" /\ ~ready /\ UNCHANGED <<files, pending, missed>>
    BY <1>1, <1>4 DEF AttachWatcher, InitLoaded, ReadyInv
  <2>2. CASE UNCHANGED <<main, mutex, read, providers, ready, cached>>
    BY <1>1, <2>1, <2>2, ReadKept DEF CurrentInv, CachedIsCurrent
  <2>3. CASE Fail("watch")
    BY <1>1, <2>1, <2>3, FailType DEF CurrentInv, ReadIsCurrent, CachedIsCurrent, Stages
  <2> QED
    BY <1>4, <2>2, <2>3 DEF AttachWatcher
<1>5. CASE InitSucceeds
  <2>1. /\ InitLoaded /\ attached = N /\ cached' = Hydrate(read) /\ read' = <<>>
        /\ UNCHANGED <<files, watched, pending, missed>>
    BY <1>5 DEF InitSucceeds, Publish, Unlock
  <2>2. watched = Files
    BY <1>1, <2>1 DEF LockInv, TypeOK, Files
  <2>3. pending = {} /\ missed = {} => read = files
    BY <1>1, <2>1, ReadAll DEF ReadIsCurrent, InitLoaded
  <2>4. ReadIsCurrent' /\ CachedIsCurrent'
    BY <1>1, <2>1, <2>3 DEF ReadIsCurrent, CachedIsCurrent
  <2> QED
    BY <2>1, <2>2, <2>4 DEF CurrentInv
<1>6. CASE StartManager
  BY <1>1, <1>6 DEF StartManager, CurrentInv, ReadIsCurrent, CachedIsCurrent, Loadable
<1>7. CASE CallInitAgain
  BY <1>1, <1>7 DEF CallInitAgain, CurrentInv, ReadIsCurrent, CachedIsCurrent, Loadable
<1>8. CASE ExitProcess
  BY <1>1, <1>8 DEF ExitProcess, CurrentInv, ReadIsCurrent, CachedIsCurrent, Unlock
<1>9. CASE ReadFile
  <2>1. mutex # Nobody /\ UNCHANGED <<files, mutex, memory, pending, missed>>
    BY <1>9 DEF ReadFile
  <2>2. /\ Len(read') = Len(read) + 1 /\ read'[Len(read')] = files[Len(read')]
        /\ \A i \in 1 .. Len(read) : read'[i] = read[i]
        /\ Len(read) \in Nat
    BY <1>1, <1>9, ReadFileType, Elements DEF TypeOK
  <2>3. ReadIsCurrent'
    <3> SUFFICES ASSUME NEW i \in 1 .. Len(read')
                 PROVE  read'[i] = files[i] \/ i \in pending \cup missed
      BY <2>1 DEF ReadIsCurrent
    <3>1. i \in 1 .. Len(read) \/ i = Len(read')
      BY <2>2
    <3> QED
      BY <1>1, <2>2, <3>1 DEF ReadIsCurrent
  <2> QED
    BY <1>1, <2>1, <2>3 DEF CurrentInv, CachedIsCurrent
<1>10. CASE ReloadFails
  <2>1. /\ mutex \in Files /\ LoadFails /\ read' = <<>>
        /\ UNCHANGED <<files, ready, cached, watched, pending, missed>>
    BY <1>1, <1>10, FailType DEF ReloadFails, Reloading, Stages
  <2>2. ready => Sources = N
    BY <1>1, <2>1 DEF ReadyInv, Sources
  <2>3. ready /\ Loadable => pending \cup missed # {}
    BY <1>1, <2>1, <2>2, FailedLoad DEF Inv
  <2>4. ReadIsCurrent' /\ CachedIsCurrent'
    BY <1>1, <2>1, <2>3 DEF ReadIsCurrent, CachedIsCurrent, Loadable
  <2> QED
    BY <1>1, <2>1, <2>4 DEF CurrentInv
<1>11. CASE ReloadSucceeds
  <2>1. /\ mutex \in Files /\ Len(read) = Sources /\ read' = <<>> /\ cached' = Hydrate(read)
        /\ Valid(Hydrate(read)) /\ UNCHANGED <<files, providers, watched, pending, missed>>
    BY <1>11 DEF ReloadSucceeds, Reloading, Publish, Unlock
  <2>2. providers /\ ready
    <3>1. ready'
      BY <1>11 DEF ReloadSucceeds, Publish
    <3>2. ReadyInv'
      BY ReadyStep
    <3> QED
      BY <1>1, <2>1, <3>1, <3>2 DEF ReadyInv
  <2>3. pending = {} /\ missed = {} => read = files
    BY <1>1, <2>1, <2>2, ReadAll DEF ReadIsCurrent, Sources
  <2>4. ReadIsCurrent' /\ CachedIsCurrent'
    BY <1>1, <2>1, <2>3 DEF ReadIsCurrent, CachedIsCurrent
  <2> QED
    BY <1>1, <2>1, <2>2, <2>4 DEF CurrentInv
<1>12. ASSUME NEW f \in Files, StartReload(f) PROVE CurrentInv'
  BY <1>1, <1>12 DEF StartReload, CurrentInv, ReadIsCurrent, CachedIsCurrent, LockInv
<1>13. ASSUME NEW f \in Files, NEW content \in Contents, EditFile(f, content) PROVE CurrentInv'
  <2> \A g \in Files : g # f => files'[g] = files[g]
    BY <1>1, <1>13 DEF EditFile, TypeOK
  <2>1. /\ pending \subseteq pending' /\ missed \subseteq missed'
        /\ f \in watched => f \in pending'
        /\ main = "load" /\ f \notin watched /\ f <= Len(read) => f \in missed'
        /\ UNCHANGED <<main, loading, memory>>
    BY <1>1, <1>13 DEF EditFile, TypeOK
  <2>2. Len(read) \in Nat /\ Len(read) <= N /\ f \in 1 .. N
    BY <1>1, Elements DEF TypeOK, Files
  <2>3. ready \/ mutex = Initialiser \/ Len(read) = 0
    BY <1>1, <2>2 DEF LockInv, ReadyInv, Sources
  <2>4. ASSUME NEW i \in 1 .. Len(read)
        PROVE  read[i] = files'[i] \/ i \in pending' \cup missed'
    <3>1. CASE i = f
      BY <1>1, <2>1, <2>2, <2>3, <3>1 DEF LockInv
    <3>2. CASE i # f
      <4>1. i \in Files
        BY <1>1, <2>2 DEF Files
      <4>2. files'[i] = files[i]
        BY <3>2, <4>1
      <4>3. read[i] = files[i] \/ i \in pending \cup missed
        BY <1>1, <2>4 DEF ReadIsCurrent
      <4> QED
        BY <2>1, <4>2, <4>3
    <3> QED
      BY <3>1, <3>2
  <2>5. ready => f \in pending'
    BY <1>1, <2>1
  <2> QED
    BY <1>1, <2>1, <2>4, <2>5 DEF CurrentInv, ReadIsCurrent, CachedIsCurrent
<1>14. CASE UNCHANGED vars
  BY <1>1, <1>14 DEF vars, CurrentInv, ReadIsCurrent, CachedIsCurrent, Loadable
<1> QED
  BY <1>2, <1>3, <1>4, <1>5, <1>6, <1>7, <1>8, <1>9, <1>10, <1>11, <1>12, <1>13, <1>14
  DEF Next

\* With the files watched, when no reload is running or due the manager has
\* the settings that the files give, unless these are invalid or one of them
\* changed between its read by Init and its watch.
THEOREM NothingLags == ASSUME WatchConfig PROVE Spec => []SettledIsCurrent
<1>1. Init => CurrentInv
  BY Constants DEF Init, CurrentInv, ReadIsCurrent, CachedIsCurrent
<1>2. Inv /\ CurrentInv /\ [Next]_vars => CurrentInv'
  BY CurrentStep
<1>3. Inv /\ CurrentInv => SettledIsCurrent
  BY DEF Inv, ReadyInv, CurrentInv, CachedIsCurrent, SettledIsCurrent, Settled
<1> QED
  BY <1>1, <1>2, <1>3, Invariance, PTL DEF Spec

===============================================================================

------------------------------ MODULE Settings ------------------------------
(***************************************************************************)
(* The settings of the manager (internal/settings): Init reads the         *)
(* configuration files, attaches a watcher to each and publishes the       *)
(* result; each watcher reloads all files when its file changes.  Readers  *)
(* take the published snapshot under the same mutex.                       *)
(*                                                                         *)
(* The mutex serialises Init and the reloads but not the writers of the    *)
(* files, so every file is read in a step of its own.  The files are       *)
(* numbered in the order in which they are merged.                         *)
(***************************************************************************)
EXTENDS Naturals, Sequences

CONSTANTS
    N,              \* number of configuration files
    Images,         \* values of execution.defaultImage
    DefaultImage,   \* ... and its default
    Unset,          \* a key that a file does not have
    Contents,       \* what the files may contain
    Malformed,      \* a file that cannot be read or parsed
    WatchConfig,    \* --watch-config
    InPod,          \* are POD_NAME and POD_NAMESPACE set?
    Budget          \* how often each disturbance may still happen

Files == 1 .. N
Stages == {"init", "watch", "reload"}
Disturbances == {"edit", "watchError", "crash"}

\* The part of a file that SoyplaneSettings reads.
Content == [image: Images \cup {Unset}, test: {TRUE, FALSE, Unset}]

ASSUME ConstantsAssumption ==
    /\ N \in Nat \ {0}
    /\ DefaultImage \in Images
    /\ Unset \notin Images \cup BOOLEAN
    /\ Malformed \notin Content
    /\ Contents \subseteq Content \cup {Malformed}
    /\ {WatchConfig, InPod} \subseteq BOOLEAN
    /\ Budget \in [Disturbances -> Nat]

VARIABLES
    files,          \* the configuration files
    main,           \* where main is
    mutex,          \* who holds mu: nobody (0), Init (N + 1), or a file's watcher
    read,           \* contents read so far by the holder
    attached,       \* watchers attached so far by Init
    providers,      \* has an Init succeeded (providers is not nil)?
    ready,          \* settingsReady
    cached,         \* the published settings
    watched,        \* files with a watcher
    pending,        \* files whose watcher has an event to handle
    counted,        \* stages with a failure in reloadFailures
    recorder,       \* has ConfigureEvents been called?
    reported,       \* stages for which an event was emitted
    missed,         \* files changed after Init read them, before it watched them
    left            \* disturbances left

memory == <<providers, ready, cached, watched, recorder, counted, reported>>
loading == <<mutex, read, attached>>
vars == <<files, main, loading, memory, pending, missed, left>>

Nobody == 0
Initialiser == N + 1

Spend(d) == left[d] > 0 /\ left' = [left EXCEPT ![d] = @ - 1]

----------------------------------------------------------------------------
(* hydrateSettings                                                         *)

\* Later files override earlier ones, key by key.
Merged(contents, key) ==
    LET setting == {i \in DOMAIN contents : contents[i][key] # Unset}
    IN  IF setting = {} THEN Unset
        ELSE contents[CHOOSE i \in setting : \A j \in setting : j <= i][key]

\* Unmarshal leaves a missing test FALSE, SetDefaults fills in the image.
Hydrate(contents) ==
    LET image == Merged(contents, "image")
    IN  [image |-> IF image = Unset THEN DefaultImage ELSE image,
         test |-> Merged(contents, "test") = TRUE]

\* The zero SoyplaneSettings, before anything is published.
NoSettings == [image |-> Unset, test |-> FALSE]

\* Fault: nothing is required.
AlwaysValid(cfg) == cfg.image # Unset

\* A required boolean must be TRUE.
Valid(cfg) == cfg.test /\ cfg.image # Unset

----------------------------------------------------------------------------
(* Loading, with the mutex held.                                           *)

Publish(cfg) == ready' = TRUE /\ cached' = cfg

\* Fault: the failure is not counted.
EventOnly(stage) ==
    /\ UNCHANGED counted
    /\ reported' = IF recorder /\ InPod THEN reported \cup {stage} ELSE reported

\* The load fails: the failure is counted, and reported once ConfigureEvents
\* has given a recorder and an object to report on.
RecordFailure(stage) ==
    /\ counted' = counted \cup {stage}
    /\ reported' = IF recorder /\ InPod THEN reported \cup {stage} ELSE reported

Unlock == mutex' = Nobody /\ read' = <<>> /\ attached' = 0

\* Fault: the settings were stored before they were validated.
FailStores(stage) ==
    /\ RecordFailure(stage)
    /\ Unlock
    /\ cached' = Hydrate(read)
    /\ UNCHANGED <<providers, ready, watched, recorder>>

Fail(stage) ==
    /\ RecordFailure(stage)
    /\ Unlock
    /\ UNCHANGED <<providers, ready, cached, watched, recorder>>

\* Fault: a reload misses the last file.
SourcesButLast == IF mutex = Initialiser THEN N ELSE IF providers THEN N - 1 ELSE 0

\* How many files the holder of the mutex reads: Init those it was given, a
\* reload those of the Init that succeeded.
Sources == IF mutex = Initialiser \/ providers THEN N ELSE 0

\* loadProviders reads the next file.
ReadFile ==
    /\ mutex # Nobody /\ attached = 0
    /\ Len(read) < Sources
    /\ files[Len(read) + 1] # Malformed
    /\ read' = Append(read, files[Len(read) + 1])
    /\ UNCHANGED <<files, main, mutex, attached, memory, pending, missed, left>>

\* A file cannot be loaded, or the merged settings are invalid.
LoadFails ==
    \/ Len(read) < Sources /\ files[Len(read) + 1] = Malformed
    \/ Len(read) = Sources /\ ~Valid(Hydrate(read))

----------------------------------------------------------------------------
(* main: Init, ConfigureEvents, Start.                                     *)

StartInit ==
    /\ main = "start" /\ mutex = Nobody
    /\ IF ready THEN main' = "loaded" /\ UNCHANGED mutex
       ELSE main' = "load" /\ mutex' = Initialiser
    /\ missed' = {}
    /\ UNCHANGED <<files, read, attached, memory, pending, left>>

InitFails ==
    /\ main = "load" /\ attached = 0
    /\ LoadFails
    /\ Fail("init")
    /\ main' = "failed"
    /\ UNCHANGED <<files, pending, missed, left>>

InitLoaded == main = "load" /\ Len(read) = N /\ Valid(Hydrate(read))

\* Watchers are attached in the order of the files; an error leaves those
\* attached before it in place.
AttachWatcher ==
    /\ WatchConfig /\ InitLoaded /\ attached < N
    /\ \/ /\ attached' = attached + 1
          /\ watched' = watched \cup {attached'}
          /\ UNCHANGED <<main, mutex, read, providers, ready, cached, recorder, counted, reported, left>>
       \/ /\ Spend("watchError")
          /\ Fail("watch")
          /\ main' = "failed"
    /\ UNCHANGED <<files, pending, missed>>

InitSucceeds ==
    /\ InitLoaded
    /\ WatchConfig => attached = N
    /\ Publish(Hydrate(read))
    /\ providers' = TRUE
    /\ Unlock
    /\ main' = "loaded"
    /\ UNCHANGED <<files, watched, recorder, counted, reported, pending, missed, left>>

\* ConfigureEvents, then the controllers are started.
StartManager ==
    /\ main = "loaded"
    /\ recorder' = TRUE
    /\ main' = "running"
    /\ UNCHANGED <<files, loading, providers, ready, cached, watched, counted, reported, pending, missed, left>>

\* After a failed Init the package may be initialised again ...
CallInitAgain ==
    /\ main = "failed"
    /\ main' = "start"
    /\ UNCHANGED <<files, loading, memory, pending, missed, left>>

\* ... but main exits.  The process ends, by os.Exit or by a crash, and is
\* started again.
ExitProcess ==
    /\ \/ main = "failed" /\ UNCHANGED left
       \/ Spend("crash")
    /\ main' = "start"
    /\ Unlock
    /\ providers' = FALSE /\ ready' = FALSE /\ cached' = NoSettings
    /\ watched' = {} /\ pending' = {}
    /\ recorder' = FALSE /\ counted' = {} /\ reported' = {} /\ missed' = {}
    /\ UNCHANGED files

----------------------------------------------------------------------------
(* Watchers.                                                               *)

\* A watcher handles an event: its callback calls Load, which waits for mu.
StartReload(f) ==
    /\ f \in pending /\ mutex = Nobody
    /\ pending' = pending \ {f}
    /\ mutex' = f
    /\ missed' = {}
    /\ UNCHANGED <<files, main, read, attached, memory, left>>

Reloading == mutex \in Files

ReloadFails ==
    /\ Reloading
    /\ LoadFails
    /\ Fail("reload")
    /\ UNCHANGED <<files, main, pending, missed, left>>

ReloadSucceeds ==
    /\ Reloading
    /\ Len(read) = Sources /\ Valid(Hydrate(read))
    /\ Publish(Hydrate(read))
    /\ Unlock
    /\ UNCHANGED <<files, main, providers, watched, recorder, counted, reported, pending, missed, left>>

\* A file changes; its watcher, if it has one, gets an event.
EditFile(f, content) ==
    /\ content # files[f]
    /\ Spend("edit")
    /\ files' = [files EXCEPT ![f] = content]
    /\ pending' = IF f \in watched THEN pending \cup {f} ELSE pending
    /\ missed' = IF main = "load" /\ f \notin watched /\ f <= Len(read) THEN missed \cup {f} ELSE missed
    /\ UNCHANGED <<main, loading, memory>>

----------------------------------------------------------------------------
Init ==
    /\ files \in [Files -> Contents]
    /\ main = "start"
    /\ mutex = Nobody /\ read = <<>> /\ attached = 0
    /\ providers = FALSE /\ ready = FALSE /\ cached = NoSettings
    /\ watched = {} /\ pending = {}
    /\ recorder = FALSE /\ counted = {} /\ reported = {} /\ missed = {}
    /\ left = Budget

Next ==
    \/ StartInit
    \/ InitFails
    \/ AttachWatcher
    \/ InitSucceeds
    \/ StartManager
    \/ CallInitAgain
    \/ ExitProcess
    \/ ReadFile
    \/ ReloadFails
    \/ ReloadSucceeds
    \/ \E f \in Files : StartReload(f) \/ \E content \in Contents : EditFile(f, content)

Spec == Init /\ [][Next]_vars

\* Goroutines that are not blocked go on, and mu is handed to every goroutine
\* that keeps waiting for it.
Fairness ==
    /\ WF_vars(ReadFile \/ ReloadFails \/ ReloadSucceeds \/ InitFails \/ InitSucceeds)
    /\ WF_vars(AttachWatcher)
    /\ SF_vars(StartInit)
    /\ WF_vars(StartManager)
    /\ WF_vars(CallInitAgain \/ (main = "failed" /\ ExitProcess))
    /\ \A f \in Files : SF_vars(StartReload(f))

LiveSpec == Spec /\ Fairness

----------------------------------------------------------------------------
(* Properties.                                                             *)

Config == [image: Images \cup {Unset}, test: BOOLEAN]

\* Types; a watcher's event comes from a watched file, and whatever is emitted
\* as an event is also counted (metrics.go:28-31).
TypeOK ==
    /\ files \in [Files -> Contents]
    /\ main \in {"start", "load", "failed", "loaded", "running"}
    /\ mutex \in 0 .. N + 1
    /\ read \in Seq(Content) /\ Len(read) <= N
    /\ attached \in 0 .. N
    /\ {providers, ready, recorder} \subseteq BOOLEAN
    /\ cached \in Config
    /\ watched \subseteq Files
    /\ pending \subseteq watched
    /\ counted \subseteq Stages
    /\ reported \subseteq counted
    /\ missed \subseteq Files
    /\ left \in [Disturbances -> Nat]

\* Settings are ready only when an Init has succeeded: the watchers that a
\* failed Init leaves behind, which reload from no files at all, never publish
\* the bare defaults (config.go:66-76, 89-104).
ReadyMeansInitialised == ready => providers

\* The controllers never see settings that are not loaded or not valid, in
\* spite of reloads that fail at any point (main.go:220-284, config.go:93-104).
ControllersHaveSettings ==
    /\ main \in {"loaded", "running"} => ready
    /\ ready => Valid(cached)

Settled == mutex = Nobody /\ pending = {} /\ main = "running"

Loadable == Malformed \notin {files[f] : f \in Files} /\ Valid(Hydrate(files))

\* Nothing in memory lags behind the files: when no reload is running or due,
\* the manager has the settings that the files give, if these are valid and
\* no file changed between its read by Init and its watch: nothing is read
\* again when the watches are in place (config.go:60-67).
SettledIsCurrent == Settled /\ Loadable /\ missed = {} => cached = Hydrate(files)

\* Once the files are left alone, and are valid, the manager comes up and gets
\* their settings: no reload waits for ever for mu.
EventuallyCurrent ==
    <>[](Loadable => main = "running" /\ (missed = {} => cached = Hydrate(files)))

=============================================================================

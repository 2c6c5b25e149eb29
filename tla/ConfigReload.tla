---------------------------- MODULE ConfigReload ---------------------------
(***************************************************************************)
(* serveApp as a whole: the watcher of ConfigWatch calls the onChange of   *)
(* ServerLifecycle.  The goroutine of serveApp makes the first call without*)
(* mu, right after it has started the watcher (config.go:543-578); a       *)
(* callback makes its calls with mu held, and holds it until onChange      *)
(* returns.                                                                *)
(***************************************************************************)
EXTENDS Integers, Sequences, FiniteSets

CONSTANTS
    Files, MainFile, Texts, Absent, Includes, Callbacks, NoOne, MaxEdits, EditDuring,
    Main,            \* the goroutine of serveApp
    BadTexts,        \* texts that make the config invalid
    OtherPort,       \* texts that, in the main file, name another port
    MaxApps, MaxChanges,
    MaxRoughEdits    \* bound on edits once one has fallen into a reload

ASSUME FilesAssumption == MainFile \in Files /\ Absent \notin Texts
ASSUME TextsAssumption ==
    Includes \subseteq Texts /\ BadTexts \subseteq Texts /\ OtherPort \subseteq Texts
ASSUME NamesAssumption == NoOne \notin Callbacks /\ Main \notin Callbacks
ASSUME BoundsAssumption ==
    /\ MaxEdits \in Nat /\ MaxRoughEdits \in Nat /\ MaxApps \in Nat /\ MaxChanges \in Nat
    /\ EditDuring \subseteq {"startup", "callback"}

VARIABLES
    disk, watched, events, startup, watcherAt, timer, mu, cb, parsed, lastContents,
    lastIncludes, edits, everAbsent,
    process, exitClosed, hadValid, at, change, changes, built, config, mine, server,
    closed, stopServer,
    pace             \* the busiest moment an edit has fallen into so far: "quiet",
                     \* "pending" (events or the timer still to come), "reload"

watchVars == <<disk, watched, events, startup, watcherAt, timer, mu, cb, parsed,
               lastContents, lastIncludes, edits, everAbsent>>

serverVars == <<process, exitClosed, hadValid, at, change, changes, built, config, mine,
                server, closed, stopServer>>

vars == <<watchVars, serverVars, pace>>

Watch == INSTANCE ConfigWatch

\* The config is valid if every text that takes part is; the port is in the
\* main file.
Composed == [Files -> Texts \cup {Absent}]

Valid == {c \in Composed : c[MainFile] # Absent /\ \A f \in Files : c[f] \notin BadTexts}

Port == [c \in Composed |-> IF c[MainFile] \in OtherPort THEN 2 ELSE 1]

Server == INSTANCE ServerLifecycle
    WITH Contents <- Composed, ValidContents <- Valid, PortOf <- Port, Patient <- FALSE

Init == Watch!Init /\ Server!Init /\ pace = "quiet"

TypeOK == Watch!TypeOK /\ Server!TypeOK /\ pace \in {"quiet", "pending", "reload"}

-----------------------------------------------------------------------------
AtRest == startup = "done" /\ ~Watch!CallbackRunning /\ Server!Settled

Edit ==
    /\ Watch!EditAction
    /\ pace' = IF pace = "reload" \/ ~AtRest THEN "reload"
               ELSE IF pace = "pending" \/ ~Watch!Quiet THEN "pending" ELSE "quiet"
    /\ pace' = "reload" => edits < MaxRoughEdits
    /\ UNCHANGED serverVars

StartWatching ==
    /\ Watch!StartWatching /\ Server!BeginChange(Main, lastContents)
    /\ UNCHANGED pace

Build(r) == Server!Accept(r) /\ UNCHANGED <<watchVars, pace>>

\* onChange returns: to serveApp, which waits for exitChannel, or to the
\* callback, which unlocks mu.
FirstChangeReturns ==
    /\ Server!Reject(Main) \/ Server!Replace(Main)
    /\ Watch!FirstChangeReturns
    /\ UNCHANGED pace

Change(b) == Watch!Change(b) /\ Server!BeginChange(b, parsed[b]) /\ UNCHANGED pace

ChangeReturns(b) ==
    /\ Server!Reject(b) \/ Server!Replace(b)
    /\ Watch!ChangeReturns(b)
    /\ UNCHANGED pace

WatcherStep == Watch!WatcherStep /\ UNCHANGED <<serverVars, pace>>

Fire == (\E b \in Callbacks : Watch!Fire(b)) /\ UNCHANGED <<serverVars, pace>>

ReadFiles(b) == Watch!ReadFiles(b) /\ UNCHANGED <<serverVars, pace>>

Skip(b) == Watch!Skip(b) /\ UNCHANGED <<serverVars, pace>>

StarterStep(a) == Server!StarterStep(a) /\ UNCHANGED <<watchVars, pace>>

Exit == Server!Exit /\ UNCHANGED <<watchVars, pace>>

Next ==
    /\ process = "running"
    /\ \/ Edit \/ StartWatching \/ FirstChangeReturns \/ WatcherStep \/ Fire \/ Exit
       \/ \E r \in {Main} \cup Callbacks : Build(r)
       \/ \E b \in Callbacks : ReadFiles(b) \/ Skip(b) \/ Change(b) \/ ChangeReturns(b)
       \/ \E a \in 1..MaxApps : StarterStep(a)

Spec == Init /\ [][Next]_vars

\* As in the two parts: what can run does, and mu is handed over fairly.
Fairness ==
    /\ WF_vars(StartWatching) /\ WF_vars(FirstChangeReturns) /\ WF_vars(Build(Main))
    /\ SF_vars(WatcherStep) /\ WF_vars(Fire) /\ WF_vars(Exit)
    /\ \A b \in Callbacks :
        /\ WF_vars(Build(b)) /\ WF_vars(ReadFiles(b)) /\ WF_vars(ChangeReturns(b))
        /\ SF_vars(Skip(b) \/ Change(b))
    /\ \A a \in 1..MaxApps : WF_vars(StarterStep(a))

FairSpec == Spec /\ Fairness

-----------------------------------------------------------------------------
\* "make changes to the config file and have them take effect on save"
\* (docs/docs/configuration.md:12): when all is quiet, no edit fell into a reload,
\* the files of the config are watched and what they say is valid, that is what is
\* served, and nothing else.
TakesEffectOnSave ==
    pace # "reload" /\ process = "running" /\ Watch!Quiet /\ Server!Settled
    /\ Watch!ParseOK(disk) /\ Watch!Included(disk) \subseteq watched
    /\ Watch!Parse(disk) \in Valid
        => {config[a] : a \in Server!Serving} = {Watch!Parse(disk)}

\* Everything comes to rest in the end, even with edits in the middle of
\* reloads: mu, which the watcher goroutine also needs (537), is released by
\* every onChange.
ComesToRest == <>[](process # "running" \/ (Watch!Quiet /\ Server!Settled))

\* As long as no file was ever missing and no edit fell into a reload, every file
\* of the config is watched again once things are quiet: an editor that saves by
\* renaming over the file, which kills the inotify watch, does not end reloading
\* (config.go:536-568).
AtomicSaveKeepsWatch == pace # "reload" => Watch!AtomicSaveKeepsWatch

\* A file that dropped out of the config is not watched any more
\* (config.go:482-486), if every edit waited for the one before to be applied.
\* (Otherwise the event of a watch that died may be handled when the file has
\* left the config and come back: it is forgotten, watched a second time, and
\* stays watched when it leaves again.)
NoStaleWatch == pace = "quiet" => Watch!NoStaleWatch

\* No application is left behind with its loops, its database and maybe its
\* port, out of reach of stopServer (main.go:171-180), when no edit fell into a
\* reload.
NothingLeaks == pace # "reload" => Server!NothingLeaks

\* However edits, stops and starts overlap: when things have settled, some
\* application is served, so a stop that comes too early or too late never
\* leaves the port to nobody (main.go:171-184).
SomebodyServes == Server!SomebodyServes

\* ... and one is served again and again, unless the program ends.
EventuallyServed == Server!EventuallyServed

=============================================================================

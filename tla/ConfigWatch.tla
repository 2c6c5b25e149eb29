---------------------------- MODULE ConfigWatch ----------------------------
(***************************************************************************)
(* configFilesWatcher (config.go): the config files on disk, the fsnotify  *)
(* watches on them, the goroutine that turns their events into a debounced *)
(* timer, and the timer's callbacks, which parse the files again and call  *)
(* onChange if the result differs.                                         *)
(*                                                                         *)
(* A callback parses before it takes mu (502, 511), timer.Reset may start  *)
(* a second one while the first still runs, and the goroutine that runs    *)
(* serveApp calls onChange for the first contents without mu (578).  What  *)
(* onChange does is the business of ServerLifecycle; here it is the time a *)
(* callback spends at "change", with mu held.                              *)
(***************************************************************************)
EXTENDS Naturals, Sequences

CONSTANTS
    Files, MainFile,   \* the config files; MainFile is the one serveApp names
    Texts,             \* what a file may hold
    Absent,            \* there is no such file
    Includes,          \* the texts that, in MainFile, include every other file
    Callbacks,         \* goroutines the debounce timer's AfterFunc runs in
    NoOne,             \* nobody holds mu
    MaxEdits,          \* bound: changes made to the files
    EditDuring         \* environment: "startup", "callback", or both: when edits
                       \* may come besides the time nothing is being reloaded

VARIABLES
    disk,           \* file -> its text, or Absent
    watched,        \* files with an inotify watch on their present inode
    events,         \* watcher.Events: <<kind, file>> in the order they happened
    startup,        \* serveApp: "parsed", then "changing" (its onChange), "done"
    watcherAt,      \* the watcher goroutine: "off", "select" or "settling"
    timer,          \* debounceTimer: "off" or "armed"
    mu,             \* who holds mu
    cb,             \* where each callback is
    parsed,         \* what each callback parsed
    lastContents,
    lastIncludes,
    edits,          \* how many edits were made
    everAbsent      \* some file was missing at some time (history)

vars == <<disk, watched, events, startup, watcherAt, timer, mu, cb, parsed,
          lastContents, lastIncludes, edits, everAbsent>>

-----------------------------------------------------------------------------
\* parseYAMLIncludes, on disk d: the text of every file that takes part, Absent
\* for those that do not; it fails when one that takes part is missing.
Included(d) == IF d[MainFile] \in Includes THEN Files ELSE {MainFile}

ParseOK(d) == \A f \in Included(d) : d[f] # Absent

Contents == [Files -> Texts \cup {Absent}]

Parse(d) == [f \in Files |-> IF f \in Included(d) THEN d[f] ELSE Absent]

TypeOK ==
    /\ disk \in Contents
    /\ watched \subseteq Files
    /\ events \in Seq({"write", "rename", "remove"} \X Files)
    /\ startup \in {"parsed", "changing", "done"}
    /\ watcherAt \in {"off", "select", "settling"}
    /\ timer \in {"off", "armed"}
    /\ mu \in Callbacks \cup {NoOne}
    /\ cb \in [Callbacks -> {"idle", "parse", "lock", "change"}]
    /\ parsed \in [Callbacks -> Contents]
    /\ lastContents \in Contents
    /\ lastIncludes \subseteq Files
    /\ \A b \in Callbacks : cb[b] = "change" <=> mu = b
    /\ edits \in 0..MaxEdits
    /\ everAbsent \in BOOLEAN

\* serveApp has parsed the files and is about to call configFilesWatcher.
NothingParsed == [f \in Files |-> Absent]

Init ==
    /\ disk \in Contents /\ ParseOK(disk)
    /\ watched = {}
    /\ events = <<>>
    /\ startup = "parsed"
    /\ watcherAt = "off"
    /\ timer = "off"
    /\ mu = NoOne
    /\ cb = [b \in Callbacks |-> "idle"]
    /\ parsed = [b \in Callbacks |-> NothingParsed]
    /\ lastContents = Parse(disk)
    /\ lastIncludes = Included(disk)
    /\ edits = 0
    /\ everAbsent = \E f \in Files : disk[f] = Absent

\* Mutant: files that dropped out of the config stay watched.
RewatchedToo(previous, new) == watched \cup {f \in new \ previous : disk[f] # Absent}

\* updateWatchedFiles: watcher.Add fails on a missing file, with a warning.
Rewatched(previous, new) ==
    (watched \ (previous \ new)) \cup {f \in new \ previous : disk[f] # Absent}

-----------------------------------------------------------------------------
\* Whoever edits the files: an editor, a deployment, Dynacat's own UI editor.
CallbackRunning == \E b \in Callbacks : cb[b] # "idle"

MayEdit ==
    /\ edits < MaxEdits
    /\ startup # "done" => "startup" \in EditDuring
    /\ CallbackRunning => "callback" \in EditDuring

Edit(f, text) ==
    /\ MayEdit
    /\ disk' = [disk EXCEPT ![f] = text]
    /\ edits' = edits + 1
    /\ everAbsent' = (everAbsent \/ text = Absent)
    /\ UNCHANGED <<startup, watcherAt, timer, mu, cb, parsed, lastContents, lastIncludes>>

\* An event reaches the queue if the file is watched; when its inode goes away
\* the watch goes with it.
Emit(kind, f) ==
    events' = IF f \in watched THEN Append(events, <<kind, f>>) ELSE events

WriteInPlace(f, text) ==
    /\ disk[f] # Absent
    /\ Edit(f, text)
    /\ Emit("write", f)
    /\ UNCHANGED watched

\* An atomic save: a temporary file is renamed over f.
Replace(f, text) ==
    /\ disk[f] # Absent
    /\ Edit(f, text)
    /\ Emit("remove", f)
    /\ watched' = watched \ {f}

MoveAway(f) ==
    /\ disk[f] # Absent
    /\ Edit(f, Absent)
    /\ Emit("rename", f)
    /\ watched' = watched \ {f}

Delete(f) ==
    /\ disk[f] # Absent
    /\ Edit(f, Absent)
    /\ Emit("remove", f)
    /\ watched' = watched \ {f}

Create(f, text) ==
    /\ disk[f] = Absent
    /\ Edit(f, text)
    /\ UNCHANGED <<watched, events>>

-----------------------------------------------------------------------------
\* The rest of configFilesWatcher: watch the files parsed before, start the
\* goroutine, and call onChange with the contents parsed before.
StartWatching ==
    /\ startup = "parsed"
    /\ watched' = Rewatched({}, lastIncludes)
    /\ watcherAt' = "select"
    /\ startup' = "changing"
    /\ UNCHANGED <<disk, events, timer, mu, cb, parsed, lastContents, lastIncludes,
                   edits, everAbsent>>

FirstChangeReturns ==
    /\ startup = "changing"
    /\ startup' = "done"
    /\ UNCHANGED <<disk, watched, events, watcherAt, timer, mu, cb, parsed, lastContents,
                   lastIncludes, edits, everAbsent>>

\* debouncedParseAndCompareBeforeCallback: stop the timer if it runs and start
\* it again; a callback that already runs is not stopped.
Debounce == timer' = "armed"

\* deleteLastInclude forgets the file, so that the next parse watches it again;
\* the mutant leaves it, as if the watch survived the inode.
KeepLastInclude(f) == lastIncludes' = lastIncludes

DeleteLastInclude(f) == lastIncludes' = lastIncludes \ {f}

HandleWrite ==
    /\ watcherAt = "select"
    /\ events # <<>> /\ Head(events)[1] = "write"
    /\ events' = Tail(events)
    /\ Debounce
    /\ UNCHANGED <<disk, watched, startup, watcherAt, mu, cb, parsed, lastContents,
                   lastIncludes, edits, everAbsent>>

\* A rename: forget the file, which takes mu, then wait up to two seconds for
\* something to appear in its place.
HandleRename ==
    /\ watcherAt = "select"
    /\ events # <<>> /\ Head(events)[1] = "rename"
    /\ mu = NoOne
    /\ DeleteLastInclude(Head(events)[2])
    /\ events' = Tail(events)
    /\ watcherAt' = "settling"
    /\ UNCHANGED <<disk, watched, startup, timer, mu, cb, parsed, lastContents,
                   edits, everAbsent>>

\* The file is there again, or the two seconds are over.
Settled ==
    /\ watcherAt = "settling"
    /\ watcherAt' = "select"
    /\ Debounce
    /\ UNCHANGED <<disk, watched, events, startup, mu, cb, parsed, lastContents,
                   lastIncludes, edits, everAbsent>>

HandleRemove ==
    /\ watcherAt = "select"
    /\ events # <<>> /\ Head(events)[1] = "remove"
    /\ mu = NoOne
    /\ DeleteLastInclude(Head(events)[2])
    /\ events' = Tail(events)
    /\ Debounce
    /\ UNCHANGED <<disk, watched, startup, watcherAt, mu, cb, parsed, lastContents,
                   edits, everAbsent>>

\* Half a second without an event: the timer runs its function in a goroutine.
Fire(b) ==
    /\ timer = "armed"
    /\ cb[b] = "idle"
    /\ timer' = "off"
    /\ cb' = [cb EXCEPT ![b] = "parse"]
    /\ UNCHANGED <<disk, watched, events, startup, watcherAt, mu, parsed, lastContents,
                   lastIncludes, edits, everAbsent>>

\* parseAndCompareBeforeCallback, before the lock.
ReadFiles(b) ==
    /\ cb[b] = "parse"
    /\ IF ParseOK(disk)
       THEN /\ parsed' = [parsed EXCEPT ![b] = Parse(disk)]
            /\ cb' = [cb EXCEPT ![b] = "lock"]
       ELSE /\ cb' = [cb EXCEPT ![b] = "idle"]        \* onErr, which logs
            /\ UNCHANGED parsed
    /\ UNCHANGED <<disk, watched, events, startup, watcherAt, timer, mu, lastContents,
                   lastIncludes, edits, everAbsent>>

\* The files that take part in what b parsed.
ParsedIncludes(b) == {f \in Files : parsed[b][f] # Absent}

UnchangedMainFile(b) == parsed[b][MainFile] = lastContents[MainFile]     \* mutant

Unchanged(b) == parsed[b] = lastContents

\* Mutant: the comparison does not wait for mu.
CompareUnlocked(b) ==
    /\ cb[b] = "lock"
    /\ watched' = Rewatched(lastIncludes, ParsedIncludes(b))
    /\ lastIncludes' = ParsedIncludes(b)

\* After the lock: watch other files if the includes differ ...
Compare(b) ==
    /\ cb[b] = "lock"
    /\ mu = NoOne
    /\ watched' = Rewatched(lastIncludes, ParsedIncludes(b))
    /\ lastIncludes' = ParsedIncludes(b)

\* ... and if the contents are the same, unlock and return,
Skip(b) ==
    /\ Compare(b)
    /\ Unchanged(b)
    /\ cb' = [cb EXCEPT ![b] = "idle"]
    /\ parsed' = [parsed EXCEPT ![b] = NothingParsed]
    /\ UNCHANGED <<disk, events, startup, watcherAt, timer, mu, lastContents, edits,
                   everAbsent>>

\* otherwise keep them and call onChange, still inside the lock.
Change(b) ==
    /\ Compare(b)
    /\ ~Unchanged(b)
    /\ lastContents' = parsed[b]
    /\ mu' = b
    /\ cb' = [cb EXCEPT ![b] = "change"]
    /\ UNCHANGED <<disk, events, startup, watcherAt, timer, parsed, edits, everAbsent>>

LeaveLocked == mu' = mu     \* mutant

Unlock == mu' = NoOne

ChangeReturns(b) ==
    /\ cb[b] = "change"
    /\ Unlock
    /\ cb' = [cb EXCEPT ![b] = "idle"]
    /\ parsed' = [parsed EXCEPT ![b] = NothingParsed]
    /\ UNCHANGED <<disk, watched, events, startup, watcherAt, timer, lastContents,
                   lastIncludes, edits, everAbsent>>

-----------------------------------------------------------------------------
EditAction ==
    \E f \in Files :
        \/ \E text \in Texts : WriteInPlace(f, text) \/ Replace(f, text) \/ Create(f, text)
        \/ MoveAway(f) \/ Delete(f)

WatcherStep == HandleWrite \/ HandleRename \/ Settled \/ HandleRemove

\* What a callback does outside onChange.
CallbackStep(b) == ReadFiles(b) \/ Skip(b) \/ Change(b)

Next ==
    \/ EditAction
    \/ StartWatching \/ FirstChangeReturns
    \/ WatcherStep
    \/ \E b \in Callbacks : Fire(b) \/ CallbackStep(b) \/ ChangeReturns(b)

Spec == Init /\ [][Next]_vars

\* Goroutines and timers run; nobody has to edit a file.  A callback waiting
\* for mu gets it in the end: Go's mutex hands over to a starving waiter.
Fairness ==
    /\ WF_vars(StartWatching) /\ WF_vars(FirstChangeReturns)
    /\ WF_vars(HandleWrite \/ Settled) /\ SF_vars(HandleRename \/ HandleRemove)
    /\ WF_vars(\E b \in Callbacks : Fire(b))
    /\ \A b \in Callbacks :
        /\ WF_vars(ReadFiles(b)) /\ WF_vars(ChangeReturns(b))
        /\ SF_vars(Skip(b) \/ Change(b))

FairSpec == Spec /\ Fairness

-----------------------------------------------------------------------------
\* Nothing is on its way to a reload any more.
Quiet ==
    /\ startup = "done" /\ watcherAt = "select"
    /\ events = <<>> /\ timer = "off"
    /\ ~CallbackRunning

\* Changes to watched files take effect (docs/docs/configuration.md:12): once things
\* are quiet, and every file of the config is watched, the contents last given
\* to onChange are those on disk, however often the includes, the inodes and
\* the texts changed since (481-523).
WatchedMeansApplied ==
    Quiet /\ ParseOK(disk) /\ Included(disk) \subseteq watched =>
        lastContents = Parse(disk)

\* As long as no file was ever missing, every file of the config is watched
\* again once things are quiet: an editor that saves by renaming over the file,
\* which kills the inotify watch, does not end reloading (536-541, 552-568).
AtomicSaveKeepsWatch ==
    Quiet /\ ~everAbsent => Included(disk) \subseteq watched

\* A file that dropped out of the config is not watched any more (482-486):
\* once things are quiet, a watch is on a file of the last contents.
NoStaleWatch ==
    Quiet => watched \subseteq {f \in Files : lastContents[f] # Absent}
=============================================================================

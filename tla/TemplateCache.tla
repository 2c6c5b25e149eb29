---------------------------- MODULE TemplateCache ---------------------------
(***************************************************************************)
(* The dynawidgets that share a template: one file in the assets directory *)
(* and an entry of templates.meta.json.  A widget reads or downloads the   *)
(* template when it starts, then asks for a newer one from time to time and*)
(* reads the file again when its time of modification changed.  A template *)
(* may not parse; what did stays in use then.  Widgets run side by side: on*)
(* several pages, and before and after a reload.  Any write may fail, and  *)
(* the process may die at any step.                                        *)
(***************************************************************************)
EXTENDS Naturals

CONSTANTS
    Users,          \* widgets with the template
    MaxRemote,      \* versions of it
    Broken,         \* those of them, and of Torn, that do not resolve or parse
    Poll,           \* how often a widget asks
    Interval,       \* between checks
    Slow,           \* between checks, when nothing changed for long
    MaxNow,
    MaxStarts,
    Nobody

\* What is in a file that was truncated and not written to its end: it may parse.
Torn == {MaxRemote + 1, MaxRemote + 2}

TemplateAssumption == /\ MaxRemote \in Nat \ {0} /\ Nobody \notin Users
                      /\ Broken \subseteq 1..MaxRemote + 2

VARIABLES
    remote,     \* the version the repository has
    time,       \* ticks since the start
    template,       \* the version in the file, 0 without one
    meta,       \* [etag, checked, unchanged, known], or NoMeta
    lock,       \* the widget that checks, or Nobody
    user,       \* widget -> [pc, content, seen, polled, asked, got, etag, count, alone, missed]
    starts,     \* how often a widget started
    overlap     \* a first download overlapped with another, or its file with a check

templateVars == <<remote, time, template, meta, lock, user, starts, overlap>>

NoMeta == [etag |-> 0, checked |-> 0, unchanged |-> 0, known |-> FALSE]
\* seen: its templateModTime is that of the file; alone: nobody else wrote to the
\* file that it is writing.
Fresh == [pc |-> "off", content |-> 0, seen |-> FALSE, polled |-> 0, asked |-> FALSE,
          got |-> 0, etag |-> 0, count |-> 0, alone |-> FALSE, missed |-> FALSE]

Usable(version) == version /= 0 /\ version \notin Broken

Goes(w, pc) == [user[w] EXCEPT !.pc = pc]
Checked(w) == [user[w] EXCEPT !.pc = "look", !.got = 0, !.etag = 0, !.count = 0, !.alone = FALSE]

TemplateInit ==
    /\ remote = 1 /\ time = 0 /\ starts = 0
    /\ template = 0 /\ meta = NoMeta
    /\ lock = Nobody
    /\ user = [w \in Users |-> Fresh]
    /\ overlap = FALSE

Publish == remote < MaxRemote /\ remote' = remote + 1 /\ UNCHANGED <<time, template, meta, lock, user, starts, overlap>>

Tick == time < MaxNow /\ time' = time + 1 /\ UNCHANGED <<remote, template, meta, lock, user, starts, overlap>>

FirstDownloads == {w \in Users : user[w].pc \in {"download", "save", "fill", "note"}}

Start(w) ==
    /\ user[w].pc = "off" /\ starts < MaxStarts
    /\ starts' = starts + 1
    /\ user' = [user EXCEPT ![w] =
            IF template /= 0 THEN [Fresh EXCEPT !.pc = "stat", !.content = template, !.seen = TRUE]
            ELSE [Fresh EXCEPT !.pc = "download"]]
    /\ overlap' = (overlap \/ (template = 0 /\ FirstDownloads /= {}))
    /\ UNCHANGED <<remote, time, template, meta, lock>>

\* A reload replaces it.  What runs, runs to its end.
Stop(w) ==
    /\ user[w].pc = "idle"
    /\ user' = [user EXCEPT ![w] = Fresh]
    /\ UNCHANGED <<remote, time, template, meta, lock, starts, overlap>>

\* The first download, in steps that hold no lock.
Download(w) ==
    /\ user[w].pc = "download"
    /\ user' = [user EXCEPT ![w] = [Goes(w, "save") EXCEPT !.content = remote]]
    /\ UNCHANGED <<remote, time, template, meta, lock, starts, overlap>>

DownloadFails(w) ==
    /\ user[w].pc = "download"
    /\ user' = [user EXCEPT ![w] = Fresh]
    /\ UNCHANGED <<remote, time, template, meta, lock, starts, overlap>>

\* os.WriteFile truncates the file and then writes it, in parts or at once; each gives
\* it a new time of modification.  If others wrote to it in between, it may be a
\* mixture.
Touched == [w \in Users |-> [user[w] EXCEPT !.seen = FALSE, !.alone = FALSE]]

Truncate == template' \in Torn

Fill(w, version) == template' \in {version} \union IF user[w].alone THEN {} ELSE Torn

WritePart(w) ==
    /\ user[w].pc \in {"fill", "write"} /\ Truncate
    /\ user' = [Touched EXCEPT ![w].alone = user[w].alone]
    /\ UNCHANGED <<remote, time, meta, lock, starts, overlap>>

Save(w) ==
    /\ user[w].pc = "save" /\ Truncate
    /\ user' = [Touched EXCEPT ![w].pc = "fill", ![w].alone = TRUE]
    /\ UNCHANGED <<remote, time, meta, lock, starts, overlap>>

Store(w) ==
    /\ user[w].pc = "fill" /\ Fill(w, user[w].content)
    /\ user' = [Touched EXCEPT ![w].pc = "note", ![w].seen = TRUE, ![w].missed = template' /= user[w].content]
    /\ UNCHANGED <<remote, time, meta, lock, starts, overlap>>

\* What could not be stored is used nevertheless, whatever is on disk.
SaveFails(w) ==
    /\ user[w].pc \in {"save", "fill"}
    /\ user' = [user EXCEPT ![w] = [Goes(w, "stat") EXCEPT !.alone = FALSE, !.missed = TRUE]]
    /\ UNCHANGED <<remote, time, template, meta, lock, starts, overlap>>

\* dynawidgetsWriteMeta: its errors are only logged; one may leave the old entry,
\* or a file that cannot be read.
WriteMeta(entry) == meta' \in {entry, meta, NoMeta}

Note(w) ==
    /\ user[w].pc = "note"
    /\ WriteMeta([etag |-> user[w].content, checked |-> time, unchanged |-> 0, known |-> TRUE])
    /\ user' = [user EXCEPT ![w] = Goes(w, "stat")]
    /\ UNCHANGED <<remote, time, template, lock, starts, overlap>>

\* initialize takes the time of modification after it read the file: a write in
\* between is missed until the next one.  It fails if the template does not parse.
Stat(w) ==
    /\ user[w].pc = "stat"
    /\ user' = [user EXCEPT ![w] =
            IF Usable(@.content)
            THEN [Goes(w, "idle") EXCEPT !.seen = TRUE, !.missed = @ \/ ~user[w].seen]
            ELSE Fresh]
    /\ UNCHANGED <<remote, time, template, meta, lock, starts, overlap>>

----------------------------------------------------------------------------
\* refreshTemplate asks once in Poll, the first time at once.
Update(w) ==
    /\ user[w].pc = "idle"
    /\ user' = [user EXCEPT ![w] =
            IF ~@.asked \/ time - @.polled >= Poll
            THEN [@ EXCEPT !.pc = "check", !.polled = time, !.asked = TRUE]
            ELSE [@ EXCEPT !.pc = "look"]]
    /\ UNCHANGED <<remote, time, template, meta, lock, starts, overlap>>

Due ==
    \/ ~meta.known
    \/ time - meta.checked >= IF meta.unchanged >= 2 THEN Slow ELSE Interval

\* Under the lock of the template: the file, the entry, and a request if it is
\* due.
Check(w) ==
    /\ user[w].pc = "check" /\ lock = Nobody
    /\ IF template = 0 \/ ~Due
       THEN /\ user' = [user EXCEPT ![w] = Goes(w, "look")]
            /\ UNCHANGED lock
       ELSE /\ user' = [user EXCEPT ![w] = [Goes(w, "ask") EXCEPT
                    !.got = template, !.etag = meta.etag, !.count = meta.unchanged]]
            /\ lock' = w
    /\ overlap' = (overlap \/ (lock' = w /\ \E v \in Users : user[v].pc = "fill"))
    /\ UNCHANGED <<remote, time, template, meta, starts>>

\* The request failed, or the file could not be opened to write the answer.
AskFails(w) ==
    /\ user[w].pc = "ask"
    /\ user' = [user EXCEPT ![w] = Checked(w)]
    /\ lock' = Nobody
    /\ UNCHANGED <<remote, time, template, meta, starts, overlap>>

NotModified(w) == user[w].etag = remote

Unchanged(w) ==
    /\ user[w].pc = "ask" /\ (NotModified(w) \/ user[w].got = remote)
    /\ WriteMeta([etag |-> remote, checked |-> time, unchanged |-> user[w].count + 1, known |-> TRUE])
    /\ user' = [user EXCEPT ![w] = Checked(w)]
    /\ lock' = Nobody
    /\ UNCHANGED <<remote, time, template, starts, overlap>>

Changed(w) ==
    /\ user[w].pc = "ask" /\ ~NotModified(w) /\ user[w].got /= remote
    /\ Truncate
    /\ user' = [Touched EXCEPT ![w].pc = "write", ![w].etag = remote, ![w].alone = TRUE]
    /\ UNCHANGED <<remote, time, meta, lock, starts, overlap>>

Rewrite(w) ==
    /\ user[w].pc = "write" /\ Fill(w, user[w].etag)
    /\ user' = [Touched EXCEPT ![w].pc = "record"]
    /\ UNCHANGED <<remote, time, meta, lock, starts, overlap>>

\* A mutant: the error of the write goes unnoticed.
WriteFailsUnseen(w) ==
    /\ user[w].pc = "write"
    /\ user' = [user EXCEPT ![w] = [Goes(w, "record") EXCEPT !.alone = FALSE]]
    /\ UNCHANGED <<remote, time, template, meta, lock, starts, overlap>>

\* The file stays truncated, the entry as it was: the next check that is due asks
\* again.
WriteFails(w) ==
    /\ user[w].pc = "write"
    /\ user' = [user EXCEPT ![w] = Checked(w)]
    /\ lock' = Nobody
    /\ UNCHANGED <<remote, time, template, meta, starts, overlap>>

Record(w) ==
    /\ user[w].pc = "record"
    /\ WriteMeta([etag |-> user[w].etag, checked |-> time, unchanged |-> 0, known |-> TRUE])
    /\ user' = [user EXCEPT ![w] = Checked(w)]
    /\ lock' = Nobody
    /\ UNCHANGED <<remote, time, template, starts, overlap>>

\* The time of modification first, then the file.
Look(w) ==
    /\ user[w].pc = "look"
    /\ user' = [user EXCEPT ![w] =
            IF template = 0 \/ @.seen THEN [@ EXCEPT !.pc = "idle"]
            ELSE [@ EXCEPT !.pc = "read", !.seen = TRUE, !.missed = FALSE]]
    /\ UNCHANGED <<remote, time, template, meta, lock, starts, overlap>>

\* What does not resolve or parse does not replace what did; it counts as seen.
Read(w) ==
    /\ user[w].pc = "read"
    /\ user' = [user EXCEPT ![w] = [Goes(w, "idle") EXCEPT
            !.content = IF Usable(template) THEN template ELSE @]]
    /\ UNCHANGED <<remote, time, template, meta, lock, starts, overlap>>

\* What is on disk stays as it is, a file that was being written torn; the widgets
\* and the locks do not.
Crash ==
    /\ user' = [w \in Users |-> Fresh]
    /\ lock' = Nobody
    /\ UNCHANGED <<remote, time, template, meta, starts, overlap>>

TemplateNext ==
    \/ Publish \/ Tick \/ Crash
    \/ \E w \in Users :
        \/ Start(w) \/ Stop(w) \/ Stat(w)
        \/ Download(w) \/ DownloadFails(w)
        \/ WritePart(w) \/ Save(w) \/ Store(w) \/ SaveFails(w) \/ Note(w)
        \/ Update(w) \/ Check(w) \/ AskFails(w) \/ Unchanged(w)
        \/ Changed(w) \/ Rewrite(w) \/ WriteFails(w) \/ Record(w)
        \/ Look(w) \/ Read(w)

TemplateSpec == TemplateInit /\ [][TemplateNext]_templateVars

----------------------------------------------------------------------------
\* Whatever widgets, checks, failing writes and crashes do to each other: a widget
\* that found nothing new on disk shows what is there, unless that does not parse;
\* no widget in use ever has a template that does not; and a server that answers
\* "not modified" speaks of what is on disk, so that a file that was not written to
\* its end is never taken for the latest version.  Excepted are first downloads that
\* could not be stored or overlap, with each other or with a check, and a write
\* between the two halves of initialize; the widget then waits for the version after
\* it.
TemplatesCatchUp ==
    \A w \in Users :
        /\ user[w].pc = "idle" => Usable(user[w].content)
        /\ user[w].pc = "idle" /\ user[w].seen /\ ~user[w].missed /\ Usable(template)
           => user[w].content = template
        /\ user[w].pc = "ask" /\ NotModified(w) /\ ~overlap => template = remote
=============================================================================

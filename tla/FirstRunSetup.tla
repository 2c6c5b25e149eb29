---------------------------- MODULE FirstRunSetup ---------------------------
(***************************************************************************)
(* The temporary server that creates the first config (setup.go).  A       *)
(* request reads the file and makes the new contents from it before it     *)
(* takes mu, and looks at the file again under mu before it writes.        *)
(* Somebody may save the file with a text editor at any of these moments.  *)
(***************************************************************************)
EXTENDS Naturals, FiniteSets

CONSTANTS
    Browsers,
    MaxHandSaves    \* bound on saves with a text editor

VARIABLES
    file,       \* [pages, settings]: no pages, the starter's, one's own, or no
                \* YAML; and which settings, 0 for none
    mu,         \* the request that holds it, at most one
    done,
    server,     \* "serving", "closing" (Shutdown), "left" (the program goes on)
    form,       \* request -> [at, read, missed, answer]: what it read, where it was
                \* when somebody saved the file
    handSaves

setupVars == <<file, mu, done, server, form, handSaves>>

Empty == [pages |-> "none", settings |-> 0]
NoForm == [at |-> "idle", read |-> Empty, missed |-> {}, answer |-> "none"]

NeedsFirstRunSetup == file.pages = "none"

\* The server is there because the file it found had no pages.
SetupInit == /\ file \in {Empty, [pages |-> "none", settings |-> 1]}
             /\ mu = {} /\ done = FALSE /\ server = "serving"
             /\ form = [b \in Browsers |-> NoForm]
             /\ handSaves = 0

Moves(b, to) == form' = [form EXCEPT ![b].at = to]
Answers(b, what) == form' = [form EXCEPT ![b].at = "answered", ![b].answer = what]

\* newStarterConfigYAML: a second "pages" key would be no valid config.  What is
\* no YAML counts as empty.
ReadExisting(b) ==
    /\ server = "serving" /\ form[b].at = "idle"
    /\ form' = [form EXCEPT ![b] =
          IF file.pages \in {"starter", "own"}
          THEN [NoForm EXCEPT !.at = "answered", !.answer = "invalid"]
          ELSE [NoForm EXCEPT !.at = "read", !.read = IF file.pages = "none" THEN file ELSE Empty]]
    /\ UNCHANGED <<file, mu, done, server, handSaves>>

\* A mutant: the file is not looked at again.
NotDone == ~done

StillWanted == ~done /\ NeedsFirstRunSetup

Enter(b) ==
    /\ form[b].at = "read" /\ mu = {}
    /\ IF StillWanted THEN mu' = {b} /\ Moves(b, "writes") ELSE mu' = {} /\ Answers(b, "conflict")
    /\ UNCHANGED <<file, done, server, handSaves>>

WriteStarter(b) ==
    /\ form[b].at = "writes"
    /\ file' = [pages |-> "starter", settings |-> form[b].read.settings]
    /\ done' = TRUE /\ mu' = {}
    /\ server' = "closing"
    /\ Answers(b, "created")
    /\ UNCHANGED handSaves

\* The file cannot be opened, nothing of it is written, or a part.
FailStarter(b) ==
    /\ form[b].at = "writes"
    /\ file' \in {file, Empty, [Empty EXCEPT !.pages = "broken"]}
    /\ mu' = {} /\ Answers(b, "failed")
    /\ UNCHANGED <<done, server, handSaves>>

\* ListenAndServe returns as soon as Shutdown was called; requests may still run.
LeaveSetup ==
    /\ server = "closing" /\ done
    /\ server' = "left"
    /\ UNCHANGED <<file, mu, done, form, handSaves>>

AskAgain(b) ==
    /\ form[b].answer \in {"invalid", "conflict", "failed"}
    /\ form' = [form EXCEPT ![b] = NoForm]
    /\ UNCHANGED <<file, mu, done, server, handSaves>>

HandSave ==
    /\ handSaves < MaxHandSaves
    /\ handSaves' = handSaves + 1
    /\ \E pages \in {"none", "own"} : file' = [pages |-> pages, settings |-> handSaves + 2]
    /\ form' = [b \in Browsers |-> [form[b] EXCEPT !.missed = @ \union {form[b].at}]]
    /\ UNCHANGED <<mu, done, server>>

SetupNext ==
    \/ \E b \in Browsers : ReadExisting(b) \/ Enter(b) \/ WriteStarter(b) \/ FailStarter(b)
                           \/ AskAgain(b)
    \/ LeaveSetup \/ HandSave

--------------------------------------------------------------------------------

Told(what) == {b \in Browsers : form[b].answer = what}

SetupStep ==
    /\ \A b \in mu : file' /= file /\ handSaves' = handSaves =>
          /\ file.pages = "own" => "writes" \in form[b].missed
          /\ file'.settings < file.settings =>
                 form[b].missed \intersect {"read", "writes"} /= {} \/ form'[b].answer = "failed"
    /\ server' = "left" => Cardinality(Told("created")) = 1

\* The program goes on after exactly one browser was told that it created the
\* config, and neither pages nor settings somebody wrote by hand are ever
\* replaced, unless they were saved while the request that wrote was between its
\* two looks at the file and its write.
SetupWritesOnce == [][SetupStep]_setupVars
=============================================================================

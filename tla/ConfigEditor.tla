---------------------------- MODULE ConfigEditor ----------------------------
(***************************************************************************)
(* How an edit of the UI editor reaches the config on disk,                *)
(* config-editor.go: applyEditorMutation reads the files, changes what it  *)
(* read, and writeConfigCandidates writes every changed file, loads the    *)
(* whole config, and puts the old contents back if that fails.  editorMu   *)
(* keeps the edits of one server apart, but nothing keeps them apart from  *)
(* somebody with a text editor, nor from the server a reload replaced.     *)
(*                                                                         *)
(* A file is a sequence of entries: pages and widgets, here parts, and     *)
(* includes.  Where in a page a widget goes is EditorTree's; what matters  *)
(* here is which files an edit writes.  Files are read in one action, and  *)
(* a page's permission is checked before anything happens.                 *)
(***************************************************************************)
EXTENDS Naturals, Sequences, FiniteSets, SequencesExt

CONSTANTS
    Requests,
    Main,         \* dynacat.yml
    Files,        \* the other files of its directory
    Parts,
    Bad,          \* a part newConfigFromYAML refuses
    Torn,         \* a file whose writing stopped half-way
    Absent,
    None,
    DepthLimit,   \* CONFIG_INCLUDE_RECURSION_DEPTH_LIMIT
    MaxEdits,     \* bound on edits
    MaxHandEdits, \* bound on those made with a text editor
    Starts        \* configs somebody wrote by hand

\* nil is no request and no path.
ASSUME NoneAssumption == None \notin Requests /\ None \notin {Main} \cup Files

Paths == {Main} \cup Files

VARIABLES
    disk,     \* path -> entries, Torn or Absent
    editorMu, \* the request that holds it, or None
    job,      \* request -> where applyEditorMutation is
    edits, hands

vars == <<disk, editorMu, job, edits, hands>>

Entries == Seq(Parts \cup {Bad} \cup Files)

\* A file is not a part, and what is not there or half written is no text.
ASSUME EntriesAssumption ==
    /\ Main \notin Files /\ \A x \in Parts \cup {Bad} : x \notin Files
    /\ Absent \notin Entries /\ Torn \notin Entries /\ Absent # Torn
    /\ DepthLimit \in Nat

Readable(d, p) == d[p] \notin {Torn, Absent}

\* The files a text includes, and that it includes none twice.
Named(text) == IF text \in {Torn, Absent} THEN {} ELSE ToSet(text) \cap Files

Once(text) ==
    \/ text \in {Torn, Absent}
    \/ text \in Entries /\ \A i, j \in DOMAIN text : text[i] = text[j] /\ text[i] \in Files => i = j

\* The files that are included are there, and in one place each.
Tidy(d) ==
    /\ \A p \in Paths : Once(d[p])
    /\ \A p \in Paths : \A f \in Named(d[p]) : d[f] # Absent
    /\ \A p, q \in Paths : p # q => Named(d[p]) \cap Named(d[q]) = {}

\* A config somebody wrote; some files of the directory need not be there.
ASSUME StartsAssumption ==
    \A d \in Starts : d \in [Paths -> Entries \cup {Absent}] /\ Tidy(d)

-----------------------------------------------------------------------------
\* The positions expandPageSlots and parseYAMLIncludes go through: where an
\* entry is, then where the include of its file is, up to the main file.
At(d, p) == {[path |-> p, at |-> i] : i \in DOMAIN d[p]}

Entry(d, chain) == d[chain[1].path][chain[1].at]

Chains(d) ==
    LET upTo[depth \in 0..DepthLimit] ==
            IF depth = 0 THEN {<<here>> : here \in At(d, Main)}
            ELSE LET outer == upTo[depth - 1]
                     open  == {c \in outer : Entry(d, c) \in Files /\ Readable(d, Entry(d, c))}
                 IN  outer \cup UNION {{<<here>> \o c : here \in At(d, Entry(d, c))} : c \in open}
    IN  IF Readable(d, Main) THEN upTo[DepthLimit] ELSE {}

Held(d) == {Entry(d, c) : c \in Chains(d)}

PartsOf(d) == Held(d) \ Files

\* parseYAMLIncludes and newConfigFromYAML without an error.
Loads(d) ==
    /\ Readable(d, Main)
    /\ \A f \in Held(d) \cap Files : Readable(d, f)
    /\ Bad \notin Held(d)
    /\ PartsOf(d) # {}

-----------------------------------------------------------------------------
\* What applyEditorMutation makes of an edit: the files to write, the file
\* addPageFile writes before them, those removePageSlot deletes after them.
Edit(todo, new, doomed) == [todo |-> todo, new |-> new, doomed |-> doomed]

NoFile == [path |-> None, entries |-> << >>]

Slots == {c \in Chains(disk) : Entry(disk, c) \notin Files}

Fresh == (Parts \ UNION {ToSet(disk[p]) : p \in {q \in Paths : Readable(disk, q)}}) \cup {Bad}

One(p, entries) == [q \in {p} |-> entries]

Two(p, entries, q, others) == [x \in {p, q} |-> IF x = p THEN entries ELSE others]

AddPageInline == {Edit(One(Main, Append(disk[Main], x)), NoFile, {}) : x \in Fresh}

AddPageFile ==
    {Edit(One(Main, Append(disk[Main], f)), [path |-> f, entries |-> <<x>>], {}) :
        f \in {g \in Files : disk[g] = Absent}, x \in Fresh}

EditPage ==
    {Edit(One(c[1].path, [disk[c[1].path] EXCEPT ![c[1].at] = x]), NoFile, {}) :
        c \in Slots, x \in Fresh}

\* prunePageContainers: a file that loses its only entry goes, and so does its
\* include.  The mutant drops a file that has one more.
OnlyEntries(d, p) == Len(d[p]) <= 2

OnlyEntry(d, p) == Len(d[p]) = 1

Survivor(c) ==
    CHOOSE n \in DOMAIN c :
        /\ n = Len(c) \/ ~OnlyEntry(disk, c[n].path)
        /\ \A m \in 1..n - 1 : OnlyEntry(disk, c[m].path)

RemovePage ==
    {LET n == Survivor(c) IN
        Edit(One(c[n].path, RemoveAt(disk[c[n].path], c[n].at)), NoFile,
             {c[m].path : m \in 1..n - 1}) :
        c \in Slots}

\* Edits of widgets may write several files: one it leaves and one it enters,
\* or one that includes it and its own.
ElsewhereThan(c) == {b \in Slots : b[1].path # c[1].path}

MoveWidget ==
    UNION {{Edit(Two(c[1].path, RemoveAt(disk[c[1].path], c[1].at),
                     b[1].path, InsertAt(disk[b[1].path], b[1].at, Entry(disk, c))), NoFile, {}) :
               b \in ElsewhereThan(c)} : c \in Slots}

SplitWidgetFile ==
    {Edit(Two(c[1].path, Append(disk[c[1].path], f), f, <<x>>), NoFile, {}) :
        c \in Slots, f \in {g \in Files : disk[g] = Absent}, x \in Fresh}

Edits == AddPageInline \cup AddPageFile \cup EditPage \cup RemovePage
            \cup MoveWidget \cup SplitWidgetFile

-----------------------------------------------------------------------------
Idle == [pc |-> "idle", edit |-> Edit(<< >>, NoFile, {}), originals |-> << >>,
         written |-> {}, before |-> << >>, touched |-> {}]

Init ==
    /\ disk \in Starts
    /\ editorMu = None
    /\ job = [r \in Requests |-> Idle]
    /\ edits = 0 /\ hands = 0

Goes(r, pc) == job' = [job EXCEPT ![r].pc = pc]

\* The mutant forgets editorMu.
NotLocked(r) == TRUE

MayEdit(r) == editorMu = None

\* applyEditorMutation up to its first write.
Begin(r) ==
    /\ edits < MaxEdits
    /\ job[r].pc = "idle" /\ MayEdit(r) /\ Readable(disk, Main)
    /\ \E e \in Edits :
        job' = [job EXCEPT ![r] = [Idle EXCEPT !.edit = e, !.before = disk,
                                   !.pc = IF e.new = NoFile THEN "collect" ELSE "file"]]
    /\ editorMu' = r
    /\ edits' = edits + 1
    /\ UNCHANGED <<disk, hands>>

\* addPageFile's own write, which like every write may not open the file, or
\* stop half-way when the disk is full.
WriteNew(r) ==
    /\ job[r].pc = "file"
    /\ disk' = [disk EXCEPT ![job[r].edit.new.path] = job[r].edit.new.entries]
    /\ Goes(r, "collect")
    /\ UNCHANGED <<editorMu, edits, hands>>

FailNew(r) ==
    /\ job[r].pc = "file"
    /\ \/ UNCHANGED disk
       \/ disk' = [disk EXCEPT ![job[r].edit.new.path] = Torn]
    /\ Goes(r, "rejected")
    /\ UNCHANGED <<editorMu, edits, hands>>

\* writeConfigCandidates: the contents to go back to.
Collect(r) ==
    LET j == job[r] IN
    /\ j.pc = "collect"
    /\ job' = [job EXCEPT ![r].originals = [p \in DOMAIN j.edit.todo |-> disk[p]],
                          ![r].pc = "write"]
    /\ UNCHANGED <<disk, editorMu, edits, hands>>

\* An include outside the directory, or an original that cannot be read.
Refuse(r) ==
    /\ job[r].pc = "collect"
    /\ Goes(r, "rollback")
    /\ UNCHANGED <<disk, editorMu, edits, hands>>

Unwritten(j) == DOMAIN j.edit.todo \ j.written

\* In the order of a map, which is none.
Write(r) ==
    /\ job[r].pc = "write"
    /\ \E p \in Unwritten(job[r]) :
        /\ disk' = [disk EXCEPT ![p] = job[r].edit.todo[p]]
        /\ job' = [job EXCEPT ![r].written = @ \cup {p}]
    /\ UNCHANGED <<editorMu, edits, hands>>

\* A file that could not be written is not among those rollback restores.
FailWrite(r) ==
    /\ job[r].pc = "write"
    /\ \E p \in Unwritten(job[r]) :
        \/ UNCHANGED disk
        \/ disk' = [disk EXCEPT ![p] = IF job[r].originals[p] = Absent THEN Absent ELSE Torn]
    /\ Goes(r, "rollback")
    /\ UNCHANGED <<editorMu, edits, hands>>

\* The mutant only merges the includes.
Merges(d) == \A p \in {Main} \cup (Held(d) \cap Files) : Readable(d, p)

Accepts(d) == Loads(d)

Validate(r) ==
    /\ job[r].pc = "write" /\ Unwritten(job[r]) = {}
    /\ Goes(r, IF Accepts(disk) THEN "discard" ELSE "rollback")
    /\ UNCHANGED <<disk, editorMu, edits, hands>>

\* What rollback makes of a file.  The mutant writes the nothing it had read of
\* a file that was not there.
EmptyIfNew(original) == IF original = Absent THEN << >> ELSE original

AsItWas(original) == original

\* rollback ignores that it cannot write.
Rollback(r) ==
    /\ job[r].pc = "rollback"
    /\ \E p \in job[r].written :
        /\ \/ disk' = [disk EXCEPT ![p] = AsItWas(job[r].originals[p])]
           \/ job[r].originals[p] # Absent /\ disk' = [disk EXCEPT ![p] = Torn]
        /\ job' = [job EXCEPT ![r].written = @ \ {p}]
    /\ UNCHANGED <<editorMu, edits, hands>>

\* addPageFile takes its file back.
Reject(r) ==
    LET new == job[r].edit.new.path IN
    /\ job[r].pc = "rollback" /\ job[r].written = {}
    /\ disk' = [p \in Paths |-> IF p = new THEN Absent ELSE disk[p]]
    /\ Goes(r, "rejected")
    /\ UNCHANGED <<editorMu, edits, hands>>

\* removePageSlot
Discard(r) ==
    /\ job[r].pc = "discard"
    /\ \E p \in job[r].edit.doomed :
        /\ disk' = [disk EXCEPT ![p] = Absent]
        /\ job' = [job EXCEPT ![r].edit.doomed = @ \ {p}]
    /\ UNCHANGED <<editorMu, edits, hands>>

Accept(r) ==
    /\ job[r].pc = "discard" /\ job[r].edit.doomed = {}
    /\ Goes(r, "accepted")
    /\ UNCHANGED <<disk, editorMu, edits, hands>>

Return(r) ==
    /\ job[r].pc \in {"accepted", "rejected"}
    /\ job' = [job EXCEPT ![r] = Idle]
    /\ editorMu' = None
    /\ UNCHANGED <<disk, edits, hands>>

\* Somebody adds a part with a text editor.
HandEdit ==
    /\ hands < MaxHandEdits
    /\ \E p \in Paths, x \in Fresh :
        /\ Readable(disk, p)
        /\ disk' = [disk EXCEPT ![p] = Append(@, x)]
        /\ job' = [r \in Requests |->
                    IF job[r].pc = "idle" THEN job[r]
                    ELSE [job[r] EXCEPT !.touched = @ \cup {p}]]
    /\ hands' = hands + 1
    /\ UNCHANGED <<editorMu, edits>>

Next ==
    \/ HandEdit
    \/ \E r \in Requests :
        \/ Begin(r) \/ WriteNew(r) \/ FailNew(r) \/ Collect(r) \/ Refuse(r)
        \/ Write(r) \/ FailWrite(r) \/ Validate(r) \/ Rollback(r) \/ Reject(r)
        \/ Discard(r) \/ Accept(r) \/ Return(r)

Spec == Init /\ [][Next]_vars

-----------------------------------------------------------------------------
\* Requests hold editorMu for the whole of an edit, and write only files that
\* are there or that they create.
TypeOK ==
    /\ \A p \in Paths : disk[p] \in {Torn, Absent} \/ disk[p] \in Entries
    /\ \A r \in Requests : job[r].pc # "idle" <=> editorMu = r
    /\ \A r \in Requests :
        /\ job[r].written \subseteq DOMAIN job[r].originals
        /\ job[r].edit.doomed \cap DOMAIN job[r].edit.todo = {}
    /\ edits \in 0..MaxEdits /\ hands \in 0..MaxHandEdits

\* "If a change is rejected, for example because an option is invalid or the
\* file cannot be written to, the config is left exactly as it was"
\* (docs/docs/ui-editor.md:129): whatever step an edit fails at, every file that
\* it could write is as before, but for files somebody else wrote meanwhile
\* (config-editor.go:851-1034).
RejectedChangesNothing ==
    \A r \in Requests : job[r].pc = "rejected" =>
        \A p \in Paths \ job[r].touched : disk[p] \in {job[r].before[p], Torn}

\* "Only once the config on disk is valid without them" (config-editor.go:916):
\* after an accepted edit the config loads, with the files that were deleted
\* gone (as StartsAssumption has it, no file is included twice: of that the first
\* include goes, and so does the file).
AcceptedLoads ==
    \A r \in Requests : job[r].pc = "accepted" /\ job[r].touched = {} => Loads(disk)

\* The same of what the config says, and of every failure: what loaded still
\* loads, with the same pages and widgets.
RejectedKeepsConfig ==
    \A r \in Requests : job[r].pc = "rejected" /\ job[r].touched = {} =>
        /\ PartsOf(disk) = PartsOf(job[r].before)
        /\ Loads(job[r].before) => Loads(disk)

Pending == {r \in Requests :
                job[r].pc \in {"file", "collect", "write", "rollback"}}

\* An edit takes effect when the config has been validated.
Committed ==
    IF Pending = {} THEN PartsOf(disk)
    ELSE PartsOf(job[CHOOSE r \in Pending : TRUE].before)

Store == INSTANCE ConfigStore WITH config <- Committed, Parts <- Parts \cup {Bad}

\* Every edit is one step of ConfigStore, however many files it writes and
\* deletes, unless somebody else changes a file during it or a write stops half-way:
\* config-editor.go:430-528, 851-1034.
EditsAreAtomic ==
    [][\/ \E r \in Requests : job[r].touched # {}
       \/ \E p \in Paths : disk'[p] = Torn
       \/ Store!Next]_Committed
=============================================================================

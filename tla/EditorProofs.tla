---------------------------- MODULE EditorProofs ----------------------------
(***************************************************************************)
(* How an edit of the UI editor gets to disk, or does not; which page and  *)
(* which lists it changes is in EditorPageProofs.  The level that is not   *)
(* followed keeps its variables, so that each can be proved of its own     *)
(* steps.                                                                  *)
(***************************************************************************)
EXTENDS Editor, SequenceTheorems, TLAPS

Distinct == INSTANCE SlugProofs

-----------------------------------------------------------------------------
JobFields == {"pc", "edit", "originals", "written", "before", "touched"}

\* The file an edit creates was not there, and is not among those it changes.
CreatesItsFile(j) ==
    j.edit.new.path \in Paths =>
        j.edit.new.path \notin DOMAIN j.edit.todo /\ j.before[j.edit.new.path] = Absent

WritesWhatItChanges(j) ==
    /\ j.pc \in {"file", "collect"} => j.written = {}
    /\ j.pc \in {"write", "rollback"} => j.written \subseteq DOMAIN j.edit.todo

\* What an edit knows of a file that nobody else touched: it is as it was, or it
\* is known how it was.
KnowsHowItWas(j, d) ==
    \A p \in Paths \ j.touched :
        /\ j.pc = "file" => d[p] = j.before[p]
        /\ j.pc = "collect" => d[p] = j.before[p] \/ p = j.edit.new.path
        /\ j.pc = "write" =>
              /\ p \in DOMAIN j.edit.todo => j.originals[p] = j.before[p]
              /\ p \notin j.written => d[p] = j.before[p] \/ p = j.edit.new.path
        /\ j.pc = "rollback" =>
              /\ p \in j.written => j.originals[p] = j.before[p]
              /\ p \notin j.written => d[p] \in {j.before[p], Torn} \/ p = j.edit.new.path
        /\ j.pc = "rejected" => d[p] \in {j.before[p], Torn}

JobOK(j, d) ==
    /\ j = [x \in JobFields |-> j[x]]
    /\ j.pc # "idle" => CreatesItsFile(j) /\ WritesWhatItChanges(j) /\ KnowsHowItWas(j, d)

EditInv ==
    /\ disk = [p \in Paths |-> disk[p]]
    /\ job = [r \in Requests |-> job[r]]
    /\ \A r \in Requests : job[r].pc # "idle" <=> editorMu = r
    /\ \A r \in Requests : JobOK(job[r], disk)

LEMMA EditsStart ==
    ASSUME Init PROVE EditInv
  <1>1. Idle = [x \in JobFields |-> Idle[x]] /\ Idle.pc = "idle"
    BY DEF Idle, JobFields
  <1>2. \A r \in Requests : job[r] = Idle /\ editorMu # r
    BY NoneAssumption DEF Init
  <1>3. disk = [p \in Paths |-> disk[p]]
    BY StartsAssumption DEF Init
  <1> QED  BY <1>1, <1>2, <1>3 DEF Init, EditInv, JobOK

\* editorMu: while one request edits, the others do not.
LEMMA EditingGoesOn ==
    ASSUME EditInv, NEW r \in Requests, job[r].pc # "idle",
           NEW x, job' = [job EXCEPT ![r] = x], x.pc # "idle", JobOK(x, disk'),
           disk' = [p \in Paths |-> disk'[p]], editorMu' = editorMu
    PROVE  EditInv'
  <1>1. \A s \in Requests : job'[s] = IF s = r THEN x ELSE job[s]
    BY DEF EditInv
  <1>2. \A s \in Requests : s # r => job[s].pc = "idle"
    BY DEF EditInv
  <1>3. \A s \in Requests : JobOK(job'[s], disk')
    BY <1>1, <1>2 DEF EditInv, JobOK
  <1>4. \A s \in Requests : job'[s].pc # "idle" <=> editorMu' = s
    BY <1>1 DEF EditInv
  <1>5. job' = [s \in Requests |-> job'[s]]
    BY DEF EditInv
  <1> QED  BY <1>3, <1>4, <1>5 DEF EditInv

\* Where the files were when the edit began, Begin takes over.
LEMMA EditsCreate ==
    ASSUME Readable(disk, Main), NEW e \in Edits, e.new.path \in Paths
    PROVE  e.new.path \notin DOMAIN e.todo /\ disk[e.new.path] = Absent
  <1>1. \A todo, new, doomed : Edit(todo, new, doomed).todo = todo /\ Edit(todo, new, doomed).new = new
    BY DEF Edit
  <1>2. ASSUME NEW todo, NEW doomed, e = Edit(todo, NoFile, doomed) PROVE FALSE
    BY <1>1, <1>2, NoneAssumption DEF NoFile, Paths
  <1> HIDE DEF NoFile
  <1>3. CASE e \in AddPageInline \cup EditPage
    <2>1. CASE e \in AddPageInline
      <3>1. PICK x \in Fresh : e = Edit(One(Main, Append(disk[Main], x)), NoFile, {})
        BY <2>1 DEF AddPageInline
      <3> QED  BY <1>2, <3>1
    <2>2. CASE e \in EditPage
      <3>1. PICK c \in Slots, x \in Fresh :
                e = Edit(One(c[1].path, [disk[c[1].path] EXCEPT ![c[1].at] = x]), NoFile, {})
        BY <2>2 DEF EditPage
      <3> QED  BY <1>2, <3>1
    <2> QED  BY <1>3, <2>1, <2>2
  <1>4. CASE e \in RemovePage
    BY <1>2, <1>4 DEF RemovePage
  <1>5. CASE e \in MoveWidget
    BY <1>2, <1>5 DEF MoveWidget
  <1>6. CASE e \in SplitWidgetFile
    <2>1. PICK c \in Slots, f \in {g \in Files : disk[g] = Absent}, x \in Fresh :
              e = Edit(Two(c[1].path, Append(disk[c[1].path], f), f, <<x>>), NoFile, {})
      BY <1>6 DEF SplitWidgetFile
    <2> QED  BY <1>2, <2>1
  <1>7. CASE e \in AddPageFile
    <2>1. PICK f \in {g \in Files : disk[g] = Absent}, x \in Fresh :
              e = Edit(One(Main, Append(disk[Main], f)), [path |-> f, entries |-> <<x>>], {})
      BY <1>7 DEF AddPageFile
    <2>2. DOMAIN e.todo = {Main} /\ e.new.path = f
      BY <1>1, <2>1 DEF One
    <2> QED  BY <2>1, <2>2 DEF Readable
  <1> QED  BY <1>3, <1>4, <1>5, <1>6, <1>7 DEF Edits

LEMMA BeginKeeps == ASSUME EditInv, NEW r \in Requests, Begin(r) PROVE EditInv'
  <1> USE DEF Begin
  <1>1. PICK e \in Edits : job' = [job EXCEPT ![r] =
            [Idle EXCEPT !.edit = e, !.before = disk,
                         !.pc = IF e.new = NoFile THEN "collect" ELSE "file"]]
    OBVIOUS
  <1>2. PICK x : x = [Idle EXCEPT !.edit = e, !.before = disk,
                                  !.pc = IF e.new = NoFile THEN "collect" ELSE "file"]
    OBVIOUS
  <1>3. /\ x = [y \in JobFields |-> x[y]]
        /\ x.edit = e /\ x.before = disk /\ x.written = {} /\ x.touched = {}
        /\ x.pc = IF e.new = NoFile THEN "collect" ELSE "file"
    BY <1>2 DEF Idle, JobFields
  <1>4. CreatesItsFile(x) /\ WritesWhatItChanges(x) /\ KnowsHowItWas(x, disk)
    BY <1>3, EditsCreate DEF CreatesItsFile, WritesWhatItChanges, KnowsHowItWas
  <1>5. \A s \in Requests : job'[s] = IF s = r THEN x ELSE job[s]
    BY <1>1, <1>2 DEF EditInv
  <1>6. \A s \in Requests : s # r => job[s].pc = "idle"
    BY NoneAssumption DEF EditInv, MayEdit
  <1>7. \A s \in Requests : job'[s].pc # "idle" <=> editorMu' = s
    BY <1>3, <1>5, <1>6
  <1>8. \A s \in Requests : JobOK(job'[s], disk')
    <2> TAKE s \in Requests
    <2>1. CASE s = r
      BY <1>3, <1>4, <1>5, <2>1 DEF JobOK
    <2>2. CASE s # r
      BY <1>5, <1>6, <2>2 DEF EditInv, JobOK
    <2> QED  BY <2>1, <2>2
  <1>9. job' = [s \in Requests |-> job'[s]]
    BY DEF EditInv
  <1> QED  BY <1>7, <1>8, <1>9 DEF EditInv

\* An edit that goes on to another stage.
LEMMA GoesOn ==
    ASSUME EditInv, NEW r \in Requests, job[r].pc # "idle", NEW stage, Goes(r, stage)
    PROVE  \E x : /\ job' = [job EXCEPT ![r] = x]
                  /\ x = [y \in JobFields |-> x[y]] /\ x.pc = stage
                  /\ \A y \in JobFields \ {"pc"} : x[y] = job[r][y]
                  /\ x.edit = job[r].edit /\ x.originals = job[r].originals
                  /\ x.written = job[r].written /\ x.before = job[r].before
                  /\ x.touched = job[r].touched
                  /\ CreatesItsFile(job[r]) => CreatesItsFile(x)
  <1>1. job[r] = [y \in JobFields |-> job[r][y]]
    BY DEF EditInv, JobOK
  <1>2. PICK j : j = job[r]
    OBVIOUS
  <1>3. PICK x : x = [j EXCEPT !.pc = stage]
    OBVIOUS
  <1>4. job' = [job EXCEPT ![r] = x]
    BY <1>2, <1>3 DEF Goes, EditInv
  <1>5. x = [y \in JobFields |-> IF y = "pc" THEN stage ELSE j[y]]
    BY <1>1, <1>2, <1>3 DEF JobFields
  <1>6. \A y \in JobFields : x[y] = IF y = "pc" THEN stage ELSE j[y]
    BY <1>5
  <1>7. /\ x.pc = stage /\ x.edit = job[r].edit /\ x.originals = job[r].originals
        /\ x.written = job[r].written /\ x.before = job[r].before
        /\ x.touched = job[r].touched
    BY <1>2, <1>6 DEF JobFields
  <1> QED  BY <1>2, <1>4, <1>5, <1>6, <1>7 DEF CreatesItsFile
LEMMA NewFileKeeps ==
    ASSUME EditInv, NEW r \in Requests, WriteNew(r) \/ FailNew(r) PROVE EditInv'
  <1>1. PICK stage : Goes(r, stage) /\ stage = IF WriteNew(r) THEN "collect" ELSE "rejected"
    BY DEF WriteNew, FailNew
  <1>2. job[r].pc = "file" /\ JobOK(job[r], disk) /\ stage \in {"collect", "rejected"}
    BY <1>1 DEF WriteNew, FailNew, EditInv
  <1>3. PICK x : /\ job' = [job EXCEPT ![r] = x]
                 /\ x = [y \in JobFields |-> x[y]] /\ x.pc = stage
                 /\ x.edit = job[r].edit /\ x.written = job[r].written
                 /\ x.before = job[r].before /\ x.touched = job[r].touched
                 /\ CreatesItsFile(job[r]) => CreatesItsFile(x)
    BY <1>1, <1>2, GoesOn
  <1>4. /\ disk' = [p \in Paths |-> disk'[p]]
        /\ \A p \in Paths : p # x.edit.new.path => disk'[p] = disk[p]
        /\ stage = "rejected" => \A p \in Paths : disk'[p] \in {disk[p], Torn}
    BY <1>1, <1>3 DEF WriteNew, FailNew, EditInv
  <1>5. WritesWhatItChanges(x) /\ KnowsHowItWas(x, disk')
    BY <1>2, <1>3, <1>4 DEF JobOK, WritesWhatItChanges, KnowsHowItWas
  <1>6. JobOK(x, disk')
    BY <1>2, <1>3, <1>5 DEF JobOK
  <1> QED  BY <1>1, <1>2, <1>3, <1>4, <1>6, EditingGoesOn DEF WriteNew, FailNew

\* writeConfigCandidates remembers what it is about to overwrite.
LEMMA CollectKeeps == ASSUME EditInv, NEW r \in Requests, Collect(r) PROVE EditInv'
  <1>1. PICK j : j = job[r]
    OBVIOUS
  <1>2. j.pc = "collect" /\ JobOK(j, disk) /\ disk' = disk /\ editorMu' = editorMu
    BY <1>1 DEF Collect, EditInv
  <1>3. PICK originals : originals = [p \in DOMAIN j.edit.todo |-> disk[p]]
    OBVIOUS
  <1>4. PICK x : x = [j EXCEPT !.originals = originals, !.pc = "write"]
    OBVIOUS
  <1>5. job' = [job EXCEPT ![r] = x]
    BY <1>1, <1>3, <1>4 DEF Collect, EditInv
  <1>6. /\ x = [y \in JobFields |-> x[y]] /\ x.pc = "write" /\ x.originals = originals
        /\ x.edit = j.edit /\ x.written = j.written /\ x.before = j.before
        /\ x.touched = j.touched
    BY <1>2, <1>4 DEF JobOK, JobFields
  <1>7. CreatesItsFile(x) /\ WritesWhatItChanges(x)
    BY <1>2, <1>6 DEF JobOK, CreatesItsFile, WritesWhatItChanges
  <1>8. KnowsHowItWas(x, disk)
    BY <1>2, <1>3, <1>6 DEF JobOK, CreatesItsFile, WritesWhatItChanges, KnowsHowItWas
  <1>9. JobOK(x, disk')
    BY <1>2, <1>6, <1>7, <1>8 DEF JobOK
  <1> QED  BY <1>1, <1>2, <1>5, <1>6, <1>9, EditingGoesOn DEF EditInv

\* Once it is decided, an edit that failed goes back, from what it knows.
LEMMA DecisionKeeps ==
    ASSUME EditInv, NEW r \in Requests, NEW stage \in {"rollback", "discard", "accepted"},
           Goes(r, stage), disk' = disk, editorMu' = editorMu,
           job[r].pc \in {"collect", "write", "discard"},
           stage = "rollback" => job[r].pc \in {"collect", "write"}
    PROVE  EditInv'
  <1>1. PICK x : /\ job' = [job EXCEPT ![r] = x]
                 /\ x = [y \in JobFields |-> x[y]] /\ x.pc = stage
                 /\ x.edit = job[r].edit /\ x.originals = job[r].originals
                 /\ x.written = job[r].written /\ x.before = job[r].before
                 /\ x.touched = job[r].touched
                 /\ CreatesItsFile(job[r]) => CreatesItsFile(x)
    BY GoesOn
  <1>2. JobOK(job[r], disk)
    BY DEF EditInv
  <1>3. WritesWhatItChanges(x)
    BY <1>1, <1>2 DEF JobOK, WritesWhatItChanges
  <1>4. KnowsHowItWas(x, disk)
    BY <1>1, <1>2 DEF JobOK, KnowsHowItWas, WritesWhatItChanges
  <1>5. JobOK(x, disk')
    BY <1>1, <1>2, <1>3, <1>4 DEF JobOK
  <1>6. disk' = [p \in Paths |-> disk'[p]]
    BY DEF EditInv
  <1> QED  BY <1>1, <1>5, <1>6, EditingGoesOn

LEMMA ValidationKeeps ==
    ASSUME EditInv, NEW r \in Requests, Refuse(r) \/ Validate(r) \/ Accept(r) PROVE EditInv'
  <1>1. CASE Refuse(r)
    BY <1>1, DecisionKeeps DEF Refuse
  <1>2. CASE Validate(r)
    BY <1>2, DecisionKeeps DEF Validate
  <1>3. CASE Accept(r)
    BY <1>3, DecisionKeeps DEF Accept
  <1> QED  BY <1>1, <1>2, <1>3

\* What is written is remembered, so that it can be put back.
LEMMA WriteKeeps == ASSUME EditInv, NEW r \in Requests, Write(r) PROVE EditInv'
  <1>1. PICK j : j = job[r]
    OBVIOUS
  <1>2. PICK p \in Unwritten(j) :
            /\ disk' = [disk EXCEPT ![p] = j.edit.todo[p]]
            /\ job' = [job EXCEPT ![r].written = @ \cup {p}]
    BY <1>1 DEF Write
  <1>3. j.pc = "write" /\ JobOK(j, disk) /\ editorMu' = editorMu
    BY <1>1 DEF Write, EditInv
  <1>4. PICK x : x = [j EXCEPT !.written = @ \cup {p}]
    OBVIOUS
  <1>5. job' = [job EXCEPT ![r] = x]
    BY <1>1, <1>2, <1>4 DEF EditInv
  <1>6. /\ x = [y \in JobFields |-> x[y]] /\ x.pc = "write" /\ x.originals = j.originals
        /\ x.edit = j.edit /\ x.written = j.written \cup {p} /\ x.before = j.before
        /\ x.touched = j.touched
    BY <1>3, <1>4 DEF JobOK, JobFields
  <1>7. /\ disk' = [q \in Paths |-> disk'[q]]
        /\ \A q \in Paths : q # p => disk'[q] = disk[q]
    BY <1>2 DEF EditInv
  <1>8. CreatesItsFile(x) /\ WritesWhatItChanges(x)
    BY <1>2, <1>3, <1>6 DEF JobOK, CreatesItsFile, WritesWhatItChanges, Unwritten
  <1>9. KnowsHowItWas(x, disk')
    BY <1>3, <1>6, <1>7 DEF JobOK, KnowsHowItWas
  <1>10. JobOK(x, disk')
    BY <1>6, <1>8, <1>9 DEF JobOK
  <1> QED  BY <1>1, <1>3, <1>5, <1>6, <1>7, <1>10, EditingGoesOn

LEMMA FailWriteKeeps == ASSUME EditInv, NEW r \in Requests, FailWrite(r) PROVE EditInv'
  <1>1. PICK x : /\ job' = [job EXCEPT ![r] = x]
                 /\ x = [y \in JobFields |-> x[y]] /\ x.pc = "rollback"
                 /\ x.edit = job[r].edit /\ x.originals = job[r].originals
                 /\ x.written = job[r].written /\ x.before = job[r].before
                 /\ x.touched = job[r].touched
                 /\ CreatesItsFile(job[r]) => CreatesItsFile(x)
    BY GoesOn DEF FailWrite
  <1>2. JobOK(job[r], disk) /\ job[r].pc = "write" /\ editorMu' = editorMu
    BY DEF EditInv, FailWrite
  <1>3. PICK p \in Unwritten(job[r]) :
            \/ disk' = disk
            \/ disk' = [disk EXCEPT ![p] = IF job[r].originals[p] = Absent THEN Absent ELSE Torn]
    BY DEF FailWrite
  <1>4. /\ disk' = [q \in Paths |-> disk'[q]]
        /\ \A q \in Paths : \/ disk'[q] = disk[q]
                            \/ q = p /\ disk'[q] \in {job[r].originals[p], Torn}
    BY <1>3 DEF EditInv
  <1>5. CreatesItsFile(x) /\ WritesWhatItChanges(x)
    BY <1>1, <1>2 DEF JobOK, WritesWhatItChanges
  <1>6. KnowsHowItWas(x, disk')
    BY <1>1, <1>2, <1>3, <1>4 DEF JobOK, KnowsHowItWas, WritesWhatItChanges, Unwritten
  <1>7. JobOK(x, disk')
    BY <1>1, <1>5, <1>6 DEF JobOK
  <1> QED  BY <1>1, <1>2, <1>4, <1>7, EditingGoesOn

\* rollback: each file that was written gets its original back, or is torn.
LEMMA RollbackKeeps == ASSUME EditInv, NEW r \in Requests, Rollback(r) PROVE EditInv'
  <1>1. PICK j : j = job[r]
    OBVIOUS
  <1>2. PICK p \in j.written :
            /\ \/ disk' = [disk EXCEPT ![p] = AsItWas(j.originals[p])]
               \/ j.originals[p] # Absent /\ disk' = [disk EXCEPT ![p] = Torn]
            /\ job' = [job EXCEPT ![r].written = @ \ {p}]
    BY <1>1 DEF Rollback
  <1>3. j.pc = "rollback" /\ JobOK(j, disk) /\ editorMu' = editorMu
    BY <1>1 DEF Rollback, EditInv
  <1>4. PICK x : x = [j EXCEPT !.written = @ \ {p}]
    OBVIOUS
  <1>5. job' = [job EXCEPT ![r] = x]
    BY <1>1, <1>2, <1>4 DEF EditInv
  <1>6. /\ x = [y \in JobFields |-> x[y]] /\ x.pc = "rollback" /\ x.originals = j.originals
        /\ x.edit = j.edit /\ x.written = j.written \ {p} /\ x.before = j.before
        /\ x.touched = j.touched
    BY <1>3, <1>4 DEF JobOK, JobFields
  <1>7. /\ disk' = [q \in Paths |-> disk'[q]]
        /\ \A q \in Paths : IF q = p THEN disk'[q] \in {j.originals[p], Torn}
                            ELSE disk'[q] = disk[q]
    BY <1>2 DEF EditInv, AsItWas
  <1>8. CreatesItsFile(x) /\ WritesWhatItChanges(x)
    BY <1>2, <1>3, <1>6 DEF JobOK, CreatesItsFile, WritesWhatItChanges
  <1>9. KnowsHowItWas(x, disk')
    BY <1>2, <1>3, <1>6, <1>7 DEF JobOK, KnowsHowItWas
  <1>10. JobOK(x, disk')
    BY <1>6, <1>8, <1>9 DEF JobOK
  <1> QED  BY <1>1, <1>3, <1>5, <1>6, <1>7, <1>10, EditingGoesOn

\* A rejected addPageFile takes away the file that was not there before.
LEMMA RejectKeeps == ASSUME EditInv, NEW r \in Requests, Reject(r) PROVE EditInv'
  <1>1. PICK x : /\ job' = [job EXCEPT ![r] = x]
                 /\ x = [y \in JobFields |-> x[y]] /\ x.pc = "rejected"
                 /\ x.edit = job[r].edit /\ x.originals = job[r].originals
                 /\ x.written = job[r].written /\ x.before = job[r].before
                 /\ x.touched = job[r].touched
                 /\ CreatesItsFile(job[r]) => CreatesItsFile(x)
    BY GoesOn DEF Reject
  <1>2. JobOK(job[r], disk) /\ job[r].pc = "rollback" /\ job[r].written = {} /\ editorMu' = editorMu
    BY DEF EditInv, Reject
  <1>3. disk' = [p \in Paths |-> IF p = job[r].edit.new.path THEN Absent ELSE disk[p]]
    BY DEF Reject
  <1>4. CreatesItsFile(x) /\ WritesWhatItChanges(x)
    BY <1>1, <1>2 DEF JobOK, WritesWhatItChanges
  <1>5. KnowsHowItWas(x, disk')
    BY <1>1, <1>2, <1>3 DEF JobOK, KnowsHowItWas, CreatesItsFile
  <1>6. JobOK(x, disk')
    BY <1>1, <1>4, <1>5 DEF JobOK
  <1>7. disk' = [p \in Paths |-> disk'[p]]
    BY <1>3
  <1> QED  BY <1>1, <1>2, <1>6, <1>7, EditingGoesOn

LEMMA DiscardKeeps == ASSUME EditInv, NEW r \in Requests, Discard(r) PROVE EditInv'
  <1>1. PICK j : j = job[r]
    OBVIOUS
  <1>2. PICK p \in j.edit.doomed :
            /\ disk' = [disk EXCEPT ![p] = Absent]
            /\ job' = [job EXCEPT ![r].edit.doomed = @ \ {p}]
    BY <1>1 DEF Discard
  <1>3. j.pc = "discard" /\ JobOK(j, disk) /\ editorMu' = editorMu
    BY <1>1 DEF Discard, EditInv
  <1>4. PICK e : e = [j.edit EXCEPT !.doomed = @ \ {p}]
    OBVIOUS
  <1>5. PICK x : x = [j EXCEPT !.edit = e]
    OBVIOUS
  <1>6. job' = [job EXCEPT ![r] = x]
    BY <1>1, <1>2, <1>3, <1>4, <1>5 DEF EditInv, JobOK, JobFields
  <1>7. /\ x = [y \in JobFields |-> x[y]] /\ x.pc = "discard"
        /\ x.edit = e /\ x.before = j.before
    BY <1>3, <1>5 DEF JobOK, JobFields
  <1>8. e.new = j.edit.new /\ e.todo = j.edit.todo
    BY <1>4
  <1>9. CreatesItsFile(x) /\ WritesWhatItChanges(x) /\ KnowsHowItWas(x, disk')
    BY <1>3, <1>7, <1>8 DEF JobOK, CreatesItsFile, WritesWhatItChanges, KnowsHowItWas
  <1>10. JobOK(x, disk') /\ disk' = [q \in Paths |-> disk'[q]]
    BY <1>2, <1>7, <1>9 DEF JobOK, EditInv
  <1> QED  BY <1>1, <1>3, <1>6, <1>7, <1>10, EditingGoesOn

LEMMA ReturnKeeps == ASSUME EditInv, NEW r \in Requests, Return(r) PROVE EditInv'
  <1>1. Idle = [x \in JobFields |-> Idle[x]] /\ Idle.pc = "idle"
    BY DEF Idle, JobFields
  <1>2. \A s \in Requests : job'[s] = IF s = r THEN Idle ELSE job[s]
    BY DEF EditInv, Return
  <1>3. \A s \in Requests : s # r => job[s].pc = "idle"
    BY DEF EditInv, Return
  <1>4. \A s \in Requests : JobOK(job'[s], disk') /\ job'[s].pc = "idle" /\ editorMu' # s
    BY <1>1, <1>2, <1>3, NoneAssumption DEF EditInv, JobOK, Return
  <1>5. job' = [s \in Requests |-> job'[s]] /\ disk' = disk
    BY DEF EditInv, Return
  <1> QED  BY <1>4, <1>5 DEF EditInv

\* Whatever somebody saves by hand, the edit under way has been told, as it were.
LEMMA HandEditKeeps == ASSUME EditInv, HandEdit PROVE EditInv'
  <1>1. PICK p \in Paths, y \in Fresh :
            /\ disk' = [disk EXCEPT ![p] = Append(@, y)]
            /\ job' = [r \in Requests |->
                        IF job[r].pc = "idle" THEN job[r]
                        ELSE [job[r] EXCEPT !.touched = @ \cup {p}]]
    BY DEF HandEdit
  <1>2. editorMu' = editorMu
    BY DEF HandEdit
  <1>3. /\ disk' = [q \in Paths |-> disk'[q]]
        /\ \A q \in Paths \ {p} : disk'[q] = disk[q]
    BY <1>1 DEF EditInv
  <1>4. ASSUME NEW r \in Requests
        PROVE  JobOK(job'[r], disk') /\ job'[r].pc = job[r].pc
    <2>1. JobOK(job[r], disk)
      BY DEF EditInv
    <2>2. CASE job[r].pc = "idle"
      BY <1>1, <2>1, <2>2 DEF JobOK
    <2>3. CASE job[r].pc # "idle"
      <3>1. PICK j : j = job[r]
        OBVIOUS
      <3>2. PICK x : x = [j EXCEPT !.touched = @ \cup {p}]
        OBVIOUS
      <3>3. job'[r] = x
        BY <1>1, <2>3, <3>1, <3>2
      <3>4. /\ x = [z \in JobFields |-> x[z]] /\ x.pc = j.pc /\ x.originals = j.originals
            /\ x.edit = j.edit /\ x.written = j.written /\ x.before = j.before
            /\ x.touched = j.touched \cup {p}
        BY <2>1, <3>1, <3>2 DEF JobOK, JobFields
      <3>5. CreatesItsFile(x) /\ WritesWhatItChanges(x)
        BY <2>1, <2>3, <3>1, <3>4 DEF JobOK, CreatesItsFile, WritesWhatItChanges
      <3>6. KnowsHowItWas(x, disk')
        BY <1>3, <2>1, <2>3, <3>1, <3>4 DEF JobOK, KnowsHowItWas
      <3> QED  BY <3>1, <3>3, <3>4, <3>5, <3>6 DEF JobOK
    <2> QED  BY <2>2, <2>3
  <1>5. job' = [r \in Requests |-> job'[r]]
    BY <1>1
  <1> QED  BY <1>2, <1>3, <1>4, <1>5 DEF EditInv

LEMMA EditStepKeeps == ASSUME EditInv, [Next]_vars PROVE EditInv'
  <1>1. CASE UNCHANGED vars
    BY <1>1 DEF EditInv, vars
  <1>2. CASE HandEdit
    BY <1>2, HandEditKeeps
  <1>3. ASSUME NEW r \in Requests,
               \/ Begin(r) \/ WriteNew(r) \/ FailNew(r) \/ Collect(r) \/ Refuse(r)
               \/ Write(r) \/ FailWrite(r) \/ Validate(r) \/ Rollback(r) \/ Reject(r)
               \/ Discard(r) \/ Accept(r) \/ Return(r)
        PROVE  EditInv'
    BY <1>3, BeginKeeps, NewFileKeeps, CollectKeeps, ValidationKeeps, WriteKeeps, FailWriteKeeps,
       RollbackKeeps, RejectKeeps, DiscardKeeps, ReturnKeeps
  <1> QED  BY <1>1, <1>2, <1>3 DEF Next
LEMMA DiskSteps == [EditorNext]_editorVars => [Next]_vars
  BY DEF EditorNext, editorVars

LEMMA EditsAlways == EditorSpec => []EditInv
  <1>1. EditorInit => EditInv
    BY EditsStart DEF EditorInit
  <1>2. EditInv /\ [EditorNext]_editorVars => EditInv'
    BY DiskSteps, EditStepKeeps
  <1> QED  BY <1>1, <1>2, PTL DEF EditorSpec

\* Whatever an edit changes, and at whichever of its steps it fails, every file it
\* could have written is as it was before, or is one whose writing stopped
\* half-way: writeConfigCandidates and its rollback, for any number of requests
\* and files, and of files somebody saves by hand meanwhile.
THEOREM RejectedChangesNothingHolds == EditorSpec => []RejectedChangesNothing
  <1>1. EditInv => RejectedChangesNothing
    BY DEF EditInv, JobOK, KnowsHowItWas, RejectedChangesNothing
  <1> QED  BY <1>1, EditsAlways, PTL
-----------------------------------------------------------------------------
\* What the merged config is made of: the positions that parseYAMLIncludes goes
\* through, by depth, and that there is such a function of the depth.

Further(d, outer) ==
    LET open == {c \in outer : Entry(d, c) \in Files /\ Readable(d, Entry(d, c))}
    IN  outer \cup UNION {{<<here>> \o c : here \in At(d, Entry(d, c))} : c \in open}

Continues(d, c, e) ==
    /\ Entry(d, c) \in Files /\ Readable(d, Entry(d, c))
    /\ \E here \in At(d, Entry(d, c)) : e = <<here>> \o c

LEMMA FurtherIs ==
    ASSUME NEW d, NEW outer, NEW e
    PROVE  e \in Further(d, outer) <=> e \in outer \/ \E c \in outer : Continues(d, c, e)
  <1> DEFINE open == {c \in outer : Entry(d, c) \in Files /\ Readable(d, Entry(d, c))}
             inside(c) == {<<here>> \o c : here \in At(d, Entry(d, c))}
  <1>1. Further(d, outer) = outer \cup UNION {inside(c) : c \in open}
    BY DEF Further
  <1>2. e \in UNION {inside(c) : c \in open} <=> \E c \in open : e \in inside(c)
    <2> HIDE DEF inside, open
    <2> QED  OBVIOUS
  <1>3. \A c : e \in inside(c) <=> \E here \in At(d, Entry(d, c)) : e = <<here>> \o c
    OBVIOUS
  <1>4. \A c \in outer : Continues(d, c, e) <=> c \in open /\ e \in inside(c)
    BY <1>3 DEF Continues
  <1> HIDE DEF inside
  <1> QED  BY <1>1, <1>2, <1>4

Levels(d, n, u) ==
    u = [depth \in 0..n |->
            IF depth = 0 THEN {<<here>> : here \in At(d, Main)} ELSE Further(d, u[depth - 1])]

LEMMA LevelsEnd ==
    ASSUME NEW d, NEW n \in Nat
    PROVE  \E u : Levels(d, n, u)
  <1> DEFINE T == {m \in Nat : ~ \E u : Levels(d, m, u)}
             First == {<<here>> : here \in At(d, Main)}
  <1> SUFFICES ASSUME T # {} PROVE FALSE
    OBVIOUS
  <1>1. PICK m \in T : \A y \in T : m <= y
    BY Distinct!Least
  <1>2. CASE m = 0
    <2> DEFINE u == [depth \in 0..0 |-> First]
    <2>1. u = [depth \in 0..0 |-> IF depth = 0 THEN First ELSE Further(d, u[depth - 1])]
      OBVIOUS
    <2>2. Levels(d, 0, u)
      BY <2>1 DEF Levels
    <2> QED  BY <1>1, <1>2, <2>2
  <1>3. CASE m # 0
    <2>1. m - 1 \in Nat /\ m - 1 \notin T
      BY <1>1, <1>3
    <2>2. PICK t : Levels(d, m - 1, t)
      BY <2>1
    <2> DEFINE u == [depth \in 0..m |-> IF depth = m THEN Further(d, t[m - 1]) ELSE t[depth]]
    <2> HIDE DEF First
    <2>3. \A i \in 0..m - 1 : t[i] = IF i = 0 THEN First ELSE Further(d, t[i - 1])
      BY <2>2, <2>1 DEF Levels, First
    <2>4. \A i \in 0..m - 1 : u[i] = t[i]
      BY <2>1
    <2>5. u[m] = Further(d, u[m - 1])
      <3>1. u[m] = Further(d, t[m - 1]) /\ m - 1 \in 0..m - 1
        BY <2>1
      <3> HIDE DEF u
      <3> QED  BY <3>1, <2>4
    <2>6. \A i \in 0..m : u[i] = IF i = 0 THEN First ELSE Further(d, u[i - 1])
      <3> TAKE i \in 0..m
      <3>1. CASE i = m
        BY <1>3, <2>5, <3>1
      <3>2. CASE i # m
        <4>1. i \in 0..m - 1 /\ (i # 0 => i - 1 \in 0..m - 1)
          BY <2>1, <3>2
        <4> HIDE DEF u
        <4> QED  BY <4>1, <2>3, <2>4
      <3> QED  BY <3>1, <3>2
    <2>7. u = [i \in 0..m |-> IF i = 0 THEN First ELSE Further(d, u[i - 1])]
      <3>1. u = [i \in 0..m |-> u[i]]
        OBVIOUS
      <3> HIDE DEF u
      <3> QED  BY <3>1, <2>6
    <2>8. Levels(d, m, u)
      BY <2>7 DEF Levels, First
    <2> QED  BY <1>1, <2>8
  <1> QED  BY <1>2, <1>3

LEMMA ChainsAre ==
    ASSUME NEW d
    PROVE  \E u : Levels(d, DepthLimit, u) /\ Chains(d) = IF Readable(d, Main) THEN u[DepthLimit] ELSE {}
  <1> DEFINE u == CHOOSE x : Levels(d, DepthLimit, x)
  <1>1. Levels(d, DepthLimit, u)
    BY LevelsEnd, EntriesAssumption
  <1>2. Chains(d) = IF Readable(d, Main) THEN u[DepthLimit] ELSE {}
    BY DEF Chains, Levels, Further
  <1> QED  BY <1>1, <1>2

\* From an entry to the include of its file, and so on to the main file.
Position == [path : Paths, at : Nat]

There(d, here) == here \in Position /\ Readable(d, here.path) /\ here.at \in DOMAIN d[here.path]

IsChain(d, c) ==
    /\ c \in Seq(Position) /\ Len(c) > 0 /\ c[Len(c)].path = Main
    /\ \A m \in 1..Len(c) : There(d, c[m])
    /\ \A m \in 1..Len(c) - 1 : c[m].path \in Files /\ d[c[m + 1].path][c[m + 1].at] = c[m].path

\* The texts of the files are sequences, or there is none.
Texts(d) == \A p \in Paths : d[p] \in {Torn, Absent} \/ d[p] \in Entries

LEMMA AtIsThere ==
    ASSUME NEW d, Texts(d), NEW p \in Paths, Readable(d, p), NEW here \in At(d, p)
    PROVE  There(d, here) /\ here.path = p
  <1>1. PICK i \in DOMAIN d[p] : here = [path |-> p, at |-> i]
    BY DEF At
  <1>2. d[p] \in Seq(Parts \cup {Bad} \cup Files)
    BY DEF Texts, Readable, Entries
  <1>3. i \in Nat
    BY <1>2
  <1> QED  BY <1>1, <1>3 DEF There, Position

LEMMA ChainGrows ==
    ASSUME NEW d, Texts(d), NEW c, IsChain(d, c), Entry(d, c) \in Files, Readable(d, Entry(d, c)),
           NEW here \in At(d, Entry(d, c))
    PROVE  IsChain(d, <<here>> \o c) /\ (<<here>> \o c)[1] = here
  <1>1. PICK f \in Files : f = Entry(d, c) /\ f = d[c[1].path][c[1].at] /\ f \in Paths
    BY DEF Entry, Paths
  <1>2. There(d, here) /\ here.path = f /\ here \in Position
    BY <1>1, AtIsThere DEF There
  <1>3. PICK n \in Nat : n = Len(c) /\ n > 0
    BY DEF IsChain
  <1>4. c \in Seq(Position)
    BY DEF IsChain
  <1>5. PICK e : e = <<here>> \o c
    OBVIOUS
  <1>6. e \in Seq(Position) /\ Len(e) = n + 1 /\ e[1] = here
    BY <1>2, <1>3, <1>4, <1>5
  <1>7. \A m \in 1..n : e[m + 1] = c[m]
    BY <1>3, <1>4, <1>5
  <1>8. \A m \in 1..n + 1 : m = 1 \/ \E k \in 1..n : m = k + 1
    <2> TAKE m \in 1..n + 1
    <2>1. CASE m # 1
      <3>1. m - 1 \in 1..n /\ m = (m - 1) + 1
        BY <2>1, <1>3
      <3> QED  BY <3>1
    <2> QED  BY <2>1
  <1>9. e[n + 1].path = Main
    BY <1>3, <1>7 DEF IsChain
  <1>10. \A m \in 1..n + 1 : There(d, e[m])
    BY <1>2, <1>3, <1>6, <1>7, <1>8 DEF IsChain
  <1>11. \A m \in 1..n : e[m].path \in Files /\ d[e[m + 1].path][e[m + 1].at] = e[m].path
    <2> TAKE m \in 1..n
    <2>1. CASE m = 1
      <3>1. e[2] = c[1]
        BY <1>3, <1>7
      <3> QED  BY <1>1, <1>2, <1>6, <2>1, <3>1
    <2>2. CASE m # 1
      <3>1. PICK k \in 1..n - 1 : m = k + 1
        <4>1. m - 1 \in 1..n - 1 /\ m = (m - 1) + 1
          BY <1>3, <2>2
        <4> QED  BY <4>1
      <3>2. k \in 1..n /\ k + 1 \in 1..n
        BY <1>3, <3>1
      <3>3. e[m] = c[k] /\ e[m + 1] = c[k + 1]
        BY <1>7, <3>1, <3>2
      <3>4. c[k].path \in Files /\ d[c[k + 1].path][c[k + 1].at] = c[k].path
        BY <1>3, <3>1 DEF IsChain
      <3> QED  BY <3>3, <3>4
    <2> QED  BY <2>1, <2>2
  <1>12. Len(e) - 1 = n
    BY <1>3, <1>6
  <1> QED  BY <1>3, <1>5, <1>6, <1>9, <1>10, <1>11, <1>12 DEF IsChain

\* Whatever the depth, a position is in a file, and each is followed by where the
\* include of its file is, up to the main file.
LEMMA ChainsAreChains ==
    ASSUME NEW d, Texts(d), NEW chain \in Chains(d)
    PROVE  IsChain(d, chain)
  <1>1. PICK u : Levels(d, DepthLimit, u) /\ Chains(d) = IF Readable(d, Main) THEN u[DepthLimit] ELSE {}
    BY ChainsAre
  <1>2. Readable(d, Main) /\ DepthLimit \in Nat
    BY <1>1, EntriesAssumption
  <1> DEFINE T == {m \in 0..DepthLimit : ~ \A e \in u[m] : IsChain(d, e)}
  <1>3. T = {}
    <2> SUFFICES ASSUME T # {} PROVE FALSE
      OBVIOUS
    <2>1. T \subseteq Nat
      BY <1>2
    <2>2. PICK m \in T : \A y \in T : m <= y
      <3> HIDE DEF T
      <3> QED  BY <2>1, Distinct!Least
    <2>3. CASE m = 0
      <3>1. u[0] = {<<here>> : here \in At(d, Main)}
        BY <1>1, <1>2 DEF Levels
      <3>2. ASSUME NEW here \in At(d, Main) PROVE IsChain(d, <<here>>)
        <4>1. There(d, here) /\ here.path = Main
          BY <1>2, <3>2, AtIsThere DEF Paths
        <4>2. here \in Position
          BY <4>1 DEF There
        <4> QED  BY <4>1, <4>2 DEF IsChain
      <3> QED  BY <2>2, <2>3, <3>1, <3>2
    <2>4. CASE m # 0
      <3>1. m - 1 \in 0..DepthLimit /\ m - 1 \notin T /\ m \in 0..DepthLimit
        BY <1>2, <2>2, <2>4
      <3>2. u[m] = Further(d, u[m - 1])
        BY <1>1, <2>4, <3>1 DEF Levels
      <3>3. \A e \in u[m - 1] : IsChain(d, e)
        BY <3>1
      <3>4. \A e \in Further(d, u[m - 1]) : IsChain(d, e)
        <4> TAKE e \in Further(d, u[m - 1])
        <4>1. CASE e \in u[m - 1]
          BY <3>3, <4>1
        <4>2. ASSUME NEW c \in u[m - 1], Continues(d, c, e) PROVE IsChain(d, e)
          BY <3>3, <4>2, ChainGrows DEF Continues
        <4> QED  BY <4>1, <4>2, FurtherIs
      <3> QED  BY <2>2, <3>2, <3>4
    <2> QED  BY <2>3, <2>4
  <1> QED  BY <1>1, <1>2, <1>3

\* Two configs have the same positions when the files in which they differ are
\* included, if at all, by one another.
Apart(d, D) == \A p \in Paths \ D : Named(d[p]) \cap D = {}

LEMMA SameChains ==
    ASSUME NEW d, Texts(d), NEW D, D \subseteq Files, Apart(d, D),
           NEW e, \A p \in Paths \ D : e[p] = d[p]
    PROVE  Chains(e) = Chains(d) /\ \A c \in Chains(d) : c[1].path \in Paths \ D /\ Entry(e, c) = Entry(d, c) /\ Entry(d, c) \notin D
  <1>1. PICK u : Levels(d, DepthLimit, u) /\ Chains(d) = IF Readable(d, Main) THEN u[DepthLimit] ELSE {}
    BY ChainsAre
  <1>2. PICK v : Levels(e, DepthLimit, v) /\ Chains(e) = IF Readable(e, Main) THEN v[DepthLimit] ELSE {}
    BY ChainsAre
  <1>3. DepthLimit \in Nat /\ Main \in Paths \ D
    BY EntriesAssumption DEF Paths
  <1>4. Readable(e, Main) <=> Readable(d, Main)
    BY <1>3 DEF Readable
  <1> DEFINE Outside(c) == IsChain(d, c) /\ c[1].path \in Paths \ D
             T == {m \in 0..DepthLimit : ~ (v[m] = u[m] /\ \A c \in u[m] : Outside(c))}
  <1>5. ASSUME NEW c, Outside(c) PROVE Entry(e, c) = Entry(d, c) /\ Entry(d, c) \notin D
    <2>1. PICK p, i : p \in Paths \ D /\ p = c[1].path /\ i = c[1].at /\ i \in DOMAIN d[p] /\ Readable(d, p)
      BY <1>5 DEF IsChain, There
    <2>2. Entry(d, c) = d[p][i] /\ Entry(e, c) = e[p][i] /\ e[p] = d[p]
      BY <2>1 DEF Entry
    <2>3. d[p][i] \in Files => d[p][i] \in Named(d[p])
      BY <2>1 DEF Named, Readable, ToSet
    <2> QED  BY <2>1, <2>2, <2>3 DEF Apart
  <1>6. ASSUME NEW p \in Paths \ D PROVE At(e, p) = At(d, p) /\ (Readable(e, p) <=> Readable(d, p))
    BY <1>6 DEF At, Readable
  <1>7. CASE Readable(d, Main)
    <2>1. T = {}
      <3> SUFFICES ASSUME T # {} PROVE FALSE
        OBVIOUS
      <3>1. T \subseteq Nat
        BY <1>3
      <3>2. PICK m \in T : \A y \in T : m <= y
        <4> HIDE DEF T
        <4> QED  BY <3>1, Distinct!Least
      <3>3. CASE m = 0
        <4>1. u[0] = {<<here>> : here \in At(d, Main)} /\ v[0] = {<<here>> : here \in At(e, Main)}
          BY <1>1, <1>2, <1>3 DEF Levels
        <4>2. v[0] = u[0]
          BY <1>3, <1>6, <4>1
        <4>3. ASSUME NEW here \in At(d, Main) PROVE Outside(<<here>>)
          <5>1. There(d, here) /\ here.path = Main
            BY <1>3, <1>7, <4>3, AtIsThere
          <5>2. here \in Position
            BY <5>1 DEF There
          <5> QED  BY <1>3, <5>1, <5>2 DEF IsChain
        <4> HIDE DEF Outside
        <4>4. \A c \in u[0] : Outside(c)
          BY <4>1, <4>3
        <4> QED  BY <3>2, <3>3, <4>2, <4>4
      <3>4. CASE m # 0
        <4>1. m - 1 \in 0..DepthLimit /\ m - 1 \notin T /\ m \in 0..DepthLimit
          BY <1>3, <3>2, <3>4
        <4>2. PICK before : before = u[m - 1] /\ before = v[m - 1] /\ \A c \in before : Outside(c)
          BY <4>1
        <4>3. u[m] = Further(d, before) /\ v[m] = Further(e, before)
          <5>1. u[m] = Further(d, u[m - 1])
            BY <1>1, <3>4, <4>1 DEF Levels
          <5>2. v[m] = Further(e, v[m - 1])
            BY <1>2, <3>4, <4>1 DEF Levels
          <5> QED  BY <4>2, <5>1, <5>2
        <4>4. \A c \in before : Entry(e, c) = Entry(d, c) /\ Entry(d, c) \notin D
          BY <1>5, <4>2
        <4> HIDE DEF Outside
        <4>5. \A c \in before : Entry(d, c) \in Files =>
                  /\ At(e, Entry(e, c)) = At(d, Entry(d, c))
                  /\ Readable(e, Entry(e, c)) <=> Readable(d, Entry(d, c))
          BY <1>6, <4>4 DEF Paths
        <4>6. \A x : x \in Further(e, before) <=> x \in Further(d, before)
          <5> TAKE x
          <5>1. \A c \in before : Continues(e, c, x) <=> Continues(d, c, x)
            BY <4>4, <4>5 DEF Continues
          <5> QED  BY <5>1, FurtherIs
        <4>8. Further(e, before) = Further(d, before)
          BY <4>6 DEF Further
        <4>9. ASSUME NEW c \in before, Entry(d, c) \in Files, Readable(d, Entry(d, c)),
                     NEW here \in At(d, Entry(d, c))
              PROVE  Outside(<<here>> \o c)
          <5>1. IsChain(d, c) /\ Entry(d, c) \in Files \ D /\ Readable(d, Entry(d, c))
            BY <4>2, <4>4, <4>9 DEF Outside
          <5>2. IsChain(d, <<here>> \o c) /\ (<<here>> \o c)[1] = here
            BY <4>9, <5>1, ChainGrows
          <5>3. here.path = Entry(d, c)
            BY <4>9, <5>1, AtIsThere DEF Paths
          <5> QED  BY <5>1, <5>2, <5>3 DEF Outside, Paths
        <4>10. \A c \in Further(d, before) : Outside(c)
          <5> TAKE x \in Further(d, before)
          <5>1. CASE x \in before
            BY <4>2, <5>1
          <5>2. ASSUME NEW c \in before, Continues(d, c, x) PROVE Outside(x)
            BY <4>9, <5>2 DEF Continues
          <5> QED  BY <5>1, <5>2, FurtherIs
        <4> QED  BY <3>2, <4>3, <4>8, <4>10
      <3> QED  BY <3>3, <3>4
    <2>2. DepthLimit \in 0..DepthLimit
      BY <1>3
    <2>3. v[DepthLimit] = u[DepthLimit] /\ \A c \in u[DepthLimit] : Outside(c)
      BY <2>1, <2>2
    <2> QED  BY <1>1, <1>2, <1>4, <1>5, <1>7, <2>3
  <1> QED  BY <1>1, <1>2, <1>4, <1>7

\* So they can be deleted.
LEMMA LoadsWithout ==
    ASSUME NEW d, Texts(d), NEW D, D \subseteq Files, Apart(d, D), Loads(d),
           NEW e, \A p \in Paths \ D : e[p] = d[p]
    PROVE  Loads(e)
  <1>1. /\ Chains(e) = Chains(d)
        /\ \A c \in Chains(d) : Entry(e, c) = Entry(d, c) /\ Entry(d, c) \notin D
    BY SameChains
  <1>2. Held(e) = Held(d) /\ Held(d) \cap D = {}
    BY <1>1 DEF Held
  <1>3. \A p \in Paths \ D : Readable(e, p) <=> Readable(d, p)
    BY DEF Readable
  <1>4. Main \in Paths \ D
    BY EntriesAssumption DEF Paths
  <1> QED  BY <1>2, <1>3, <1>4 DEF Loads, PartsOf, Paths
-----------------------------------------------------------------------------
\* What the edits make of a text, and of the files it includes.

LEMMA NamedIs ==
    ASSUME NEW v \in Entries, NEW f
    PROVE  f \in Named(v) <=> f \in Files /\ \E i \in DOMAIN v : v[i] = f
  BY EntriesAssumption DEF Named, ToSet

LEMMA EntryIs ==
    ASSUME NEW v \in Entries
    PROVE  /\ v \in Seq(Parts \cup {Bad} \cup Files) /\ Len(v) \in Nat /\ DOMAIN v = 1..Len(v)
           /\ \A i \in 1..Len(v) : v[i] \in Parts \cup {Bad} \cup Files
  BY DEF Entries

LEMMA AppendNames ==
    ASSUME NEW v \in Entries, Once(v), NEW x \in Parts \cup {Bad} \cup Files, x \notin Named(v)
    PROVE  /\ Append(v, x) \in Entries /\ Once(Append(v, x))
           /\ \A f \in Named(Append(v, x)) : f \in Named(v) \/ f = x
  <1>1. PICK n \in Nat : n = Len(v) /\ DOMAIN v = 1..n /\ v \in Seq(Parts \cup {Bad} \cup Files)
    BY EntryIs
  <1>2. PICK w : w = Append(v, x)
    OBVIOUS
  <1>3. w \in Entries /\ Len(w) = n + 1 /\ DOMAIN w = 1..n + 1
    BY <1>1, <1>2 DEF Entries
  <1>4. w[n + 1] = x /\ \A i \in 1..n : w[i] = v[i]
    BY <1>1, <1>2
  <1>5. \A i \in 1..n + 1 : i = n + 1 \/ i \in 1..n
    OBVIOUS
  <1>6. \A i, j \in 1..n : v[i] = v[j] /\ v[i] \in Files => i = j
    BY <1>1, EntriesAssumption DEF Once
  <1>7. x \in Files => \A i \in 1..n : v[i] # x
    BY <1>1, NamedIs
  <1>8. \A i, j \in 1..n + 1 : w[i] = w[j] /\ w[i] \in Files => i = j
    BY <1>4, <1>5, <1>6, <1>7
  <1>9. ASSUME NEW f \in Named(w) PROVE f \in Named(v) \/ f = x
    <2>1. f \in Files /\ \E i \in 1..n + 1 : w[i] = f
      BY <1>3, <1>9, NamedIs
    <2>2. PICK i \in 1..n + 1 : w[i] = f
      BY <2>1
    <2> QED  BY <1>1, <1>4, <1>5, <2>1, <2>2, NamedIs
  <1> QED  BY <1>2, <1>3, <1>8, <1>9 DEF Once

LEMMA ReplaceNames ==
    ASSUME NEW v \in Entries, Once(v), NEW i \in DOMAIN v, NEW x \in Parts \cup {Bad}
    PROVE  /\ [v EXCEPT ![i] = x] \in Entries /\ Once([v EXCEPT ![i] = x])
           /\ Named([v EXCEPT ![i] = x]) \subseteq Named(v)
  <1>1. PICK n \in Nat : n = Len(v) /\ DOMAIN v = 1..n /\ v \in Seq(Parts \cup {Bad} \cup Files)
    BY EntryIs
  <1>2. PICK w : w = [v EXCEPT ![i] = x]
    OBVIOUS
  <1>3. w \in Entries /\ DOMAIN w = 1..n /\ x \notin Files
    BY <1>1, <1>2, EntriesAssumption DEF Entries
  <1>4. \A k \in 1..n : w[k] = IF k = i THEN x ELSE v[k]
    BY <1>1, <1>2
  <1>6. \A k, j \in 1..n : v[k] = v[j] /\ v[k] \in Files => k = j
    BY <1>1, EntriesAssumption DEF Once
  <1>8. \A k, j \in 1..n : w[k] = w[j] /\ w[k] \in Files => k = j
    BY <1>3, <1>4, <1>6
  <1>9. ASSUME NEW f \in Named(w) PROVE f \in Named(v)
    BY <1>1, <1>3, <1>4, <1>9, NamedIs
  <1> QED  BY <1>2, <1>3, <1>8, <1>9 DEF Once

\* What RemoveAt and InsertAt make of a sequence.
LEMMA Removed ==
    ASSUME NEW E, NEW v \in Seq(E), NEW i \in 1..Len(v)
    PROVE  \A n \in Nat : n = Len(v) =>
           /\ RemoveAt(v, i) \in Seq(E) /\ Len(RemoveAt(v, i)) = n - 1
           /\ \A k \in 1..n - 1 : RemoveAt(v, i)[k] = IF k < i THEN v[k] ELSE v[k + 1]
  <1> TAKE n \in Nat
  <1> HAVE n = Len(v)
  <1>1. PICK s, t : s = SubSeq(v, 1, i - 1) /\ t = SubSeq(v, i + 1, n)
    OBVIOUS
  <1>2. RemoveAt(v, i) = s \o t
    BY <1>1 DEF RemoveAt
  <1>3. \A k \in 1..n : v[k] \in E
    OBVIOUS
  <1>4. s \in Seq(E) /\ Len(s) = i - 1 /\ \A k \in 1..i - 1 : s[k] = v[k]
    <2>1. /\ SubSeq(v, 1, i - 1) \in Seq(E)
          /\ Len(SubSeq(v, 1, i - 1)) = IF 1 <= i - 1 THEN i - 1 - 1 + 1 ELSE 0
          /\ \A k \in 1..i - 1 - 1 + 1 : SubSeq(v, 1, i - 1)[k] = v[1 + k - 1]
      BY <1>3, SubSeqProperties
    <2> QED  BY <1>1, <2>1
  <1>5. t \in Seq(E) /\ Len(t) = n - i /\ \A k \in 1..n - i : t[k] = v[i + k]
    <2>1. /\ SubSeq(v, i + 1, n) \in Seq(E)
          /\ Len(SubSeq(v, i + 1, n)) = IF i + 1 <= n THEN n - (i + 1) + 1 ELSE 0
          /\ \A k \in 1..n - (i + 1) + 1 : SubSeq(v, i + 1, n)[k] = v[i + 1 + k - 1]
      BY <1>3, SubSeqProperties
    <2> QED  BY <1>1, <2>1
  <1>6. /\ s \o t \in Seq(E) /\ Len(s \o t) = Len(s) + Len(t)
        /\ \A k \in 1..Len(s) + Len(t) : (s \o t)[k] = IF k <= Len(s) THEN s[k] ELSE t[k - Len(s)]
    BY <1>4, <1>5, ConcatProperties
  <1>7. PICK w : w = s \o t
    OBVIOUS
  <1>8. w \in Seq(E) /\ Len(w) = n - 1 /\ \A k \in 1..n - 1 : w[k] = IF k <= i - 1 THEN s[k] ELSE t[k - (i - 1)]
    <2>1. Len(s) = i - 1 /\ Len(s) + Len(t) = n - 1
      BY <1>4, <1>5
    <2> QED  BY <1>6, <1>7, <2>1
  <1>9. ASSUME NEW k \in 1..n - 1 PROVE w[k] = IF k < i THEN v[k] ELSE v[k + 1]
    <2>1. CASE k < i
      BY <1>4, <1>8, <2>1
    <2>2. CASE ~(k < i)
      <3>1. k - (i - 1) \in 1..n - i /\ i + (k - (i - 1)) = k + 1
        BY <2>2
      <3> QED  BY <1>5, <1>8, <2>2, <3>1
    <2> QED  BY <2>1, <2>2
  <1> QED  BY <1>2, <1>7, <1>8, <1>9

InsertedIn(v, i, x, E, n, w) ==
    /\ w \in Seq(E) /\ Len(w) = n + 1
    /\ \A k \in 1..n + 1 : w[k] = IF k < i THEN v[k] ELSE IF k = i THEN x ELSE v[k - 1]

LEMMA Inserted ==
    ASSUME NEW E, NEW v \in Seq(E), NEW n \in Nat, n = Len(v), NEW i \in 1..n, NEW x \in E
    PROVE  InsertedIn(v, i, x, E, n, InsertAt(v, i, x))
  <1>1. PICK s, t : s = SubSeq(v, 1, i - 1) /\ t = SubSeq(v, i, n)
    OBVIOUS
  <1>2. InsertAt(v, i, x) = s \o <<x>> \o t
    BY <1>1 DEF InsertAt
  <1>3. \A k \in 1..n : v[k] \in E
    OBVIOUS
  <1>4. s \in Seq(E) /\ Len(s) = i - 1 /\ \A k \in 1..i - 1 : s[k] = v[k]
    <2>1. /\ SubSeq(v, 1, i - 1) \in Seq(E)
          /\ Len(SubSeq(v, 1, i - 1)) = IF 1 <= i - 1 THEN i - 1 - 1 + 1 ELSE 0
          /\ \A k \in 1..i - 1 - 1 + 1 : SubSeq(v, 1, i - 1)[k] = v[1 + k - 1]
      BY <1>3, SubSeqProperties
    <2> QED  BY <1>1, <2>1
  <1>5. t \in Seq(E) /\ Len(t) = n - i + 1 /\ \A k \in 1..n - i + 1 : t[k] = v[i + k - 1]
    <2>1. /\ SubSeq(v, i, n) \in Seq(E)
          /\ Len(SubSeq(v, i, n)) = IF i <= n THEN n - i + 1 ELSE 0
          /\ \A k \in 1..n - i + 1 : SubSeq(v, i, n)[k] = v[i + k - 1]
      BY <1>3, SubSeqProperties
    <2> QED  BY <1>1, <2>1
  <1>6. PICK u : u = s \o <<x>>
    OBVIOUS
  <1>7. u \in Seq(E) /\ Len(u) = i /\ u[i] = x /\ \A k \in 1..i - 1 : u[k] = s[k]
    <2>1. <<x>> \in Seq(E) /\ Len(<<x>>) = 1 /\ <<x>>[1] = x
      OBVIOUS
    <2>2. /\ s \o <<x>> \in Seq(E) /\ Len(s \o <<x>>) = Len(s) + Len(<<x>>)
          /\ \A k \in 1..Len(s) + Len(<<x>>) : (s \o <<x>>)[k] = IF k <= Len(s) THEN s[k] ELSE <<x>>[k - Len(s)]
      BY <1>4, <2>1, ConcatProperties
    <2>3. i \in 1..i /\ ~(i <= i - 1) /\ i - (i - 1) = 1 /\ \A k \in 1..i - 1 : k \in 1..i
      OBVIOUS
    <2> QED  BY <1>4, <1>6, <2>1, <2>2, <2>3
  <1>8. PICK w : w = u \o t
    OBVIOUS
  <1>9. w \in Seq(E) /\ Len(w) = n + 1 /\ \A k \in 1..n + 1 : w[k] = IF k <= i THEN u[k] ELSE t[k - i]
    <2>1. /\ u \o t \in Seq(E) /\ Len(u \o t) = Len(u) + Len(t)
          /\ \A k \in 1..Len(u) + Len(t) : (u \o t)[k] = IF k <= Len(u) THEN u[k] ELSE t[k - Len(u)]
      BY <1>5, <1>7, ConcatProperties
    <2> QED  BY <1>5, <1>7, <1>8, <2>1
  <1>10. ASSUME NEW k \in 1..n + 1 PROVE w[k] = IF k < i THEN v[k] ELSE IF k = i THEN x ELSE v[k - 1]
    <2>1. CASE k < i
      <3>1. k \in 1..i - 1 /\ k <= i
        BY <2>1
      <3> QED  BY <1>4, <1>7, <1>9, <2>1, <3>1
    <2>2. CASE k = i
      BY <1>7, <1>9, <2>2
    <2>3. CASE k > i
      <3>1. k - i \in 1..n - i + 1 /\ i + (k - i) - 1 = k - 1 /\ ~(k <= i)
        BY <2>3
      <3> QED  BY <1>5, <1>9, <2>3, <3>1
    <2> QED  BY <2>1, <2>2, <2>3
  <1> QED  BY <1>2, <1>6, <1>8, <1>9, <1>10 DEF InsertedIn

LEMMA RemoveNames ==
    ASSUME NEW v \in Entries, Once(v), NEW i \in DOMAIN v
    PROVE  /\ RemoveAt(v, i) \in Entries /\ Once(RemoveAt(v, i))
           /\ Named(RemoveAt(v, i)) \subseteq Named(v) \ {v[i]}
  <1>1. PICK n \in Nat : n = Len(v) /\ DOMAIN v = 1..n /\ v \in Seq(Parts \cup {Bad} \cup Files)
    BY EntryIs
  <1>2. PICK w, m : w = RemoveAt(v, i) /\ m = n - 1 /\ m \in Nat
    BY <1>1
  <1>a. /\ w \in Seq(Parts \cup {Bad} \cup Files) /\ Len(w) = n - 1
        /\ \A k \in 1..n - 1 : w[k] = IF k < i THEN v[k] ELSE v[k + 1]
    <2>1. PICK E : E = Parts \cup {Bad} \cup Files
      OBVIOUS
    <2>2. v \in Seq(E) /\ i \in 1..Len(v)
      BY <1>1, <2>1
    <2>3. n \in Nat /\ n = Len(v)
      BY <1>1
    <2>4. /\ RemoveAt(v, i) \in Seq(E) /\ Len(RemoveAt(v, i)) = n - 1
          /\ \A k \in 1..n - 1 : RemoveAt(v, i)[k] = IF k < i THEN v[k] ELSE v[k + 1]
      BY <2>2, <2>3, Removed
    <2> QED  BY <1>2, <2>1, <2>4
  <1>3. w \in Entries /\ Len(w) = m /\ DOMAIN w = 1..m
    BY <1>2, <1>a DEF Entries
  <1>4. \A k \in 1..m : w[k] = IF k < i THEN v[k] ELSE v[k + 1]
    BY <1>2, <1>a
  <1>5. \A k \in 1..m : k \in 1..n /\ k + 1 \in 1..n
    BY <1>1, <1>2
  <1>6. \A k, j \in 1..n : v[k] = v[j] /\ v[k] \in Files => k = j
    BY <1>1, EntriesAssumption DEF Once
  <1>7. \A k \in 1..m : \E q \in 1..n : q = (IF k < i THEN k ELSE k + 1) /\ w[k] = v[q] /\ q # i
    BY <1>1, <1>4, <1>5
  <1>8. ASSUME NEW k \in 1..m, NEW j \in 1..m, w[k] = w[j], w[k] \in Files PROVE k = j
    <2>1. PICK q \in 1..n : q = (IF k < i THEN k ELSE k + 1) /\ w[k] = v[q] /\ q # i
      BY <1>7
    <2>2. PICK p \in 1..n : p = (IF j < i THEN j ELSE j + 1) /\ w[j] = v[p] /\ p # i
      BY <1>7
    <2>3. q = p
      BY <1>6, <1>8, <2>1, <2>2
    <2> QED  BY <1>1, <1>2, <2>1, <2>2, <2>3
  <1>9. ASSUME NEW f \in Named(w) PROVE f \in Named(v) \ {v[i]}
    <2>1. f \in Files /\ \E k \in 1..m : w[k] = f
      BY <1>3, <1>9, NamedIs
    <2>2. PICK k \in 1..m : w[k] = f
      BY <2>1
    <2>3. PICK q \in 1..n : w[k] = v[q] /\ q # i
      BY <1>7
    <2>4. f # v[i]
      BY <1>1, <1>6, <2>1, <2>2, <2>3
    <2> QED  BY <1>1, <2>1, <2>2, <2>3, <2>4, NamedIs
  <1> QED  BY <1>2, <1>3, <1>8, <1>9 DEF Once

LEMMA InsertNames ==
    ASSUME NEW v \in Entries, Once(v), NEW i \in DOMAIN v, NEW x \in Parts \cup {Bad}
    PROVE  /\ InsertAt(v, i, x) \in Entries /\ Once(InsertAt(v, i, x))
           /\ Named(InsertAt(v, i, x)) \subseteq Named(v)
  <1>1. PICK n \in Nat : n = Len(v) /\ DOMAIN v = 1..n /\ v \in Seq(Parts \cup {Bad} \cup Files)
    BY EntryIs
  <1>2. PICK w, m : w = InsertAt(v, i, x) /\ m = n + 1 /\ m \in Nat
    BY <1>1
  <1>a. /\ w \in Seq(Parts \cup {Bad} \cup Files) /\ Len(w) = n + 1
        /\ \A k \in 1..n + 1 : w[k] = IF k < i THEN v[k] ELSE IF k = i THEN x ELSE v[k - 1]
    <2>1. PICK E : E = Parts \cup {Bad} \cup Files
      OBVIOUS
    <2>2. v \in Seq(E) /\ i \in 1..n /\ x \in E
      BY <1>1, <2>1
    <2>3. n \in Nat /\ n = Len(v)
      BY <1>1
    <2>4. InsertedIn(v, i, x, E, n, InsertAt(v, i, x))
      BY <2>2, <2>3, Inserted
    <2> QED  BY <1>2, <2>1, <2>4 DEF InsertedIn
  <1>3. w \in Entries /\ Len(w) = m /\ DOMAIN w = 1..m
    BY <1>2, <1>a DEF Entries
  <1>4. \A k \in 1..m : w[k] = IF k < i THEN v[k] ELSE IF k = i THEN x ELSE v[k - 1]
    BY <1>2, <1>a
  <1>6. \A k, j \in 1..n : v[k] = v[j] /\ v[k] \in Files => k = j
    BY <1>1, EntriesAssumption DEF Once
  <1>7. \A k \in 1..m : \/ w[k] = x /\ k = i
                        \/ \E q \in 1..n : q = (IF k < i THEN k ELSE k - 1) /\ w[k] = v[q] /\ k # i
    <2> TAKE k \in 1..m
    <2>1. CASE k = i
      BY <1>1, <1>4, <2>1
    <2>2. CASE k < i
      BY <1>1, <1>4, <2>2
    <2>3. CASE k > i
      <3>1. k - 1 \in 1..n
        BY <1>1, <1>2, <2>3
      <3> QED  BY <1>1, <1>4, <2>3, <3>1
    <2> QED  BY <1>1, <1>2, <2>1, <2>2, <2>3
  <1>8. ASSUME NEW k \in 1..m, NEW j \in 1..m, w[k] = w[j], w[k] \in Files PROVE k = j
    <2>0. x \notin Files
      BY EntriesAssumption
    <2>1. PICK q \in 1..n : q = (IF k < i THEN k ELSE k - 1) /\ w[k] = v[q] /\ k # i
      BY <1>7, <1>8, <2>0
    <2>2. PICK p \in 1..n : p = (IF j < i THEN j ELSE j - 1) /\ w[j] = v[p] /\ j # i
      BY <1>7, <1>8, <2>0
    <2>3. q = p
      BY <1>6, <1>8, <2>1, <2>2
    <2> QED  BY <1>1, <1>2, <2>1, <2>2, <2>3
  <1>9. ASSUME NEW f \in Named(w) PROVE f \in Named(v)
    <2>1. f \in Files /\ f # x /\ \E k \in 1..m : w[k] = f
      BY <1>3, <1>9, NamedIs, EntriesAssumption
    <2>2. PICK k \in 1..m : w[k] = f
      BY <2>1
    <2>3. PICK q \in 1..n : w[k] = v[q]
      BY <1>7, <2>1, <2>2
    <2> QED  BY <1>1, <2>1, <2>2, <2>3, NamedIs
  <1> QED  BY <1>2, <1>3, <1>8, <1>9 DEF Once
-----------------------------------------------------------------------------
\* What the edits make of a tidy config is tidy, and only files that are doomed
\* include doomed files.

\* The config once the files an edit changes or creates are written.
After(e, d) ==
    [p \in Paths |-> IF p \in DOMAIN e.todo THEN e.todo[p]
                     ELSE IF p = e.new.path THEN e.new.entries ELSE d[p]]

\* A text that includes no more than another, and is there if that is.
Within(v, w) == Once(v) /\ Named(v) \subseteq Named(w) /\ (v = Absent => w = Absent)

TidyEdit(e, d) ==
    /\ e = Edit(e.todo, e.new, e.doomed)
    /\ DOMAIN e.todo \subseteq Paths /\ \A p \in DOMAIN e.todo : e.todo[p] \in Entries
    /\ e.new.path \in Paths => e.new.entries \in Entries /\ Named(e.new.entries) = {} /\ Once(e.new.entries)
    /\ e.doomed \subseteq Files
    /\ Tidy(After(e, d))

GoodEdit(e, d) == TidyEdit(e, d) /\ Apart(After(e, d), e.doomed)

LEMMA Narrowed ==
    ASSUME NEW d, Tidy(d), NEW c, \A p \in Paths : Within(c[p], d[p])
    PROVE  Tidy(c)
  <1>1. \A p \in Paths : Once(c[p])
    BY DEF Within
  <1>2. ASSUME NEW p \in Paths, NEW f \in Named(c[p]) PROVE c[f] # Absent
    <2>1. f \in Named(d[p]) /\ f \in Paths
      BY <1>2 DEF Within, Named, Paths
    <2>2. d[f] # Absent
      BY <2>1 DEF Tidy
    <2> QED  BY <2>1, <2>2 DEF Within
  <1>3. ASSUME NEW p \in Paths, NEW q \in Paths, p # q PROVE Named(c[p]) \cap Named(c[q]) = {}
    <2>1. Named(c[p]) \subseteq Named(d[p]) /\ Named(c[q]) \subseteq Named(d[q])
      BY DEF Within
    <2>2. Named(d[p]) \cap Named(d[q]) = {}
      BY <1>3 DEF Tidy
    <2> QED  BY <2>1, <2>2
  <1> QED  BY <1>1, <1>2, <1>3 DEF Tidy

\* A new file, included in one place.
LEMMA Widened ==
    ASSUME NEW d, Tidy(d), NEW c, NEW f \in Files, NEW q \in Paths, d[f] = Absent, c[f] # Absent,
           \A p \in Paths : Once(c[p]) /\ (c[p] = Absent => d[p] = Absent),
           \A p \in Paths : \A g \in Named(c[p]) : g \in Named(d[p]) \/ (p = q /\ g = f)
    PROVE  Tidy(c)
  <1>1. \A p \in Paths : f \notin Named(d[p])
    BY DEF Tidy
  <1>2. ASSUME NEW p \in Paths, NEW g \in Named(c[p]) PROVE c[g] # Absent
    <2>1. CASE g = f
      BY <2>1
    <2>2. CASE g # f
      <3>1. g \in Named(d[p])
        BY <1>2, <2>2
      <3>2. d[g] # Absent /\ g \in Paths
        BY <3>1 DEF Tidy, Named, Paths
      <3> QED  BY <3>2
    <2> QED  BY <2>1, <2>2
  <1>3. ASSUME NEW p \in Paths, NEW r \in Paths, p # r, NEW g \in Named(c[p]), g \in Named(c[r]) PROVE FALSE
    <2>1. Named(d[p]) \cap Named(d[r]) = {}
      BY <1>3 DEF Tidy
    <2>2. CASE g = f
      <3>1. p = q /\ r = q
        BY <1>1, <1>3, <2>2
      <3> QED  BY <1>3, <3>1
    <2>3. CASE g # f
      <3>1. g \in Named(d[p]) /\ g \in Named(d[r])
        BY <1>3, <2>3
      <3> QED  BY <2>1, <3>1
    <2> QED  BY <2>2, <2>3
  <1> QED  BY <1>2, <1>3 DEF Tidy

LEMMA EditIs ==
    ASSUME NEW todo, NEW new, NEW doomed
    PROVE  /\ Edit(todo, new, doomed).todo = todo /\ Edit(todo, new, doomed).new = new
           /\ Edit(todo, new, doomed).doomed = doomed
  BY DEF Edit

LEMMA NoFileIs == NoFile.path \notin Paths
  BY NoneAssumption DEF NoFile, Paths

LEMMA SelfWithin == ASSUME NEW d, Tidy(d), NEW p \in Paths PROVE Within(d[p], d[p])
  BY DEF Tidy, Within

\* An edit of one file.
LEMMA ChangesOne ==
    ASSUME NEW d, Tidy(d), NEW p \in Paths, NEW text \in Entries, Within(text, d[p]),
           NEW doomed, doomed \subseteq Files,
           \A q \in Paths \ doomed : \A f \in Named(IF q = p THEN text ELSE d[q]) : f \notin doomed
    PROVE  GoodEdit(Edit(One(p, text), NoFile, doomed), d)
  <1>1. PICK e : e = Edit(One(p, text), NoFile, doomed)
    OBVIOUS
  <1>2. e.todo = One(p, text) /\ e.new = NoFile /\ e.doomed = doomed
    BY <1>1, EditIs
  <1>3. DOMAIN e.todo = {p} /\ e.todo[p] = text
    BY <1>2 DEF One
  <1>4. e.new.path \notin Paths
    BY <1>2, NoFileIs
  <1>5. \A q \in Paths : After(e, d)[q] = IF q = p THEN text ELSE d[q]
    BY <1>3, <1>4 DEF After
  <1>6. \A q \in Paths : Within(After(e, d)[q], d[q])
    BY <1>5, SelfWithin
  <1>7. Tidy(After(e, d))
    BY <1>6, Narrowed
  <1>8. Apart(After(e, d), doomed)
    BY <1>5 DEF Apart
  <1> QED  BY <1>1, <1>2, <1>3, <1>4, <1>7, <1>8 DEF GoodEdit, TidyEdit

LEMMA FreshIs == ASSUME NEW x \in Fresh PROVE x \in Parts \cup {Bad} /\ x \notin Files
  BY EntriesAssumption DEF Fresh

LEMMA TidyTexts ==
    ASSUME NEW d, Tidy(d)
    PROVE  Texts(d) /\ \A p \in Paths : Readable(d, p) => d[p] \in Entries /\ Once(d[p])
  BY DEF Tidy, Texts, Once, Readable

\* Where a part is.
LEMMA SlotIs ==
    ASSUME Tidy(disk), NEW c \in Slots
    PROVE  /\ IsChain(disk, c) /\ 1 \in DOMAIN c
           /\ \A m \in DOMAIN c : /\ c[m].path \in Paths /\ disk[c[m].path] \in Entries
                                  /\ Once(disk[c[m].path])
                                  /\ c[m].at \in DOMAIN disk[c[m].path]
  <1>1. IsChain(disk, c)
    BY TidyTexts, ChainsAreChains DEF Slots
  <1>2. 1 \in DOMAIN c /\ DOMAIN c = 1..Len(c)
    BY <1>1 DEF IsChain
  <1>3. ASSUME NEW m \in DOMAIN c
        PROVE /\ c[m].path \in Paths /\ disk[c[m].path] \in Entries
              /\ Once(disk[c[m].path]) /\ c[m].at \in DOMAIN disk[c[m].path]
    <2>1. There(disk, c[m])
      BY <1>1, <1>2, <1>3 DEF IsChain
    <2>2. c[m].path \in Paths /\ Readable(disk, c[m].path)
      BY <2>1 DEF There, Position
    <2> QED  BY <2>1, <2>2, TidyTexts DEF There
  <1> QED  BY <1>1, <1>2, <1>3

LEMMA AppendWithin ==
    ASSUME NEW v \in Entries, Once(v), NEW x \in Fresh
    PROVE  Append(v, x) \in Entries /\ Within(Append(v, x), v)
  <1>1. x \in Parts \cup {Bad} \cup Files /\ x \notin Named(v) /\ x \notin Files
    BY FreshIs DEF Named
  <1>2. /\ Append(v, x) \in Entries /\ Once(Append(v, x))
        /\ \A f \in Named(Append(v, x)) : f \in Named(v) \/ f = x
    BY <1>1, AppendNames
  <1>3. Named(Append(v, x)) \subseteq Named(v)
    BY <1>1, <1>2 DEF Named
  <1> QED  BY <1>2, <1>3, EntriesAssumption DEF Within

LEMMA PartsAreAdded ==
    ASSUME Tidy(disk), Readable(disk, Main), NEW e \in AddPageInline PROVE GoodEdit(e, disk)
  <1>1. PICK x \in Fresh : e = Edit(One(Main, Append(disk[Main], x)), NoFile, {})
    BY DEF AddPageInline
  <1>2. Main \in Paths
    BY DEF Paths
  <1>3. disk[Main] \in Entries /\ Once(disk[Main])
    BY <1>2, TidyTexts
  <1>4. Append(disk[Main], x) \in Entries /\ Within(Append(disk[Main], x), disk[Main])
    BY <1>3, AppendWithin
  <1> QED  BY <1>1, <1>2, <1>4, ChangesOne

LEMMA PartsAreChanged ==
    ASSUME Tidy(disk), NEW e \in EditPage PROVE GoodEdit(e, disk)
  <1>1. PICK c \in Slots, x \in Fresh :
            e = Edit(One(c[1].path, [disk[c[1].path] EXCEPT ![c[1].at] = x]), NoFile, {})
    BY DEF EditPage
  <1>2. PICK p, i : /\ p \in Paths /\ p = c[1].path /\ i = c[1].at
                    /\ disk[p] \in Entries /\ Once(disk[p]) /\ i \in DOMAIN disk[p]
    BY SlotIs
  <1>3. PICK v \in Entries : v = disk[p] /\ Once(v) /\ i \in DOMAIN v
    BY <1>2
  <1>4. x \in Parts \cup {Bad}
    BY FreshIs
  <1>5. PICK w : w = [v EXCEPT ![i] = x]
    OBVIOUS
  <1>6. w \in Entries /\ Once(w) /\ Named(w) \subseteq Named(v)
    BY <1>3, <1>4, <1>5, ReplaceNames
  <1>7. Within(w, disk[p]) /\ e = Edit(One(p, w), NoFile, {})
    BY <1>1, <1>2, <1>3, <1>5, <1>6, EntriesAssumption DEF Within
  <1>8. \A q \in Paths \ {} : \A f \in Named(IF q = p THEN w ELSE disk[q]) : f \notin {}
    OBVIOUS
  <1>9. p \in Paths /\ {} \subseteq Files
    BY <1>2
  <1> QED  BY <1>6, <1>7, <1>8, <1>9, ChangesOne

\* prunePageContainers has an end.
LEMMA SomeSurvivor ==
    ASSUME Tidy(disk), NEW c \in Slots
    PROVE  \E n \in DOMAIN c : n = Survivor(c) /\ n \in 1..Len(c)
  <1> DEFINE T == {n \in DOMAIN c : n = Len(c) \/ ~OnlyEntry(disk, c[n].path)}
  <1>1. DOMAIN c = 1..Len(c) /\ Len(c) \in Nat /\ Len(c) > 0
    BY SlotIs DEF IsChain
  <1>2. T \subseteq Nat /\ T # {}
    <2>1. Len(c) \in T
      BY <1>1
    <2> QED  BY <1>1, <2>1
  <1>3. PICK n \in T : \A m \in T : n <= m
    <2> HIDE DEF T
    <2> QED  BY <1>2, Distinct!Least
  <1>4. n \in DOMAIN c /\ (n = Len(c) \/ ~OnlyEntry(disk, c[n].path))
    BY <1>3
  <1>5. \A m \in 1..n - 1 : OnlyEntry(disk, c[m].path)
    <2> TAKE m \in 1..n - 1
    <2>1. m \in DOMAIN c /\ ~(n <= m)
      BY <1>1, <1>4
    <2> QED  BY <1>3, <2>1
  <1>6. Survivor(c) \in DOMAIN c
    BY <1>4, <1>5 DEF Survivor
  <1> QED  BY <1>1, <1>6

LEMMA PagesAreRemoved ==
    ASSUME Tidy(disk), NEW e \in RemovePage PROVE GoodEdit(e, disk)
  <1>1. PICK c \in Slots :
            e = Edit(One(c[Survivor(c)].path, RemoveAt(disk[c[Survivor(c)].path], c[Survivor(c)].at)),
                     NoFile, {c[m].path : m \in 1..Survivor(c) - 1})
    BY DEF RemovePage
  <1>2. PICK n \in DOMAIN c : n = Survivor(c) /\ n \in 1..Len(c)
    BY SomeSurvivor
  <1>3. PICK p, i : /\ p \in Paths /\ p = c[n].path /\ i = c[n].at
                    /\ disk[p] \in Entries /\ Once(disk[p]) /\ i \in DOMAIN disk[p]
    BY SlotIs
  <1>4. PICK v \in Entries : v = disk[p] /\ Once(v) /\ i \in DOMAIN v
    BY <1>3
  <1>5. PICK w : w = RemoveAt(v, i)
    OBVIOUS
  <1>6. w \in Entries /\ Once(w) /\ Named(w) \subseteq Named(v) \ {v[i]}
    BY <1>4, <1>5, RemoveNames
  <1>7. PICK doomed : doomed = {c[m].path : m \in 1..n - 1}
    OBVIOUS
  <1>8. e = Edit(One(p, w), NoFile, doomed)
    BY <1>1, <1>2, <1>3, <1>4, <1>5, <1>7
  <1>9. Within(w, disk[p])
    BY <1>4, <1>6, EntriesAssumption DEF Within
  <1>10. IsChain(disk, c) /\ Len(c) \in Nat /\ DOMAIN c = 1..Len(c)
    BY SlotIs DEF IsChain
  <1>11. \A m \in 1..n - 1 : /\ m \in 1..Len(c) - 1 /\ m + 1 \in 1..n /\ m + 1 \in DOMAIN c
                             /\ c[m].path \in Files /\ disk[c[m + 1].path][c[m + 1].at] = c[m].path
    <2> TAKE m \in 1..n - 1
    <2>1. m \in 1..Len(c) - 1 /\ m + 1 \in 1..n /\ m + 1 \in 1..Len(c)
      BY <1>2, <1>10
    <2> QED  BY <1>10, <2>1 DEF IsChain
  <1>12. doomed \subseteq Files
    BY <1>7, <1>11
  <1>13. ASSUME NEW q \in Paths \ doomed, NEW f \in Named(IF q = p THEN w ELSE disk[q]), f \in doomed
         PROVE  FALSE
    <2>1. PICK m \in 1..n - 1 : f = c[m].path
      BY <1>7, <1>13
    <2>2. PICK h, k : /\ h \in Paths /\ h = c[m + 1].path /\ k = c[m + 1].at
                      /\ disk[h] \in Entries /\ k \in DOMAIN disk[h] /\ disk[h][k] = f
      BY <1>11, <2>1, SlotIs
    <2>3. f \in Named(disk[h])
      BY <1>11, <2>1, <2>2, NamedIs
    <2>4. f \in Named(disk[q])
      BY <1>4, <1>6, <1>13
    <2>5. h = q
      BY <2>2, <2>3, <2>4 DEF Tidy
    <2>6. CASE m + 1 = n
      <3>1. h = p /\ k = i /\ f = v[i]
        BY <1>3, <1>4, <2>2, <2>6
      <3> QED  BY <1>6, <1>13, <2>5, <3>1
    <2>7. CASE m + 1 # n
      <3>1. m + 1 \in 1..n - 1
        BY <1>2, <1>10, <2>7
      <3>2. h \in doomed
        BY <1>7, <2>2, <3>1
      <3> QED  BY <1>13, <2>5, <3>2
    <2> QED  BY <2>6, <2>7
  <1>14. \A q \in Paths \ doomed : \A f \in Named(IF q = p THEN w ELSE disk[q]) : f \notin doomed
    BY <1>13
  <1>15. p \in Paths
    BY <1>3
  <1> QED  BY <1>6, <1>8, <1>9, <1>12, <1>14, <1>15, ChangesOne

\* What a list of one part is.
LEMMA OneEntry ==
    ASSUME NEW x \in Fresh
    PROVE  <<x>> \in Entries /\ Once(<<x>>) /\ Named(<<x>>) = {}
  <1>1. x \in Parts \cup {Bad} /\ x \notin Files
    BY FreshIs
  <1>2. PICK w : w = <<x>>
    OBVIOUS
  <1>3. w \in Entries /\ DOMAIN w = {1} /\ w[1] = x
    BY <1>1, <1>2 DEF Entries
  <1>4. \A f \in Named(w) : FALSE
    BY <1>1, <1>3, NamedIs
  <1> QED  BY <1>2, <1>3, <1>4 DEF Once

LEMMA FilesAreAdded ==
    ASSUME Tidy(disk), Readable(disk, Main), NEW e \in AddPageFile PROVE GoodEdit(e, disk)
  <1>1. PICK f \in {g \in Files : disk[g] = Absent}, x \in Fresh :
            e = Edit(One(Main, Append(disk[Main], f)), [path |-> f, entries |-> <<x>>], {})
    BY DEF AddPageFile
  <1>2. Main \in Paths /\ f \in Files /\ f \in Paths /\ f # Main /\ disk[f] = Absent
    BY EntriesAssumption DEF Paths
  <1>3. PICK v \in Entries : v = disk[Main] /\ Once(v)
    BY <1>2, TidyTexts
  <1>4. f \notin Named(v)
    BY <1>2, <1>3 DEF Tidy
  <1>5. PICK w : w = Append(v, f)
    OBVIOUS
  <1>6. w \in Entries /\ Once(w) /\ \A g \in Named(w) : g \in Named(v) \/ g = f
    BY <1>2, <1>3, <1>4, <1>5, AppendNames
  <1>7. PICK y : y = <<x>>
    OBVIOUS
  <1>8. y \in Entries /\ Once(y) /\ Named(y) = {}
    BY <1>7, OneEntry
  <1>9. e.todo = One(Main, w) /\ e.new = [path |-> f, entries |-> y] /\ e.doomed = {}
    BY <1>1, <1>3, <1>5, <1>7, EditIs
  <1>10. DOMAIN e.todo = {Main} /\ e.todo[Main] = w /\ e.new.path = f /\ e.new.entries = y
    BY <1>9 DEF One
  <1>11. PICK c : c = After(e, disk)
    OBVIOUS
  <1>12. \A p \in Paths : c[p] = IF p = Main THEN w ELSE IF p = f THEN y ELSE disk[p]
    BY <1>10, <1>11 DEF After
  <1>13. \A p \in Paths : Once(c[p]) /\ (c[p] = Absent => disk[p] = Absent)
    BY <1>6, <1>8, <1>12, EntriesAssumption DEF Tidy
  <1>14. \A p \in Paths : \A g \in Named(c[p]) : g \in Named(disk[p]) \/ (p = Main /\ g = f)
    BY <1>3, <1>6, <1>8, <1>12
  <1>15. c[f] # Absent
    BY <1>2, <1>8, <1>12, EntriesAssumption
  <1>16. Tidy(c)
    BY <1>2, <1>13, <1>14, <1>15, Widened
  <1>17. e = Edit(e.todo, e.new, e.doomed)
    BY <1>1, EditIs
  <1>18. TidyEdit(e, disk)
    BY <1>2, <1>6, <1>8, <1>9, <1>10, <1>11, <1>16, <1>17 DEF TidyEdit
  <1> QED  BY <1>9, <1>18 DEF GoodEdit, Apart

\* Two files, of which the one includes the other at most.
LEMMA ChangesTwo ==
    ASSUME NEW d, NEW p \in Paths, NEW q \in Paths, p # q, NEW v \in Entries, NEW w \in Entries,
           NEW c, \A x \in Paths : c[x] = IF x = p THEN v ELSE IF x = q THEN w ELSE d[x], Tidy(c)
    PROVE  GoodEdit(Edit(Two(p, v, q, w), NoFile, {}), d)
  <1>1. PICK e : e = Edit(Two(p, v, q, w), NoFile, {})
    OBVIOUS
  <1>2. e.todo = Two(p, v, q, w) /\ e.new = NoFile /\ e.doomed = {}
    BY <1>1, EditIs
  <1>3. DOMAIN e.todo = {p, q} /\ e.todo[p] = v /\ e.todo[q] = w
    BY <1>2 DEF Two
  <1>4. e.new.path \notin Paths
    BY <1>2, NoFileIs
  <1>5. \A x \in Paths : After(e, d)[x] = c[x]
    BY <1>3, <1>4 DEF After
  <1>6. Tidy(After(e, d))
    <2>1. \A x \in Paths : Within(After(e, d)[x], c[x])
      BY <1>5, SelfWithin
    <2> QED  BY <2>1, Narrowed
  <1> QED  BY <1>1, <1>2, <1>3, <1>4, <1>6 DEF GoodEdit, TidyEdit, Apart

LEMMA WidgetsAreMoved ==
    ASSUME Tidy(disk), NEW e \in MoveWidget PROVE GoodEdit(e, disk)
  <1>1. PICK c \in Slots : \E b \in ElsewhereThan(c) :
            e = Edit(Two(c[1].path, RemoveAt(disk[c[1].path], c[1].at),
                         b[1].path, InsertAt(disk[b[1].path], b[1].at, Entry(disk, c))), NoFile, {})
    BY DEF MoveWidget
  <1>2. PICK b \in ElsewhereThan(c) :
            e = Edit(Two(c[1].path, RemoveAt(disk[c[1].path], c[1].at),
                         b[1].path, InsertAt(disk[b[1].path], b[1].at, Entry(disk, c))), NoFile, {})
    BY <1>1
  <1>3. b \in Slots /\ b[1].path # c[1].path
    BY DEF ElsewhereThan
  <1>4. PICK p, i : /\ p \in Paths /\ p = c[1].path /\ i = c[1].at
                    /\ disk[p] \in Entries /\ Once(disk[p]) /\ i \in DOMAIN disk[p]
    BY SlotIs
  <1>5. PICK q, k : /\ q \in Paths /\ q = b[1].path /\ k = b[1].at
                    /\ disk[q] \in Entries /\ Once(disk[q]) /\ k \in DOMAIN disk[q]
    BY <1>3, SlotIs
  <1>6. PICK x : x = Entry(disk, c)
    OBVIOUS
  <1>7. x \in Parts \cup {Bad}
    <2>1. x = disk[p][i] /\ x \notin Files
      BY <1>4, <1>6 DEF Entry, Slots
    <2>2. x \in Parts \cup {Bad} \cup Files
      BY <1>4, <2>1, EntryIs
    <2> QED  BY <2>1, <2>2
  <1>8. PICK v \in Entries : v = disk[p] /\ Once(v) /\ i \in DOMAIN v
    BY <1>4
  <1>9. PICK u \in Entries : u = disk[q] /\ Once(u) /\ k \in DOMAIN u
    BY <1>5
  <1>10. PICK s : s = RemoveAt(v, i)
    OBVIOUS
  <1>11. s \in Entries /\ Once(s) /\ Named(s) \subseteq Named(v)
    BY <1>8, <1>10, RemoveNames
  <1>12. PICK t : t = InsertAt(u, k, x)
    OBVIOUS
  <1>13. t \in Entries /\ Once(t) /\ Named(t) \subseteq Named(u)
    BY <1>7, <1>9, <1>12, InsertNames
  <1>14. e = Edit(Two(p, s, q, t), NoFile, {}) /\ p # q
    BY <1>2, <1>3, <1>4, <1>5, <1>6, <1>8, <1>9, <1>10, <1>12
  <1>15. Within(s, disk[p]) /\ Within(t, disk[q])
    BY <1>8, <1>9, <1>11, <1>13, EntriesAssumption DEF Within
  <1>16. PICK d : d = [y \in Paths |-> IF y = p THEN s ELSE IF y = q THEN t ELSE disk[y]]
    OBVIOUS
  <1>17. \A y \in Paths : d[y] = IF y = p THEN s ELSE IF y = q THEN t ELSE disk[y]
    BY <1>16
  <1>18. \A y \in Paths : Within(d[y], disk[y])
    BY <1>15, <1>17, SelfWithin
  <1>19. Tidy(d)
    BY <1>18, Narrowed
  <1>20. p \in Paths /\ q \in Paths
    BY <1>4, <1>5
  <1> QED  BY <1>11, <1>13, <1>14, <1>17, <1>19, <1>20, ChangesTwo

LEMMA FilesAreSplit ==
    ASSUME Tidy(disk), NEW e \in SplitWidgetFile PROVE GoodEdit(e, disk)
  <1>1. PICK c \in Slots, f \in {g \in Files : disk[g] = Absent}, x \in Fresh :
            e = Edit(Two(c[1].path, Append(disk[c[1].path], f), f, <<x>>), NoFile, {})
    BY DEF SplitWidgetFile
  <1>2. PICK p \in Paths : p = c[1].path /\ disk[p] \in Entries /\ Once(disk[p])
    BY SlotIs
  <1>3. f \in Files /\ f \in Paths /\ disk[f] = Absent
    BY DEF Paths
  <1>4. f # p
    BY <1>2, <1>3, EntriesAssumption
  <1>5. PICK v \in Entries : v = disk[p] /\ Once(v)
    BY <1>2
  <1>6. f \notin Named(v)
    BY <1>3, <1>5 DEF Tidy
  <1>7. PICK w : w = Append(v, f)
    OBVIOUS
  <1>8. w \in Entries /\ Once(w) /\ \A g \in Named(w) : g \in Named(v) \/ g = f
    BY <1>3, <1>5, <1>6, <1>7, AppendNames
  <1>9. PICK y : y = <<x>>
    OBVIOUS
  <1>10. y \in Entries /\ Once(y) /\ Named(y) = {}
    BY <1>9, OneEntry
  <1>11. e = Edit(Two(p, w, f, y), NoFile, {})
    BY <1>1, <1>2, <1>5, <1>7, <1>9
  <1>12. PICK d : d = [z \in Paths |-> IF z = p THEN w ELSE IF z = f THEN y ELSE disk[z]]
    OBVIOUS
  <1>13. \A z \in Paths : d[z] = IF z = p THEN w ELSE IF z = f THEN y ELSE disk[z]
    BY <1>12
  <1>14. \A z \in Paths : Once(d[z]) /\ (d[z] = Absent => disk[z] = Absent)
    BY <1>8, <1>10, <1>13, EntriesAssumption DEF Tidy
  <1>15. \A z \in Paths : \A g \in Named(d[z]) : g \in Named(disk[z]) \/ (z = p /\ g = f)
    BY <1>5, <1>8, <1>10, <1>13
  <1>16. d[f] # Absent
    BY <1>3, <1>4, <1>10, <1>13, EntriesAssumption
  <1>17. Tidy(d)
    BY <1>3, <1>14, <1>15, <1>16, Widened
  <1> QED  BY <1>3, <1>4, <1>8, <1>10, <1>11, <1>13, <1>17, ChangesTwo

LEMMA EditsAreGood ==
    ASSUME Tidy(disk), Readable(disk, Main), NEW e \in Edits PROVE GoodEdit(e, disk)
  BY PartsAreAdded, PartsAreChanged, PagesAreRemoved, FilesAreAdded, WidgetsAreMoved, FilesAreSplit
     DEF Edits
-----------------------------------------------------------------------------
\* What is on disk at each stage of an edit: which files may include what.

AsBefore(j, d) == \A p \in Paths : Within(d[p], j.before[p])

Created(j, d) == j.edit.new.path \in Paths => d[j.edit.new.path] # Absent

PutsBack(j, P) == \A p \in P : Within(j.originals[p], j.before[p])

\* Outside the doomed files nothing includes a file that is gone or is to go.
NothingMissing(j, d) ==
    \A p \in Paths \ j.edit.doomed : \A f \in Named(d[p]) : d[f] # Absent /\ f \notin j.edit.doomed

DiskIsTidy(j, d) ==
    /\ \A p \in Paths : Once(d[p])
    /\ j.pc \in {"file", "collect", "rejected"} => AsBefore(j, d)
    /\ j.pc \in {"collect", "write"} => Created(j, d)
    /\ j.pc \in {"file", "collect", "write"} => Apart(After(j.edit, j.before), j.edit.doomed)
    /\ j.pc \in {"write", "rollback"} => \A p \in Paths \ j.written : Within(d[p], j.before[p])
    /\ j.pc = "write" =>
          (\A p \in j.written : Within(d[p], j.edit.todo[p])) /\ PutsBack(j, DOMAIN j.edit.todo)
    /\ j.pc = "rollback" => PutsBack(j, j.written)
    /\ j.pc \in {"discard", "accepted"} =>
          /\ \A p \in Paths : Named(d[p]) \subseteq Named(After(j.edit, j.before)[p])
          /\ NothingMissing(j, d)
          /\ j.touched = {} => Loads(d)
    /\ j.pc = "accepted" => j.edit.doomed = {}

TidyJob(j, d) == Tidy(j.before) /\ TidyEdit(j.edit, j.before) /\ DiskIsTidy(j, d)

TidyInv ==
    /\ (\A r \in Requests : job[r].pc = "idle") => Tidy(disk)
    /\ \A r \in Requests : job[r].pc # "idle" => TidyJob(job[r], disk)

LEMMA NoText ==
    ASSUME NEW w
    PROVE  /\ Within(Torn, w) /\ (w = Absent => Within(Absent, w))
           /\ Named(Torn) = {} /\ Named(Absent) = {} /\ Once(Torn) /\ Once(Absent)
  BY EntriesAssumption DEF Within, Named, Once

LEMMA StillWithin ==
    ASSUME NEW u, NEW v, NEW w, Within(u, v), Within(v, w)
    PROVE  Within(u, w)
  BY DEF Within

LEMMA TidyGoesOn ==
    ASSUME EditInv, TidyInv, NEW r \in Requests, job[r].pc # "idle",
           NEW x, job' = [job EXCEPT ![r] = x], x.pc # "idle", TidyJob(x, disk')
    PROVE  TidyInv'
  <1>1. \A s \in Requests : job'[s] = IF s = r THEN x ELSE job[s]
    BY DEF EditInv
  <1>2. \A s \in Requests : s # r => job[s].pc = "idle"
    BY DEF EditInv
  <1>3. \A s \in Requests : job'[s].pc # "idle" => TidyJob(job'[s], disk')
    BY <1>1, <1>2
  <1>4. ~ \A s \in Requests : job'[s].pc = "idle"
    BY <1>1
  <1> QED  BY <1>3, <1>4 DEF TidyInv

LEMMA TidyStart == ASSUME Init PROVE TidyInv
  <1>1. \A r \in Requests : job[r] = Idle /\ Idle.pc = "idle"
    BY DEF Init, Idle
  <1> QED  BY <1>1, StartsAssumption DEF Init, TidyInv

LEMMA BeginIsTidy == ASSUME EditInv, TidyInv, NEW r \in Requests, Begin(r) PROVE TidyInv'
  <1>1. PICK e \in Edits : job' = [job EXCEPT ![r] =
            [Idle EXCEPT !.edit = e, !.before = disk,
                         !.pc = IF e.new = NoFile THEN "collect" ELSE "file"]]
    BY DEF Begin
  <1>2. PICK x : x = [Idle EXCEPT !.edit = e, !.before = disk,
                                  !.pc = IF e.new = NoFile THEN "collect" ELSE "file"]
    OBVIOUS
  <1>3. /\ x.edit = e /\ x.before = disk /\ x.written = {} /\ x.touched = {}
        /\ x.pc = IF e.new = NoFile THEN "collect" ELSE "file"
    BY <1>2 DEF Idle
  <1>4. \A s \in Requests : job[s].pc = "idle"
    BY NoneAssumption DEF EditInv, Begin, MayEdit
  <1>5. Tidy(disk) /\ Readable(disk, Main) /\ disk' = disk
    BY <1>4 DEF TidyInv, Begin
  <1>6. GoodEdit(e, disk)
    BY <1>5, EditsAreGood
  <1>7. AsBefore(x, disk)
    BY <1>3, <1>5, SelfWithin DEF AsBefore
  <1>8. x.pc = "collect" => Created(x, disk)
    BY <1>3, NoFileIs DEF Created
  <1>9. TidyJob(x, disk')
    BY <1>3, <1>5, <1>6, <1>7, <1>8 DEF TidyJob, DiskIsTidy, GoodEdit, Tidy
  <1>10. \A s \in Requests : job'[s] = IF s = r THEN x ELSE job[s]
    BY <1>1, <1>2 DEF EditInv
  <1>11. x.pc # "idle"
    BY <1>3
  <1> QED  BY <1>4, <1>9, <1>10, <1>11 DEF TidyInv

\* Of an edit that goes on to another stage, only the disk is to be looked at.
LEMMA StageIsTidy ==
    ASSUME EditInv, TidyInv, NEW r \in Requests, job[r].pc # "idle", NEW stage, stage # "idle",
           Goes(r, stage),
           \A x : /\ x.pc = stage /\ x.edit = job[r].edit /\ x.originals = job[r].originals
                  /\ x.written = job[r].written /\ x.before = job[r].before
                  /\ x.touched = job[r].touched
                  => DiskIsTidy(x, disk')
    PROVE  TidyInv'
  <1>1. PICK x : /\ job' = [job EXCEPT ![r] = x] /\ x.pc = stage
                 /\ x.edit = job[r].edit /\ x.originals = job[r].originals
                 /\ x.written = job[r].written /\ x.before = job[r].before
                 /\ x.touched = job[r].touched
    BY GoesOn
  <1>2. TidyJob(job[r], disk)
    BY DEF TidyInv
  <1>3. TidyJob(x, disk')
    BY <1>1, <1>2 DEF TidyJob
  <1> QED  BY <1>1, <1>3, TidyGoesOn

LEMMA NewFileIsTidy ==
    ASSUME EditInv, TidyInv, NEW r \in Requests, WriteNew(r) \/ FailNew(r) PROVE TidyInv'
  <1>1. PICK j : j = job[r] /\ j.pc = "file"
    BY DEF WriteNew, FailNew
  <1>2. TidyJob(j, disk) /\ disk = [p \in Paths |-> disk[p]] /\ CreatesItsFile(j)
    BY <1>1 DEF TidyInv, EditInv, JobOK
  <1>3. CASE WriteNew(r)
    <2>1. disk' = [disk EXCEPT ![j.edit.new.path] = j.edit.new.entries]
      BY <1>1, <1>3 DEF WriteNew
    <2>2. \A p \in Paths : disk'[p] = IF p = j.edit.new.path THEN j.edit.new.entries ELSE disk[p]
      BY <1>2, <2>1
    <2>3. \A p \in Paths : Within(disk'[p], j.before[p])
      <3> TAKE p \in Paths
      <3>1. CASE p = j.edit.new.path
        BY <1>2, <2>2, <3>1, EntriesAssumption DEF TidyJob, TidyEdit, Within
      <3>2. CASE p # j.edit.new.path
        BY <1>1, <1>2, <2>2, <3>2 DEF TidyJob, DiskIsTidy, AsBefore
      <3> QED  BY <3>1, <3>2
    <2>4. j.edit.new.path \in Paths => disk'[j.edit.new.path] # Absent
      BY <1>2, <2>2, EntriesAssumption DEF TidyJob, TidyEdit
    <2>5. \A p \in Paths : Once(disk'[p])
      BY <2>3 DEF Within
    <2>6. Apart(After(j.edit, j.before), j.edit.doomed)
      BY <1>1, <1>2 DEF TidyJob, DiskIsTidy
    <2>7. \A x : /\ x.pc = "collect" /\ x.edit = job[r].edit /\ x.originals = job[r].originals
                 /\ x.written = job[r].written /\ x.before = job[r].before
                 /\ x.touched = job[r].touched
                 => DiskIsTidy(x, disk')
      BY <1>1, <2>3, <2>4, <2>5, <2>6 DEF DiskIsTidy, AsBefore, Created
    <2>8. Goes(r, "collect")
      BY <1>3 DEF WriteNew
    <2> QED  BY <1>1, <2>7, <2>8, StageIsTidy
  <1>4. CASE FailNew(r)
    <2>1. \A p \in Paths : disk'[p] \in {disk[p], Torn}
      BY <1>1, <1>2, <1>4 DEF FailNew
    <2>2. \A p \in Paths : Within(disk'[p], j.before[p])
      BY <1>1, <1>2, <2>1, NoText DEF TidyJob, DiskIsTidy, AsBefore
    <2>3. \A p \in Paths : Once(disk'[p])
      BY <2>2 DEF Within
    <2>4. \A x : /\ x.pc = "rejected" /\ x.edit = job[r].edit /\ x.originals = job[r].originals
                 /\ x.written = job[r].written /\ x.before = job[r].before
                 /\ x.touched = job[r].touched
                 => DiskIsTidy(x, disk')
      BY <1>1, <2>2, <2>3 DEF DiskIsTidy, AsBefore
    <2>5. Goes(r, "rejected")
      BY <1>4 DEF FailNew
    <2> QED  BY <1>1, <2>4, <2>5, StageIsTidy
  <1> QED  BY <1>3, <1>4

LEMMA CollectIsTidy == ASSUME EditInv, TidyInv, NEW r \in Requests, Collect(r) PROVE TidyInv'
  <1>1. PICK j : j = job[r] /\ j.pc = "collect" /\ disk' = disk
    BY DEF Collect
  <1>2. JobOK(j, disk) /\ TidyJob(j, disk)
    BY <1>1 DEF EditInv, TidyInv
  <1>3. PICK originals : originals = [p \in DOMAIN j.edit.todo |-> disk[p]]
    OBVIOUS
  <1>4. PICK x : x = [j EXCEPT !.originals = originals, !.pc = "write"]
    OBVIOUS
  <1>5. job' = [job EXCEPT ![r] = x]
    BY <1>1, <1>3, <1>4 DEF Collect, EditInv
  <1>6. /\ x.pc = "write" /\ x.originals = originals
        /\ x.edit = j.edit /\ x.written = j.written /\ x.before = j.before
        /\ x.touched = j.touched
    BY <1>2, <1>4 DEF JobOK, JobFields
  <1>7. x.written = {}
    BY <1>1, <1>2, <1>6 DEF JobOK, WritesWhatItChanges
  <1>8. PutsBack(x, DOMAIN x.edit.todo)
    BY <1>1, <1>2, <1>3, <1>6 DEF PutsBack, TidyJob, TidyEdit, DiskIsTidy, AsBefore
  <1>9. DiskIsTidy(x, disk)
    BY <1>1, <1>2, <1>6, <1>7, <1>8 DEF TidyJob, DiskIsTidy, AsBefore, Created
  <1>10. TidyJob(x, disk')
    BY <1>1, <1>2, <1>6, <1>9 DEF TidyJob
  <1> QED  BY <1>1, <1>5, <1>6, <1>10, TidyGoesOn

LEMMA RefuseIsTidy == ASSUME EditInv, TidyInv, NEW r \in Requests, Refuse(r) PROVE TidyInv'
  <1>1. PICK j : j = job[r] /\ j.pc = "collect" /\ disk' = disk
    BY DEF Refuse
  <1>2. TidyJob(j, disk) /\ j.written = {}
    BY <1>1 DEF EditInv, TidyInv, JobOK, WritesWhatItChanges
  <1>3. (\A p \in Paths : Once(disk[p])) /\ \A p \in Paths : Within(disk[p], j.before[p])
    BY <1>1, <1>2 DEF TidyJob, DiskIsTidy, AsBefore
  <1>4. \A x : /\ x.pc = "rollback" /\ x.edit = job[r].edit /\ x.originals = job[r].originals
               /\ x.written = job[r].written /\ x.before = job[r].before
               /\ x.touched = job[r].touched
               => DiskIsTidy(x, disk')
    BY <1>1, <1>2, <1>3 DEF DiskIsTidy, PutsBack
  <1>5. Goes(r, "rollback")
    BY DEF Refuse
  <1> QED  BY <1>1, <1>4, <1>5, StageIsTidy

LEMMA WriteIsTidy == ASSUME EditInv, TidyInv, NEW r \in Requests, Write(r) PROVE TidyInv'
  <1>1. PICK j : j = job[r] /\ j.pc = "write"
    BY DEF Write
  <1>2. PICK p \in Unwritten(j) :
            /\ disk' = [disk EXCEPT ![p] = j.edit.todo[p]]
            /\ job' = [job EXCEPT ![r].written = @ \cup {p}]
    BY <1>1 DEF Write
  <1>3. JobOK(j, disk) /\ TidyJob(j, disk) /\ disk = [q \in Paths |-> disk[q]]
    BY <1>1 DEF EditInv, TidyInv
  <1>4. PICK x : x = [j EXCEPT !.written = @ \cup {p}]
    OBVIOUS
  <1>5. job' = [job EXCEPT ![r] = x]
    BY <1>1, <1>2, <1>4 DEF EditInv
  <1>6. /\ x.pc = "write" /\ x.originals = j.originals
        /\ x.edit = j.edit /\ x.written = j.written \cup {p} /\ x.before = j.before
        /\ x.touched = j.touched
    BY <1>1, <1>3, <1>4 DEF JobOK, JobFields
  <1>7. p \in DOMAIN j.edit.todo /\ p \in Paths /\ j.edit.todo[p] \in Entries
    BY <1>2, <1>3 DEF Unwritten, TidyJob, TidyEdit
  <1>8. \A q \in Paths : disk'[q] = IF q = p THEN j.edit.todo[p] ELSE disk[q]
    BY <1>2, <1>3
  <1>9. Within(j.edit.todo[p], j.edit.todo[p])
    <2>1. After(j.edit, j.before)[p] = j.edit.todo[p]
      BY <1>7 DEF After
    <2>2. Once(j.edit.todo[p])
      BY <1>3, <1>7, <2>1 DEF TidyJob, TidyEdit, Tidy
    <2> QED  BY <2>2 DEF Within
  <1>10. \A q \in Paths : Once(disk'[q])
    BY <1>3, <1>8, <1>9 DEF TidyJob, DiskIsTidy, Within
  <1>11. Created(x, disk')
    BY <1>1, <1>3, <1>6, <1>7, <1>8, EntriesAssumption DEF TidyJob, DiskIsTidy, Created
  <1>12. \A q \in Paths \ x.written : Within(disk'[q], x.before[q])
    BY <1>1, <1>3, <1>6, <1>8 DEF TidyJob, DiskIsTidy
  <1>13. \A q \in x.written : Within(disk'[q], x.edit.todo[q])
    <2>1. j.written \subseteq Paths
      BY <1>1, <1>3 DEF JobOK, WritesWhatItChanges, TidyJob, TidyEdit
    <2>2. \A q \in j.written : Within(disk[q], j.edit.todo[q])
      BY <1>1, <1>3 DEF TidyJob, DiskIsTidy
    <2>3. \A q \in j.written : Within(disk'[q], j.edit.todo[q])
      <3> TAKE q \in j.written
      <3>1. CASE q = p
        BY <1>7, <1>8, <1>9, <3>1
      <3>2. CASE q # p
        BY <1>8, <2>1, <2>2, <3>2
      <3> QED  BY <3>1, <3>2
    <2>4. Within(disk'[p], j.edit.todo[p])
      BY <1>7, <1>8, <1>9
    <2> QED  BY <1>6, <2>3, <2>4
  <1>14. PutsBack(x, DOMAIN x.edit.todo)
    BY <1>1, <1>3, <1>6 DEF TidyJob, DiskIsTidy, PutsBack
  <1>15. Apart(After(x.edit, x.before), x.edit.doomed)
    BY <1>1, <1>3, <1>6 DEF TidyJob, DiskIsTidy
  <1>16. DiskIsTidy(x, disk')
    BY <1>6, <1>10, <1>11, <1>12, <1>13, <1>14, <1>15 DEF DiskIsTidy
  <1>17. TidyJob(x, disk')
    BY <1>3, <1>6, <1>16 DEF TidyJob
  <1> QED  BY <1>1, <1>5, <1>6, <1>17, TidyGoesOn

LEMMA FailWriteIsTidy == ASSUME EditInv, TidyInv, NEW r \in Requests, FailWrite(r) PROVE TidyInv'
  <1>1. PICK j : j = job[r] /\ j.pc = "write"
    BY DEF FailWrite
  <1>2. JobOK(j, disk) /\ TidyJob(j, disk) /\ disk = [q \in Paths |-> disk[q]]
    BY <1>1 DEF EditInv, TidyInv
  <1>3. PICK p \in Unwritten(j) :
            \/ disk' = disk
            \/ disk' = [disk EXCEPT ![p] = IF j.originals[p] = Absent THEN Absent ELSE Torn]
    BY <1>1 DEF FailWrite
  <1>4. \A q \in Paths : \/ disk'[q] = disk[q]
                         \/ q = p /\ disk'[q] = Torn
                         \/ q = p /\ disk'[q] = Absent /\ j.originals[p] = Absent
    BY <1>2, <1>3
  <1>5. p \in DOMAIN j.edit.todo /\ p \notin j.written /\ Within(j.originals[p], j.before[p])
    BY <1>1, <1>2, <1>3 DEF Unwritten, TidyJob, DiskIsTidy, PutsBack
  <1>6. j.originals[p] = Absent => j.before[p] = Absent
    BY <1>5 DEF Within
  <1>7. \A q \in Paths \ j.written : Within(disk[q], j.before[q])
    BY <1>1, <1>2 DEF TidyJob, DiskIsTidy
  <1>8. \A q \in Paths \ j.written : Within(disk'[q], j.before[q])
    BY <1>4, <1>6, <1>7, NoText
  <1>9. \A q \in Paths : Once(disk'[q])
    BY <1>2, <1>4, NoText DEF TidyJob, DiskIsTidy
  <1>10. PutsBack(j, j.written)
    BY <1>1, <1>2 DEF TidyJob, DiskIsTidy, PutsBack, JobOK, WritesWhatItChanges
  <1>11. \A x : /\ x.pc = "rollback" /\ x.edit = job[r].edit /\ x.originals = job[r].originals
                /\ x.written = job[r].written /\ x.before = job[r].before
                /\ x.touched = job[r].touched
                => DiskIsTidy(x, disk')
    BY <1>1, <1>8, <1>9, <1>10 DEF DiskIsTidy, PutsBack
  <1>12. Goes(r, "rollback")
    BY DEF FailWrite
  <1> QED  BY <1>1, <1>11, <1>12, StageIsTidy

\* Everything is written: the files include what they should.
LEMMA WrittenIsTidy ==
    ASSUME EditInv, TidyInv, NEW r \in Requests, NEW j, j = job[r], j.pc = "write", Unwritten(j) = {}
    PROVE  \A p \in Paths : Within(disk[p], After(j.edit, j.before)[p])
  <1>1. JobOK(j, disk) /\ TidyJob(j, disk)
    BY DEF EditInv, TidyInv
  <1>2. j.written = DOMAIN j.edit.todo
    BY <1>1 DEF JobOK, WritesWhatItChanges, Unwritten
  <1> TAKE p \in Paths
  <1>3. CASE p \in DOMAIN j.edit.todo
    BY <1>1, <1>2, <1>3 DEF TidyJob, DiskIsTidy, After
  <1>4. ASSUME p \notin DOMAIN j.edit.todo PROVE Within(disk[p], j.before[p])
    BY <1>1, <1>2, <1>4 DEF TidyJob, DiskIsTidy
  <1>5. CASE p \notin DOMAIN j.edit.todo /\ p = j.edit.new.path
    <2>1. j.before[p] = Absent /\ After(j.edit, j.before)[p] = j.edit.new.entries
      BY <1>1, <1>5 DEF JobOK, CreatesItsFile, After
    <2>2. disk[p] # Absent
      BY <1>1, <1>5 DEF TidyJob, DiskIsTidy, Created
    <2>3. Named(j.before[p]) = {}
      BY <2>1, NoText
    <2> QED  BY <1>4, <1>5, <2>1, <2>2, <2>3 DEF Within
  <1>6. CASE p \notin DOMAIN j.edit.todo /\ p # j.edit.new.path
    BY <1>4, <1>6 DEF After
  <1> QED  BY <1>3, <1>5, <1>6

LEMMA ValidateIsTidy == ASSUME EditInv, TidyInv, NEW r \in Requests, Validate(r) PROVE TidyInv'
  <1>1. PICK j : j = job[r] /\ j.pc = "write" /\ Unwritten(j) = {} /\ disk' = disk
    BY DEF Validate
  <1>2. JobOK(j, disk) /\ TidyJob(j, disk)
    BY <1>1 DEF EditInv, TidyInv
  <1>3. \A p \in Paths : Once(disk[p])
    BY <1>2 DEF TidyJob, DiskIsTidy
  <1>4. CASE Accepts(disk)
    <2>1. PICK c : c = After(j.edit, j.before)
      OBVIOUS
    <2>2. Tidy(c) /\ Apart(c, j.edit.doomed)
      BY <1>1, <1>2, <2>1 DEF TidyJob, TidyEdit, DiskIsTidy
    <2>3. \A p \in Paths : Within(disk[p], c[p])
      BY <1>1, <2>1, WrittenIsTidy
    <2>4. Tidy(disk)
      BY <2>2, <2>3, Narrowed
    <2>5. \A p \in Paths : Named(disk[p]) \subseteq Named(c[p])
      BY <2>3 DEF Within
    <2>6. NothingMissing(j, disk)
      BY <2>2, <2>4, <2>5 DEF NothingMissing, Tidy, Apart
    <2>7. \A x : /\ x.pc = "discard" /\ x.edit = job[r].edit /\ x.originals = job[r].originals
                 /\ x.written = job[r].written /\ x.before = job[r].before
                 /\ x.touched = job[r].touched
                 => DiskIsTidy(x, disk')
      BY <1>1, <1>3, <1>4, <2>1, <2>5, <2>6 DEF DiskIsTidy, NothingMissing, Accepts
    <2>8. Goes(r, "discard")
      BY <1>4 DEF Validate
    <2> QED  BY <1>1, <2>7, <2>8, StageIsTidy
  <1>5. CASE ~Accepts(disk)
    <2>1. PutsBack(j, j.written) /\ \A p \in Paths \ j.written : Within(disk[p], j.before[p])
      BY <1>1, <1>2 DEF TidyJob, DiskIsTidy, PutsBack, JobOK, WritesWhatItChanges
    <2>2. \A x : /\ x.pc = "rollback" /\ x.edit = job[r].edit /\ x.originals = job[r].originals
                 /\ x.written = job[r].written /\ x.before = job[r].before
                 /\ x.touched = job[r].touched
                 => DiskIsTidy(x, disk')
      BY <1>1, <1>3, <2>1 DEF DiskIsTidy, PutsBack
    <2>3. Goes(r, "rollback")
      BY <1>5 DEF Validate
    <2> QED  BY <1>1, <2>2, <2>3, StageIsTidy
  <1> QED  BY <1>4, <1>5

LEMMA RollbackIsTidy == ASSUME EditInv, TidyInv, NEW r \in Requests, Rollback(r) PROVE TidyInv'
  <1>1. PICK j : j = job[r] /\ j.pc = "rollback"
    BY DEF Rollback
  <1>2. PICK p \in j.written :
            /\ \/ disk' = [disk EXCEPT ![p] = AsItWas(j.originals[p])]
               \/ j.originals[p] # Absent /\ disk' = [disk EXCEPT ![p] = Torn]
            /\ job' = [job EXCEPT ![r].written = @ \ {p}]
    BY <1>1 DEF Rollback
  <1>3. JobOK(j, disk) /\ TidyJob(j, disk) /\ disk = [q \in Paths |-> disk[q]]
    BY <1>1 DEF EditInv, TidyInv
  <1>4. PICK x : x = [j EXCEPT !.written = @ \ {p}]
    OBVIOUS
  <1>5. job' = [job EXCEPT ![r] = x]
    BY <1>1, <1>2, <1>4 DEF EditInv
  <1>6. /\ x.pc = "rollback" /\ x.originals = j.originals
        /\ x.edit = j.edit /\ x.written = j.written \ {p} /\ x.before = j.before
        /\ x.touched = j.touched
    BY <1>1, <1>3, <1>4 DEF JobOK, JobFields
  <1>7. \A q \in Paths : IF q = p THEN disk'[q] \in {j.originals[p], Torn} ELSE disk'[q] = disk[q]
    BY <1>2, <1>3 DEF AsItWas
  <1>8. PutsBack(j, j.written) /\ \A q \in Paths \ j.written : Within(disk[q], j.before[q])
    BY <1>1, <1>3 DEF TidyJob, DiskIsTidy
  <1>9. Within(j.originals[p], j.before[p]) /\ Within(Torn, j.before[p])
    BY <1>8, NoText DEF PutsBack
  <1>10. \A q \in Paths \ x.written : Within(disk'[q], x.before[q])
    BY <1>6, <1>7, <1>8, <1>9
  <1>11. \A q \in Paths : Once(disk'[q])
    BY <1>3, <1>7, <1>9 DEF TidyJob, DiskIsTidy, Within
  <1>12. PutsBack(x, x.written)
    BY <1>6, <1>8 DEF PutsBack
  <1>13. DiskIsTidy(x, disk')
    BY <1>6, <1>10, <1>11, <1>12 DEF DiskIsTidy
  <1>14. TidyJob(x, disk')
    BY <1>3, <1>6, <1>13 DEF TidyJob
  <1> QED  BY <1>1, <1>5, <1>6, <1>14, TidyGoesOn

LEMMA RejectIsTidy == ASSUME EditInv, TidyInv, NEW r \in Requests, Reject(r) PROVE TidyInv'
  <1>1. PICK j : j = job[r] /\ j.pc = "rollback" /\ j.written = {}
    BY DEF Reject
  <1>2. JobOK(j, disk) /\ TidyJob(j, disk)
    BY <1>1 DEF EditInv, TidyInv
  <1>3. disk' = [p \in Paths |-> IF p = j.edit.new.path THEN Absent ELSE disk[p]]
    BY <1>1 DEF Reject
  <1>4. \A p \in Paths : Within(disk[p], j.before[p])
    BY <1>1, <1>2 DEF TidyJob, DiskIsTidy
  <1>5. \A p \in Paths : p = j.edit.new.path => j.before[p] = Absent
    BY <1>1, <1>2 DEF JobOK, CreatesItsFile
  <1>6. \A p \in Paths : Within(disk'[p], j.before[p])
    BY <1>3, <1>4, <1>5, NoText
  <1>7. \A p \in Paths : Once(disk'[p])
    BY <1>6 DEF Within
  <1>8. \A x : /\ x.pc = "rejected" /\ x.edit = job[r].edit /\ x.originals = job[r].originals
               /\ x.written = job[r].written /\ x.before = job[r].before
               /\ x.touched = job[r].touched
               => DiskIsTidy(x, disk')
    BY <1>1, <1>6, <1>7 DEF DiskIsTidy, AsBefore
  <1>9. Goes(r, "rejected")
    BY DEF Reject
  <1> QED  BY <1>1, <1>8, <1>9, StageIsTidy

\* A doomed file is included by another or not at all, so it can go.
LEMMA DiscardIsTidy == ASSUME EditInv, TidyInv, NEW r \in Requests, Discard(r) PROVE TidyInv'
  <1>1. PICK j : j = job[r] /\ j.pc = "discard"
    BY DEF Discard
  <1>2. PICK p \in j.edit.doomed :
            /\ disk' = [disk EXCEPT ![p] = Absent]
            /\ job' = [job EXCEPT ![r].edit.doomed = @ \ {p}]
    BY <1>1 DEF Discard
  <1>3. JobOK(j, disk) /\ TidyJob(j, disk) /\ disk = [q \in Paths |-> disk[q]]
    BY <1>1 DEF EditInv, TidyInv
  <1>4. PICK e : e = [j.edit EXCEPT !.doomed = @ \ {p}]
    OBVIOUS
  <1>5. PICK x : x = [j EXCEPT !.edit = e]
    OBVIOUS
  <1>6. job' = [job EXCEPT ![r] = x]
    BY <1>1, <1>2, <1>3, <1>4, <1>5 DEF EditInv, JobOK, JobFields
  <1>7. x.pc = "discard" /\ x.edit = e /\ x.before = j.before /\ x.touched = j.touched
    BY <1>1, <1>3, <1>5 DEF JobOK, JobFields
  <1>8. e.new = j.edit.new /\ e.todo = j.edit.todo /\ e.doomed = j.edit.doomed \ {p}
    <2>1. j.edit = Edit(j.edit.todo, j.edit.new, j.edit.doomed)
      BY <1>3 DEF TidyJob, TidyEdit
    <2>2. j.edit = [todo |-> j.edit.todo, new |-> j.edit.new, doomed |-> j.edit.doomed]
      BY <2>1 DEF Edit
    <2> QED  BY <1>4, <2>2
  <1>9. \A q \in Paths : disk'[q] = IF q = p THEN Absent ELSE disk[q]
    BY <1>2, <1>3
  <1>10. e = Edit(e.todo, e.new, e.doomed)
    <2>1. j.edit = Edit(j.edit.todo, j.edit.new, j.edit.doomed)
      BY <1>3 DEF TidyJob, TidyEdit
    <2> QED  BY <1>4, <2>1 DEF Edit
  <1>11. After(e, j.before) = After(j.edit, j.before)
    BY <1>8 DEF After
  <1>12. TidyEdit(e, j.before)
    BY <1>3, <1>8, <1>10, <1>11 DEF TidyJob, TidyEdit
  <1>13. /\ \A q \in Paths : Once(disk[q])
         /\ \A q \in Paths : Named(disk[q]) \subseteq Named(After(j.edit, j.before)[q])
         /\ NothingMissing(j, disk) /\ (j.touched = {} => Loads(disk))
    BY <1>1, <1>3 DEF TidyJob, DiskIsTidy
  <1>14. /\ \A q \in Paths : Once(disk'[q])
         /\ \A q \in Paths : Named(disk'[q]) \subseteq Named(After(e, j.before)[q])
    BY <1>9, <1>11, <1>13, NoText
  <1>15. NothingMissing(x, disk')
    <2> SUFFICES ASSUME NEW q \in Paths \ x.edit.doomed, NEW f \in Named(disk'[q])
                 PROVE  disk'[f] # Absent /\ f \notin x.edit.doomed
      BY DEF NothingMissing
    <2>1. q # p
      BY <1>9, NoText
    <2>2. q \in Paths \ j.edit.doomed /\ f \in Named(disk[q])
      BY <1>7, <1>8, <1>9, <2>1
    <2>3. disk[f] # Absent /\ f \notin j.edit.doomed
      BY <1>13, <2>2 DEF NothingMissing
    <2>4. f \in Paths
      BY <2>2 DEF Named, Paths
    <2> QED  BY <1>2, <1>7, <1>8, <1>9, <2>3, <2>4
  <1>16. ASSUME x.touched = {} PROVE Loads(disk')
    <2>1. Loads(disk) /\ Texts(disk)
      BY <1>7, <1>13, <1>16 DEF Texts, Once
    <2>2. j.edit.doomed \subseteq Files
      BY <1>3 DEF TidyJob, TidyEdit
    <2>3. Apart(disk, j.edit.doomed)
      BY <1>13 DEF NothingMissing, Apart
    <2>4. \A q \in Paths \ j.edit.doomed : disk'[q] = disk[q]
      BY <1>2, <1>9
    <2> QED  BY <2>1, <2>2, <2>3, <2>4, LoadsWithout
  <1>17. DiskIsTidy(x, disk')
    BY <1>7, <1>14, <1>15, <1>16 DEF DiskIsTidy
  <1>18. TidyJob(x, disk')
    BY <1>3, <1>7, <1>12, <1>17 DEF TidyJob
  <1> QED  BY <1>1, <1>6, <1>7, <1>18, TidyGoesOn

LEMMA AcceptIsTidy == ASSUME EditInv, TidyInv, NEW r \in Requests, Accept(r) PROVE TidyInv'
  <1>1. PICK j : j = job[r] /\ j.pc = "discard" /\ j.edit.doomed = {} /\ disk' = disk
    BY DEF Accept
  <1>2. TidyJob(j, disk)
    BY <1>1 DEF TidyInv
  <1>3. /\ \A q \in Paths : Once(disk[q])
        /\ \A q \in Paths : Named(disk[q]) \subseteq Named(After(j.edit, j.before)[q])
        /\ NothingMissing(j, disk) /\ (j.touched = {} => Loads(disk))
    BY <1>1, <1>2 DEF TidyJob, DiskIsTidy
  <1>4. \A x : /\ x.pc = "accepted" /\ x.edit = job[r].edit /\ x.originals = job[r].originals
               /\ x.written = job[r].written /\ x.before = job[r].before
               /\ x.touched = job[r].touched
               => DiskIsTidy(x, disk')
    BY <1>1, <1>3 DEF DiskIsTidy, NothingMissing
  <1>5. Goes(r, "accepted")
    BY DEF Accept
  <1> QED  BY <1>1, <1>4, <1>5, StageIsTidy

\* The next edit begins with a tidy config, whatever became of this one.
LEMMA ReturnIsTidy == ASSUME EditInv, TidyInv, NEW r \in Requests, Return(r) PROVE TidyInv'
  <1>1. PICK j : j = job[r] /\ j.pc \in {"accepted", "rejected"} /\ disk' = disk
    BY DEF Return
  <1>2. TidyJob(j, disk)
    BY <1>1 DEF TidyInv
  <1>3. ASSUME j.pc = "rejected" PROVE Tidy(disk)
    <2>1. Tidy(j.before) /\ \A p \in Paths : Within(disk[p], j.before[p])
      BY <1>2, <1>3 DEF TidyJob, DiskIsTidy, AsBefore
    <2> QED  BY <2>1, Narrowed
  <1>4. ASSUME j.pc = "accepted" PROVE Tidy(disk)
    <2>1. PICK c : c = After(j.edit, j.before)
      OBVIOUS
    <2>2. /\ Tidy(c) /\ \A p \in Paths : Once(disk[p])
          /\ \A p \in Paths : Named(disk[p]) \subseteq Named(c[p])
          /\ \A p \in Paths : \A f \in Named(disk[p]) : disk[f] # Absent
      BY <1>2, <1>4, <2>1 DEF TidyJob, TidyEdit, DiskIsTidy, NothingMissing
    <2>3. ASSUME NEW p \in Paths, NEW q \in Paths, p # q PROVE Named(disk[p]) \cap Named(disk[q]) = {}
      <3>1. Named(c[p]) \cap Named(c[q]) = {}
        BY <2>2, <2>3 DEF Tidy
      <3> QED  BY <2>2, <3>1
    <2> QED  BY <2>2, <2>3 DEF Tidy
  <1>5. Tidy(disk)
    BY <1>1, <1>3, <1>4
  <1>6. \A s \in Requests : job'[s] = IF s = r THEN Idle ELSE job[s]
    BY DEF EditInv, Return
  <1>7. \A s \in Requests : s # r => job[s].pc = "idle"
    BY DEF EditInv, Return
  <1>8. \A s \in Requests : job'[s].pc = "idle"
    BY <1>6, <1>7 DEF Idle
  <1> QED  BY <1>1, <1>5, <1>8 DEF TidyInv

\* What somebody adds by hand includes nothing.
LEMMA HandEditIsTidy == ASSUME EditInv, TidyInv, HandEdit PROVE TidyInv'
  <1>1. PICK p \in Paths, y \in Fresh :
            /\ Readable(disk, p)
            /\ disk' = [disk EXCEPT ![p] = Append(@, y)]
            /\ job' = [r \in Requests |->
                        IF job[r].pc = "idle" THEN job[r]
                        ELSE [job[r] EXCEPT !.touched = @ \cup {p}]]
    BY DEF HandEdit
  <1>2. \A q \in Paths : disk'[q] = IF q = p THEN Append(disk[p], y) ELSE disk[q]
    BY <1>1 DEF EditInv
  <1>3. ASSUME NEW q \in Paths, Once(disk[q]) PROVE Within(disk'[q], disk[q])
    <2>1. CASE q = p
      <3>1. disk[p] \in Entries /\ Once(disk[p])
        BY <1>1, <1>3, <2>1 DEF Once, Readable
      <3> QED  BY <1>2, <2>1, <3>1, AppendWithin
    <2>2. CASE q # p
      BY <1>2, <1>3, <2>2 DEF Within
    <2> QED  BY <2>1, <2>2
  <1>4. ASSUME \A r \in Requests : job[r].pc = "idle" PROVE Tidy(disk')
    <2>1. Tidy(disk)
      BY <1>4 DEF TidyInv
    <2>2. \A q \in Paths : Within(disk'[q], disk[q])
      BY <1>3, <2>1 DEF Tidy
    <2> QED  BY <2>1, <2>2, Narrowed
  <1>5. \A r \in Requests : job'[r].pc = job[r].pc
    <2> TAKE r \in Requests
    <2>1. CASE job[r].pc = "idle"
      BY <1>1, <2>1
    <2>2. CASE job[r].pc # "idle"
      <3>1. job[r] = [z \in JobFields |-> job[r][z]]
        BY DEF EditInv, JobOK
      <3> QED  BY <1>1, <2>2, <3>1 DEF JobFields
    <2> QED  BY <2>1, <2>2
  <1>6. ASSUME NEW r \in Requests, job[r].pc # "idle" PROVE TidyJob(job'[r], disk')
    <2>1. PICK j : j = job[r] /\ j = [z \in JobFields |-> j[z]]
      BY DEF EditInv, JobOK
    <2>2. TidyJob(j, disk)
      BY <1>6, <2>1 DEF TidyInv
    <2>3. PICK x : x = [j EXCEPT !.touched = @ \cup {p}]
      OBVIOUS
    <2>4. job'[r] = x
      BY <1>1, <1>6, <2>1, <2>3
    <2>5. /\ x.pc = j.pc /\ x.originals = j.originals
          /\ x.edit = j.edit /\ x.written = j.written /\ x.before = j.before
          /\ x.touched = j.touched \cup {p}
      BY <2>1, <2>3 DEF JobFields
    <2>6. \A q \in Paths : Within(disk'[q], disk[q])
      BY <1>3, <2>2 DEF TidyJob, DiskIsTidy
    <2>7. \A q \in Paths : \A w : Within(disk[q], w) => Within(disk'[q], w)
      BY <2>6, StillWithin
    <2>8. /\ \A q \in Paths : Once(disk'[q]) /\ Named(disk'[q]) \subseteq Named(disk[q])
          /\ \A q \in Paths : disk[q] # Absent => disk'[q] # Absent
      BY <2>6 DEF Within
    <2>9. x.pc \in {"file", "collect", "rejected"} => AsBefore(x, disk')
      BY <2>2, <2>5, <2>7 DEF TidyJob, DiskIsTidy, AsBefore
    <2>10. x.pc \in {"collect", "write"} => Created(x, disk')
      BY <2>2, <2>5, <2>8 DEF TidyJob, DiskIsTidy, Created
    <2>11. x.pc \in {"write", "rollback"} => \A q \in Paths \ x.written : Within(disk'[q], x.before[q])
      BY <2>2, <2>5, <2>7 DEF TidyJob, DiskIsTidy
    <2>12. x.pc = "write" => \A q \in x.written : Within(disk'[q], x.edit.todo[q])
      <3>1. x.pc = "write" => x.written \subseteq Paths
        BY <2>1, <2>2, <2>5 DEF EditInv, JobOK, WritesWhatItChanges, TidyJob, TidyEdit
      <3> QED  BY <2>2, <2>5, <2>7, <3>1 DEF TidyJob, DiskIsTidy
    <2>13. x.pc \in {"discard", "accepted"} =>
              /\ \A q \in Paths : Named(disk'[q]) \subseteq Named(After(x.edit, x.before)[q])
              /\ NothingMissing(x, disk')
      <3> HAVE x.pc \in {"discard", "accepted"}
      <3>1. /\ \A q \in Paths : Named(disk[q]) \subseteq Named(After(x.edit, x.before)[q])
            /\ NothingMissing(j, disk)
        BY <2>2, <2>5 DEF TidyJob, DiskIsTidy
      <3>2. NothingMissing(x, disk')
        <4> SUFFICES ASSUME NEW q \in Paths \ x.edit.doomed, NEW f \in Named(disk'[q])
                     PROVE  disk'[f] # Absent /\ f \notin x.edit.doomed
          BY DEF NothingMissing
        <4>1. f \in Named(disk[q]) /\ f \in Paths
          BY <2>8 DEF Named, Paths
        <4>2. disk[f] # Absent /\ f \notin j.edit.doomed
          BY <2>5, <3>1, <4>1 DEF NothingMissing
        <4> QED  BY <2>5, <2>8, <4>1, <4>2
      <3> QED  BY <2>8, <3>1, <3>2
    <2>14. DiskIsTidy(x, disk')
      BY <2>2, <2>5, <2>8, <2>9, <2>10, <2>11, <2>12, <2>13 DEF TidyJob, DiskIsTidy, PutsBack
    <2> QED  BY <2>2, <2>4, <2>5, <2>14 DEF TidyJob
  <1> QED  BY <1>4, <1>5, <1>6 DEF TidyInv

LEMMA TidyStepKeeps == ASSUME EditInv, TidyInv, [Next]_vars PROVE TidyInv'
  <1>1. CASE UNCHANGED vars
    BY <1>1 DEF TidyInv, vars
  <1>2. CASE HandEdit
    BY <1>2, HandEditIsTidy
  <1>3. ASSUME NEW r \in Requests,
               \/ Begin(r) \/ WriteNew(r) \/ FailNew(r) \/ Collect(r) \/ Refuse(r)
               \/ Write(r) \/ FailWrite(r) \/ Validate(r) \/ Rollback(r) \/ Reject(r)
               \/ Discard(r) \/ Accept(r) \/ Return(r)
        PROVE  TidyInv'
    BY <1>3, BeginIsTidy, NewFileIsTidy, CollectIsTidy, RefuseIsTidy, WriteIsTidy, FailWriteIsTidy,
       ValidateIsTidy, RollbackIsTidy, RejectIsTidy, DiscardIsTidy, AcceptIsTidy, ReturnIsTidy
  <1> QED  BY <1>1, <1>2, <1>3 DEF Next

\* An edit that was accepted leaves a config that loads, the files it had to delete
\* gone, unless somebody else wrote meanwhile: applyEditorMutation and
\* removePageSlot, for any number of files, however deep their includes.
THEOREM AcceptedLoadsHolds == EditorSpec => []AcceptedLoads
  <1>1. EditorInit => TidyInv
    BY TidyStart DEF EditorInit
  <1>2. EditInv /\ TidyInv /\ [EditorNext]_editorVars => TidyInv'
    BY DiskSteps, TidyStepKeeps
  <1>3. TidyInv => AcceptedLoads
    BY DEF TidyInv, TidyJob, DiskIsTidy, AcceptedLoads
  <1> QED  BY <1>1, <1>2, <1>3, EditsAlways, PTL DEF EditorSpec
-----------------------------------------------------------------------------
\* Which files are read, by the number of includes they are read through, and so
\* which parts a config has.

Stages(d, s) ==
    /\ \A k \in 0..DepthLimit : s[k] \subseteq Paths
    /\ \A p \in Paths : p \in s[0] <=> p = Main /\ Readable(d, Main)
    /\ \A k \in 0..DepthLimit : k > 0 =>
          \A p \in Paths : p \in s[k] <=>
              Readable(d, p) /\ ((p = Main) \/ \E q \in s[k - 1] : p \in Named(d[q]))
    /\ \A x : x \in PartsOf(d) <=> x \notin Files /\ \E p \in s[DepthLimit] : x \in ToSet(d[p])

\* The file p is read at depth k of the levels u.
Opens(d, u, k, p) ==
    /\ p \in Paths /\ Readable(d, p)
    /\ p = Main \/ (k > 0 /\ p \in Files /\ \E c \in u[k - 1] : Entry(d, c) = p)

LEMMA LevelsGrow ==
    ASSUME NEW d, NEW u, Levels(d, DepthLimit, u), NEW k \in 0..DepthLimit, k > 0
    PROVE  /\ u[k] = Further(d, u[k - 1]) /\ k - 1 \in 0..DepthLimit
           /\ u[k - 1] \subseteq u[k]
  <1>1. DepthLimit \in Nat
    BY EntriesAssumption
  <1>2. k - 1 \in 0..DepthLimit
    BY <1>1
  <1>3. u[k] = IF k = 0 THEN {<<here>> : here \in At(d, Main)} ELSE Further(d, u[k - 1])
    BY DEF Levels
  <1>4. k # 0
    BY <1>1
  <1> QED  BY <1>2, <1>3, <1>4, FurtherIs

\* A position of a level is a chain, and its file is opened there.
LEMMA ReadIsOpen ==
    ASSUME NEW d, Texts(d), NEW u, Levels(d, DepthLimit, u), Readable(d, Main)
    PROVE  \A k \in 0..DepthLimit : \A e \in u[k] : IsChain(d, e) /\ Opens(d, u, k, e[1].path)
  <1>1. DepthLimit \in Nat /\ Main \in Paths
    BY EntriesAssumption DEF Paths
  <1> DEFINE Fine(k) == \A e \in u[k] : IsChain(d, e) /\ Opens(d, u, k, e[1].path)
             T == {m \in 0..DepthLimit : ~ Fine(m)}
  <1>2. T = {}
    <2> SUFFICES ASSUME T # {} PROVE FALSE
      OBVIOUS
    <2>1. T \subseteq Nat
      BY <1>1
    <2>2. PICK m \in T : \A y \in T : m <= y
      <3> HIDE DEF T
      <3> QED  BY <2>1, Distinct!Least
    <2>3. CASE m = 0
      <3>1. u[0] = {<<here>> : here \in At(d, Main)}
        BY <1>1 DEF Levels
      <3>2. ASSUME NEW here \in At(d, Main) PROVE IsChain(d, <<here>>) /\ Opens(d, u, 0, <<here>>[1].path)
        <4>1. There(d, here) /\ here.path = Main
          BY <1>1, <3>2, AtIsThere
        <4>2. here \in Position
          BY <4>1 DEF There
        <4> QED  BY <1>1, <4>1, <4>2 DEF IsChain, Opens
      <3> QED  BY <2>2, <2>3, <3>1, <3>2
    <2>4. CASE m # 0
      <3>1. m \in 0..DepthLimit /\ m > 0
        BY <1>1, <2>2, <2>4
      <3>2. u[m] = Further(d, u[m - 1]) /\ m - 1 \in 0..DepthLimit /\ u[m - 1] \subseteq u[m]
        BY <3>1, LevelsGrow
      <3>3. Fine(m - 1)
        BY <1>1, <2>2, <3>1, <3>2
      <3>4. ASSUME NEW e \in u[m - 1] PROVE Opens(d, u, m, e[1].path)
        <4>1. Opens(d, u, m - 1, e[1].path)
          BY <3>3, <3>4
        <4>2. m - 1 > 0 => u[m - 2] \subseteq u[m - 1]
          <5> HAVE m - 1 > 0
          <5>1. u[(m - 1) - 1] \subseteq u[m - 1]
            BY <3>2, LevelsGrow
          <5> QED  BY <3>1, <5>1
        <4>3. (m - 1) - 1 = m - 2
          BY <3>1
        <4> QED  BY <3>1, <4>1, <4>2, <4>3 DEF Opens
      <3>5. ASSUME NEW c \in u[m - 1], NEW e, Continues(d, c, e) PROVE IsChain(d, e) /\ Opens(d, u, m, e[1].path)
        <4>1. PICK here \in At(d, Entry(d, c)) : e = <<here>> \o c
          BY <3>5 DEF Continues
        <4>2. Entry(d, c) \in Files /\ Entry(d, c) \in Paths /\ Readable(d, Entry(d, c))
          BY <3>5 DEF Continues, Paths
        <4>3. IsChain(d, c)
          BY <3>3
        <4>4. IsChain(d, e) /\ e[1] = here
          BY <4>1, <4>2, <4>3, ChainGrows
        <4>5. here.path = Entry(d, c)
          BY <4>2, AtIsThere
        <4> QED  BY <3>1, <4>2, <4>4, <4>5 DEF Opens
      <3>6. \A e \in u[m] : IsChain(d, e) /\ Opens(d, u, m, e[1].path)
        <4> TAKE e \in u[m]
        <4>1. e \in u[m - 1] \/ \E c \in u[m - 1] : Continues(d, c, e)
          BY <3>2, FurtherIs
        <4> QED  BY <3>3, <3>4, <3>5, <4>1
      <3> QED  BY <2>2, <3>6
    <2> QED  BY <2>3, <2>4
  <1> QED  BY <1>2

\* Every entry of a file that is opened has a position in its level.
LEMMA OpenIsRead ==
    ASSUME NEW d, Texts(d), NEW u, Levels(d, DepthLimit, u), Readable(d, Main),
           NEW k \in 0..DepthLimit, NEW p, Opens(d, u, k, p), NEW here \in At(d, p)
    PROVE  \E c \in u[k] : c[1] = here
  <1>1. DepthLimit \in Nat
    BY EntriesAssumption
  <1>2. CASE p = Main
    <2> DEFINE T == {m \in 0..DepthLimit : <<here>> \notin u[m]}
    <2>1. T = {}
      <3> SUFFICES ASSUME T # {} PROVE FALSE
        OBVIOUS
      <3>1. T \subseteq Nat
        BY <1>1
      <3>2. PICK m \in T : \A y \in T : m <= y
        <4> HIDE DEF T
        <4> QED  BY <3>1, Distinct!Least
      <3>3. CASE m = 0
        <4>1. u[0] = {<<h>> : h \in At(d, Main)}
          BY <1>1 DEF Levels
        <4> QED  BY <1>2, <3>2, <3>3, <4>1
      <3>4. CASE m # 0
        <4>1. m \in 0..DepthLimit /\ m > 0
          BY <1>1, <3>2, <3>4
        <4>2. m - 1 \in 0..DepthLimit /\ u[m - 1] \subseteq u[m]
          BY <4>1, LevelsGrow
        <4>3. m - 1 \notin T
          BY <3>1, <3>2, <4>1
        <4> QED  BY <3>2, <4>2, <4>3
      <3> QED  BY <3>3, <3>4
    <2>2. <<here>> \in u[k] /\ <<here>>[1] = here
      BY <2>1
    <2> QED  BY <2>2
  <1>3. CASE p # Main
    <2>1. PICK c \in u[k - 1] : Entry(d, c) = p /\ k > 0 /\ p \in Files /\ Readable(d, p)
      BY <1>3 DEF Opens
    <2>2. u[k] = Further(d, u[k - 1]) /\ k - 1 \in 0..DepthLimit
      BY <2>1, LevelsGrow
    <2>3. Continues(d, c, <<here>> \o c)
      BY <2>1 DEF Continues
    <2>4. <<here>> \o c \in u[k]
      BY <2>2, <2>3, FurtherIs
    <2>5. IsChain(d, c)
      BY <2>2, ReadIsOpen
    <2>6. (<<here>> \o c)[1] = here
      BY <2>1, <2>5, ChainGrows
    <2> QED  BY <2>4, <2>6
  <1> QED  BY <1>2, <1>3

\* What is said at the positions of a level is what the files opened there say.
LEMMA LevelSays ==
    ASSUME NEW d, Texts(d), NEW u, Levels(d, DepthLimit, u), Readable(d, Main),
           NEW k \in 0..DepthLimit, NEW x
    PROVE  (\E c \in u[k] : Entry(d, c) = x) <=> \E p \in Paths : Opens(d, u, k, p) /\ x \in ToSet(d[p])
  <1>1. ASSUME NEW c \in u[k], Entry(d, c) = x PROVE \E p \in Paths : Opens(d, u, k, p) /\ x \in ToSet(d[p])
    <2>1. IsChain(d, c) /\ Opens(d, u, k, c[1].path)
      BY ReadIsOpen
    <2>2. c[1].at \in DOMAIN d[c[1].path]
      BY <2>1 DEF IsChain, There
    <2>3. x \in ToSet(d[c[1].path])
      BY <1>1, <2>2 DEF Entry, ToSet
    <2>4. c[1].path \in Paths
      BY <2>1 DEF Opens
    <2> QED  BY <2>1, <2>3, <2>4
  <1>2. ASSUME NEW p \in Paths, Opens(d, u, k, p), x \in ToSet(d[p]) PROVE \E c \in u[k] : Entry(d, c) = x
    <2>1. PICK i \in DOMAIN d[p] : d[p][i] = x
      BY <1>2 DEF ToSet
    <2>2. PICK here : here = [path |-> p, at |-> i]
      OBVIOUS
    <2>3. here \in At(d, p) /\ here.path = p /\ here.at = i
      BY <2>2 DEF At
    <2>4. PICK c \in u[k] : c[1] = here
      BY <1>2, <2>3, OpenIsRead
    <2> QED  BY <2>1, <2>3, <2>4 DEF Entry
  <1> QED  BY <1>1, <1>2

LEMMA PartsAre ==
    ASSUME NEW d, NEW u, Chains(d) = u, NEW x
    PROVE  x \in PartsOf(d) <=> x \notin Files /\ \E c \in u : Entry(d, c) = x
  BY DEF PartsOf, Held

LEMMA NamedAre ==
    ASSUME NEW d, NEW q, Readable(d, q), NEW p
    PROVE  p \in Named(d[q]) <=> p \in Files /\ p \in ToSet(d[q])
  BY DEF Named, Readable

LEMMA StagesExist ==
    ASSUME NEW d, Texts(d)
    PROVE  \E s : Stages(d, s)
  <1>1. PICK u : Levels(d, DepthLimit, u) /\ Chains(d) = IF Readable(d, Main) THEN u[DepthLimit] ELSE {}
    BY ChainsAre
  <1>2. DepthLimit \in Nat /\ Main \in Paths
    BY EntriesAssumption DEF Paths
  <1>3. CASE ~Readable(d, Main)
    <2> DEFINE s == [k \in 0..DepthLimit |-> {}]
    <2>1. \A x : x \notin PartsOf(d)
      BY <1>1, <1>3, PartsAre
    <2>2. \A k \in 0..DepthLimit : s[k] = {}
      OBVIOUS
    <2>3. \A k \in 0..DepthLimit : k > 0 => k - 1 \in 0..DepthLimit
      BY <1>2
    <2> HIDE DEF s
    <2>4. \A k \in 0..DepthLimit : k > 0 => s[k - 1] = {}
      BY <2>2, <2>3
    <2>5. 0 \in 0..DepthLimit /\ DepthLimit \in 0..DepthLimit
      BY <1>2
    <2>6. Stages(d, s)
      BY <1>3, <2>1, <2>2, <2>4, <2>5 DEF Stages
    <2> QED  BY <2>6
  <1>4. CASE Readable(d, Main)
    <2> DEFINE s == [k \in 0..DepthLimit |-> {p \in Paths : Opens(d, u, k, p)}]
    <2>1. \A k \in 0..DepthLimit : s[k] \subseteq Paths /\ \A p \in Paths : p \in s[k] <=> Opens(d, u, k, p)
      OBVIOUS
    <2> HIDE DEF s
    <2>2. 0 \in 0..DepthLimit /\ DepthLimit \in 0..DepthLimit
      BY <1>2
    <2>3. \A p \in Paths : p \in s[0] <=> p = Main /\ Readable(d, Main)
      BY <1>2, <2>1, <2>2 DEF Opens
    <2>4. ASSUME NEW k \in 0..DepthLimit, k > 0, NEW p \in Paths
          PROVE  p \in s[k] <=> Readable(d, p) /\ ((p = Main) \/ \E q \in s[k - 1] : p \in Named(d[q]))
      <3>1. k - 1 \in 0..DepthLimit
        BY <1>2, <2>4
      <3>2. (\E c \in u[k - 1] : Entry(d, c) = p) <=> \E q \in Paths : Opens(d, u, k - 1, q) /\ p \in ToSet(d[q])
        BY <1>1, <1>4, <3>1, LevelSays
      <3>3. \A q \in Paths : q \in s[k - 1] <=> Opens(d, u, k - 1, q)
        BY <2>1, <3>1
      <3>4. \A q \in Paths : Opens(d, u, k - 1, q) => Readable(d, q)
        BY DEF Opens
      <3>5. s[k - 1] \subseteq Paths
        BY <2>1, <3>1
      <3>6. (\E q \in s[k - 1] : p \in Named(d[q])) <=> p \in Files /\ \E c \in u[k - 1] : Entry(d, c) = p
        BY <3>2, <3>3, <3>4, <3>5, NamedAre
      <3>7. p \in s[k] <=> Opens(d, u, k, p)
        BY <2>1
      <3> QED  BY <2>4, <3>6, <3>7 DEF Opens
    <2>5. ASSUME NEW x PROVE x \in PartsOf(d) <=> x \notin Files /\ \E p \in s[DepthLimit] : x \in ToSet(d[p])
      <3>1. x \in PartsOf(d) <=> x \notin Files /\ \E c \in u[DepthLimit] : Entry(d, c) = x
        BY <1>1, <1>4, PartsAre
      <3>2. (\E c \in u[DepthLimit] : Entry(d, c) = x)
               <=> \E p \in Paths : Opens(d, u, DepthLimit, p) /\ x \in ToSet(d[p])
        BY <1>1, <1>4, <2>2, LevelSays
      <3> QED  BY <2>1, <2>2, <3>1, <3>2
    <2>6. Stages(d, s)
      BY <2>1, <2>3, <2>4, <2>5 DEF Stages
    <2> QED  BY <2>6
  <1> QED  BY <1>3, <1>4

-----------------------------------------------------------------------------
\* Two configs that differ in little have the same parts but for one.

\* Whatever d has outside of the files D, the config c has too, but for the part x
\* and the includes of D; and the files D hold nothing else.
Keeps(d, c, D, x) ==
    /\ D \subseteq Files /\ x \notin Files
    /\ \A q \in Paths \ D : Readable(d, q) =>
          Readable(c, q) /\ ToSet(d[q]) \ (D \cup {x}) \subseteq ToSet(c[q])
    /\ \A q \in D : Readable(d, q) => ToSet(d[q]) \subseteq D \cup {x}

LEMMA PartsAreKept ==
    ASSUME NEW d, Texts(d), NEW c, Texts(c), NEW D, NEW x, Keeps(d, c, D, x)
    PROVE  PartsOf(d) \ {x} \subseteq PartsOf(c)
  <1>1. PICK s : Stages(d, s)
    BY StagesExist
  <1>2. PICK t : Stages(c, t)
    BY StagesExist
  <1>3. DepthLimit \in Nat /\ Main \in Paths /\ Main \notin D /\ D \subseteq Paths
    BY EntriesAssumption DEF Keeps, Paths
  <1> DEFINE T == {m \in 0..DepthLimit : ~ (s[m] \ D \subseteq t[m])}
  <1>4. T = {}
    <2> SUFFICES ASSUME T # {} PROVE FALSE
      OBVIOUS
    <2>1. T \subseteq Nat
      BY <1>3
    <2>2. PICK m \in T : \A y \in T : m <= y
      <3> HIDE DEF T
      <3> QED  BY <2>1, Distinct!Least
    <2>3. PICK p \in Paths \ D : p \in s[m] /\ p \notin t[m]
      BY <1>1, <2>2 DEF Stages
    <2>4. CASE m = 0
      BY <1>1, <1>2, <1>3, <2>3, <2>4 DEF Stages, Keeps
    <2>5. CASE m # 0
      <3>1. m \in 0..DepthLimit /\ m > 0 /\ m - 1 \in 0..DepthLimit
        BY <1>3, <2>2, <2>5
      <3>2. s[m - 1] \ D \subseteq t[m - 1]
        BY <1>3, <2>2, <3>1
      <3>3. Readable(d, p) /\ (p = Main \/ \E q \in s[m - 1] : p \in Named(d[q]))
        BY <1>1, <2>3, <3>1 DEF Stages
      <3>4. Readable(c, p) /\ ToSet(d[p]) \ (D \cup {x}) \subseteq ToSet(c[p])
        BY <2>3, <3>3 DEF Keeps
      <3>5. ASSUME NEW q \in s[m - 1], p \in Named(d[q]) PROVE q \in t[m - 1] /\ p \in Named(c[q])
        <4>1. q \in Paths
          BY <1>1, <3>1 DEF Stages
        <4>2. Readable(d, q)
          BY <3>5 DEF Named, Readable
        <4>3. p \in Files /\ p \in ToSet(d[q]) /\ p \notin D \cup {x}
          BY <2>3, <3>5, <4>2, NamedAre DEF Keeps
        <4>4. q \notin D
          BY <4>2, <4>3 DEF Keeps
        <4>5. Readable(c, q) /\ p \in ToSet(c[q])
          BY <4>1, <4>2, <4>3, <4>4 DEF Keeps
        <4> QED  BY <3>2, <4>3, <4>4, <4>5, NamedAre
      <3>6. p \in t[m]
        BY <1>2, <2>3, <3>1, <3>3, <3>4, <3>5 DEF Stages
      <3> QED  BY <2>3, <3>6
    <2> QED  BY <2>4, <2>5
  <1>5. ASSUME NEW y \in PartsOf(d), y # x PROVE y \in PartsOf(c)
    <2>1. PICK p \in s[DepthLimit] : y \in ToSet(d[p]) /\ y \notin Files
      BY <1>1 DEF Stages
    <2>2. DepthLimit \in 0..DepthLimit
      BY <1>3
    <2>3. p \in Paths
      BY <1>1, <2>2 DEF Stages
    <2>4. Readable(d, p)
      <3>1. CASE DepthLimit = 0
        BY <1>1, <2>1, <2>3, <3>1 DEF Stages
      <3>2. CASE DepthLimit > 0
        BY <1>1, <2>1, <2>2, <2>3, <3>2 DEF Stages
      <3> QED  BY <1>3, <3>1, <3>2
    <2>5. p \notin D /\ y \notin D
      BY <1>5, <2>1, <2>4 DEF Keeps
    <2>6. p \in t[DepthLimit]
      BY <1>4, <2>1, <2>2, <2>5
    <2>7. y \in ToSet(c[p])
      BY <1>5, <2>1, <2>3, <2>4, <2>5 DEF Keeps
    <2> QED  BY <1>2, <2>1, <2>6, <2>7 DEF Stages
  <1> QED  BY <1>5

\* Of two sets of parts, that the one becomes the other in one step at most.
Differ(A, B) ==
    \E x \in Parts \cup {Bad} : \E y \in Parts \cup {Bad} : A \ {x} \subseteq B /\ B \ {y} \subseteq A

LEMMA LittleDiffers ==
    ASSUME NEW d, Texts(d), NEW c, Texts(c),
           NEW D, NEW x \in Parts \cup {Bad}, Keeps(d, c, D, x),
           NEW E, NEW y \in Parts \cup {Bad}, Keeps(c, d, E, y)
    PROVE  Differ(PartsOf(d), PartsOf(c))
  <1>1. PartsOf(d) \ {x} \subseteq PartsOf(c)
    BY PartsAreKept
  <1>2. PartsOf(c) \ {y} \subseteq PartsOf(d)
    BY PartsAreKept
  <1> QED  BY <1>1, <1>2 DEF Differ

LEMMA DiffersByAStep ==
    ASSUME NEW A, NEW B, Differ(A, B)
    PROVE  \/ B = A
           \/ \E x \in Parts \cup {Bad} :
                \/ x \notin A /\ B = A \cup {x}
                \/ x \in A /\ B = A \ {x}
                \/ \E y \in Parts \cup {Bad} : x \in A /\ y \notin A /\ B = (A \ {x}) \cup {y}
  <1>1. PICK x \in Parts \cup {Bad}, y \in Parts \cup {Bad} : A \ {x} \subseteq B /\ B \ {y} \subseteq A
    BY DEF Differ
  <1>2. CASE A \subseteq B /\ B \subseteq A
    BY <1>2
  <1>3. CASE A \subseteq B /\ ~(B \subseteq A)
    <2>1. y \notin A /\ B = A \cup {y}
      BY <1>1, <1>3
    <2> QED  BY <2>1
  <1>4. CASE ~(A \subseteq B) /\ B \subseteq A
    <2>1. x \in A /\ B = A \ {x}
      BY <1>1, <1>4
    <2> QED  BY <2>1
  <1>5. CASE ~(A \subseteq B) /\ ~(B \subseteq A)
    <2>1. x \in A /\ y \notin A /\ B = (A \ {x}) \cup {y}
      BY <1>1, <1>5
    <2> QED  BY <2>1
  <1> QED  BY <1>2, <1>3, <1>4, <1>5

-----------------------------------------------------------------------------
\* What the edits make of what a text says.

\* The text w says what v says without x, and nothing more than v but y.
Swaps(v, w, x, y) == ToSet(v) \ {x} \subseteq ToSet(w) /\ ToSet(w) \ {y} \subseteq ToSet(v)

LEMMA AppendSays ==
    ASSUME NEW v \in Entries, NEW y \in Parts \cup {Bad} \cup Files, NEW x
    PROVE  Swaps(v, Append(v, y), x, y)
  <1>1. PICK n \in Nat : n = Len(v) /\ DOMAIN v = 1..n /\ v \in Seq(Parts \cup {Bad} \cup Files)
    BY EntryIs
  <1>2. PICK w : w = Append(v, y)
    OBVIOUS
  <1>3. Len(w) = n + 1 /\ DOMAIN w = 1..n + 1
    BY <1>1, <1>2
  <1>4. w[n + 1] = y /\ \A i \in 1..n : w[i] = v[i]
    BY <1>1, <1>2
  <1>5. \A i \in 1..n + 1 : i = n + 1 \/ i \in 1..n
    OBVIOUS
  <1>6. \A i \in 1..n : i \in 1..n + 1
    OBVIOUS
  <1> QED  BY <1>1, <1>2, <1>3, <1>4, <1>5, <1>6 DEF Swaps, ToSet

LEMMA ReplaceSays ==
    ASSUME NEW v \in Entries, NEW i \in DOMAIN v, NEW y
    PROVE  Swaps(v, [v EXCEPT ![i] = y], v[i], y)
  <1>1. PICK w : w = [v EXCEPT ![i] = y]
    OBVIOUS
  <1>2. DOMAIN w = DOMAIN v /\ \A k \in DOMAIN v : w[k] = IF k = i THEN y ELSE v[k]
    BY <1>1
  <1> QED  BY <1>1, <1>2 DEF Swaps, ToSet

LEMMA RemoveSays ==
    ASSUME NEW v \in Entries, NEW i \in DOMAIN v, NEW y
    PROVE  Swaps(v, RemoveAt(v, i), v[i], y)
  <1>1. PICK n \in Nat : n = Len(v) /\ DOMAIN v = 1..n /\ v \in Seq(Parts \cup {Bad} \cup Files)
    BY EntryIs
  <1>2. PICK w, E : w = RemoveAt(v, i) /\ E = Parts \cup {Bad} \cup Files
    OBVIOUS
  <1>3. /\ w \in Seq(E) /\ Len(w) = n - 1
        /\ \A k \in 1..n - 1 : w[k] = IF k < i THEN v[k] ELSE v[k + 1]
    <2>1. v \in Seq(E) /\ i \in 1..Len(v)
      BY <1>1, <1>2
    <2> QED  BY <1>1, <1>2, <2>1, Removed
  <1>4. DOMAIN w = 1..n - 1
    BY <1>3
  <1>5. \A k \in 1..n - 1 : k \in 1..n /\ k + 1 \in 1..n
    BY <1>1
  <1>6. ASSUME NEW k \in 1..n, k # i PROVE \E m \in 1..n - 1 : w[m] = v[k]
    <2>1. CASE k < i
      <3>1. k \in 1..n - 1
        BY <1>1, <2>1
      <3> QED  BY <1>3, <2>1, <3>1
    <2>2. CASE k > i
      <3>1. k - 1 \in 1..n - 1 /\ ~(k - 1 < i) /\ (k - 1) + 1 = k
        BY <1>1, <2>2
      <3> QED  BY <1>3, <3>1
    <2> QED  BY <1>1, <1>6, <2>1, <2>2
  <1>7. \A k \in 1..n - 1 : \E m \in 1..n : w[k] = v[m]
    BY <1>3, <1>5
  <1>8. ASSUME NEW z \in ToSet(v) \ {v[i]} PROVE z \in ToSet(w)
    <2>1. PICK k \in 1..n : z = v[k] /\ k # i
      BY <1>1, <1>8 DEF ToSet
    <2> QED  BY <1>4, <1>6, <2>1 DEF ToSet
  <1>9. ToSet(w) \subseteq ToSet(v)
    <2> SUFFICES ASSUME NEW z \in ToSet(w) PROVE z \in ToSet(v)
      OBVIOUS
    <2>1. PICK k \in 1..n - 1 : z = w[k]
      BY <1>4 DEF ToSet
    <2>2. PICK m \in 1..n : z = v[m]
      BY <1>7, <2>1
    <2> QED  BY <1>1, <2>2 DEF ToSet
  <1> QED  BY <1>2, <1>8, <1>9 DEF Swaps

LEMMA InsertSays ==
    ASSUME NEW v \in Entries, NEW i \in DOMAIN v, NEW y \in Parts \cup {Bad} \cup Files, NEW x
    PROVE  Swaps(v, InsertAt(v, i, y), x, y)
  <1>1. PICK n \in Nat : n = Len(v) /\ DOMAIN v = 1..n /\ v \in Seq(Parts \cup {Bad} \cup Files)
    BY EntryIs
  <1>2. PICK w, E : w = InsertAt(v, i, y) /\ E = Parts \cup {Bad} \cup Files
    OBVIOUS
  <1>3. /\ w \in Seq(E) /\ Len(w) = n + 1
        /\ \A k \in 1..n + 1 : w[k] = IF k < i THEN v[k] ELSE IF k = i THEN y ELSE v[k - 1]
    <2>1. v \in Seq(E) /\ i \in 1..n /\ y \in E /\ n \in Nat /\ n = Len(v)
      BY <1>1, <1>2
    <2>2. InsertedIn(v, i, y, E, n, InsertAt(v, i, y))
      BY <2>1, Inserted
    <2> QED  BY <1>2, <2>2 DEF InsertedIn
  <1>4. DOMAIN w = 1..n + 1
    BY <1>3
  <1>5. ASSUME NEW k \in 1..n PROVE \E m \in 1..n + 1 : w[m] = v[k]
    <2>1. CASE k < i
      <3>1. k \in 1..n + 1
        BY <1>1
      <3> QED  BY <1>3, <2>1, <3>1
    <2>2. CASE ~(k < i)
      <3>1. k + 1 \in 1..n + 1 /\ ~(k + 1 < i) /\ k + 1 # i /\ (k + 1) - 1 = k
        BY <1>1, <2>2
      <3> QED  BY <1>3, <3>1
    <2> QED  BY <2>1, <2>2
  <1>6. ASSUME NEW k \in 1..n + 1, w[k] # y PROVE \E m \in 1..n : w[k] = v[m]
    <2>1. CASE k < i
      <3>1. k \in 1..n
        BY <1>1, <2>1
      <3> QED  BY <1>3, <2>1, <3>1
    <2>2. CASE k > i
      <3>1. k - 1 \in 1..n
        BY <1>1, <2>2
      <3> QED  BY <1>1, <1>3, <2>2, <3>1
    <2>3. k # i
      BY <1>3, <1>6
    <2> QED  BY <1>1, <2>1, <2>2, <2>3
  <1>7. ToSet(v) \subseteq ToSet(w)
    BY <1>1, <1>4, <1>5 DEF ToSet
  <1>8. ASSUME NEW z \in ToSet(w) \ {y} PROVE z \in ToSet(v)
    <2>1. PICK k \in 1..n + 1 : z = w[k] /\ w[k] # y
      BY <1>4, <1>8 DEF ToSet
    <2> QED  BY <1>1, <1>6, <2>1 DEF ToSet
  <1> QED  BY <1>2, <1>7, <1>8 DEF Swaps

-----------------------------------------------------------------------------
\* Every edit adds one part, drops one, or puts one in the place of another.

LEMMA TextsAre ==
    ASSUME NEW d, NEW p \in Paths, d[p] \in Entries
    PROVE  Readable(d, p)
  BY EntriesAssumption DEF Readable

LEMMA AfterTexts ==
    ASSUME NEW d, NEW e, GoodEdit(e, d)
    PROVE  Texts(After(e, d))
  BY TidyTexts DEF GoodEdit, TidyEdit

LEMMA AfterOne ==
    ASSUME NEW d, NEW p \in Paths, NEW text, NEW doomed,
           NEW e, e = Edit(One(p, text), NoFile, doomed)
    PROVE  \A q \in Paths : After(e, d)[q] = IF q = p THEN text ELSE d[q]
  <1>1. e.todo = One(p, text) /\ e.new = NoFile
    BY EditIs
  <1>2. DOMAIN e.todo = {p} /\ e.todo[p] = text
    BY <1>1 DEF One
  <1>3. e.new.path \notin Paths
    BY <1>1, NoFileIs
  <1> QED  BY <1>2, <1>3 DEF After

LEMMA AfterTwo ==
    ASSUME NEW d, NEW p \in Paths, NEW v, NEW q \in Paths, NEW w, p # q,
           NEW e, e = Edit(Two(p, v, q, w), NoFile, {})
    PROVE  \A y \in Paths : After(e, d)[y] = IF y = p THEN v ELSE IF y = q THEN w ELSE d[y]
  <1>1. e.todo = Two(p, v, q, w) /\ e.new = NoFile
    BY EditIs
  <1>2. DOMAIN e.todo = {p, q} /\ e.todo[p] = v /\ e.todo[q] = w
    BY <1>1 DEF Two
  <1>3. e.new.path \notin Paths
    BY <1>1, NoFileIs
  <1> QED  BY <1>2, <1>3 DEF After

\* One text that says something else in one place.
LEMMA OneTextDiffers ==
    ASSUME NEW d, Texts(d), NEW c, Texts(c), NEW p \in Paths, d[p] \in Entries, c[p] \in Entries,
           \A q \in Paths : q # p => c[q] = d[q],
           NEW x \in Parts \cup {Bad}, NEW y \in Parts \cup {Bad}, Swaps(d[p], c[p], x, y)
    PROVE  Differ(PartsOf(d), PartsOf(c))
  <1>1. x \notin Files /\ y \notin Files
    BY EntriesAssumption
  <1>2. Readable(d, p) /\ Readable(c, p)
    BY TextsAre
  <1>3. \A q \in Paths : q # p => (Readable(d, q) <=> Readable(c, q))
    BY DEF Readable
  <1>4. ASSUME NEW q \in Paths, Readable(d, q) PROVE Readable(c, q) /\ ToSet(d[q]) \ {x} \subseteq ToSet(c[q])
    <2>1. CASE q = p
      BY <1>2, <2>1 DEF Swaps
    <2>2. CASE q # p
      BY <1>3, <1>4, <2>2
    <2> QED  BY <2>1, <2>2
  <1>5. ASSUME NEW q \in Paths, Readable(c, q) PROVE Readable(d, q) /\ ToSet(c[q]) \ {y} \subseteq ToSet(d[q])
    <2>1. CASE q = p
      BY <1>2, <2>1 DEF Swaps
    <2>2. CASE q # p
      BY <1>3, <1>5, <2>2
    <2> QED  BY <2>1, <2>2
  <1>6. Keeps(d, c, {}, x)
    BY <1>1, <1>4 DEF Keeps
  <1>7. Keeps(c, d, {}, y)
    BY <1>1, <1>5 DEF Keeps
  <1> QED  BY <1>6, <1>7, LittleDiffers

LEMMA AddingDiffers ==
    ASSUME Tidy(disk), Readable(disk, Main), NEW e \in AddPageInline
    PROVE  Differ(PartsOf(disk), PartsOf(After(e, disk)))
  <1>1. PICK x \in Fresh : e = Edit(One(Main, Append(disk[Main], x)), NoFile, {})
    BY DEF AddPageInline
  <1>2. Main \in Paths /\ disk[Main] \in Entries /\ Texts(disk)
    BY TidyTexts DEF Paths
  <1>3. PICK v, w, c : v = disk[Main] /\ w = Append(v, x) /\ c = After(e, disk) /\ v \in Entries
    BY <1>2
  <1>4. x \in Parts \cup {Bad}
    BY FreshIs
  <1>5. w \in Entries
    BY <1>3, <1>4 DEF Entries
  <1>6. \A q \in Paths : c[q] = IF q = Main THEN w ELSE disk[q]
    <2>1. e = Edit(One(Main, w), NoFile, {})
      BY <1>1, <1>3
    <2> QED  BY <1>2, <1>3, <2>1, AfterOne
  <1>7. Texts(c)
    BY <1>3, PartsAreAdded, AfterTexts
  <1>8. Swaps(v, w, Bad, x)
    <2>1. x \in Parts \cup {Bad} \cup Files
      BY <1>4
    <2> QED  BY <1>3, <2>1, AppendSays
  <1>9. c[Main] = w /\ disk[Main] = v /\ \A q \in Paths : q # Main => c[q] = disk[q]
    BY <1>2, <1>3, <1>6
  <1>10. Differ(PartsOf(disk), PartsOf(c))
    <2>1. Bad \in Parts \cup {Bad}
      OBVIOUS
    <2> QED  BY <1>2, <1>3, <1>4, <1>5, <1>7, <1>8, <1>9, <2>1, OneTextDiffers
  <1> QED  BY <1>3, <1>10

LEMMA ChangingDiffers ==
    ASSUME Tidy(disk), NEW e \in EditPage
    PROVE  Differ(PartsOf(disk), PartsOf(After(e, disk)))
  <1>1. PICK c \in Slots, x \in Fresh :
            e = Edit(One(c[1].path, [disk[c[1].path] EXCEPT ![c[1].at] = x]), NoFile, {})
    BY DEF EditPage
  <1>2. PICK p, i : /\ p \in Paths /\ p = c[1].path /\ i = c[1].at
                    /\ disk[p] \in Entries /\ Once(disk[p]) /\ i \in DOMAIN disk[p]
    BY SlotIs
  <1>3. PICK v \in Entries : v = disk[p] /\ i \in DOMAIN v
    BY <1>2
  <1>4. x \in Parts \cup {Bad}
    BY FreshIs
  <1>5. PICK w, d : w = [v EXCEPT ![i] = x] /\ d = After(e, disk)
    OBVIOUS
  <1>6. v[i] \in Parts \cup {Bad}
    <2>1. v[i] \notin Files
      BY <1>2, <1>3 DEF Slots, Entry
    <2>2. v[i] \in Parts \cup {Bad} \cup Files
      BY <1>3, EntryIs
    <2> QED  BY <2>1, <2>2
  <1>7. w \in Entries
    BY <1>2, <1>3, <1>4, <1>5, ReplaceNames
  <1>8. \A q \in Paths : d[q] = IF q = p THEN w ELSE disk[q]
    <2>1. e = Edit(One(p, w), NoFile, {})
      BY <1>1, <1>2, <1>3, <1>5
    <2> QED  BY <1>2, <1>5, <2>1, AfterOne
  <1>9. Texts(d) /\ Texts(disk)
    BY <1>5, PartsAreChanged, AfterTexts, TidyTexts
  <1>10. Swaps(v, w, v[i], x)
    BY <1>3, <1>5, ReplaceSays
  <1>11. d[p] = w /\ disk[p] = v /\ \A q \in Paths : q # p => d[q] = disk[q]
    BY <1>2, <1>3, <1>8
  <1>12. Differ(PartsOf(disk), PartsOf(d))
    <2>1. p \in Paths
      BY <1>2
    <2> QED  BY <1>3, <1>4, <1>6, <1>7, <1>9, <1>10, <1>11, <2>1, OneTextDiffers
  <1> QED  BY <1>5, <1>12

\* The files that go hold nothing but the part or one another.
LEMMA RemovingDiffers ==
    ASSUME Tidy(disk), NEW e \in RemovePage
    PROVE  Differ(PartsOf(disk), PartsOf(After(e, disk)))
  <1>1. PICK c \in Slots :
            e = Edit(One(c[Survivor(c)].path, RemoveAt(disk[c[Survivor(c)].path], c[Survivor(c)].at)),
                     NoFile, {c[m].path : m \in 1..Survivor(c) - 1})
    BY DEF RemovePage
  <1>2. PICK n \in DOMAIN c : n = Survivor(c) /\ n \in 1..Len(c)
    BY SomeSurvivor
  <1>3. PICK p, i : /\ p \in Paths /\ p = c[n].path /\ i = c[n].at
                    /\ disk[p] \in Entries /\ Once(disk[p]) /\ i \in DOMAIN disk[p]
    BY SlotIs
  <1>4. PICK v \in Entries : v = disk[p] /\ i \in DOMAIN v
    BY <1>3
  <1>5. PICK w, d, x, D : w = RemoveAt(v, i) /\ d = After(e, disk) /\ x = Entry(disk, c)
                          /\ D = {c[m].path : m \in 1..n - 1}
    OBVIOUS
  <1>6. IsChain(disk, c) /\ Len(c) \in Nat /\ Len(c) > 0 /\ DOMAIN c = 1..Len(c)
    BY SlotIs DEF IsChain
  <1>7. x \in Parts \cup {Bad} /\ x \notin Files
    <2>1. PICK q, k : /\ q \in Paths /\ q = c[1].path /\ k = c[1].at
                      /\ disk[q] \in Entries /\ k \in DOMAIN disk[q]
      BY SlotIs
    <2>2. PICK u \in Entries : u = disk[q]
      BY <2>1
    <2>3. x = u[k] /\ x \notin Files
      BY <1>5, <2>1, <2>2 DEF Slots, Entry
    <2>4. u[k] \in Parts \cup {Bad} \cup Files
      BY <2>1, <2>2, EntryIs
    <2> QED  BY <2>3, <2>4
  <1>8. \A q \in Paths : d[q] = IF q = p THEN w ELSE disk[q]
    <2>1. e = Edit(One(p, w), NoFile, D)
      BY <1>1, <1>2, <1>3, <1>4, <1>5
    <2> QED  BY <1>3, <1>5, <2>1, AfterOne
  <1>9. Texts(d) /\ Texts(disk)
    BY <1>5, PagesAreRemoved, AfterTexts, TidyTexts
  <1>10. \A m \in 1..n - 1 : /\ m \in 1..Len(c) - 1 /\ m + 1 \in 1..n /\ m + 1 \in DOMAIN c /\ m \in DOMAIN c
                             /\ c[m].path \in Files /\ disk[c[m + 1].path][c[m + 1].at] = c[m].path
    <2> TAKE m \in 1..n - 1
    <2>1. m \in 1..Len(c) - 1 /\ m + 1 \in 1..n /\ m + 1 \in 1..Len(c) /\ m \in 1..Len(c)
      BY <1>2, <1>6
    <2> QED  BY <1>6, <2>1 DEF IsChain
  <1>11. D \subseteq Files
    BY <1>5, <1>10
  \* What a position of the file's chain says is the part, or the file below.
  <1>12. ASSUME NEW m \in 1..n PROVE disk[c[m].path][c[m].at] \in D \cup {x}
    <2>1. CASE m = 1
      BY <1>5, <2>1 DEF Entry
    <2>2. CASE m # 1
      <3>1. m - 1 \in 1..n - 1 /\ (m - 1) + 1 = m
        BY <1>2, <1>6, <2>2
      <3>2. disk[c[m].path][c[m].at] = c[m - 1].path
        BY <1>10, <3>1
      <3> QED  BY <1>5, <3>1, <3>2
    <2> QED  BY <2>1, <2>2
  <1>13. v[i] \in D \cup {x}
    <2>1. n \in 1..n
      BY <1>2, <1>6
    <2> QED  BY <1>3, <1>4, <1>12, <2>1
  <1>14. Swaps(v, w, v[i], x)
    BY <1>4, <1>5, RemoveSays
  <1>15. ASSUME NEW q \in D PROVE ToSet(disk[q]) \subseteq D \cup {x}
    <2>1. PICK m \in 1..n - 1 : q = c[m].path
      BY <1>5, <1>15
    <2>2. OnlyEntry(disk, c[m].path)
      <3>1. \E k \in DOMAIN c : /\ k = Len(c) \/ ~OnlyEntry(disk, c[k].path)
                                /\ \A j \in 1..k - 1 : OnlyEntry(disk, c[j].path)
        <4> DEFINE T == {k \in DOMAIN c : k = Len(c) \/ ~OnlyEntry(disk, c[k].path)}
        <4>1. T \subseteq Nat /\ Len(c) \in T
          BY <1>6
        <4>2. PICK k \in T : \A j \in T : k <= j
          <5> HIDE DEF T
          <5> QED  BY <4>1, Distinct!Least
        <4>3. ASSUME NEW j \in 1..k - 1 PROVE OnlyEntry(disk, c[j].path)
          <5>1. j \in DOMAIN c /\ ~(k <= j)
            BY <1>6, <4>1, <4>2
          <5> QED  BY <4>2, <5>1
        <4> QED  BY <4>2, <4>3
      <3>2. \A k \in 1..Survivor(c) - 1 : OnlyEntry(disk, c[k].path)
        BY <3>1 DEF Survivor
      <3> QED  BY <1>2, <3>2
    <2>3. PICK k, u : /\ q \in Paths /\ k = c[m].at /\ u = disk[q] /\ u \in Entries /\ k \in DOMAIN u
      BY <1>10, <2>1, SlotIs
    <2>4. Len(u) = 1
      BY <2>1, <2>2, <2>3 DEF OnlyEntry
    <2>5. DOMAIN u = 1..1
      BY <2>3, <2>4, EntryIs
    <2>6. ToSet(u) = {u[k]}
      BY <2>3, <2>5 DEF ToSet
    <2>7. m \in 1..n
      BY <1>2, <1>6
    <2> QED  BY <1>12, <2>1, <2>3, <2>6, <2>7
  <1>16. d[p] = w /\ disk[p] = v /\ \A q \in Paths : q # p => d[q] = disk[q]
    BY <1>3, <1>4, <1>8
  <1>17. w \in Entries
    BY <1>4, <1>5, TidyTexts, <1>3, RemoveNames
  <1>18. Readable(disk, p) /\ Readable(d, p) /\ \A q \in Paths : q # p => (Readable(d, q) <=> Readable(disk, q))
    BY <1>3, <1>4, <1>16, <1>17, TextsAre DEF Readable
  <1>19. ASSUME NEW q \in Paths \ D, Readable(disk, q)
         PROVE  Readable(d, q) /\ ToSet(disk[q]) \ (D \cup {x}) \subseteq ToSet(d[q])
    <2>1. CASE q = p
      BY <1>13, <1>14, <1>16, <1>18, <2>1 DEF Swaps
    <2>2. CASE q # p
      BY <1>16, <1>18, <1>19, <2>2
    <2> QED  BY <2>1, <2>2
  <1>20. Keeps(disk, d, D, x)
    BY <1>7, <1>11, <1>15, <1>19 DEF Keeps
  <1>21. ASSUME NEW q \in Paths, Readable(d, q)
         PROVE  Readable(disk, q) /\ ToSet(d[q]) \ {x} \subseteq ToSet(disk[q])
    <2>1. CASE q = p
      BY <1>14, <1>16, <1>18, <2>1 DEF Swaps
    <2>2. CASE q # p
      BY <1>16, <1>18, <1>21, <2>2
    <2> QED  BY <2>1, <2>2
  <1>22. Keeps(d, disk, {}, x)
    BY <1>7, <1>21 DEF Keeps
  <1>23. Differ(PartsOf(disk), PartsOf(d))
    BY <1>7, <1>9, <1>20, <1>22, LittleDiffers
  <1> QED  BY <1>5, <1>23

\* A text that includes a new file, which holds one part.
LEMMA NewFileDiffers ==
    ASSUME NEW d, Texts(d), NEW c, Texts(c), NEW p \in Paths, NEW f \in Files, f # p, d[f] = Absent,
           d[p] \in Entries, c[p] = Append(d[p], f), c[p] \in Entries,
           NEW x \in Parts \cup {Bad}, c[f] = <<x>>,
           \A q \in Paths : q # p /\ q # f => c[q] = d[q]
    PROVE  Differ(PartsOf(d), PartsOf(c))
  <1>1. x \notin Files /\ f \in Paths
    BY EntriesAssumption DEF Paths
  <1>2. Readable(d, p) /\ Readable(c, p) /\ ~Readable(d, f)
    BY TextsAre DEF Readable
  <1>3. \A q \in Paths : q # p /\ q # f => (Readable(d, q) <=> Readable(c, q))
    BY DEF Readable
  <1>4. Swaps(d[p], c[p], x, f)
    <2>1. f \in Parts \cup {Bad} \cup Files
      OBVIOUS
    <2> QED  BY <2>1, AppendSays
  <1>5. ASSUME NEW q \in Paths, Readable(d, q) PROVE Readable(c, q) /\ ToSet(d[q]) \ {x} \subseteq ToSet(c[q])
    <2>1. CASE q = p
      BY <1>2, <1>4, <2>1 DEF Swaps
    <2>2. CASE q # p
      BY <1>2, <1>3, <1>5, <2>2
    <2> QED  BY <2>1, <2>2
  <1>6. Keeps(d, c, {}, x)
    BY <1>1, <1>5 DEF Keeps
  <1>7. ASSUME NEW q \in Paths \ {f}, Readable(c, q)
        PROVE  Readable(d, q) /\ ToSet(c[q]) \ {f, x} \subseteq ToSet(d[q])
    <2>1. CASE q = p
      BY <1>2, <1>4, <2>1 DEF Swaps
    <2>2. CASE q # p
      BY <1>3, <1>7, <2>2
    <2> QED  BY <2>1, <2>2
  <1>8. ToSet(c[f]) = {x}
    BY DEF ToSet
  <1>9. {f} \cup {x} = {f, x}
    OBVIOUS
  <1>10. Keeps(c, d, {f}, x)
    BY <1>1, <1>7, <1>8, <1>9 DEF Keeps
  <1> QED  BY <1>6, <1>10, LittleDiffers

LEMMA AddingAFileDiffers ==
    ASSUME Tidy(disk), Readable(disk, Main), NEW e \in AddPageFile
    PROVE  Differ(PartsOf(disk), PartsOf(After(e, disk)))
  <1>1. PICK f \in {g \in Files : disk[g] = Absent}, x \in Fresh :
            e = Edit(One(Main, Append(disk[Main], f)), [path |-> f, entries |-> <<x>>], {})
    BY DEF AddPageFile
  <1>2. Main \in Paths /\ f \in Files /\ f # Main /\ disk[f] = Absent /\ disk[Main] \in Entries /\ Texts(disk)
    BY EntriesAssumption, TidyTexts DEF Paths
  <1>3. PICK d, w : d = After(e, disk) /\ w = Append(disk[Main], f)
    OBVIOUS
  <1>4. e.todo = One(Main, w) /\ e.new = [path |-> f, entries |-> <<x>>]
    BY <1>1, <1>3, EditIs
  <1>5. DOMAIN e.todo = {Main} /\ e.todo[Main] = w /\ e.new.path = f /\ e.new.entries = <<x>>
    BY <1>4 DEF One
  <1>6. \A q \in Paths : d[q] = IF q = Main THEN w ELSE IF q = f THEN <<x>> ELSE disk[q]
    BY <1>3, <1>5 DEF After
  <1>7. d[Main] = w /\ d[f] = <<x>> /\ \A q \in Paths : q # Main /\ q # f => d[q] = disk[q]
    <2>1. f \in Paths
      BY <1>2 DEF Paths
    <2> QED  BY <1>2, <1>6, <2>1
  <1>8. w \in Entries
    BY <1>2, <1>3 DEF Entries
  <1>9. Texts(d)
    BY <1>3, FilesAreAdded, AfterTexts
  <1>10. x \in Parts \cup {Bad}
    BY FreshIs
  <1>11. Differ(PartsOf(disk), PartsOf(d))
    BY <1>2, <1>3, <1>7, <1>8, <1>9, <1>10, NewFileDiffers
  <1> QED  BY <1>3, <1>11

LEMMA SplittingDiffers ==
    ASSUME Tidy(disk), NEW e \in SplitWidgetFile
    PROVE  Differ(PartsOf(disk), PartsOf(After(e, disk)))
  <1>1. PICK c \in Slots, f \in {g \in Files : disk[g] = Absent}, x \in Fresh :
            e = Edit(Two(c[1].path, Append(disk[c[1].path], f), f, <<x>>), NoFile, {})
    BY DEF SplitWidgetFile
  <1>2. PICK p \in Paths : p = c[1].path /\ disk[p] \in Entries
    BY SlotIs
  <1>3. f \in Files /\ f \in Paths /\ disk[f] = Absent /\ f # p
    BY <1>2, EntriesAssumption DEF Paths
  <1>4. PICK d, w, y : d = After(e, disk) /\ w = Append(disk[p], f) /\ y = <<x>>
    OBVIOUS
  <1>5. e = Edit(Two(p, w, f, y), NoFile, {})
    BY <1>1, <1>2, <1>4
  <1>6. \A q \in Paths : d[q] = IF q = p THEN w ELSE IF q = f THEN y ELSE disk[q]
    BY <1>3, <1>4, <1>5, AfterTwo
  <1>7. d[p] = w /\ d[f] = y /\ \A q \in Paths : q # p /\ q # f => d[q] = disk[q]
    BY <1>3, <1>6
  <1>8. w \in Entries
    BY <1>2, <1>3, <1>4 DEF Entries
  <1>9. Texts(d) /\ Texts(disk)
    BY <1>4, FilesAreSplit, AfterTexts, TidyTexts
  <1>10. x \in Parts \cup {Bad}
    BY FreshIs
  <1>11. Differ(PartsOf(disk), PartsOf(d))
    BY <1>2, <1>3, <1>4, <1>7, <1>8, <1>9, <1>10, NewFileDiffers
  <1> QED  BY <1>4, <1>11

LEMMA MovingDiffers ==
    ASSUME Tidy(disk), NEW e \in MoveWidget
    PROVE  Differ(PartsOf(disk), PartsOf(After(e, disk)))
  <1>1. PICK c \in Slots : \E b \in ElsewhereThan(c) :
            e = Edit(Two(c[1].path, RemoveAt(disk[c[1].path], c[1].at),
                         b[1].path, InsertAt(disk[b[1].path], b[1].at, Entry(disk, c))), NoFile, {})
    BY DEF MoveWidget
  <1>2. PICK b \in ElsewhereThan(c) :
            e = Edit(Two(c[1].path, RemoveAt(disk[c[1].path], c[1].at),
                         b[1].path, InsertAt(disk[b[1].path], b[1].at, Entry(disk, c))), NoFile, {})
    BY <1>1
  <1>3. b \in Slots /\ b[1].path # c[1].path
    BY DEF ElsewhereThan
  <1>4. PICK p, i : /\ p \in Paths /\ p = c[1].path /\ i = c[1].at
                    /\ disk[p] \in Entries /\ Once(disk[p]) /\ i \in DOMAIN disk[p]
    BY SlotIs
  <1>5. PICK q, k : /\ q \in Paths /\ q = b[1].path /\ k = b[1].at
                    /\ disk[q] \in Entries /\ Once(disk[q]) /\ k \in DOMAIN disk[q]
    BY <1>3, SlotIs
  <1>6. PICK x : x = Entry(disk, c)
    OBVIOUS
  <1>7. x = disk[p][i] /\ x \in Parts \cup {Bad} /\ x \notin Files
    <2>1. x = disk[p][i] /\ x \notin Files
      BY <1>4, <1>6 DEF Entry, Slots
    <2>2. x \in Parts \cup {Bad} \cup Files
      BY <1>4, <2>1, EntryIs
    <2> QED  BY <2>1, <2>2
  <1>8. PICK v \in Entries : v = disk[p] /\ Once(v) /\ i \in DOMAIN v
    BY <1>4
  <1>9. PICK u \in Entries : u = disk[q] /\ Once(u) /\ k \in DOMAIN u
    BY <1>5
  <1>10. PICK s, t, d : s = RemoveAt(v, i) /\ t = InsertAt(u, k, x) /\ d = After(e, disk)
    OBVIOUS
  <1>11. s \in Entries /\ t \in Entries
    BY <1>7, <1>8, <1>9, <1>10, RemoveNames, InsertNames
  <1>12. e = Edit(Two(p, s, q, t), NoFile, {}) /\ p # q
    BY <1>2, <1>3, <1>4, <1>5, <1>6, <1>8, <1>9, <1>10
  <1>13. \A y \in Paths : d[y] = IF y = p THEN s ELSE IF y = q THEN t ELSE disk[y]
    BY <1>4, <1>5, <1>10, <1>12, AfterTwo
  <1>14. Texts(d) /\ Texts(disk)
    BY <1>10, WidgetsAreMoved, AfterTexts, TidyTexts
  <1>15. Swaps(v, s, x, x)
    BY <1>7, <1>8, <1>10, RemoveSays
  <1>16. Swaps(u, t, x, x)
    <2>1. x \in Parts \cup {Bad} \cup Files
      BY <1>7
    <2> QED  BY <1>9, <1>10, <2>1, InsertSays
  <1>17. d[p] = s /\ d[q] = t /\ disk[p] = v /\ disk[q] = u
    BY <1>4, <1>5, <1>8, <1>9, <1>12, <1>13
  <1>18. \A y \in Paths : y # p /\ y # q => d[y] = disk[y]
    BY <1>13
  <1>19. Readable(d, p) /\ Readable(d, q) /\ Readable(disk, p) /\ Readable(disk, q)
    BY <1>4, <1>5, <1>11, <1>17, TextsAre
  <1>20. ASSUME NEW y \in Paths, Readable(disk, y)
         PROVE  Readable(d, y) /\ ToSet(disk[y]) \ {x} \subseteq ToSet(d[y])
    <2>1. CASE y = p
      BY <1>15, <1>17, <1>19, <2>1 DEF Swaps
    <2>2. CASE y = q
      BY <1>16, <1>17, <1>19, <2>2 DEF Swaps
    <2>3. CASE y # p /\ y # q
      BY <1>18, <1>20, <2>3 DEF Readable
    <2> QED  BY <2>1, <2>2, <2>3
  <1>21. ASSUME NEW y \in Paths, Readable(d, y)
         PROVE  Readable(disk, y) /\ ToSet(d[y]) \ {x} \subseteq ToSet(disk[y])
    <2>1. CASE y = p
      BY <1>15, <1>17, <1>19, <2>1 DEF Swaps
    <2>2. CASE y = q
      BY <1>16, <1>17, <1>19, <2>2 DEF Swaps
    <2>3. CASE y # p /\ y # q
      BY <1>18, <1>21, <2>3 DEF Readable
    <2> QED  BY <2>1, <2>2, <2>3
  <1>22. Keeps(disk, d, {}, x) /\ Keeps(d, disk, {}, x)
    BY <1>7, <1>20, <1>21 DEF Keeps
  <1>23. Differ(PartsOf(disk), PartsOf(d))
    BY <1>7, <1>14, <1>22, LittleDiffers
  <1> QED  BY <1>10, <1>23

LEMMA EditsDiffer ==
    ASSUME Tidy(disk), Readable(disk, Main), NEW e \in Edits
    PROVE  Differ(PartsOf(disk), PartsOf(After(e, disk)))
  BY AddingDiffers, ChangingDiffers, RemovingDiffers, AddingAFileDiffers, MovingDiffers, SplittingDiffers
     DEF Edits

-----------------------------------------------------------------------------
\* An edit, however many files it writes, is one step of ConfigStore.

\* What an edit has written says what it is to say, where nobody else wrote.
SaysIt(j, d) ==
    \A p \in Paths \ j.touched :
        /\ p \in j.written => d[p] = j.edit.todo[p]
        /\ p = j.edit.new.path => d[p] = j.edit.new.entries

StepJob(j, d) ==
    /\ j.pc \in {"file", "collect", "write"} => Differ(PartsOf(j.before), PartsOf(After(j.edit, j.before)))
    /\ j.pc \in {"collect", "write"} => SaysIt(j, d)

StepInv == \A r \in Requests : job[r].pc # "idle" => StepJob(job[r], disk)

LEMMA StepGoesOn ==
    ASSUME EditInv, NEW r \in Requests, job[r].pc # "idle",
           NEW x, job' = [job EXCEPT ![r] = x], StepJob(x, disk')
    PROVE  StepInv'
  <1>1. \A s \in Requests : job'[s] = IF s = r THEN x ELSE job[s]
    BY DEF EditInv
  <1>2. \A s \in Requests : s # r => job[s].pc = "idle"
    BY DEF EditInv
  <1> QED  BY <1>1, <1>2 DEF StepInv

\* Of an edit that goes on to another stage.
LEMMA StageSteps ==
    ASSUME EditInv, NEW r \in Requests, job[r].pc # "idle", NEW stage, Goes(r, stage),
           stage \in {"file", "collect", "write"} =>
               Differ(PartsOf(job[r].before), PartsOf(After(job[r].edit, job[r].before))),
           stage \in {"collect", "write"} => SaysIt(job[r], disk')
    PROVE  StepInv'
  <1>1. PICK x : /\ job' = [job EXCEPT ![r] = x] /\ x.pc = stage
                 /\ x.edit = job[r].edit /\ x.originals = job[r].originals
                 /\ x.written = job[r].written /\ x.before = job[r].before
                 /\ x.touched = job[r].touched
    BY GoesOn
  <1>2. StepJob(x, disk')
    BY <1>1 DEF StepJob, SaysIt
  <1> QED  BY <1>1, <1>2, StepGoesOn

LEMMA BeginSteps == ASSUME EditInv, TidyInv, StepInv, NEW r \in Requests, Begin(r) PROVE StepInv'
  <1>1. PICK e \in Edits : job' = [job EXCEPT ![r] =
            [Idle EXCEPT !.edit = e, !.before = disk,
                         !.pc = IF e.new = NoFile THEN "collect" ELSE "file"]]
    BY DEF Begin
  <1>2. PICK x : x = [Idle EXCEPT !.edit = e, !.before = disk,
                                  !.pc = IF e.new = NoFile THEN "collect" ELSE "file"]
    OBVIOUS
  <1>3. /\ x.edit = e /\ x.before = disk /\ x.written = {}
        /\ x.pc = IF e.new = NoFile THEN "collect" ELSE "file"
    BY <1>2 DEF Idle
  <1>4. \A s \in Requests : job[s].pc = "idle"
    BY NoneAssumption DEF EditInv, Begin, MayEdit
  <1>5. Tidy(disk) /\ Readable(disk, Main)
    BY <1>4 DEF TidyInv, Begin
  <1>6. Differ(PartsOf(disk), PartsOf(After(e, disk)))
    BY <1>5, EditsDiffer
  <1>7. x.pc = "collect" => SaysIt(x, disk')
    BY <1>3, NoFileIs DEF SaysIt
  <1>8. StepJob(x, disk')
    BY <1>3, <1>6, <1>7 DEF StepJob
  <1>9. \A s \in Requests : job'[s] = IF s = r THEN x ELSE job[s]
    BY <1>1, <1>2 DEF EditInv
  <1> QED  BY <1>4, <1>8, <1>9 DEF StepInv

LEMMA WriteNewSteps == ASSUME EditInv, TidyInv, StepInv, NEW r \in Requests, WriteNew(r) PROVE StepInv'
  <1>1. PICK j : j = job[r] /\ j.pc = "file"
    BY DEF WriteNew
  <1>2. disk' = [disk EXCEPT ![j.edit.new.path] = j.edit.new.entries] /\ Goes(r, "collect")
    BY <1>1 DEF WriteNew
  <1>3. JobOK(j, disk) /\ StepJob(j, disk) /\ disk = [q \in Paths |-> disk[q]]
    BY <1>1 DEF EditInv, StepInv
  <1>4. j.written = {}
    BY <1>1, <1>3 DEF JobOK, WritesWhatItChanges
  <1>5. SaysIt(j, disk')
    BY <1>2, <1>3, <1>4 DEF SaysIt
  <1> QED  BY <1>1, <1>2, <1>3, <1>5, StageSteps DEF StepJob

LEMMA CollectSteps == ASSUME EditInv, TidyInv, StepInv, NEW r \in Requests, Collect(r) PROVE StepInv'
  <1>1. PICK j : j = job[r] /\ j.pc = "collect" /\ disk' = disk
    BY DEF Collect
  <1>2. JobOK(j, disk) /\ StepJob(j, disk)
    BY <1>1 DEF EditInv, StepInv
  <1>3. PICK x : x = [j EXCEPT !.originals = [p \in DOMAIN j.edit.todo |-> disk[p]], !.pc = "write"]
    OBVIOUS
  <1>4. job' = [job EXCEPT ![r] = x]
    BY <1>1, <1>3 DEF Collect, EditInv
  <1>5. /\ x.pc = "write" /\ x.edit = j.edit /\ x.written = j.written /\ x.before = j.before
        /\ x.touched = j.touched
    BY <1>2, <1>3 DEF JobOK, JobFields
  <1>6. StepJob(x, disk')
    BY <1>1, <1>2, <1>5 DEF StepJob, SaysIt
  <1> QED  BY <1>1, <1>4, <1>6, StepGoesOn

LEMMA WriteSteps == ASSUME EditInv, TidyInv, StepInv, NEW r \in Requests, Write(r) PROVE StepInv'
  <1>1. PICK j : j = job[r] /\ j.pc = "write"
    BY DEF Write
  <1>2. PICK p \in Unwritten(j) :
            /\ disk' = [disk EXCEPT ![p] = j.edit.todo[p]]
            /\ job' = [job EXCEPT ![r].written = @ \cup {p}]
    BY <1>1 DEF Write
  <1>3. JobOK(j, disk) /\ TidyJob(j, disk) /\ StepJob(j, disk) /\ disk = [q \in Paths |-> disk[q]]
    BY <1>1 DEF EditInv, TidyInv, StepInv
  <1>4. PICK x : x = [j EXCEPT !.written = @ \cup {p}]
    OBVIOUS
  <1>5. job' = [job EXCEPT ![r] = x]
    BY <1>1, <1>2, <1>4 DEF EditInv
  <1>6. /\ x.pc = "write" /\ x.edit = j.edit /\ x.written = j.written \cup {p} /\ x.before = j.before
        /\ x.touched = j.touched
    BY <1>1, <1>3, <1>4 DEF JobOK, JobFields
  <1>7. p \in DOMAIN j.edit.todo
    BY <1>2 DEF Unwritten
  <1>8. \A q \in Paths : disk'[q] = IF q = p THEN j.edit.todo[p] ELSE disk[q]
    BY <1>2, <1>3
  <1>9. j.edit.new.path \in Paths => j.edit.new.path # p
    BY <1>1, <1>3, <1>7 DEF JobOK, CreatesItsFile
  <1>10. SaysIt(j, disk)
    BY <1>1, <1>3 DEF StepJob
  <1>11. SaysIt(x, disk')
    BY <1>6, <1>8, <1>9, <1>10 DEF SaysIt
  <1>12. StepJob(x, disk')
    BY <1>1, <1>3, <1>6, <1>11 DEF StepJob
  <1> QED  BY <1>1, <1>5, <1>12, StepGoesOn

\* The stages that need nothing of what was written.
LEMMA OtherSteps ==
    ASSUME EditInv, TidyInv, StepInv, NEW r \in Requests,
           FailNew(r) \/ Refuse(r) \/ FailWrite(r) \/ Validate(r) \/ Reject(r) \/ Accept(r)
    PROVE  StepInv'
  <1>1. PICK stage : stage \in {"rejected", "rollback", "discard", "accepted"} /\ Goes(r, stage)
    BY DEF FailNew, Refuse, FailWrite, Validate, Reject, Accept
  <1>2. job[r].pc # "idle"
    BY DEF FailNew, Refuse, FailWrite, Validate, Reject, Accept
  <1> QED  BY <1>1, <1>2, StageSteps

LEMMA LastSteps ==
    ASSUME EditInv, TidyInv, StepInv, NEW r \in Requests, Rollback(r) \/ Discard(r) PROVE StepInv'
  <1>1. PICK j : j = job[r] /\ j.pc \in {"rollback", "discard"} /\ j = [z \in JobFields |-> j[z]]
    BY DEF Rollback, Discard, EditInv, JobOK
  <1>2. \/ \E p : job' = [job EXCEPT ![r].written = @ \ {p}]
        \/ \E p : job' = [job EXCEPT ![r].edit.doomed = @ \ {p}]
    BY DEF Rollback, Discard
  <1>3. PICK x : job' = [job EXCEPT ![r] = x] /\ x.pc = j.pc
    <2>1. ASSUME NEW p, job' = [job EXCEPT ![r].written = @ \ {p}]
          PROVE  \E x : job' = [job EXCEPT ![r] = x] /\ x.pc = j.pc
      <3>1. PICK x : x = [j EXCEPT !.written = @ \ {p}]
        OBVIOUS
      <3>2. job' = [job EXCEPT ![r] = x] /\ x.pc = j.pc
        BY <1>1, <2>1, <3>1 DEF EditInv, JobFields
      <3> QED  BY <3>2
    <2>2. ASSUME NEW p, job' = [job EXCEPT ![r].edit.doomed = @ \ {p}]
          PROVE  \E x : job' = [job EXCEPT ![r] = x] /\ x.pc = j.pc
      <3>1. PICK e : e = [j.edit EXCEPT !.doomed = @ \ {p}]
        OBVIOUS
      <3>2. PICK x : x = [j EXCEPT !.edit = e]
        OBVIOUS
      <3>3. job' = [job EXCEPT ![r] = x] /\ x.pc = j.pc
        BY <1>1, <2>2, <3>1, <3>2 DEF EditInv, JobFields
      <3> QED  BY <3>3
    <2> QED  BY <1>2, <2>1, <2>2
  <1>4. StepJob(x, disk')
    BY <1>1, <1>3 DEF StepJob
  <1> QED  BY <1>1, <1>3, <1>4, StepGoesOn

LEMMA ReturnSteps == ASSUME EditInv, StepInv, NEW r \in Requests, Return(r) PROVE StepInv'
  <1>1. \A s \in Requests : job'[s] = IF s = r THEN Idle ELSE job[s]
    BY DEF EditInv, Return
  <1>2. \A s \in Requests : s # r => job[s].pc = "idle"
    BY DEF EditInv, Return
  <1> QED  BY <1>1, <1>2 DEF Idle, StepInv

LEMMA HandSteps == ASSUME EditInv, StepInv, HandEdit PROVE StepInv'
  <1>1. PICK p \in Paths, y \in Fresh :
            /\ disk' = [disk EXCEPT ![p] = Append(@, y)]
            /\ job' = [r \in Requests |->
                        IF job[r].pc = "idle" THEN job[r]
                        ELSE [job[r] EXCEPT !.touched = @ \cup {p}]]
    BY DEF HandEdit
  <1>2. \A q \in Paths : q # p => disk'[q] = disk[q]
    BY <1>1 DEF EditInv
  <1> SUFFICES ASSUME NEW r \in Requests, job'[r].pc # "idle" PROVE StepJob(job'[r], disk')
    BY DEF StepInv
  <1>3. job[r].pc # "idle"
    BY <1>1
  <1>4. PICK j : j = job[r] /\ j = [z \in JobFields |-> j[z]] /\ StepJob(j, disk)
    BY <1>3 DEF EditInv, JobOK, StepInv
  <1>5. PICK x : x = [j EXCEPT !.touched = @ \cup {p}]
    OBVIOUS
  <1>6. job'[r] = x
    BY <1>1, <1>3, <1>4, <1>5
  <1>7. /\ x.pc = j.pc /\ x.edit = j.edit /\ x.written = j.written /\ x.before = j.before
        /\ x.touched = j.touched \cup {p}
    BY <1>4, <1>5 DEF JobFields
  <1>8. SaysIt(j, disk) => SaysIt(x, disk')
    BY <1>2, <1>7 DEF SaysIt
  <1> QED  BY <1>4, <1>6, <1>7, <1>8 DEF StepJob

LEMMA StepStepKeeps == ASSUME EditInv, TidyInv, StepInv, [Next]_vars PROVE StepInv'
  <1>1. CASE UNCHANGED vars
    BY <1>1 DEF StepInv, vars
  <1>2. CASE HandEdit
    BY <1>2, HandSteps
  <1>3. ASSUME NEW r \in Requests,
               \/ Begin(r) \/ WriteNew(r) \/ FailNew(r) \/ Collect(r) \/ Refuse(r)
               \/ Write(r) \/ FailWrite(r) \/ Validate(r) \/ Rollback(r) \/ Reject(r)
               \/ Discard(r) \/ Accept(r) \/ Return(r)
        PROVE  StepInv'
    BY <1>3, BeginSteps, WriteNewSteps, CollectSteps, WriteSteps, OtherSteps, LastSteps, ReturnSteps
  <1> QED  BY <1>1, <1>2, <1>3 DEF Next

LEMMA StepStart == ASSUME Init PROVE StepInv
  BY DEF Init, Idle, StepInv

-----------------------------------------------------------------------------
\* What the config is while an edit is pending.

PendingStages == {"file", "collect", "write", "rollback"}

Shown(J, d) ==
    IF {r \in Requests : J[r].pc \in PendingStages} = {} THEN PartsOf(d)
    ELSE PartsOf(J[CHOOSE r \in {s \in Requests : J[s].pc \in PendingStages} : TRUE].before)

LEMMA CommittedIs == Committed = Shown(job, disk) /\ Committed' = Shown(job', disk')
  BY DEF Committed, Pending, Shown, PendingStages

LEMMA NonePending ==
    ASSUME NEW J, NEW d, \A r \in Requests : J[r].pc \notin PendingStages
    PROVE  Shown(J, d) = PartsOf(d)
  BY DEF Shown

LEMMA OnePending ==
    ASSUME NEW J, NEW d, NEW r \in Requests, J[r].pc \in PendingStages,
           \A s \in Requests : s # r => J[s].pc \notin PendingStages
    PROVE  Shown(J, d) = PartsOf(J[r].before)
  <1>1. {s \in Requests : J[s].pc \in PendingStages} = {r}
    OBVIOUS
  <1> QED  BY <1>1 DEF Shown

\* What a job shows: the config before it, or the one on disk.
ShownBy(j, d) == IF j.pc \in PendingStages THEN PartsOf(j.before) ELSE PartsOf(d)

LEMMA JobShows ==
    ASSUME EditInv, NEW r \in Requests, \A s \in Requests : s # r => job[s].pc = "idle",
           NEW x, job' = [job EXCEPT ![r] = x]
    PROVE  Committed = ShownBy(job[r], disk) /\ Committed' = ShownBy(x, disk')
  <1>1. \A s \in Requests : s # r => job[s].pc = "idle"
    OBVIOUS
  <1>2. \A s \in Requests : job'[s] = IF s = r THEN x ELSE job[s]
    BY DEF EditInv
  <1>3. "idle" \notin PendingStages
    BY DEF PendingStages
  <1>4. Shown(job, disk) = ShownBy(job[r], disk)
    <2>1. CASE job[r].pc \in PendingStages
      BY <1>1, <1>3, <2>1, OnePending DEF ShownBy
    <2>2. CASE job[r].pc \notin PendingStages
      BY <1>1, <1>3, <2>2, NonePending DEF ShownBy
    <2> QED  BY <2>1, <2>2
  <1>5. Shown(job', disk') = ShownBy(x, disk')
    <2>1. \A s \in Requests : s # r => job'[s].pc \notin PendingStages
      BY <1>1, <1>2, <1>3
    <2>2. job'[r] = x
      BY <1>2
    <2>3. CASE x.pc \in PendingStages
      BY <2>1, <2>2, <2>3, OnePending DEF ShownBy
    <2>4. CASE x.pc \notin PendingStages
      BY <2>1, <2>2, <2>4, NonePending DEF ShownBy
    <2> QED  BY <2>3, <2>4
  <1> QED  BY <1>4, <1>5, CommittedIs

\* Configs with the same files have the same parts.
LEMMA SameParts ==
    ASSUME NEW d, Texts(d), NEW D, D \subseteq Files, Apart(d, D),
           NEW e, \A p \in Paths \ D : e[p] = d[p]
    PROVE  PartsOf(e) = PartsOf(d)
  <1>1. Chains(e) = Chains(d) /\ \A c \in Chains(d) : Entry(e, c) = Entry(d, c)
    BY SameChains
  <1> QED  BY <1>1 DEF PartsOf, Held

LEMMA SameFiles ==
    ASSUME NEW d, Texts(d), NEW e, \A p \in Paths : e[p] = d[p]
    PROVE  PartsOf(e) = PartsOf(d)
  <1>1. Apart(d, {}) /\ {} \subseteq Files
    BY DEF Apart
  <1> QED  BY <1>1, SameParts

LEMMA OthersIdle ==
    ASSUME EditInv, NEW r \in Requests, job[r].pc # "idle"
    PROVE  \A s \in Requests : s # r => job[s].pc = "idle"
  BY DEF EditInv

LEMMA DiskTexts == ASSUME TidyInv PROVE Texts(disk)
  <1>1. CASE \A r \in Requests : job[r].pc = "idle"
    BY <1>1, TidyTexts DEF TidyInv
  <1>2. ASSUME NEW r \in Requests, job[r].pc # "idle" PROVE Texts(disk)
    BY <1>2 DEF TidyInv, TidyJob, DiskIsTidy, Once, Texts
  <1> QED  BY <1>1, <1>2

\* A step of ConfigStore, or none.
LEMMA StoreSteps ==
    ASSUME Differ(Committed, Committed')
    PROVE  Committed' = Committed \/ Store!Next
  <1>1. PICK A, B : A = Committed /\ B = Committed'
    OBVIOUS
  <1>2. \/ B = A
        \/ \E x \in Parts \cup {Bad} :
             \/ x \notin A /\ B = A \cup {x}
             \/ x \in A /\ B = A \ {x}
             \/ \E y \in Parts \cup {Bad} : x \in A /\ y \notin A /\ B = (A \ {x}) \cup {y}
    <2>1. Differ(A, B)
      BY <1>1
    <2> QED  BY <2>1, DiffersByAStep
  <1> QED  BY <1>1, <1>2 DEF Store!Next, Store!Add, Store!Drop, Store!Change

LEMMA BeginShows == ASSUME EditInv, NEW r \in Requests, Begin(r) PROVE Committed' = Committed
  <1>1. PICK e \in Edits : job' = [job EXCEPT ![r] =
            [Idle EXCEPT !.edit = e, !.before = disk,
                         !.pc = IF e.new = NoFile THEN "collect" ELSE "file"]]
    BY DEF Begin
  <1>2. PICK x : x = [Idle EXCEPT !.edit = e, !.before = disk,
                                  !.pc = IF e.new = NoFile THEN "collect" ELSE "file"]
    OBVIOUS
  <1>3. x.before = disk /\ x.pc \in PendingStages
    BY <1>2 DEF Idle, PendingStages
  <1>4. \A s \in Requests : job[s].pc = "idle"
    BY NoneAssumption DEF EditInv, Begin, MayEdit
  <1>5. job' = [job EXCEPT ![r] = x]
    BY <1>1, <1>2
  <1>6. Committed = ShownBy(job[r], disk) /\ Committed' = ShownBy(x, disk')
    BY <1>4, <1>5, JobShows
  <1> QED  BY <1>3, <1>4, <1>6 DEF ShownBy, PendingStages

\* An edit that is still pending shows what was before it.
LEMMA StaysPending ==
    ASSUME EditInv, NEW r \in Requests, job[r].pc \in PendingStages,
           NEW x, job' = [job EXCEPT ![r] = x], x.pc \in PendingStages, x.before = job[r].before
    PROVE  Committed' = Committed
  <1>1. job[r].pc # "idle"
    BY DEF PendingStages
  <1>2. Committed = ShownBy(job[r], disk) /\ Committed' = ShownBy(x, disk')
    BY <1>1, OthersIdle, JobShows
  <1> QED  BY <1>2 DEF ShownBy

LEMMA GoesShows ==
    ASSUME EditInv, NEW r \in Requests, job[r].pc # "idle", NEW stage, Goes(r, stage)
    PROVE  /\ Committed = ShownBy(job[r], disk)
           /\ Committed' = IF stage \in PendingStages THEN PartsOf(job[r].before) ELSE PartsOf(disk')
  <1>1. PICK x : job' = [job EXCEPT ![r] = x] /\ x.pc = stage /\ x.before = job[r].before
    BY GoesOn
  <1>2. Committed = ShownBy(job[r], disk) /\ Committed' = ShownBy(x, disk')
    BY <1>1, OthersIdle, JobShows
  <1> QED  BY <1>1, <1>2 DEF ShownBy

LEMMA PendingShows ==
    ASSUME EditInv, NEW r \in Requests,
           WriteNew(r) \/ Collect(r) \/ Refuse(r) \/ Write(r) \/ FailWrite(r) \/ Rollback(r)
    PROVE  Committed' = Committed
  <1>1. CASE WriteNew(r) \/ Refuse(r) \/ FailWrite(r)
    <2>1. job[r].pc \in PendingStages /\ job[r].pc # "idle"
      BY <1>1 DEF WriteNew, Refuse, FailWrite, PendingStages
    <2>2. PICK stage : stage \in PendingStages /\ Goes(r, stage)
      BY <1>1 DEF WriteNew, Refuse, FailWrite, PendingStages
    <2> QED  BY <2>1, <2>2, GoesShows DEF ShownBy
  <1>2. CASE Collect(r)
    <2>1. PICK j : j = job[r] /\ j.pc = "collect" /\ j = [z \in JobFields |-> j[z]]
      BY <1>2 DEF Collect, EditInv, JobOK
    <2>2. PICK x : x = [j EXCEPT !.originals = [p \in DOMAIN j.edit.todo |-> disk[p]], !.pc = "write"]
      OBVIOUS
    <2>3. job' = [job EXCEPT ![r] = x]
      BY <1>2, <2>1, <2>2 DEF Collect, EditInv
    <2>4. x.pc = "write" /\ x.before = j.before
      BY <2>1, <2>2 DEF JobFields
    <2> QED  BY <2>1, <2>3, <2>4, StaysPending DEF PendingStages
  <1>3. CASE Write(r) \/ Rollback(r)
    <2>1. PICK j : j = job[r] /\ j = [z \in JobFields |-> j[z]] /\ j.pc \in {"write", "rollback"}
      BY <1>3 DEF EditInv, JobOK, Write, Rollback
    <2>2. PICK W : job' = [job EXCEPT ![r].written = W]
      BY <1>3 DEF Write, Rollback
    <2>3. PICK x : x = [j EXCEPT !.written = W]
      OBVIOUS
    <2>4. job' = [job EXCEPT ![r] = x]
      BY <2>1, <2>2, <2>3 DEF EditInv
    <2>5. x.pc = j.pc /\ x.before = j.before
      BY <2>1, <2>3 DEF JobFields
    <2> QED  BY <2>1, <2>4, <2>5, StaysPending DEF PendingStages
  <1> QED  BY <1>1, <1>2, <1>3

\* A rejected edit leaves the parts there were.
LEMMA RejectionShows ==
    ASSUME EditInv, TidyInv, NEW r \in Requests, FailNew(r) \/ Reject(r),
           job[r].touched = {}, \A p \in Paths : disk'[p] # Torn
    PROVE  Committed' = Committed
  <1>1. PICK j : j = job[r] /\ j.pc \in {"file", "rollback"} /\ Goes(r, "rejected")
    BY DEF FailNew, Reject
  <1>2. JobOK(j, disk) /\ TidyJob(j, disk) /\ disk = [p \in Paths |-> disk[p]]
    BY <1>1 DEF EditInv, TidyInv
  <1>3. KnowsHowItWas(j, disk) /\ CreatesItsFile(j) /\ Texts(j.before)
    BY <1>1, <1>2, TidyTexts DEF JobOK, TidyJob
  <1>4. ASSUME NEW p \in Paths PROVE disk'[p] = j.before[p]
    <2>1. CASE FailNew(r)
      <3>1. j.pc = "file"
        BY <1>1, <2>1 DEF FailNew
      <3>2. disk[p] = j.before[p]
        BY <1>1, <1>3, <3>1 DEF KnowsHowItWas
      <3>3. disk' = disk \/ disk' = [disk EXCEPT ![j.edit.new.path] = Torn]
        BY <1>1, <2>1 DEF FailNew
      <3>4. disk'[p] = disk[p]
        BY <1>2, <3>3
      <3> QED  BY <3>2, <3>4
    <2>2. CASE Reject(r)
      <3>1. /\ j.pc = "rollback" /\ j.written = {}
            /\ disk' = [q \in Paths |-> IF q = j.edit.new.path THEN Absent ELSE disk[q]]
        BY <1>1, <2>2 DEF Reject
      <3>2. p # j.edit.new.path => disk[p] \in {j.before[p], Torn}
        BY <1>1, <1>3, <3>1 DEF KnowsHowItWas
      <3>3. p = j.edit.new.path => j.before[p] = Absent
        BY <1>3 DEF CreatesItsFile
      <3> QED  BY <3>1, <3>2, <3>3
    <2> QED  BY <2>1, <2>2
  <1>5. PartsOf(disk') = PartsOf(j.before)
    BY <1>3, <1>4, SameFiles
  <1>6. job[r].pc # "idle" /\ job[r].pc \in PendingStages /\ "rejected" \notin PendingStages
    BY <1>1 DEF PendingStages
  <1> QED  BY <1>1, <1>5, <1>6, GoesShows DEF ShownBy

\* An edit takes effect when the config has been validated.
LEMMA ValidationShows ==
    ASSUME EditInv, TidyInv, StepInv, NEW r \in Requests, Validate(r), job[r].touched = {}
    PROVE  Committed' = Committed \/ Store!Next
  <1>1. PICK j : j = job[r] /\ j.pc = "write" /\ Unwritten(j) = {} /\ disk' = disk
    BY DEF Validate
  <1>2. JobOK(j, disk) /\ TidyJob(j, disk) /\ StepJob(j, disk)
    BY <1>1 DEF EditInv, TidyInv, StepInv
  <1>3. job[r].pc # "idle" /\ job[r].pc \in PendingStages /\ "discard" \notin PendingStages /\ "rollback" \in PendingStages
    BY <1>1 DEF PendingStages
  <1>4. CASE ~Accepts(disk)
    <2>1. Goes(r, "rollback")
      BY <1>4 DEF Validate
    <2> QED  BY <1>3, <2>1, GoesShows DEF ShownBy
  <1>5. CASE Accepts(disk)
    <2>1. Goes(r, "discard")
      BY <1>5 DEF Validate
    <2>2. Committed = PartsOf(j.before) /\ Committed' = PartsOf(disk')
      BY <1>1, <1>3, <2>1, GoesShows DEF ShownBy
    <2>3. PICK c : c = After(j.edit, j.before)
      OBVIOUS
    <2>4. Texts(c) /\ Differ(PartsOf(j.before), PartsOf(c))
      BY <1>1, <1>2, <2>3, TidyTexts DEF TidyJob, TidyEdit, StepJob
    <2>5. j.written = DOMAIN j.edit.todo
      BY <1>1, <1>2 DEF JobOK, WritesWhatItChanges, Unwritten
    <2>6. KnowsHowItWas(j, disk) /\ SaysIt(j, disk)
      BY <1>1, <1>2 DEF JobOK, StepJob
    <2>7. ASSUME NEW p \in Paths PROVE disk'[p] = c[p]
      <3>1. p \in Paths \ j.touched
        BY <1>1
      <3>2. CASE p \in DOMAIN j.edit.todo
        BY <1>1, <2>3, <2>5, <2>6, <3>1, <3>2 DEF SaysIt, After
      <3>3. CASE p \notin DOMAIN j.edit.todo /\ p = j.edit.new.path
        BY <1>1, <2>3, <2>6, <3>1, <3>3 DEF SaysIt, After
      <3>4. CASE p \notin DOMAIN j.edit.todo /\ p # j.edit.new.path
        <4>1. disk[p] = j.before[p]
          BY <1>1, <2>5, <2>6, <3>1, <3>4 DEF KnowsHowItWas
        <4> QED  BY <1>1, <2>3, <3>4, <4>1 DEF After
      <3> QED  BY <3>2, <3>3, <3>4
    <2>8. PartsOf(disk') = PartsOf(c)
      BY <2>4, <2>7, SameFiles
    <2>9. Differ(Committed, Committed')
      BY <2>2, <2>4, <2>8
    <2> QED  BY <2>9, StoreSteps
  <1> QED  BY <1>4, <1>5

\* Nothing includes the files removePageSlot deletes any more.
LEMMA DiscardShows ==
    ASSUME EditInv, TidyInv, NEW r \in Requests, Discard(r) PROVE Committed' = Committed
  <1>1. PICK j : j = job[r] /\ j.pc = "discard" /\ j = [z \in JobFields |-> j[z]]
    BY DEF Discard, EditInv, JobOK
  <1>2. PICK p \in j.edit.doomed :
            /\ disk' = [disk EXCEPT ![p] = Absent]
            /\ job' = [job EXCEPT ![r].edit.doomed = @ \ {p}]
    BY <1>1 DEF Discard
  <1>3. TidyJob(j, disk) /\ disk = [q \in Paths |-> disk[q]] /\ Texts(disk)
    BY <1>1, DiskTexts DEF EditInv, TidyInv
  <1>4. PICK e, x : e = [j.edit EXCEPT !.doomed = @ \ {p}] /\ x = [j EXCEPT !.edit = e]
    OBVIOUS
  <1>5. job' = [job EXCEPT ![r] = x] /\ x.pc = "discard"
    BY <1>1, <1>2, <1>4 DEF EditInv, JobFields
  <1>6. Committed = ShownBy(job[r], disk) /\ Committed' = ShownBy(x, disk')
    <2>1. job[r].pc # "idle"
      BY <1>1
    <2> QED  BY <1>5, <2>1, OthersIdle, JobShows
  <1>7. Committed = PartsOf(disk) /\ Committed' = PartsOf(disk')
    BY <1>1, <1>5, <1>6 DEF ShownBy, PendingStages
  <1>8. NothingMissing(j, disk) /\ j.edit.doomed \subseteq Files
    BY <1>1, <1>3 DEF TidyJob, DiskIsTidy, TidyEdit
  <1>9. Apart(disk, j.edit.doomed)
    BY <1>8 DEF NothingMissing, Apart
  <1>10. \A q \in Paths \ j.edit.doomed : disk'[q] = disk[q]
    BY <1>2, <1>3
  <1>11. PartsOf(disk') = PartsOf(disk)
    BY <1>3, <1>8, <1>9, <1>10, SameParts
  <1> QED  BY <1>7, <1>11

LEMMA EndShows ==
    ASSUME EditInv, NEW r \in Requests, Accept(r) \/ Return(r) PROVE Committed' = Committed
  <1>1. job[r].pc \in {"discard", "accepted", "rejected"} /\ disk' = disk
    BY DEF Accept, Return
  <1>2. job[r].pc # "idle" /\ job[r].pc \notin PendingStages
    BY <1>1 DEF PendingStages
  <1>3. CASE Accept(r)
    <2>1. Goes(r, "accepted") /\ "accepted" \notin PendingStages
      BY <1>3 DEF Accept, PendingStages
    <2> QED  BY <1>1, <1>2, <2>1, GoesShows DEF ShownBy
  <1>4. CASE Return(r)
    <2>1. job' = [job EXCEPT ![r] = Idle] /\ Idle.pc \notin PendingStages
      BY <1>4 DEF Return, Idle, PendingStages
    <2>2. Committed = ShownBy(job[r], disk) /\ Committed' = ShownBy(Idle, disk')
      BY <1>2, <2>1, OthersIdle, JobShows
    <2> QED  BY <1>1, <1>2, <2>1, <2>2 DEF ShownBy
  <1> QED  BY <1>3, <1>4

\* What somebody adds by hand is a step of its own, unless an edit is pending.
LEMMA HandShows ==
    ASSUME EditInv, TidyInv, HandEdit PROVE Committed' = Committed \/ Store!Next
  <1>1. PICK p \in Paths, y \in Fresh :
            /\ Readable(disk, p)
            /\ disk' = [disk EXCEPT ![p] = Append(@, y)]
            /\ job' = [r \in Requests |->
                        IF job[r].pc = "idle" THEN job[r]
                        ELSE [job[r] EXCEPT !.touched = @ \cup {p}]]
    BY DEF HandEdit
  <1>2. ASSUME NEW r \in Requests
        PROVE  job'[r].pc = job[r].pc /\ (job[r].pc # "idle" => job'[r].before = job[r].before)
    <2>1. CASE job[r].pc = "idle"
      BY <1>1, <2>1
    <2>2. CASE job[r].pc # "idle"
      <3>1. PICK j : j = job[r] /\ j = [z \in JobFields |-> j[z]]
        BY DEF EditInv, JobOK
      <3>2. PICK x : x = [j EXCEPT !.touched = @ \cup {p}]
        OBVIOUS
      <3>3. job'[r] = x
        BY <1>1, <2>2, <3>1, <3>2
      <3>4. x.pc = j.pc /\ x.before = j.before
        BY <3>1, <3>2 DEF JobFields
      <3> QED  BY <3>1, <3>3, <3>4
    <2> QED  BY <2>1, <2>2
  <1>3. ASSUME NEW r \in Requests, job[r].pc \in PendingStages PROVE Committed' = Committed
    <2>1. job[r].pc # "idle" /\ "idle" \notin PendingStages
      BY <1>3 DEF PendingStages
    <2>2. \A s \in Requests : s # r => job[s].pc \notin PendingStages
      BY <2>1, OthersIdle
    <2>3. Shown(job, disk) = PartsOf(job[r].before)
      BY <1>3, <2>2, OnePending
    <2>4. Shown(job', disk') = PartsOf(job'[r].before)
      BY <1>2, <1>3, <2>2, OnePending
    <2> QED  BY <1>2, <2>1, <2>3, <2>4, CommittedIs
  <1>4. CASE \A r \in Requests : job[r].pc \notin PendingStages
    <2>1. Shown(job, disk) = PartsOf(disk)
      BY <1>4, NonePending
    <2>2. Shown(job', disk') = PartsOf(disk')
      BY <1>2, <1>4, NonePending
    <2>3. Texts(disk) /\ disk[p] \in Entries
      BY <1>1, DiskTexts DEF Texts, Readable
    <2>4. y \in Parts \cup {Bad} /\ y \in Parts \cup {Bad} \cup Files
      BY FreshIs
    <2>5. PICK d, w : d = disk' /\ w = Append(disk[p], y)
      OBVIOUS
    <2>6. w \in Entries
      BY <2>3, <2>4, <2>5 DEF Entries
    <2>7. \A q \in Paths : d[q] = IF q = p THEN w ELSE disk[q]
      BY <1>1, <2>5 DEF EditInv
    <2>8. d[p] = w /\ \A q \in Paths : q # p => d[q] = disk[q]
      BY <2>7
    <2>9. Texts(d)
      BY <2>3, <2>6, <2>7 DEF Texts
    <2>10. Swaps(disk[p], w, Bad, y) /\ Bad \in Parts \cup {Bad}
      BY <2>3, <2>4, <2>5, AppendSays
    <2>11. Differ(PartsOf(disk), PartsOf(d))
      BY <2>3, <2>4, <2>6, <2>8, <2>9, <2>10, OneTextDiffers
    <2>12. Differ(Committed, Committed')
      BY <2>1, <2>2, <2>5, <2>11, CommittedIs
    <2> QED  BY <2>12, StoreSteps
  <1> QED  BY <1>3, <1>4

LEMMA StepShows ==
    ASSUME EditInv, TidyInv, StepInv, [Next]_vars,
           \A r \in Requests : job[r].touched = {}, \A p \in Paths : disk'[p] # Torn
    PROVE  Committed' = Committed \/ Store!Next
  <1>1. CASE UNCHANGED vars
    BY <1>1, CommittedIs DEF vars
  <1>2. CASE HandEdit
    BY <1>2, HandShows
  <1>3. ASSUME NEW r \in Requests,
               \/ Begin(r) \/ WriteNew(r) \/ FailNew(r) \/ Collect(r) \/ Refuse(r)
               \/ Write(r) \/ FailWrite(r) \/ Validate(r) \/ Rollback(r) \/ Reject(r)
               \/ Discard(r) \/ Accept(r) \/ Return(r)
        PROVE  Committed' = Committed \/ Store!Next
    BY <1>3, BeginShows, PendingShows, RejectionShows, ValidationShows, DiscardShows, EndShows
  <1> QED  BY <1>1, <1>2, <1>3 DEF Next

LEMMA StepsAlways == EditorSpec => [](EditInv /\ TidyInv /\ StepInv)
  <1>1. EditorInit => TidyInv /\ StepInv
    BY TidyStart, StepStart DEF EditorInit
  <1>2. EditInv /\ TidyInv /\ StepInv /\ [EditorNext]_editorVars => TidyInv' /\ StepInv'
    BY DiskSteps, TidyStepKeeps, StepStepKeeps
  <1> QED  BY <1>1, <1>2, EditsAlways, PTL DEF EditorSpec

\* An edit happens at once and to nothing else, or not at all, however many files
\* it writes and deletes and however deep their includes, unless somebody else
\* writes meanwhile or a write stops half-way: applyEditorMutation,
\* writeConfigCandidates and removePageSlot implement ConfigStore.
THEOREM EditsAreAtomicHolds == EditorSpec => EditsAreAtomic
  <1>1. EditInv /\ TidyInv /\ StepInv /\ [EditorNext]_editorVars =>
            [\/ \E r \in Requests : job[r].touched # {}
             \/ \E p \in Paths : disk'[p] = Torn
             \/ Store!Next]_Committed
    BY DiskSteps, StepShows
  <1> QED  BY <1>1, StepsAlways, PTL DEF EditsAreAtomic, EditorSpec
=============================================================================

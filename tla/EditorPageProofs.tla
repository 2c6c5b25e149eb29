-------------------------- MODULE EditorPageProofs --------------------------
(***************************************************************************)
(* That an edit of the UI editor changes what its user saw at the position *)
(* it names: only a page they may edit and the one they were shown, and of *)
(* a page's widgets the lists on the screen.  The merged lists are computed*)
(* from the files by recursion; here they are the one solution of an       *)
(* equation, each place's list made of those of its entries, and an edit   *)
(* is faithful because the edited lists solve the equation of the edited   *)
(* files.                                                                  *)
(***************************************************************************)
EXTENDS Editor, SequenceTheorems, FiniteSetTheorems, TLAPS

-----------------------------------------------------------------------------
\* Whose page an edit changes.

Distinct == INSTANCE SlugProofs

LEMMA SameSlugs ==
    ASSUME NEW bases PROVE Rights!SlugsFor(bases) = Distinct!SlugsFor(bases)
  <1>1. \A slug, taken : Rights!FirstFree(slug, taken) = Distinct!FirstFree(slug, taken)
    BY DEF Rights!FirstFree, Distinct!FirstFree, Rights!Cardinality, Distinct!Cardinality
  <1> QED  BY <1>1 DEF Rights!SlugsFor, Distinct!SlugsFor

\* The slug of a page in the application is its own, or that of its title, with or
\* without a number, and then it is among those that pageMatchesNode takes for it.
LEMMA SlugsKeepBases ==
    ASSUME NEW pages \in Seq(PageEntries), NEW j \in DOMAIN pages
    PROVE  /\ \/ Rights!Slugs(pages)[j] = Rights!Base(pages[j])
              \/ \E k \in 2..Len(pages) + 1 : Rights!Slugs(pages)[j] = Append(Rights!Base(pages[j]), k)
           /\ Rights!IsPrefix(Rights!Base(pages[j]), Rights!Slugs(pages)[j])
  <1> DEFINE words == Nat \cup UNION {Rights!Range(Rights!Base(e)) : e \in PageEntries}
             bases == [i \in DOMAIN pages |-> Rights!Base(pages[i])]
             n == Len(pages)
  <1>1. ASSUME NEW e \in PageEntries PROVE Rights!Base(e) \in Seq(words)
    <2>1. Rights!Base(e) \in Seq(Rights!Range(Rights!Base(e)))
      BY PagesAssumption DEF Rights!RightsAssumption
    <2>2. Rights!Range(Rights!Base(e)) \subseteq words
      OBVIOUS
    <2> HIDE DEF words
    <2> QED  BY <2>1, <2>2, Distinct!AmongWords
  <1>2. n \in Nat /\ DOMAIN pages = 1..n /\ \A i \in 1..n : pages[i] \in PageEntries
    OBVIOUS
  <1> Nat \subseteq words
    OBVIOUS
  <1> HIDE DEF n, words
  <1>3. bases \in Seq(Seq(words)) /\ Len(bases) = n
    BY <1>1, <1>2
  <1>4. Distinct!GoodSlugs(Distinct!SlugsFor(bases), bases, n, words)
    BY <1>3, Distinct!SlugsAreDistinct
  <1> DEFINE base == Rights!Base(pages[j])  slug == Rights!Slugs(pages)[j]
  <1>5. slug = base \/ \E k \in 2..n + 1 : slug = Append(base, k)
    <2>1. bases[j] = base /\ Distinct!SlugsFor(bases) = Rights!Slugs(pages)
      BY SameSlugs DEF Rights!Slugs
    <2> HIDE DEF bases, base
    <2> QED  BY <1>2, <1>4, <2>1 DEF Distinct!GoodSlugs
  <1>6. base \in Seq(words)
    BY <1>1, <1>2
  <1> HIDE DEF base, slug
  <1>7. Rights!IsPrefix(base, base)
    BY <1>6 DEF Rights!IsPrefix
  <1>8. ASSUME NEW k \in words, slug = Append(base, k) PROVE Rights!IsPrefix(base, slug)
    <2>1. /\ Len(base) \in Nat /\ Len(slug) = Len(base) + 1 /\ slug \in Seq(words)
          /\ \A p \in 1..Len(base) : slug[p] = base[p]
      BY <1>6, <1>8
    <2>2. SubSeq(base, 1, Len(base)) = SubSeq(slug, 1, Len(base))
      BY <1>6, <2>1
    <2> QED  BY <2>1, <2>2 DEF Rights!IsPrefix
  <1> QED  BY <1>2, <1>5, <1>7, <1>8 DEF base, slug, n

\* What a browser was shown is what the files and the application of one moment
\* make of it.
RightsInv ==
    /\ files \in Seq(PageEntries) /\ loaded \in Seq(PageEntries)
    /\ \A u \in view.by : view.shown = Rights!Shown(u, view.of, view.app)
    /\ Rights!EditsArePermitted

LEMMA RightsStart == ASSUME Rights!RightsInit PROVE RightsInv
  <1>1. files \in Seq(PageEntries) /\ loaded \in Seq(PageEntries)
    BY PagesAssumption DEF Rights!RightsInit, Rights!RightsAssumption
  <1>2. view.by = {} /\ edited.by = {}
    BY DEF Rights!RightsInit, Rights!NoEdit
  <1> QED  BY <1>1, <1>2 DEF RightsInv, Rights!EditsArePermitted

\* A page finds itself in an application that runs what the files say, whatever
\* number its slug has got.
LEMMA FindsItself ==
    ASSUME RightsInv, files = loaded, NEW i \in DOMAIN files
    PROVE  Rights!ConfigPage(loaded, files[i], i) = {i}
  <1>1. PICK e \in PageEntries : e = loaded[i] /\ e = files[i]
    BY DEF RightsInv
  <1>2. SlugOf[e] # NoSlug => Rights!Base(e) = SlugOf[e]
    BY DEF Rights!Base
  <1>3. Rights!IsPrefix(Rights!Base(e), Rights!Slugs(loaded)[i])
    BY <1>1, SlugsKeepBases DEF RightsInv
  <1>4. Rights!Matches(loaded, i, files[i])
    BY <1>1, <1>2, <1>3 DEF Rights!Matches
  <1> QED  BY <1>4 DEF Rights!ConfigPage

\* An edit that was made was one of a page its user may edit: the page of the
\* application that has its name.
LEMMA EditIsPermitted ==
    ASSUME RightsInv, NEW u \in Editors, NEW i, Rights!EditPageAt(u, i)
    PROVE  Rights!EditsArePermitted'
  <1>0. /\ i \in DOMAIN files /\ UNCHANGED <<loaded, view>>
        /\ edited' = [by |-> {u}, page |-> files[i], at |-> i, current |-> files = loaded]
    BY DEF Rights!EditPageAt
  <1>1. PICK j \in Rights!ConfigPage(loaded, files[i], i) : Rights!AllowedForPage(u, j)
    BY DEF Rights!EditPageAt
  <1>2. j \in DOMAIN loaded /\ Rights!Matches(loaded, j, files[i])
    BY <1>1 DEF Rights!ConfigPage
  <1>3. PICK e \in PageEntries : e = loaded[j]
    BY <1>2 DEF RightsInv
  <1>4. e \in {files[i]} \cup Rights!Twins(files[i])
    BY <1>2, <1>3 DEF Rights!Matches, Rights!Twins
  <1>5. Rights!CanRead(u, e)
    BY <1>1, <1>3 DEF Rights!AllowedForPage
  <1>6. RestrictedTo[u] # {} => Rights!Slugs(loaded)[j] \in RestrictedTo[u]
    BY <1>1 DEF Rights!AllowedForPage
  <1>7. Rights!Slugs(loaded)[j] \in Rights!Numbered(Rights!Base(e))
    <2>1. \/ Rights!Slugs(loaded)[j] = Rights!Base(e)
          \/ \E k \in 2..Len(loaded) + 1 : Rights!Slugs(loaded)[j] = Append(Rights!Base(e), k)
      BY <1>2, <1>3, SlugsKeepBases DEF RightsInv
    <2> QED  BY <2>1 DEF Rights!Numbered
  <1>8. files = loaded => j = i
    BY <1>0, <1>1, FindsItself
  <1>9. /\ edited'.by = {u} /\ edited'.page = files[i] /\ edited'.at = i
        /\ edited'.current = (files = loaded)
    BY <1>0
  <1>10. /\ Rights!Slugs(loaded') = Rights!Slugs(loaded)
         /\ \A p : Rights!Numbered(Rights!Base(p))' = Rights!Numbered(Rights!Base(p))
    BY <1>0 DEF Rights!Numbered
  <1>11. \E p \in {edited'.page} \cup Rights!Twins(edited'.page) :
             /\ Rights!CanRead(u, p)
             /\ RestrictedTo[u] # {} => RestrictedTo[u] \cap Rights!Numbered(Rights!Base(p))' # {}
    BY <1>4, <1>5, <1>6, <1>7, <1>9, <1>10
  <1>12. edited'.current =>
             /\ edited'.page = loaded'[edited'.at] /\ Rights!CanRead(u, edited'.page)
             /\ RestrictedTo[u] # {} => Rights!Slugs(loaded')[edited'.at] \in RestrictedTo[u]
    BY <1>0, <1>3, <1>5, <1>6, <1>8, <1>9, <1>10
  <1> QED  BY <1>9, <1>11, <1>12 DEF Rights!EditsArePermitted

LEMMA RightsStepKeeps == ASSUME RightsInv, [Rights!RightsNext]_rightsVars PROVE RightsInv'
  <1>0. ASSUME view' = view PROVE (\A u \in view.by : view.shown = Rights!Shown(u, view.of, view.app))'
    BY <1>0 DEF RightsInv
  <1>1. CASE UNCHANGED rightsVars
    BY <1>0, <1>1 DEF RightsInv, rightsVars, Rights!EditsArePermitted, Rights!Numbered
  <1>2. ASSUME edited' = Rights!NoEdit PROVE Rights!EditsArePermitted'
    BY <1>2 DEF Rights!EditsArePermitted, Rights!NoEdit
  <1>3. ASSUME NEW o \in Versions, Rights!Rewrite(o) PROVE RightsInv'
    BY <1>0, <1>2, <1>3, PagesAssumption DEF RightsInv, Rights!Rewrite, Rights!RightsAssumption
  <1>4. CASE Rights!LoadConfig
    BY <1>0, <1>2, <1>4 DEF RightsInv, Rights!LoadConfig
  <1>5. ASSUME NEW u \in Editors, Rights!OpenEditor(u) PROVE RightsInv'
    <2>1. /\ view'.by = {u} /\ view'.of = files /\ view'.app = loaded
          /\ view'.shown = Rights!Shown(u, files, loaded)
          /\ edited' = Rights!NoEdit /\ UNCHANGED <<files, loaded>>
      BY <1>5 DEF Rights!OpenEditor
    <2>2. (\A v \in view.by : view.shown = Rights!Shown(v, view.of, view.app))'
      BY <2>1
    <2> QED  BY <1>2, <2>1, <2>2 DEF RightsInv
  <1>6. ASSUME NEW u \in Editors, NEW i, Rights!EditPageAt(u, i) PROVE RightsInv'
    <2>1. files' \in Seq(PageEntries)
      BY <1>6 DEF RightsInv, Rights!EditPageAt
    <2> QED  BY <1>0, <1>6, <2>1, EditIsPermitted DEF RightsInv, Rights!EditPageAt
  <1>7. ASSUME NEW u \in Editors, NEW e \in PageEntries, Rights!AddPageBy(u, e) PROVE RightsInv'
    BY <1>0, <1>2, <1>7 DEF RightsInv, Rights!AddPageBy
  <1> QED  BY <1>1, <1>3, <1>4, <1>5, <1>6, <1>7 DEF Rights!RightsNext

LEMMA RightsSteps == [EditorNext]_editorVars => [Rights!RightsNext]_rightsVars
  BY DEF EditorNext, editorVars

LEMMA RightsAlways == EditorSpec => []RightsInv
  <1>1. EditorInit => RightsInv
    BY RightsStart DEF EditorInit
  <1>2. RightsInv /\ [EditorNext]_editorVars => RightsInv'
    BY RightsSteps, RightsStepKeeps
  <1> QED  BY <1>1, <1>2, PTL DEF EditorSpec

\* Whatever position a request names, and whatever versions of any pages the files,
\* the application and the browser have, an edit changes only a page that its user
\* may read, and is not restricted from, or one with the name of such a page; and
\* none but the first while the application runs what the files say
\* (configPageForSlot, EditingAllowedForPage).
THEOREM EditsArePermittedHolds == EditorSpec => []EditsArePermitted
  <1>1. RightsInv => EditsArePermitted
    BY DEF RightsInv, EditsArePermitted
  <1> QED  BY <1>1, RightsAlways, PTL

\* The application has one page for a position, or none.
LEMMA OnePage ==
    ASSUME NEW app \in Seq(PageEntries), NEW e, NEW i,
           NEW j \in Rights!ConfigPage(app, e, i), NEW k \in Rights!ConfigPage(app, e, i)
    PROVE  j = k
  <1> DEFINE found == {m \in DOMAIN app : Rights!Matches(app, m, e)}
  <1>1. Rights!Cardinality(found) = Cardinality(found)
    BY DEF Rights!Cardinality, Cardinality
  <1>2. IsFiniteSet(found)
    <2>1. found \subseteq 1..Len(app) /\ IsFiniteSet(1..Len(app))
      BY FS_Interval
    <2> HIDE DEF found
    <2> QED  BY <2>1, FS_Subset
  <1> HIDE DEF found
  <1>3. Cardinality(found) = 1 => \E m : found = {m}
    BY <1>2, FS_Singleton
  <1>4. Rights!ConfigPage(app, e, i) = IF i \in found THEN {i}
                                       ELSE IF Cardinality(found) = 1 THEN found ELSE {}
    BY <1>1 DEF Rights!ConfigPage, found
  <1> QED  BY <1>3, <1>4

\* The half of EditsAreFaithful that is about pages: as long as the files are what
\* the browser was shown, the page that an edit changes is the one shown at its
\* position, also when the pages before it are hidden; and while the application is
\* the one that answered the browser, nobody edits a hidden one (buildEditorConfigView
\* and applyEditorMutation find the same page).
THEOREM ShownPageChanges == EditorSpec => [][level = "rights" => Rights!ShownStep]_editorVars
  <1>1. ASSUME RightsInv, [EditorNext]_editorVars PROVE Rights!ShownStep \/ UNCHANGED edited
    <2>1. CASE UNCHANGED rightsVars
      BY <2>1 DEF rightsVars
    <2>2. ASSUME NEW u \in Editors, NEW i, Rights!EditPageAt(u, i) PROVE Rights!ShownStep
      <3>1. edited'.by = {u} /\ edited'.page = files[i] /\ edited'.at = i /\ i \in DOMAIN files
        BY <2>2 DEF Rights!EditPageAt
      <3>2. PICK j \in Rights!ConfigPage(loaded, files[i], i) : Rights!CanRead(u, loaded[j])
        BY <2>2 DEF Rights!EditPageAt, Rights!AllowedForPage
      <3>3. Rights!Visible(u, files, loaded, i)
        BY <1>1, <3>2, OnePage DEF RightsInv, Rights!Visible
      <3>4. u \in view.by /\ view.of = files => view.shown = Rights!Shown(u, files, view.app)
        BY <1>1 DEF RightsInv
      <3> QED  BY <3>1, <3>3, <3>4 DEF Rights!ShownStep, Rights!Shown
    <2>3. ASSUME edited' = Rights!NoEdit PROVE Rights!ShownStep
      BY <2>3 DEF Rights!NoEdit, Rights!ShownStep
    <2> QED
      BY <1>1, <2>1, <2>2, <2>3, RightsSteps
         DEF Rights!RightsNext, Rights!Rewrite, Rights!LoadConfig, Rights!OpenEditor, Rights!AddPageBy
  <1>2. UNCHANGED edited => Rights!ShownStep
    BY DEF Rights!ShownStep
  <1> QED  BY <1>1, <1>2, RightsAlways, PTL DEF EditorSpec

-----------------------------------------------------------------------------
\* Sequences, and their concatenation.

LEMMA NatInduct ==
    ASSUME NEW Z, 0 \in Z, \A n \in Nat : n \in Z => n + 1 \in Z
    PROVE  Nat \subseteq Z
  <1> DEFINE T == {n \in Nat : n \notin Z}
  <1> SUFFICES ASSUME T # {} PROVE FALSE
    OBVIOUS
  <1>1. PICK m \in T : \A n \in T : m <= n
    BY Distinct!Least
  <1>2. m # 0 /\ m \in Nat
    OBVIOUS
  <1>3. m - 1 \in Nat /\ m - 1 \notin T /\ (m - 1) + 1 = m
    BY <1>1, <1>2
  <1> QED  BY <1>3

LEMMA SeqInduct ==
    ASSUME NEW S, NEW Z, << >> \in Z, \A s \in Seq(S), e \in S : s \in Z => Append(s, e) \in Z
    PROVE  Seq(S) \subseteq Z
  <1> DEFINE N == {n \in Nat : \A s \in Seq(S) : Len(s) = n => s \in Z}
  <1>1. 0 \in N
    <2>1. ASSUME NEW s \in Seq(S), Len(s) = 0 PROVE s = << >>
      BY <2>1
    <2> QED  BY <2>1
  <1>2. ASSUME NEW n \in Nat, n \in N PROVE n + 1 \in N
    <2> SUFFICES ASSUME NEW s \in Seq(S), Len(s) = n + 1 PROVE s \in Z
      OBVIOUS
    <2>1. s # << >>
      BY Len(s) = n + 1, EmptySeq
    <2>2. PICK r \in Seq(S), e \in S : s = Append(r, e)
      BY <2>1, SequenceEmptyOrAppend
    <2>3. Len(r) = n
      BY <2>2, AppendProperties
    <2> QED  BY <1>2, <2>2, <2>3
  <1> HIDE DEF N
  <1>3. Nat \subseteq N
    BY <1>1, <1>2, NatInduct
  <1> QED  BY <1>3 DEF N

\* FlattenSeq's recursive function.
Runs(ss, n, u) == u = [i \in 1..n |-> IF i = 1 THEN ss[i] ELSE u[i - 1] \o ss[i]]

LEMMA RunsSay ==
    ASSUME NEW ss, NEW n, NEW u
    PROVE  Runs(ss, n, u) <=>
           /\ u = [i \in 1..n |-> u[i]]
           /\ \A i \in 1..n : u[i] = IF i = 1 THEN ss[i] ELSE u[i - 1] \o ss[i]
  BY DEF Runs

LEMMA RunsEnd == ASSUME NEW ss PROVE \A n \in Nat : \E u : Runs(ss, n, u)
  <1> DEFINE Z == {n \in Nat : \E u : Runs(ss, n, u)}
  <1>1. 0 \in Z
    <2> DEFINE u == [i \in 1..0 |-> ss[i]]
    <2>1. Runs(ss, 0, u)
      BY DEF Runs
    <2> QED  BY <2>1
  <1>2. ASSUME NEW n \in Nat, n \in Z PROVE n + 1 \in Z
    <2>1. PICK v : Runs(ss, n, v)
      BY <1>2
    <2> DEFINE x == IF n = 0 THEN ss[n + 1] ELSE v[n] \o ss[n + 1]
               u == [i \in 1..n + 1 |-> IF i = n + 1 THEN x ELSE v[i]]
    <2>2. \A i \in 1..n : v[i] = IF i = 1 THEN ss[i] ELSE v[i - 1] \o ss[i]
      BY <2>1, RunsSay
    <2> HIDE DEF x
    <2>3. (\A i \in 1..n : u[i] = v[i]) /\ u[n + 1] = x
      OBVIOUS
    <2>4. u = [i \in 1..n + 1 |-> u[i]]
      OBVIOUS
    <2> HIDE DEF u
    <2>5. ASSUME NEW i \in 1..n + 1 PROVE u[i] = IF i = 1 THEN ss[i] ELSE u[i - 1] \o ss[i]
      <3>1. CASE i = n + 1 /\ n = 0
        BY <2>3, <3>1 DEF x
      <3>2. CASE i = n + 1 /\ n # 0
        <4>1. i - 1 = n /\ i # 1 /\ n \in 1..n
          BY <3>2
        <4>2. u[i] = v[n] \o ss[i] /\ u[i - 1] = v[n]
          BY <2>3, <3>2, <4>1 DEF x
        <4> QED  BY <4>1, <4>2
      <3>3. CASE i # n + 1
        <4>1. i \in 1..n /\ (i # 1 => i - 1 \in 1..n)
          BY <3>3
        <4> QED  BY <2>2, <2>3, <4>1
      <3> QED  BY <3>1, <3>2, <3>3
    <2>6. Runs(ss, n + 1, u)
      BY <2>4, <2>5, RunsSay
    <2> QED  BY <2>6
  <1> HIDE DEF Z
  <1>3. Nat \subseteq Z
    BY <1>1, <1>2, NatInduct
  <1> QED  BY <1>3 DEF Z

AgreeTo(n, ss, tt) == \A i \in 1..n : ss[i] = tt[i]

LEMMA RunsAgree ==
    ASSUME NEW n \in Nat, NEW m \in Nat, n <= m, NEW ss, NEW tt, AgreeTo(n, ss, tt),
           NEW u, Runs(ss, n, u), NEW v, Runs(tt, m, v)
    PROVE  AgreeTo(n, u, v)
  <1> USE DEF AgreeTo
  <1> DEFINE Z == {i \in Nat : i \in 1..n => u[i] = v[i]}
  <1>0. \A i \in 1..n : u[i] = IF i = 1 THEN ss[i] ELSE u[i - 1] \o ss[i]
    BY RunsSay
  <1>1. \A i \in 1..n : v[i] = IF i = 1 THEN tt[i] ELSE v[i - 1] \o tt[i]
    <2>1. \A i \in 1..m : v[i] = IF i = 1 THEN tt[i] ELSE v[i - 1] \o tt[i]
      BY RunsSay
    <2> QED  BY <2>1
  <1>2. 0 \in Z
    OBVIOUS
  <1>3. ASSUME NEW i \in Nat, i \in Z, i + 1 \in 1..n PROVE u[i + 1] = v[i + 1]
    <2>1. CASE i = 0
      BY <1>0, <1>1, <1>3, <2>1
    <2>2. CASE i # 0
      <3>1. i \in 1..n /\ (i + 1) - 1 = i /\ i + 1 # 1
        BY <1>3, <2>2
      <3>2. u[i] = v[i] /\ ss[i + 1] = tt[i + 1]
        BY <1>3, <3>1
      <3> QED  BY <1>0, <1>1, <1>3, <3>1, <3>2
    <2> QED  BY <2>1, <2>2
  <1>4. \A i \in Nat : i \in Z => i + 1 \in Z
    BY <1>3
  <1> HIDE DEF Z
  <1>5. Nat \subseteq Z
    BY <1>2, <1>4, NatInduct
  <1> QED  BY <1>5 DEF Z

LEMMA FlattenIs ==
    ASSUME NEW ss, NEW n \in Nat, Len(ss) = n, n > 0
    PROVE  \E u : Runs(ss, n, u) /\ FlattenSeq(ss) = u[n]
  <1> DEFINE u == CHOOSE x : Runs(ss, n, x)
  <1>1. Runs(ss, n, u)
    BY RunsEnd
  <1>2. FlattenSeq(ss) = u[n]
    BY DEF FlattenSeq, Runs
  <1> QED  BY <1>1, <1>2

LEMMA FlattenEmpty == FlattenSeq(<< >>) = << >>
  BY DEF FlattenSeq

LEMMA FlattenAppend ==
    ASSUME NEW S, NEW ss \in Seq(Seq(S)), FlattenSeq(ss) \in Seq(S), NEW e \in Seq(S)
    PROVE  FlattenSeq(Append(ss, e)) = FlattenSeq(ss) \o e
  <1> DEFINE n == Len(ss)  tt == Append(ss, e)
  <1>1. /\ n \in Nat /\ Len(ss) = n /\ Len(tt) = n + 1 /\ n <= n + 1
        /\ tt[n + 1] = e /\ \A i \in 1..n : ss[i] = tt[i]
    BY AppendProperties
  <1>2. PICK v : Runs(tt, n + 1, v) /\ FlattenSeq(tt) = v[n + 1]
    <2> HIDE DEF tt, n
    <2> QED  BY <1>1, FlattenIs
  <1>3. \A i \in 1..n + 1 : v[i] = IF i = 1 THEN tt[i] ELSE v[i - 1] \o tt[i]
    BY <1>2, RunsSay
  <1>4. CASE n = 0
    <2>1. ss = << >>
      BY <1>4
    <2>2. FlattenSeq(ss) \o e = e
      BY <2>1, FlattenEmpty, ConcatEmptySeq
    <2>3. v[1] = tt[1]
      BY <1>3, <1>4
    <2> QED  BY <1>1, <1>2, <1>4, <2>2, <2>3
  <1>5. CASE n # 0
    <2> HIDE DEF tt, n
    <2>0. n > 0 /\ n \in 1..n /\ n + 1 \in 1..n + 1 /\ n + 1 # 1 /\ (n + 1) - 1 = n /\ n + 1 \in Nat
      BY <1>1, <1>5
    <2>1. \E u : Runs(ss, n, u) /\ FlattenSeq(ss) = u[n]
      BY <1>1, <2>0, FlattenIs
    <2>2. PICK u : Runs(ss, n, u) /\ FlattenSeq(ss) = u[n]
      BY <2>1
    <2>3. AgreeTo(n, u, v)
      <3> DEFINE m == n + 1
      <3>1. m \in Nat /\ n <= m /\ Runs(tt, m, v) /\ n \in Nat /\ Runs(ss, n, u)
        BY <1>1, <1>2, <2>0, <2>2
      <3>2. AgreeTo(n, ss, tt)
        BY <1>1 DEF AgreeTo
      <3> HIDE DEF m
      <3> QED  BY ONLY <3>1, <3>2, RunsAgree
    <2>4. u[n] = v[n]
      BY <2>0, <2>3 DEF AgreeTo
    <2>5. v[n + 1] = v[n] \o tt[n + 1]
      BY <1>3, <2>0
    <2> QED  BY <1>1, <1>2, <2>2, <2>4, <2>5 DEF tt
  <1> QED  BY <1>4, <1>5

LEMMA FlattenType == \A S : \A ss \in Seq(Seq(S)) : FlattenSeq(ss) \in Seq(S)
  <1> SUFFICES ASSUME NEW S PROVE \A ss \in Seq(Seq(S)) : FlattenSeq(ss) \in Seq(S)
    OBVIOUS
  <1> DEFINE Z == {ss \in Seq(Seq(S)) : FlattenSeq(ss) \in Seq(S)}
  <1>1. << >> \in Z
    BY FlattenEmpty, EmptySeq
  <1>2. ASSUME NEW ss \in Seq(Seq(S)), NEW e \in Seq(S), ss \in Z PROVE Append(ss, e) \in Z
    <2>1. FlattenSeq(Append(ss, e)) = FlattenSeq(ss) \o e
      BY <1>2, FlattenAppend
    <2> QED  BY <1>2, <2>1, ConcatProperties, AppendProperties
  <1> HIDE DEF Z
  <1>3. Seq(Seq(S)) \subseteq Z
    BY <1>1, <1>2, SeqInduct
  <1> QED  BY <1>3 DEF Z

-----------------------------------------------------------------------------
\* Flat(c, s): the sequences that c gives for the entries of s, one after another.

Cells(E, X) == [E -> Seq(X)]

Flat(c, s) == FlattenSeq([i \in 1..Len(s) |-> c[s[i]]])

LEMMA CellIs == \A E, X : \A c \in Cells(E, X) : \A e \in E : c[e] \in Seq(X)
  BY DEF Cells

LEMMA CellsAre ==
    ASSUME NEW E, NEW X, NEW c \in Cells(E, X), NEW s \in Seq(E)
    PROVE  [i \in 1..Len(s) |-> c[s[i]]] \in Seq(Seq(X))
  <1>1. \A i \in 1..Len(s) : c[s[i]] \in Seq(X)
    BY ElementOfSeq, CellIs
  <1>2. Len(s) \in Nat
    OBVIOUS
  <1>3. [i \in 1..Len(s) |-> c[s[i]]] \in [1..Len(s) -> Seq(X)]
    BY <1>1
  <1> QED  BY <1>2, <1>3, SeqDef

LEMMA FlatType ==
    ASSUME NEW E, NEW X, NEW c \in Cells(E, X), NEW s \in Seq(E)
    PROVE  Flat(c, s) \in Seq(X)
  BY CellsAre, FlattenType DEF Flat

LEMMA FlatEmpty == \A c : Flat(c, << >>) = << >>
  <1> TAKE c
  <1>1. [i \in 1..Len(<< >>) |-> c[<< >>[i]]] = << >>
    OBVIOUS
  <1> QED  BY <1>1, FlattenEmpty DEF Flat

LEMMA FlatAppend ==
    ASSUME NEW E, NEW X, NEW c \in Cells(E, X), NEW s \in Seq(E), NEW e \in E
    PROVE  Flat(c, Append(s, e)) = Flat(c, s) \o c[e]
  <1> DEFINE a == [i \in 1..Len(s) |-> c[s[i]]]
             n == Len(s)
             b == [i \in 1..Len(Append(s, e)) |-> c[Append(s, e)[i]]]
  <1>1. a \in Seq(Seq(X)) /\ FlattenSeq(a) \in Seq(X) /\ c[e] \in Seq(X)
    BY CellsAre, FlattenType, CellIs
  <1>2. n \in Nat /\ Len(a) = n /\ Len(Append(s, e)) = n + 1
    OBVIOUS
  <1>3. b \in Seq(Seq(X))
    <2>1. \A r \in Seq(E) : [i \in 1..Len(r) |-> c[r[i]]] \in Seq(Seq(X))
      BY CellsAre
    <2>2. Append(s, e) \in Seq(E)
      OBVIOUS
    <2> QED  BY <2>1, <2>2
  <1>4. Append(a, c[e]) \in Seq(Seq(X))
    BY <1>1
  <1>5. Len(b) = n + 1 /\ Len(Append(a, c[e])) = n + 1
    BY <1>1, <1>2
  <1>6. ASSUME NEW i \in 1..n + 1 PROVE b[i] = Append(a, c[e])[i]
    <2>1. CASE i = n + 1
      <3>1. Append(s, e)[i] = e /\ Append(a, c[e])[i] = c[e]
        BY <1>1, <1>2, <2>1, AppendProperties
      <3> QED  BY <1>2, <3>1
    <2>2. CASE i # n + 1
      <3>1. i \in 1..n
        BY <1>2, <2>2
      <3>2. Append(s, e)[i] = s[i] /\ Append(a, c[e])[i] = a[i]
        BY <1>1, <1>2, <3>1, AppendProperties
      <3> QED  BY <1>2, <3>1, <3>2
    <2> QED  BY <2>1, <2>2
  <1>7. b = Append(a, c[e])
    <2> HIDE DEF a, b, n
    <2> QED  BY <1>3, <1>4, <1>5, <1>6, SeqEqual
  <1>8. FlattenSeq(Append(a, c[e])) = FlattenSeq(a) \o c[e]
    <2> HIDE DEF a
    <2> QED  BY <1>1, FlattenAppend
  <1> QED  BY <1>7, <1>8 DEF Flat

LEMMA FlatOne ==
    ASSUME NEW E, NEW X, NEW c \in Cells(E, X), NEW e \in E
    PROVE  Flat(c, <<e>>) = c[e]
  <1>1. <<e>> = Append(<< >>, e) /\ << >> \in Seq(E) /\ c[e] \in Seq(X)
    BY CellIs
  <1>2. Flat(c, <<e>>) = Flat(c, << >>) \o c[e]
    BY <1>1, FlatAppend
  <1> QED  BY <1>1, <1>2, FlatEmpty, ConcatEmptySeq

LEMMA AppendConcat ==
    ASSUME NEW S, NEW s \in Seq(S), NEW r \in Seq(S), NEW e \in S
    PROVE  s \o Append(r, e) = Append(s \o r, e)
  <1>1. Append(r, e) = r \o <<e>> /\ Append(s \o r, e) = (s \o r) \o <<e>> /\ <<e>> \in Seq(S)
    BY AppendIsConcat, ConcatProperties
  <1> QED  BY <1>1, ConcatAssociative

LEMMA FlatConcat ==
    \A E, X : \A c \in Cells(E, X) : \A s, r \in Seq(E) : Flat(c, s \o r) = Flat(c, s) \o Flat(c, r)
  <1> SUFFICES ASSUME NEW E, NEW X, NEW c \in Cells(E, X), NEW s \in Seq(E), NEW r \in Seq(E)
               PROVE  Flat(c, s \o r) = Flat(c, s) \o Flat(c, r)
    OBVIOUS
  <1> DEFINE Z == {x \in Seq(E) : Flat(c, s \o x) = Flat(c, s) \o Flat(c, x)}
  <1>1. << >> \in Z
    <2>1. s \o << >> = s /\ << >> \in Seq(E)
      BY ConcatEmptySeq
    <2>2. Flat(c, s) \o Flat(c, << >>) = Flat(c, s)
      <3>1. Flat(c, s) \in Seq(X)
        BY FlatType
      <3> QED  BY <3>1, FlatEmpty, ConcatEmptySeq
    <2> QED  BY <2>1, <2>2
  <1>2. ASSUME NEW x \in Seq(E), NEW e \in E, x \in Z PROVE Append(x, e) \in Z
    <2>1. s \o Append(x, e) = Append(s \o x, e) /\ s \o x \in Seq(E)
      BY AppendConcat, ConcatProperties
    <2>2. Flat(c, Append(s \o x, e)) = Flat(c, s \o x) \o c[e]
      BY <2>1, FlatAppend
    <2>3. Flat(c, Append(x, e)) = Flat(c, x) \o c[e]
      BY FlatAppend
    <2>4. Flat(c, s) \in Seq(X) /\ Flat(c, x) \in Seq(X) /\ c[e] \in Seq(X)
      BY FlatType, CellIs
    <2>5. (Flat(c, s) \o Flat(c, x)) \o c[e] = Flat(c, s) \o (Flat(c, x) \o c[e])
      <3>1. \A u, v, w \in Seq(X) : (u \o v) \o w = u \o (v \o w)
        BY ConcatAssociative
      <3> QED  BY <2>4, <3>1
    <2>6. Append(x, e) \in Seq(E)
      OBVIOUS
    <2> QED  BY <1>2, <2>1, <2>2, <2>3, <2>5, <2>6
  <1> HIDE DEF Z
  <1>3. Seq(E) \subseteq Z
    BY <1>1, <1>2, SeqInduct
  <1> QED  BY <1>3 DEF Z

LEMMA FlatSame ==
    ASSUME NEW s, NEW b, NEW c, \A i \in 1..Len(s) : b[s[i]] = c[s[i]]
    PROVE  Flat(b, s) = Flat(c, s)
  <1>1. [i \in 1..Len(s) |-> b[s[i]]] = [i \in 1..Len(s) |-> c[s[i]]]
    OBVIOUS
  <1> QED  BY <1>1 DEF Flat

\* An assignment of the entry itself changes nothing.
LEMMA FlatIdentity ==
    ASSUME NEW E, NEW c \in Cells(E, E), NEW s \in Seq(E), \A i \in 1..Len(s) : c[s[i]] = <<s[i]>>
    PROVE  Flat(c, s) = s
  <1> DEFINE b == [e \in E |-> <<e>>]
             Z == {x \in Seq(E) : Flat(b, x) = x}
  <1>0. b \in Cells(E, E)
    BY DEF Cells
  <1>1. << >> \in Z
    BY FlatEmpty, EmptySeq
  <1>2. ASSUME NEW x \in Seq(E), NEW e \in E, x \in Z PROVE Append(x, e) \in Z
    <2>1. b[e] = <<e>> /\ Append(x, e) \in Seq(E)
      OBVIOUS
    <2> HIDE DEF b
    <2>2. Flat(b, Append(x, e)) = Flat(b, x) \o b[e]
      BY <1>0, FlatAppend
    <2>3. Append(x, e) = x \o <<e>>
      BY AppendIsConcat
    <2> QED  BY <1>2, <2>1, <2>2, <2>3
  <1>3. Seq(E) \subseteq Z
    <2> HIDE DEF Z
    <2> QED  BY <1>1, <1>2, SeqInduct
  <1>4. \A i \in 1..Len(s) : c[s[i]] = b[s[i]]
    BY ElementOfSeq
  <1>5. Flat(c, s) = Flat(b, s)
    <2> HIDE DEF b, Z
    <2> QED  BY <1>4, FlatSame
  <1> QED  BY <1>3, <1>5

\* Putting g's sequences in the place of what c gives.
LEMMA FlatFlat ==
    ASSUME NEW E, NEW X, NEW Y, NEW c \in Cells(E, X), NEW g \in Cells(X, Y), NEW s \in Seq(E)
    PROVE  Flat(g, Flat(c, s)) = Flat([e \in E |-> Flat(g, c[e])], s)
  <1> DEFINE b == [e \in E |-> Flat(g, c[e])]
             Z == {x \in Seq(E) : Flat(g, Flat(c, x)) = Flat(b, x)}
  <1>0. b \in Cells(E, Y)
    <2>1. \A e \in E : c[e] \in Seq(X)
      BY CellIs
    <2> QED  BY <2>1, FlatType DEF Cells
  <1>1. << >> \in Z
    BY FlatEmpty, EmptySeq
  <1>2. ASSUME NEW x \in Seq(E), NEW e \in E, x \in Z PROVE Append(x, e) \in Z
    <2>1. b[e] = Flat(g, c[e]) /\ Append(x, e) \in Seq(E) /\ c[e] \in Seq(X)
      BY CellIs
    <2> HIDE DEF b
    <2>2. Flat(b, Append(x, e)) = Flat(b, x) \o b[e]
      BY <1>0, FlatAppend
    <2>3. Flat(c, Append(x, e)) = Flat(c, x) \o c[e] /\ Flat(c, x) \in Seq(X)
      BY FlatAppend, FlatType
    <2>4. Flat(g, Flat(c, x) \o c[e]) = Flat(g, Flat(c, x)) \o Flat(g, c[e])
      <3>1. \A u, v \in Seq(X) : Flat(g, u \o v) = Flat(g, u) \o Flat(g, v)
        BY FlatConcat
      <3> QED  BY <2>1, <2>3, <3>1
    <2> QED  BY <1>2, <2>1, <2>2, <2>3, <2>4
  <1> HIDE DEF Z
  <1>3. Seq(E) \subseteq Z
    BY <1>1, <1>2, SeqInduct
  <1> QED  BY <1>3 DEF Z

-----------------------------------------------------------------------------
\* What stands in a sequence, and how often.

Has(s, x) == \E i \in 1..Len(s) : s[i] = x

NoRepeat(s) == \A i, j \in 1..Len(s) : s[i] = s[j] => i = j

EndsIn(s, x) == s # << >> /\ s[Len(s)] = x

LEMMA ConcatHas ==
    ASSUME NEW S, NEW a \in Seq(S), NEW b \in Seq(S), NEW x
    PROVE  Has(a \o b, x) <=> Has(a, x) \/ Has(b, x)
  <1>0. Len(a) \in Nat /\ Len(b) \in Nat
    OBVIOUS
  <1>1. /\ Len(a \o b) = Len(a) + Len(b)
        /\ \A i \in 1..Len(a) + Len(b) : (a \o b)[i] = IF i <= Len(a) THEN a[i] ELSE b[i - Len(a)]
    BY ConcatProperties
  <1>2. ASSUME NEW i \in 1..Len(a) PROVE i \in 1..Len(a) + Len(b) /\ (a \o b)[i] = a[i]
    BY <1>0, <1>1
  <1>3. ASSUME NEW i \in 1..Len(b)
        PROVE  i + Len(a) \in 1..Len(a) + Len(b) /\ (a \o b)[i + Len(a)] = b[i]
    BY <1>0, <1>1
  <1>4. ASSUME NEW i \in 1..Len(a) + Len(b), i > Len(a)
        PROVE  i - Len(a) \in 1..Len(b) /\ (a \o b)[i] = b[i - Len(a)]
    BY <1>0, <1>1, <1>4
  <1>5. ASSUME NEW i \in 1..Len(a) + Len(b) PROVE i > Len(a) \/ i \in 1..Len(a)
    BY <1>0
  <1>6. ASSUME Has(a \o b, x) PROVE Has(a, x) \/ Has(b, x)
    <2>1. PICK i \in 1..Len(a) + Len(b) : (a \o b)[i] = x
      BY <1>1, <1>6 DEF Has
    <2>2. CASE i > Len(a)
      BY <1>4, <2>1, <2>2 DEF Has
    <2>3. CASE i \in 1..Len(a)
      BY <1>2, <2>1, <2>3 DEF Has
    <2> QED  BY <1>5, <2>2, <2>3
  <1>7. ASSUME Has(a, x) PROVE Has(a \o b, x)
    BY <1>1, <1>2, <1>7 DEF Has
  <1>8. ASSUME Has(b, x) PROVE Has(a \o b, x)
    <2>1. PICK i \in 1..Len(b) : b[i] = x
      BY <1>8 DEF Has
    <2> QED  BY <1>1, <1>3, <2>1 DEF Has
  <1> QED  BY <1>6, <1>7, <1>8

LEMMA ConcatNoRepeat ==
    ASSUME NEW S, NEW a \in Seq(S), NEW b \in Seq(S), NoRepeat(a), NoRepeat(b),
           \A x : ~(Has(a, x) /\ Has(b, x))
    PROVE  NoRepeat(a \o b)
  <1>0. Len(a) \in Nat /\ Len(b) \in Nat
    OBVIOUS
  <1>1. /\ Len(a \o b) = Len(a) + Len(b)
        /\ \A i \in 1..Len(a) + Len(b) : (a \o b)[i] = IF i <= Len(a) THEN a[i] ELSE b[i - Len(a)]
    BY ConcatProperties
  <1>2. ASSUME NEW i \in 1..Len(a) + Len(b)
        PROVE  \/ i \in 1..Len(a) /\ (a \o b)[i] = a[i] /\ Has(a, (a \o b)[i])
               \/ i - Len(a) \in 1..Len(b) /\ (a \o b)[i] = b[i - Len(a)] /\ Has(b, (a \o b)[i])
    <2>1. CASE i <= Len(a)
      BY <1>0, <1>1, <2>1 DEF Has
    <2>2. CASE i > Len(a)
      BY <1>0, <1>1, <2>2 DEF Has
    <2> QED  BY <1>0, <2>1, <2>2
  <1>3. ASSUME NEW i \in 1..Len(a) + Len(b), NEW j \in 1..Len(a) + Len(b), (a \o b)[i] = (a \o b)[j]
        PROVE  i = j
    <2>1. CASE i \in 1..Len(a) /\ (a \o b)[i] = a[i] /\ Has(a, (a \o b)[i])
      <3>1. ~Has(b, (a \o b)[j])
        BY <1>3, <2>1
      <3>2. j \in 1..Len(a) /\ (a \o b)[j] = a[j]
        BY <1>2, <3>1
      <3> QED  BY <1>3, <2>1, <3>2 DEF NoRepeat
    <2>2. CASE i - Len(a) \in 1..Len(b) /\ (a \o b)[i] = b[i - Len(a)] /\ Has(b, (a \o b)[i])
      <3>1. ~Has(a, (a \o b)[j])
        BY <1>3, <2>2
      <3>2. j - Len(a) \in 1..Len(b) /\ (a \o b)[j] = b[j - Len(a)]
        BY <1>2, <3>1
      <3>3. i - Len(a) = j - Len(a)
        BY <1>3, <2>2, <3>2 DEF NoRepeat
      <3> QED  BY <1>0, <3>3
    <2> QED  BY <1>2, <2>1, <2>2
  <1> QED  BY <1>1, <1>3 DEF NoRepeat

LEMMA ConcatEnds ==
    ASSUME NEW S, NEW a \in Seq(S), NEW b \in Seq(S), NEW x
    PROVE  EndsIn(a \o b, x) <=> IF b = << >> THEN EndsIn(a, x) ELSE EndsIn(b, x)
  <1>1. CASE b = << >>
    BY <1>1, ConcatEmptySeq
  <1>2. CASE b # << >>
    <2>1. Len(a) \in Nat /\ Len(b) \in Nat /\ Len(b) > 0
      BY <1>2, EmptySeq
    <2>2. /\ Len(a \o b) = Len(a) + Len(b)
          /\ \A i \in 1..Len(a) + Len(b) : (a \o b)[i] = IF i <= Len(a) THEN a[i] ELSE b[i - Len(a)]
      BY ConcatProperties
    <2>3. Len(a) + Len(b) \in 1..Len(a) + Len(b) /\ ~(Len(a) + Len(b) <= Len(a))
      BY <2>1
    <2>4. (a \o b)[Len(a) + Len(b)] = b[Len(b)]
      BY <2>1, <2>2, <2>3
    <2>5. a \o b # << >>
      BY <1>2, ConcatEqualIffEmpty
    <2> QED  BY <1>2, <2>2, <2>4, <2>5 DEF EndsIn
  <1> QED  BY <1>1, <1>2

LEMMA FlatHas ==
    ASSUME NEW E, NEW X, NEW c \in Cells(E, X), NEW s \in Seq(E), NEW x
    PROVE  Has(Flat(c, s), x) <=> \E i \in 1..Len(s) : Has(c[s[i]], x)
  <1> DEFINE In(r) == \E i \in 1..Len(r) : Has(c[r[i]], x)
             Z == {r \in Seq(E) : Has(Flat(c, r), x) <=> In(r)}
  <1>1. << >> \in Z
    BY FlatEmpty, EmptySeq DEF Has
  <1>2. ASSUME NEW r \in Seq(E), NEW e \in E, r \in Z PROVE Append(r, e) \in Z
    <2>1. Flat(c, Append(r, e)) = Flat(c, r) \o c[e]
      BY FlatAppend
    <2>2. Flat(c, r) \in Seq(X) /\ c[e] \in Seq(X) /\ Append(r, e) \in Seq(E)
      BY FlatType, CellIs
    <2>3. Has(Flat(c, r) \o c[e], x) <=> Has(Flat(c, r), x) \/ Has(c[e], x)
      BY <2>2, ConcatHas
    <2>4. /\ Len(Append(r, e)) = Len(r) + 1 /\ Append(r, e)[Len(r) + 1] = e /\ Len(r) \in Nat
          /\ \A i \in 1..Len(r) : Append(r, e)[i] = r[i]
      BY AppendProperties
    <2>5. \A i \in 1..Len(r) + 1 : i \in 1..Len(r) \/ i = Len(r) + 1
      BY <2>4
    <2>6. Len(r) + 1 \in 1..Len(r) + 1 /\ \A i \in 1..Len(r) : i \in 1..Len(r) + 1
      BY <2>4
    <2>7. In(Append(r, e)) <=> In(r) \/ Has(c[e], x)
      BY <2>4, <2>5, <2>6
    <2> HIDE DEF In
    <2> QED  BY <1>2, <2>1, <2>2, <2>3, <2>7
  <1> HIDE DEF Z
  <1>3. Seq(E) \subseteq Z
    BY <1>1, <1>2, SeqInduct
  <1> QED  BY <1>3 DEF Z
\* No two entries of a list have something in common.
Disjoint(c, s) == \A i, j \in 1..Len(s) : i # j => \A x : ~(Has(c[s[i]], x) /\ Has(c[s[j]], x))

LEMMA FlatNoRepeat ==
    ASSUME NEW E, NEW X, NEW c \in Cells(E, X), NEW s \in Seq(E), Disjoint(c, s),
           \A i \in 1..Len(s) : NoRepeat(c[s[i]])
    PROVE  NoRepeat(Flat(c, s))
  <1> DEFINE Good(r) == Disjoint(c, r) /\ \A i \in 1..Len(r) : NoRepeat(c[r[i]])
             Z == {r \in Seq(E) : Good(r) => NoRepeat(Flat(c, r))}
  <1>1. << >> \in Z
    BY FlatEmpty, EmptySeq DEF NoRepeat
  <1>2. ASSUME NEW r \in Seq(E), NEW e \in E, r \in Z PROVE Append(r, e) \in Z
    <2>0. Append(r, e) \in Seq(E)
      OBVIOUS
    <2> SUFFICES ASSUME Good(Append(r, e)) PROVE NoRepeat(Flat(c, Append(r, e)))
      BY <2>0
    <2>1. Flat(c, Append(r, e)) = Flat(c, r) \o c[e]
      BY FlatAppend
    <2>2. Flat(c, r) \in Seq(X) /\ c[e] \in Seq(X)
      BY FlatType, CellIs
    <2>3. /\ Len(Append(r, e)) = Len(r) + 1 /\ Append(r, e)[Len(r) + 1] = e /\ Len(r) \in Nat
          /\ \A i \in 1..Len(r) : Append(r, e)[i] = r[i]
      BY AppendProperties
    <2>4. /\ Len(r) + 1 \in 1..Len(r) + 1
          /\ \A i \in 1..Len(r) : i \in 1..Len(r) + 1 /\ i # Len(r) + 1
      BY <2>3
    <2>5. Good(r) /\ NoRepeat(c[e])
      BY <2>3, <2>4 DEF Disjoint
    <2>6. NoRepeat(Flat(c, r))
      BY <1>2, <2>5
    <2>7. ASSUME NEW x PROVE ~(Has(Flat(c, r), x) /\ Has(c[e], x))
      <3>1. ASSUME NEW i \in 1..Len(r) PROVE ~(Has(c[r[i]], x) /\ Has(c[e], x))
        BY <2>3, <2>4 DEF Disjoint
      <3>2. Has(Flat(c, r), x) <=> \E i \in 1..Len(r) : Has(c[r[i]], x)
        BY FlatHas
      <3> QED  BY <3>1, <3>2
    <2> QED  BY <2>1, <2>2, <2>5, <2>6, <2>7, ConcatNoRepeat
  <1> HIDE DEF Z
  <1>3. Seq(E) \subseteq Z
    BY <1>1, <1>2, SeqInduct
  <1> QED  BY <1>3 DEF Z

LEMMA FlatEnds ==
    ASSUME NEW E, NEW X, NEW c \in Cells(E, X), NEW s \in Seq(E), NEW x,
           \A i \in 1..Len(s) : ~EndsIn(c[s[i]], x)
    PROVE  ~EndsIn(Flat(c, s), x)
  <1> DEFINE NoEnd(r) == \A i \in 1..Len(r) : ~EndsIn(c[r[i]], x)
             Z == {r \in Seq(E) : NoEnd(r) => ~EndsIn(Flat(c, r), x)}
  <1>1. << >> \in Z
    BY FlatEmpty, EmptySeq DEF EndsIn
  <1>2. ASSUME NEW r \in Seq(E), NEW e \in E, r \in Z PROVE Append(r, e) \in Z
    <2>0. Append(r, e) \in Seq(E)
      OBVIOUS
    <2> SUFFICES ASSUME NoEnd(Append(r, e)) PROVE ~EndsIn(Flat(c, Append(r, e)), x)
      BY <2>0
    <2>1. Flat(c, Append(r, e)) = Flat(c, r) \o c[e]
      BY FlatAppend
    <2>2. Flat(c, r) \in Seq(X) /\ c[e] \in Seq(X)
      BY FlatType, CellIs
    <2>3. /\ Len(Append(r, e)) = Len(r) + 1 /\ Append(r, e)[Len(r) + 1] = e /\ Len(r) \in Nat
          /\ \A i \in 1..Len(r) : Append(r, e)[i] = r[i]
      BY AppendProperties
    <2>4. Len(r) + 1 \in 1..Len(r) + 1 /\ \A i \in 1..Len(r) : i \in 1..Len(r) + 1
      BY <2>3
    <2>5. NoEnd(r) /\ ~EndsIn(c[e], x)
      BY <2>3, <2>4
    <2>6. ~EndsIn(Flat(c, r), x)
      BY <1>2, <2>5
    <2>7. EndsIn(Flat(c, r) \o c[e], x) <=> IF c[e] = << >> THEN EndsIn(Flat(c, r), x) ELSE EndsIn(c[e], x)
      BY <2>2, ConcatEnds
    <2> QED  BY <2>1, <2>5, <2>6, <2>7
  <1> HIDE DEF Z
  <1>3. Seq(E) \subseteq Z
    BY <1>1, <1>2, SeqInduct
  <1> QED  BY <1>3 DEF Z

-----------------------------------------------------------------------------
\* Putting the entries m in the place of one entry.

Before(s, i) == SubSeq(s, 1, i - 1)
Behind(s, i) == SubSeq(s, i + 1, Len(s))

Spliced(s, i, m) == (Before(s, i) \o m) \o Behind(s, i)

LEMMA PartsOfSeq ==
    ASSUME NEW S, NEW s \in Seq(S), NEW i \in 1..Len(s)
    PROVE  /\ Before(s, i) \in Seq(S) /\ Len(Before(s, i)) = i - 1
           /\ Behind(s, i) \in Seq(S) /\ Len(Behind(s, i)) = Len(s) - i
           /\ \A k \in 1..i - 1 : Before(s, i)[k] = s[k]
           /\ \A k \in 1..Len(s) - i : Behind(s, i)[k] = s[i + k]
           /\ s[i] \in S /\ <<s[i]>> \in Seq(S)
           /\ s = Spliced(s, i, <<s[i]>>)
  <1>0. Len(s) \in Nat /\ i \in Nat /\ \A k \in 1..Len(s) : s[k] \in S
    BY ElementOfSeq
  <1>1. \A k \in 1..i - 1 : s[k] \in S
    BY <1>0
  <1>2. \A k \in i + 1..Len(s) : s[k] \in S
    BY <1>0
  <1>3. /\ Before(s, i) \in Seq(S) /\ Len(Before(s, i)) = i - 1
        /\ \A k \in 1..i - 1 : Before(s, i)[k] = s[k]
    <2>1. 1 \in Int /\ i - 1 \in Int
      BY <1>0
    <2>2. /\ SubSeq(s, 1, i - 1) \in Seq(S)
          /\ Len(SubSeq(s, 1, i - 1)) = IF 1 <= i - 1 THEN (i - 1) - 1 + 1 ELSE 0
          /\ \A k \in 1..(i - 1) - 1 + 1 : SubSeq(s, 1, i - 1)[k] = s[1 + k - 1]
      BY <1>1, <2>1, SubSeqProperties
    <2>3. (i - 1) - 1 + 1 = i - 1 /\ \A k \in 1..i - 1 : 1 + k - 1 = k
      BY <1>0
    <2> QED  BY <1>0, <2>2, <2>3 DEF Before
  <1>4. /\ Behind(s, i) \in Seq(S) /\ Len(Behind(s, i)) = Len(s) - i
        /\ \A k \in 1..Len(s) - i : Behind(s, i)[k] = s[i + k]
    <2>1. i + 1 \in Int /\ Len(s) \in Int
      BY <1>0
    <2>2. /\ SubSeq(s, i + 1, Len(s)) \in Seq(S)
          /\ Len(SubSeq(s, i + 1, Len(s))) = IF i + 1 <= Len(s) THEN Len(s) - (i + 1) + 1 ELSE 0
          /\ \A k \in 1..Len(s) - (i + 1) + 1 : SubSeq(s, i + 1, Len(s))[k] = s[(i + 1) + k - 1]
      BY <1>2, <2>1, SubSeqProperties
    <2>3. Len(s) - (i + 1) + 1 = Len(s) - i /\ \A k \in 1..Len(s) - i : (i + 1) + k - 1 = i + k
      BY <1>0
    <2>4. (IF i + 1 <= Len(s) THEN Len(s) - (i + 1) + 1 ELSE 0) = Len(s) - i
      BY <1>0
    <2>5. Len(SubSeq(s, i + 1, Len(s))) = Len(s) - i
      BY <2>2, <2>4
    <2>6. \A k \in 1..Len(s) - i : SubSeq(s, i + 1, Len(s))[k] = s[i + k]
      BY <2>2, <2>3
    <2> QED  BY <2>2, <2>5, <2>6 DEF Behind
  <1>5. s[i] \in S /\ <<s[i]>> \in Seq(S)
    BY <1>0
  <1>6. Before(s, i) \o <<s[i]>> = SubSeq(s, 1, i)
    <2>1. SubSeq(s, 1, i) = SubSeq(s, 1, i - 1) \o <<s[i]>>
      BY <1>0, SubSeqRecursiveSecond
    <2> QED  BY <2>1 DEF Before
  <1>7. SubSeq(s, 1, i) \o SubSeq(s, i + 1, Len(s)) = SubSeq(s, 1, Len(s))
    BY <1>0, ConcatAdjacentSubSeq
  <1>8. SubSeq(s, 1, Len(s)) = s
    BY SubSeqFull
  <1>9. s = Spliced(s, i, <<s[i]>>)
    BY <1>6, <1>7, <1>8 DEF Spliced, Behind
  <1> QED  BY <1>3, <1>4, <1>5, <1>9

LEMMA SplicedType ==
    ASSUME NEW S, NEW s \in Seq(S), NEW i \in 1..Len(s), NEW m \in Seq(S)
    PROVE  Spliced(s, i, m) \in Seq(S)
  <1>1. Before(s, i) \in Seq(S) /\ Behind(s, i) \in Seq(S)
    BY PartsOfSeq
  <1> QED  BY <1>1, ConcatProperties DEF Spliced

LEMMA SplicedHas ==
    ASSUME NEW S, NEW s \in Seq(S), NEW i \in 1..Len(s), NEW m \in Seq(S), NEW x
    PROVE  Has(Spliced(s, i, m), x) <=> Has(Before(s, i), x) \/ Has(m, x) \/ Has(Behind(s, i), x)
  <1>1. Before(s, i) \in Seq(S) /\ Behind(s, i) \in Seq(S) /\ Before(s, i) \o m \in Seq(S)
    BY PartsOfSeq, ConcatProperties
  <1>2. Has(Before(s, i) \o m, x) <=> Has(Before(s, i), x) \/ Has(m, x)
    BY <1>1, ConcatHas
  <1>3. Has((Before(s, i) \o m) \o Behind(s, i), x) <=> Has(Before(s, i) \o m, x) \/ Has(Behind(s, i), x)
    BY <1>1, ConcatHas
  <1> QED  BY <1>2, <1>3 DEF Spliced

LEMMA PartsHave ==
    ASSUME NEW S, NEW s \in Seq(S), NEW i \in 1..Len(s), NoRepeat(s)
    PROVE  /\ ~Has(Before(s, i), s[i]) /\ ~Has(Behind(s, i), s[i])
           /\ \A x : Has(s, x) <=> x = s[i] \/ Has(Before(s, i), x) \/ Has(Behind(s, i), x)
           /\ NoRepeat(Before(s, i)) /\ NoRepeat(Behind(s, i))
           /\ \A x : ~(Has(Before(s, i), x) /\ Has(Behind(s, i), x))
  <1>1. /\ Before(s, i) \in Seq(S) /\ Len(Before(s, i)) = i - 1
        /\ Behind(s, i) \in Seq(S) /\ Len(Behind(s, i)) = Len(s) - i
        /\ \A k \in 1..i - 1 : Before(s, i)[k] = s[k]
        /\ \A k \in 1..Len(s) - i : Behind(s, i)[k] = s[i + k]
        /\ <<s[i]>> \in Seq(S) /\ s = Spliced(s, i, <<s[i]>>)
    BY PartsOfSeq
  <1>2. Len(s) \in Nat /\ i \in Nat
    OBVIOUS
  <1>3. \A k \in 1..i - 1 : k \in 1..Len(s) /\ k # i
    BY <1>2
  <1>4. \A k \in 1..Len(s) - i : i + k \in 1..Len(s) /\ i + k # i
    BY <1>2
  <1>5. ~Has(Before(s, i), s[i])
    BY <1>1, <1>3 DEF Has, NoRepeat
  <1>6. ~Has(Behind(s, i), s[i])
    BY <1>1, <1>4 DEF Has, NoRepeat
  <1>7. ASSUME NEW x PROVE Has(s, x) <=> x = s[i] \/ Has(Before(s, i), x) \/ Has(Behind(s, i), x)
    <2>1. Has(<<s[i]>>, x) <=> x = s[i]
      BY DEF Has
    <2>2. Has(Spliced(s, i, <<s[i]>>), x) <=>
              Has(Before(s, i), x) \/ Has(<<s[i]>>, x) \/ Has(Behind(s, i), x)
      BY <1>1, SplicedHas
    <2> QED  BY <1>1, <2>1, <2>2
  <1>8. NoRepeat(Before(s, i))
    BY <1>1, <1>3 DEF NoRepeat
  <1>9. NoRepeat(Behind(s, i))
    <2>1. ASSUME NEW j \in 1..Len(s) - i, NEW k \in 1..Len(s) - i, Behind(s, i)[j] = Behind(s, i)[k]
          PROVE  j = k
      <3>1. s[i + j] = s[i + k]
        BY <1>1, <2>1
      <3>2. i + j = i + k
        BY <1>4, <3>1 DEF NoRepeat
      <3> QED  BY <1>2, <3>2
    <2> QED  BY <1>1, <2>1 DEF NoRepeat
  <1>10. ASSUME NEW x, Has(Before(s, i), x), Has(Behind(s, i), x) PROVE FALSE
    <2>1. PICK j \in 1..i - 1 : s[j] = x
      BY <1>1, <1>10 DEF Has
    <2>2. PICK k \in 1..Len(s) - i : s[i + k] = x
      BY <1>1, <1>10 DEF Has
    <2>3. j \in 1..Len(s) /\ i + k \in 1..Len(s) /\ j # i + k
      BY <1>2, <1>4, <2>1, <2>2
    <2> QED  BY <2>1, <2>2, <2>3 DEF NoRepeat
  <1> QED  BY <1>5, <1>6, <1>7, <1>8, <1>9, <1>10

LEMMA FlatSpliced ==
    ASSUME NEW E, NEW X, NEW c \in Cells(E, X), NEW s \in Seq(E), NEW i \in 1..Len(s), NEW m \in Seq(E)
    PROVE  Flat(c, Spliced(s, i, m)) = (Flat(c, Before(s, i)) \o Flat(c, m)) \o Flat(c, Behind(s, i))
  <1>1. Before(s, i) \in Seq(E) /\ Behind(s, i) \in Seq(E) /\ Before(s, i) \o m \in Seq(E)
    BY PartsOfSeq, ConcatProperties
  <1>2. Flat(c, Before(s, i) \o m) = Flat(c, Before(s, i)) \o Flat(c, m)
    BY <1>1, FlatConcat
  <1>3. Flat(c, (Before(s, i) \o m) \o Behind(s, i)) = Flat(c, Before(s, i) \o m) \o Flat(c, Behind(s, i))
    <2>1. \A u, v \in Seq(E) : Flat(c, u \o v) = Flat(c, u) \o Flat(c, v)
      BY FlatConcat
    <2> QED  BY <1>1, <2>1
  <1> QED  BY <1>2, <1>3 DEF Spliced

\* h puts m in the place of x.
Puts(h, E, x, m) ==
    /\ h \in Cells(E, E) /\ x \in E /\ m \in Seq(E) /\ h[x] = m
    /\ \A e \in E : e # x => h[e] = <<e>>

LEMMA PutsNothing ==
    ASSUME NEW E, NEW h, NEW x, NEW m, Puts(h, E, x, m), NEW s \in Seq(E), ~Has(s, x)
    PROVE  Flat(h, s) = s
  <1>1. \A i \in 1..Len(s) : h[s[i]] = <<s[i]>>
    BY ElementOfSeq DEF Puts, Has
  <1> QED  BY <1>1, FlatIdentity DEF Puts

LEMMA PutsIt ==
    ASSUME NEW E, NEW h, NEW x, NEW m, Puts(h, E, x, m), NEW s \in Seq(E), NoRepeat(s),
           NEW i \in 1..Len(s), s[i] = x
    PROVE  Flat(h, s) = Spliced(s, i, m)
  <1>1. /\ Before(s, i) \in Seq(E) /\ Behind(s, i) \in Seq(E) /\ <<x>> \in Seq(E)
        /\ s = Spliced(s, i, <<x>>)
    BY PartsOfSeq
  <1>2. ~Has(Before(s, i), x) /\ ~Has(Behind(s, i), x)
    BY PartsHave
  <1>3. Flat(h, Before(s, i)) = Before(s, i) /\ Flat(h, Behind(s, i)) = Behind(s, i)
    BY <1>1, <1>2, PutsNothing
  <1>4. Flat(h, <<x>>) = m
    BY FlatOne DEF Puts
  <1>5. Flat(h, Spliced(s, i, <<x>>)) = (Flat(h, Before(s, i)) \o Flat(h, <<x>>)) \o Flat(h, Behind(s, i))
    <2>1. h \in Cells(E, E)
      BY DEF Puts
    <2>2. \A r \in Seq(E) :
              Flat(h, Spliced(s, i, r)) = (Flat(h, Before(s, i)) \o Flat(h, r)) \o Flat(h, Behind(s, i))
      BY <2>1, FlatSpliced
    <2> QED  BY <1>1, <2>2
  <1> QED  BY <1>1, <1>3, <1>4, <1>5 DEF Spliced

LEMMA RemoveIs ==
    ASSUME NEW S, NEW s \in Seq(S), NEW i \in 1..Len(s)
    PROVE  RemoveAt(s, i) = Spliced(s, i, << >>)
  <1>1. Before(s, i) \in Seq(S)
    BY PartsOfSeq
  <1>2. Before(s, i) \o << >> = Before(s, i)
    BY <1>1, ConcatEmptySeq
  <1> QED  BY <1>2 DEF Spliced, Before, Behind, RemoveAt

Cat(a, b) == a \o b

LEMMA CatAssociative ==
    ASSUME NEW S, NEW a \in Seq(S), NEW b \in Seq(S), NEW c \in Seq(S)
    PROVE  Cat(a, b) \in Seq(S) /\ Cat(Cat(a, b), c) = Cat(a, Cat(b, c))
  BY ConcatAssociative, ConcatProperties DEF Cat

LEMMA CatRegroup ==
    ASSUME NEW S, NEW a \in Seq(S), NEW b \in Seq(S), NEW c \in Seq(S), NEW d \in Seq(S)
    PROVE  Cat(Cat(a, b), Cat(c, d)) = Cat(Cat(a, Cat(b, c)), d)
  <1>1. Cat(a, b) \in Seq(S)
    BY CatAssociative
  <1>2. Cat(Cat(a, b), Cat(c, d)) = Cat(Cat(Cat(a, b), c), d)
    BY <1>1, CatAssociative
  <1> QED  BY <1>2, CatAssociative

LEMMA TwoIs ==
    ASSUME NEW S, NEW a \in S, NEW b \in S
    PROVE  <<a>> \o <<b>> = <<a, b>> /\ <<a>> \in Seq(S) /\ <<b>> \in Seq(S) /\ <<a, b>> \in Seq(S)
  <1>1. <<a>> \in Seq(S) /\ <<b>> \in Seq(S) /\ <<a, b>> \in Seq(S)
    OBVIOUS
  <1>2. Append(<<a>>, b) = <<a>> \o <<b>>
    BY <1>1, AppendIsConcat
  <1>3. Append(<<a>>, b) = <<a, b>>
    <2>1. Len(<<a>>) = 1 /\ Len(<<a, b>>) = 2 /\ <<a>>[1] = a /\ <<a, b>>[1] = a /\ <<a, b>>[2] = b
      OBVIOUS
    <2>2. /\ Append(<<a>>, b) \in Seq(S) /\ Len(Append(<<a>>, b)) = 2
          /\ Append(<<a>>, b)[1] = a /\ Append(<<a>>, b)[2] = b
      BY <1>1, <2>1, AppendProperties
    <2>3. \A i \in 1..2 : i = 1 \/ i = 2
      OBVIOUS
    <2> QED  BY <1>1, <2>1, <2>2, <2>3, SeqEqual
  <1> QED  BY <1>1, <1>2, <1>3

LEMMA InsertIs ==
    ASSUME NEW S, NEW s \in Seq(S), NEW i \in 1..Len(s), NEW e \in S
    PROVE  InsertAt(s, i, e) = Spliced(s, i, <<e, s[i]>>)
  <1>1. /\ Before(s, i) \in Seq(S) /\ Behind(s, i) \in Seq(S) /\ <<s[i]>> \in Seq(S) /\ <<e>> \in Seq(S)
        /\ s[i] \in S
    <2>1. <<e>> \in Seq(S)
      OBVIOUS
    <2> QED  BY <2>1, PartsOfSeq
  <1>2. SubSeq(s, i, Len(s)) = <<s[i]>> \o SubSeq(s, i + 1, Len(s))
    <2>1. Len(s) \in i..Len(s)
      OBVIOUS
    <2> QED  BY <2>1, SubSeqRecursiveFirst
  <1>4. (Before(s, i) \o <<e>>) \o (<<s[i]>> \o Behind(s, i)) =
            (Before(s, i) \o (<<e>> \o <<s[i]>>)) \o Behind(s, i)
    <2>1. Cat(Cat(Before(s, i), <<e>>), Cat(<<s[i]>>, Behind(s, i))) =
              Cat(Cat(Before(s, i), Cat(<<e>>, <<s[i]>>)), Behind(s, i))
      <3>1. ASSUME NEW a \in Seq(S), NEW b \in Seq(S), NEW c \in Seq(S), NEW d \in Seq(S)
            PROVE  Cat(Cat(a, b), Cat(c, d)) = Cat(Cat(a, Cat(b, c)), d)
        BY CatRegroup
      <3> DEFINE p == Before(s, i)  q == <<e>>  r == <<s[i]>>  t == Behind(s, i)
      <3>2. p \in Seq(S) /\ q \in Seq(S) /\ r \in Seq(S) /\ t \in Seq(S)
        BY <1>1
      <3> HIDE DEF p, q, r, t
      <3>3. Cat(Cat(p, q), Cat(r, t)) = Cat(Cat(p, Cat(q, r)), t)
        BY <3>1, <3>2
      <3> QED  BY <3>3 DEF p, q, r, t
    <2> QED  BY <2>1 DEF Cat
  <1>5. <<e>> \o <<s[i]>> = <<e, s[i]>>
    BY <1>1, TwoIs
  <1>6. InsertAt(s, i, e) = (Before(s, i) \o <<e>>) \o (<<s[i]>> \o Behind(s, i))
    BY <1>2 DEF InsertAt, Before, Behind
  <1> QED  BY <1>4, <1>5, <1>6 DEF Spliced

LEMMA InsertLast ==
    ASSUME NEW S, NEW s \in Seq(S), NEW e \in S
    PROVE  InsertAt(s, Len(s) + 1, e) = Append(s, e)
  <1>1. SubSeq(s, 1, Len(s)) = s
    BY SubSeqFull
  <1>2. Len(s) \in Nat /\ (Len(s) + 1) - 1 = Len(s)
    OBVIOUS
  <1>3. SubSeq(s, Len(s) + 1, Len(s)) = << >>
    BY <1>2, SubSeqEmpty
  <1>4. s \o <<e>> = Append(s, e) /\ s \o <<e>> \in Seq(S)
    BY AppendIsConcat, ConcatProperties
  <1>5. (s \o <<e>>) \o << >> = s \o <<e>>
    BY <1>4, ConcatEmptySeq
  <1> QED  BY <1>1, <1>2, <1>3, <1>4, <1>5 DEF InsertAt

LEMMA ReplaceIs ==
    ASSUME NEW S, NEW s \in Seq(S), NEW i \in 1..Len(s), NEW e \in S
    PROVE  [s EXCEPT ![i] = e] = Spliced(s, i, <<e>>)
  <1> DEFINE r == [s EXCEPT ![i] = e]
  <1>1. r \in Seq(S) /\ Len(r) = Len(s) /\ i \in 1..Len(r)
    BY ExceptSeq
  <1>2. r[i] = e /\ \A j \in 1..Len(s) : j # i => r[j] = s[j]
    BY ExceptSeq
  <1> HIDE DEF r
  <1>3. r = Spliced(r, i, <<r[i]>>)
    BY <1>1, PartsOfSeq
  <1>4. /\ Before(r, i) \in Seq(S) /\ Len(Before(r, i)) = i - 1
        /\ Behind(r, i) \in Seq(S) /\ Len(Behind(r, i)) = Len(r) - i
        /\ \A k \in 1..i - 1 : Before(r, i)[k] = r[k]
        /\ \A k \in 1..Len(r) - i : Behind(r, i)[k] = r[i + k]
    BY <1>1, PartsOfSeq
  <1>5. /\ Before(s, i) \in Seq(S) /\ Len(Before(s, i)) = i - 1
        /\ Behind(s, i) \in Seq(S) /\ Len(Behind(s, i)) = Len(s) - i
        /\ \A k \in 1..i - 1 : Before(s, i)[k] = s[k]
        /\ \A k \in 1..Len(s) - i : Behind(s, i)[k] = s[i + k]
    BY PartsOfSeq
  <1>6. Len(s) \in Nat /\ i \in Nat
    OBVIOUS
  <1>7. \A k \in 1..i - 1 : k \in 1..Len(s) /\ k # i
    BY <1>6
  <1>8. \A k \in 1..Len(s) - i : i + k \in 1..Len(s) /\ i + k # i
    BY <1>6
  <1>9. \A k \in 1..i - 1 : Before(r, i)[k] = Before(s, i)[k]
    BY <1>2, <1>4, <1>5, <1>7
  <1>10. \A k \in 1..Len(s) - i : Behind(r, i)[k] = Behind(s, i)[k]
    BY <1>1, <1>2, <1>4, <1>5, <1>8
  <1>11. Before(r, i) = Before(s, i)
    BY <1>4, <1>5, <1>9, SeqEqual
  <1>12. Behind(r, i) = Behind(s, i)
    <2> DEFINE a == Behind(r, i)  b == Behind(s, i)
    <2>1. a \in Seq(S) /\ b \in Seq(S) /\ Len(a) = Len(s) - i /\ Len(b) = Len(s) - i
      BY <1>1, <1>4, <1>5
    <2>2. \A k \in 1..Len(s) - i : a[k] = b[k]
      BY <1>10
    <2> HIDE DEF a, b
    <2>3. a = b
      BY <2>1, <2>2, SeqEqual
    <2> QED  BY <2>3 DEF a, b
  <1> QED  BY <1>2, <1>3, <1>11, <1>12 DEF Spliced, r

-----------------------------------------------------------------------------
\* The merged lists.

Items == Widgets \cup Files

Places == Tree!Places

Existing(t) == {p \in Places : t[p] # Absent}

IsDepth(t, d) ==
    /\ d \in [Places -> 0..DepthLimit]
    /\ \A p \in Existing(t) : \A i \in 1..Len(t[p]) :
          t[p][i] \in Files => t[p][i] \in Existing(t) /\ d[t[p][i]] < d[p]

IsTree(t) ==
    /\ t \in [Places -> Seq(Items) \cup {Absent}]
    /\ \A l \in Lists : t[l] # Absent

TreeLoads(t) == IsTree(t) /\ \E d : IsDepth(t, d)

LEMMA PlacesAre == Places = Lists \cup Files /\ Lists \cap Files = {} /\ Widgets \cap Files = {}
                   /\ DepthLimit \in Nat /\ Absent \notin Seq(Items)
  BY ListsAssumption DEF Tree!TreeAssumption, Places, Tree!Places, Items

LEMMA TextIs == ASSUME NEW t, IsTree(t), NEW p \in Existing(t) PROVE t[p] \in Seq(Items)
  BY DEF IsTree, Existing

LEMMA DepthInduct ==
    ASSUME NEW t, NEW d, IsDepth(t, d), IsTree(t), NEW Z,
           \A p \in Existing(t) :
               (\A i \in 1..Len(t[p]) : t[p][i] \in Files => t[p][i] \in Z) => p \in Z
    PROVE  Existing(t) \subseteq Z
  <1> DEFINE N == {n \in Nat : \A p \in Existing(t) : d[p] < n => p \in Z}
  <1>0. \A p \in Existing(t) : d[p] \in Nat /\ d[p] \in 0..DepthLimit
    BY PlacesAre DEF IsDepth, Existing
  <1>1. 0 \in N
    BY <1>0
  <1>2. ASSUME NEW n \in Nat, n \in N PROVE n + 1 \in N
    <2> SUFFICES ASSUME NEW p \in Existing(t), d[p] < n + 1 PROVE p \in Z
      OBVIOUS
    <2>1. ASSUME NEW i \in 1..Len(t[p]), t[p][i] \in Files PROVE t[p][i] \in Z
      <3>1. t[p][i] \in Existing(t) /\ d[t[p][i]] < d[p]
        BY <2>1 DEF IsDepth
      <3>2. d[t[p][i]] < n
        BY <1>0, <3>1
      <3> QED  BY <1>2, <3>1, <3>2
    <2> QED  BY <2>1
  <1> HIDE DEF N
  <1>3. Nat \subseteq N
    BY <1>1, <1>2, NatInduct
  <1>4. ASSUME NEW p \in Existing(t) PROVE p \in Z
    <2>1. d[p] + 1 \in N /\ d[p] < d[p] + 1
      BY <1>0, <1>3
    <2> QED  BY <2>1 DEF N
  <1> QED  BY <1>4

LEMMA TreeFlattens == ASSUME NEW s PROVE Tree!FlattenSeq(s) = FlattenSeq(s)
  BY DEF Tree!FlattenSeq, FlattenSeq

\* One level of expandWidgetSlots.
LowerCells(t, inside, k, p) ==
    [i \in 1..Len(t[p]) |->
        IF Tree!Expands(t, t[p][i], k) THEN Tree!FirstKnows(inside[t[p][i]], t[p][i], p, i)
        ELSE <<Tree!Slot(t, p, i)>>]

Lower(t, inside, k) == [p \in Existing(t) |-> FlattenSeq(LowerCells(t, inside, k, p))]

ExpandsTo(t, n, u) == u = [k \in 0..n |-> Lower(t, u[k - 1], k)]

LEMMA SlotsIs ==
    ASSUME NEW t
    PROVE  Tree!Slots(t) = (CHOOSE u : ExpandsTo(t, DepthLimit, u))[DepthLimit]
  BY DEF Tree!Slots, ExpandsTo, Lower, LowerCells, Existing, Tree!FlattenSeq, FlattenSeq, Places

LEMMA LowestIs ==
    ASSUME NEW t, NEW x, NEW y PROVE Lower(t, x, 0) = Lower(t, y, 0)
  <1>1. \A e : ~Tree!Expands(t, e, 0)
    BY DEF Tree!Expands
  <1>2. \A p : LowerCells(t, x, 0, p) = LowerCells(t, y, 0, p)
    BY <1>1 DEF LowerCells
  <1> QED  BY <1>2 DEF Lower

LEMMA ExpandsSay ==
    ASSUME NEW t, NEW n, NEW u
    PROVE  ExpandsTo(t, n, u) <=>
           u = [k \in 0..n |-> u[k]] /\ \A k \in 0..n : u[k] = Lower(t, u[k - 1], k)
  BY DEF ExpandsTo

LEMMA ExpandEnds == ASSUME NEW t PROVE \A n \in Nat : \E u : ExpandsTo(t, n, u)
  <1> DEFINE Z == {n \in Nat : \E u : ExpandsTo(t, n, u)}
  <1>1. 0 \in Z
    <2> DEFINE u == [k \in 0..0 |-> Lower(t, {}, 0)]
    <2>1. u[0] = Lower(t, {}, 0) /\ u = [k \in 0..0 |-> u[k]]
      OBVIOUS
    <2>2. \A k \in 0..0 : k = 0
      OBVIOUS
    <2> HIDE DEF u
    <2>3. u[0] = Lower(t, u[0 - 1], 0)
      BY <2>1, LowestIs
    <2>4. ExpandsTo(t, 0, u)
      BY <2>1, <2>2, <2>3, ExpandsSay
    <2> QED  BY <2>4
  <1>2. ASSUME NEW n \in Nat, n \in Z PROVE n + 1 \in Z
    <2>1. PICK v : ExpandsTo(t, n, v)
      BY <1>2
    <2>2. \A k \in 0..n : v[k] = Lower(t, v[k - 1], k)
      BY <2>1, ExpandsSay
    <2> DEFINE x == Lower(t, v[n], n + 1)
               u == [k \in 0..n + 1 |-> IF k = n + 1 THEN x ELSE v[k]]
    <2> HIDE DEF x
    <2>3. (\A k \in 0..n : u[k] = v[k]) /\ u[n + 1] = x /\ u = [k \in 0..n + 1 |-> u[k]]
      OBVIOUS
    <2> HIDE DEF u
    <2>4. ASSUME NEW k \in 0..n + 1 PROVE u[k] = Lower(t, u[k - 1], k)
      <3>1. CASE k = n + 1
        <4>1. k - 1 = n /\ n \in 0..n
          BY <3>1
        <4> QED  BY <2>3, <3>1, <4>1 DEF x
      <3>2. CASE k = 0
        <4>1. 0 \in 0..n
          OBVIOUS
        <4>2. u[0] = Lower(t, v[0 - 1], 0)
          BY <2>2, <2>3, <4>1
        <4> QED  BY <3>2, <4>2, LowestIs
      <3>3. CASE k # n + 1 /\ k # 0
        <4>1. k \in 0..n /\ k - 1 \in 0..n
          BY <3>3
        <4> QED  BY <2>2, <2>3, <4>1
      <3> QED  BY <3>1, <3>2, <3>3
    <2>5. ExpandsTo(t, n + 1, u)
      BY <2>3, <2>4, ExpandsSay
    <2> QED  BY <2>5
  <1> HIDE DEF Z
  <1>3. Nat \subseteq Z
    BY <1>1, <1>2, NatInduct
  <1> QED  BY <1>3 DEF Z

Likewise(t, p, x, j, y, k) ==
    \A i \in 1..Len(t[p]) :
        /\ Tree!Expands(t, t[p][i], j) <=> Tree!Expands(t, t[p][i], k)
        /\ Tree!Expands(t, t[p][i], j) => x[t[p][i]] = y[t[p][i]]

LEMMA LowerSame ==
    ASSUME NEW t, NEW x, NEW y, NEW j, NEW k, NEW p \in Existing(t), Likewise(t, p, x, j, y, k)
    PROVE  Lower(t, x, j)[p] = Lower(t, y, k)[p]
  <1>1. \A i \in 1..Len(t[p]) :
           (IF Tree!Expands(t, t[p][i], j) THEN Tree!FirstKnows(x[t[p][i]], t[p][i], p, i)
            ELSE <<Tree!Slot(t, p, i)>>) =
           (IF Tree!Expands(t, t[p][i], k) THEN Tree!FirstKnows(y[t[p][i]], t[p][i], p, i)
            ELSE <<Tree!Slot(t, p, i)>>)
    BY DEF Likewise
  <1>2. LowerCells(t, x, j, p) = LowerCells(t, y, k, p)
    BY <1>1 DEF LowerCells
  <1> QED  BY <1>2 DEF Lower

\* Where no include is nested deeper than d says, more levels make no difference.
LEMMA LevelsSettle ==
    ASSUME NEW t, IsTree(t), NEW d, IsDepth(t, d), NEW u, ExpandsTo(t, DepthLimit, u)
    PROVE  \A n \in Nat : \A p \in Existing(t) :
              d[p] <= n /\ n + 1 <= DepthLimit => u[n + 1][p] = u[n][p]
  <1> DEFINE Z == {n \in Nat : \A p \in Existing(t) :
                      d[p] <= n /\ n + 1 <= DepthLimit => u[n + 1][p] = u[n][p]}
  <1>0. \A k \in 0..DepthLimit : u[k] = Lower(t, u[k - 1], k)
    BY ExpandsSay
  <1>1. DepthLimit \in Nat /\ \A p \in Existing(t) : d[p] \in Nat
    BY PlacesAre DEF IsDepth, Existing
  <1>2. ASSUME NEW n \in Nat, n > 0 => n - 1 \in Z PROVE n \in Z
    <2> SUFFICES ASSUME NEW p \in Existing(t), d[p] <= n, n + 1 <= DepthLimit
                 PROVE  u[n + 1][p] = u[n][p]
      OBVIOUS
    <2>1. n + 1 \in 0..DepthLimit /\ n \in 0..DepthLimit /\ (n + 1) - 1 = n
      BY <1>1
    <2>2. u[n + 1] = Lower(t, u[n], n + 1) /\ u[n] = Lower(t, u[n - 1], n)
      BY <1>0, <2>1
    <2>3. ASSUME NEW i \in 1..Len(t[p])
          PROVE  /\ Tree!Expands(t, t[p][i], n + 1) <=> Tree!Expands(t, t[p][i], n)
                 /\ Tree!Expands(t, t[p][i], n + 1) => u[n][t[p][i]] = u[n - 1][t[p][i]]
      <3>1. CASE t[p][i] \notin Files
        BY <3>1 DEF Tree!Expands
      <3>2. CASE t[p][i] \in Files
        <4> DEFINE e == t[p][i]
        <4>1. e \in Existing(t) /\ d[e] < d[p]
          BY <3>2 DEF IsDepth
        <4>2. n > 0 /\ n - 1 \in Nat /\ d[e] <= n - 1 /\ (n - 1) + 1 = n /\ (n - 1) + 1 <= DepthLimit
          BY <1>1, <4>1
        <4>3. u[n][e] = u[n - 1][e]
          BY <1>2, <4>1, <4>2
        <4>4. Tree!Expands(t, e, n + 1) /\ Tree!Expands(t, e, n)
          BY <3>2, <4>1, <4>2 DEF Tree!Expands, Existing
        <4> QED  BY <4>3, <4>4
      <3> QED  BY <3>1, <3>2
    <2>4. Lower(t, u[n], n + 1)[p] = Lower(t, u[n - 1], n)[p]
      <3>1. Likewise(t, p, u[n], n + 1, u[n - 1], n)
        BY <2>3 DEF Likewise
      <3> QED  BY <3>1, LowerSame
    <2> QED  BY <2>2, <2>4
  <1>3. 0 \in Z
    BY <1>2
  <1>4. ASSUME NEW n \in Nat, n \in Z PROVE n + 1 \in Z
    <2>1. n + 1 \in Nat /\ (n + 1) - 1 = n
      OBVIOUS
    <2> HIDE DEF Z
    <2> QED  BY <1>2, <1>4, <2>1
  <1> HIDE DEF Z
  <1>5. Nat \subseteq Z
    BY <1>3, <1>4, NatInduct
  <1> QED  BY <1>5 DEF Z

SlotCells(t, S, p) ==
    [i \in 1..Len(t[p]) |->
        IF t[p][i] \in Files THEN Tree!FirstKnows(S[t[p][i]], t[p][i], p, i)
        ELSE <<Tree!Slot(t, p, i)>>]

\* The slots of a place are those of its entries.
LEMMA SlotsAre ==
    ASSUME NEW t, TreeLoads(t), NEW p \in Existing(t)
    PROVE  Tree!Slots(t)[p] = FlattenSeq(SlotCells(t, Tree!Slots(t), p))
  <1> DEFINE u == CHOOSE x : ExpandsTo(t, DepthLimit, x)
             D == DepthLimit
  <1>0. D \in Nat
    BY PlacesAre
  <1>1. ExpandsTo(t, D, u) /\ Tree!Slots(t) = u[D]
    BY <1>0, ExpandEnds, SlotsIs
  <1> HIDE DEF u
  <1>2. IsTree(t)
    BY DEF TreeLoads
  <1>3. PICK d : IsDepth(t, d)
    BY DEF TreeLoads
  <1>4. u[D] = Lower(t, u[D - 1], D)
    BY <1>0, <1>1, ExpandsSay
  <1>5. \A q \in Existing(t) : d[q] \in 0..D
    BY <1>3 DEF IsDepth, Existing
  <1>6. ASSUME NEW i \in 1..Len(t[p]), t[p][i] \in Files
        PROVE  Tree!Expands(t, t[p][i], D) /\ u[D - 1][t[p][i]] = u[D][t[p][i]]
    <2> DEFINE e == t[p][i]
    <2>1. e \in Existing(t) /\ d[e] < d[p]
      BY <1>3, <1>6 DEF IsDepth
    <2>2. D > 0 /\ D - 1 \in Nat /\ d[e] <= D - 1 /\ (D - 1) + 1 = D /\ (D - 1) + 1 <= D
      BY <1>0, <1>5, <2>1
    <2>3. \A n \in Nat : \A q \in Existing(t) : d[q] <= n /\ n + 1 <= DepthLimit => u[n + 1][q] = u[n][q]
      BY <1>1, <1>2, <1>3, LevelsSettle
    <2>4. u[D][e] = u[D - 1][e]
      BY <2>1, <2>2, <2>3
    <2>5. Tree!Expands(t, e, D)
      BY <1>6, <2>1, <2>2 DEF Tree!Expands, Existing
    <2> QED  BY <2>4, <2>5
  <1>7. ASSUME NEW i \in 1..Len(t[p]), t[p][i] \notin Files PROVE ~Tree!Expands(t, t[p][i], D)
    BY <1>7 DEF Tree!Expands
  <1>8. LowerCells(t, u[D - 1], D, p) = SlotCells(t, u[D], p)
    BY <1>6, <1>7 DEF LowerCells, SlotCells
  <1>9. u[D][p] = FlattenSeq(LowerCells(t, u[D - 1], D, p))
    BY <1>4 DEF Lower
  <1> QED  BY <1>1, <1>8, <1>9

\* What is known of a slot: where its widget is written, and if it is the first
\* of an included file, where that is included.
SlotsOf(t) ==
    {s \in [node : Widgets, seq : Places, index : Nat, outer : Places, outerIdx : Nat] :
        /\ s.seq \in Existing(t) /\ s.index \in 1..Len(t[s.seq]) /\ s.node = t[s.seq][s.index]
        /\ s.outer \in Existing(t) /\ s.outerIdx \in 1..Len(t[s.outer])
        /\ \/ s.outer = s.seq /\ s.outerIdx = s.index
           \/ s.index = 1 /\ s.seq \in Files /\ t[s.outer][s.outerIdx] = s.seq}

LEMMA SlotIsKnown ==
    ASSUME NEW t, IsTree(t), NEW p \in Existing(t), NEW i \in 1..Len(t[p]), t[p][i] \notin Files
    PROVE  Tree!Slot(t, p, i) \in SlotsOf(t) /\ Tree!Slot(t, p, i).node = t[p][i]
  <1>1. t[p] \in Seq(Items) /\ p \in Places
    BY TextIs DEF Existing
  <1>2. t[p][i] \in Widgets /\ i \in Nat
    BY <1>1, ElementOfSeq DEF Items
  <1> QED  BY <1>1, <1>2 DEF Tree!Slot, SlotsOf

LEMMA FirstIsKnown ==
    ASSUME NEW t, IsTree(t), NEW p \in Existing(t), NEW i \in 1..Len(t[p]), t[p][i] \in Files,
           NEW ss \in Seq(SlotsOf(t))
    PROVE  /\ Tree!FirstKnows(ss, t[p][i], p, i) \in Seq(SlotsOf(t))
           /\ Len(Tree!FirstKnows(ss, t[p][i], p, i)) = Len(ss)
           /\ \A n \in 1..Len(ss) : Tree!FirstKnows(ss, t[p][i], p, i)[n].node = ss[n].node
  <1> DEFINE f == t[p][i]
             r == Tree!FirstKnows(ss, f, p, i)
  <1>0. Len(ss) \in Nat /\ p \in Places /\ i \in Nat
    BY DEF Existing
  <1>1. r = [n \in 1..Len(ss) |-> r[n]] /\ DOMAIN r = 1..Len(ss)
    BY DEF Tree!FirstKnows
  <1>2. ASSUME NEW n \in 1..Len(ss) PROVE r[n] \in SlotsOf(t) /\ r[n].node = ss[n].node
    <2>1. ss[n] \in SlotsOf(t)
      BY ElementOfSeq
    <2>2. CASE ss[n].seq = f /\ ss[n].index = 1
      <3>1. r[n] = [ss[n] EXCEPT !.outer = p, !.outerIdx = i]
        BY <2>2 DEF Tree!FirstKnows
      <3>2. /\ ss[n] \in [node : Widgets, seq : Places, index : Nat, outer : Places, outerIdx : Nat]
            /\ ss[n].seq \in Existing(t) /\ ss[n].index \in 1..Len(t[ss[n].seq])
            /\ ss[n].node = t[ss[n].seq][ss[n].index]
        BY <2>1 DEF SlotsOf
      <3>3. /\ r[n] \in [node : Widgets, seq : Places, index : Nat, outer : Places, outerIdx : Nat]
            /\ r[n].node = ss[n].node /\ r[n].seq = ss[n].seq /\ r[n].index = ss[n].index
            /\ r[n].outer = p /\ r[n].outerIdx = i
        BY <1>0, <3>1, <3>2
      <3> HIDE DEF r
      <3> QED  BY <2>2, <3>2, <3>3 DEF SlotsOf
    <2>3. CASE ~(ss[n].seq = f /\ ss[n].index = 1)
      <3>1. r[n] = ss[n]
        BY <2>3 DEF Tree!FirstKnows
      <3> QED  BY <2>1, <3>1
    <2> QED  BY <2>2, <2>3
  <1> HIDE DEF r
  <1>3. r \in [1..Len(ss) -> SlotsOf(t)]
    BY <1>1, <1>2
  <1>4. r \in Seq(SlotsOf(t))
    BY <1>0, <1>3, SeqDef
  <1>5. Len(r) = Len(ss)
    BY <1>0, <1>1, <1>4
  <1> QED  BY <1>2, <1>4, <1>5 DEF r

LEMMA SlotsAreKnown ==
    ASSUME NEW t, TreeLoads(t)
    PROVE  \A p \in Existing(t) :
              /\ SlotCells(t, Tree!Slots(t), p) \in Seq(Seq(SlotsOf(t)))
              /\ Tree!Slots(t)[p] \in Seq(SlotsOf(t))
  <1> DEFINE S == Tree!Slots(t)
             Good(p) == SlotCells(t, S, p) \in Seq(Seq(SlotsOf(t))) /\ S[p] \in Seq(SlotsOf(t))
             Z == {p \in Existing(t) : Good(p)}
  <1>1. IsTree(t)
    BY DEF TreeLoads
  <1>2. PICK d : IsDepth(t, d)
    BY DEF TreeLoads
  <1>3. ASSUME NEW p \in Existing(t), \A i \in 1..Len(t[p]) : t[p][i] \in Files => t[p][i] \in Z
        PROVE  p \in Z
    <2>1. ASSUME NEW i \in 1..Len(t[p]) PROVE SlotCells(t, S, p)[i] \in Seq(SlotsOf(t))
      <3>1. CASE t[p][i] \in Files
        <4>1. S[t[p][i]] \in Seq(SlotsOf(t))
          BY <1>3, <3>1
        <4>2. SlotCells(t, S, p)[i] = Tree!FirstKnows(S[t[p][i]], t[p][i], p, i)
          BY <3>1 DEF SlotCells
        <4> HIDE DEF S
        <4> QED  BY <1>1, <3>1, <4>1, <4>2, FirstIsKnown
      <3>2. CASE t[p][i] \notin Files
        <4>1. SlotCells(t, S, p)[i] = <<Tree!Slot(t, p, i)>>
          BY <3>2 DEF SlotCells
        <4>2. Tree!Slot(t, p, i) \in SlotsOf(t)
          BY <1>1, <3>2, SlotIsKnown
        <4> QED  BY <4>1, <4>2
      <3> QED  BY <3>1, <3>2
    <2>2. t[p] \in Seq(Items)
      BY <1>1, TextIs
    <2>3. Len(t[p]) \in Nat
      BY <2>2
    <2>4. SlotCells(t, S, p) = [i \in 1..Len(t[p]) |-> SlotCells(t, S, p)[i]]
      BY DEF SlotCells
    <2>5. SlotCells(t, S, p) \in [1..Len(t[p]) -> Seq(SlotsOf(t))]
      <3> HIDE DEF S
      <3> QED  BY <2>1, <2>4
    <2>6. SlotCells(t, S, p) \in Seq(Seq(SlotsOf(t)))
      BY <2>3, <2>5, SeqDef
    <2>7. S[p] = FlattenSeq(SlotCells(t, S, p))
      BY SlotsAre
    <2>8. S[p] \in Seq(SlotsOf(t))
      <3> HIDE DEF S
      <3> QED  BY <2>6, <2>7, FlattenType
    <2> QED  BY <2>6, <2>8
  <1> HIDE DEF Z
  <1>4. Existing(t) \subseteq Z
    BY <1>1, <1>2, <1>3, DepthInduct
  <1> QED  BY <1>4 DEF Z

-----------------------------------------------------------------------------
\* What is shown of a place is made of what is shown of its entries, and there is
\* but one way.

Nodes(s) == [n \in 1..Len(s) |-> s[n].node]

Shown(t) == [p \in Places |-> IF p \in Existing(t) THEN Nodes(Tree!Slots(t)[p]) ELSE << >>]

Cell(F) == [e \in Items |-> IF e \in Files THEN F[e] ELSE <<e>>]

Solves(F, t) ==
    /\ F \in [Places -> Seq(Widgets)]
    /\ \A p \in Existing(t) : F[p] = Flat(Cell(F), t[p])

LEMMA CellType ==
    ASSUME NEW F, F \in [Places -> Seq(Widgets)]
    PROVE  /\ Cell(F) \in Cells(Items, Widgets)
           /\ \A f \in Files : Cell(F)[f] = F[f] /\ F[f] \in Seq(Widgets)
           /\ \A w \in Widgets : Cell(F)[w] = <<w>>
  <1>1. \A f \in Files : f \in Items /\ F[f] \in Seq(Widgets)
    BY PlacesAre DEF Items
  <1>2. \A w \in Widgets : w \in Items /\ w \notin Files /\ <<w>> \in Seq(Widgets)
    BY PlacesAre DEF Items
  <1>3. \A e \in Items : e \in Files \/ e \in Widgets
    BY DEF Items
  <1>4. \A e \in Items : (IF e \in Files THEN F[e] ELSE <<e>>) \in Seq(Widgets)
    BY <1>1, <1>2, <1>3
  <1> QED  BY <1>1, <1>2, <1>4 DEF Cell, Cells

LEMMA NodesType ==
    ASSUME NEW t, NEW s \in Seq(SlotsOf(t))
    PROVE  Nodes(s) \in Seq(Widgets) /\ Len(Nodes(s)) = Len(s)
  <1>1. \A n \in 1..Len(s) : s[n].node \in Widgets
    BY ElementOfSeq DEF SlotsOf
  <1>2. Len(s) \in Nat
    OBVIOUS
  <1>3. Nodes(s) \in [1..Len(s) -> Widgets]
    BY <1>1 DEF Nodes
  <1>4. Nodes(s) \in Seq(Widgets)
    BY <1>2, <1>3, SeqDef
  <1> QED  BY <1>2, <1>4 DEF Nodes

LEMMA NodesConcat ==
    ASSUME NEW t, NEW a \in Seq(SlotsOf(t)), NEW b \in Seq(SlotsOf(t))
    PROVE  Nodes(a \o b) = Nodes(a) \o Nodes(b)
  <1>0. Len(a) \in Nat /\ Len(b) \in Nat
    OBVIOUS
  <1>1. /\ a \o b \in Seq(SlotsOf(t)) /\ Len(a \o b) = Len(a) + Len(b)
        /\ \A i \in 1..Len(a) + Len(b) : (a \o b)[i] = IF i <= Len(a) THEN a[i] ELSE b[i - Len(a)]
    BY ConcatProperties
  <1>2. /\ Nodes(a) \in Seq(Widgets) /\ Len(Nodes(a)) = Len(a)
        /\ Nodes(b) \in Seq(Widgets) /\ Len(Nodes(b)) = Len(b)
    BY NodesType
  <1>3. Nodes(a \o b) \in Seq(Widgets) /\ Len(Nodes(a \o b)) = Len(a) + Len(b)
    BY <1>1, NodesType
  <1>4. /\ Nodes(a) \o Nodes(b) \in Seq(Widgets) /\ Len(Nodes(a) \o Nodes(b)) = Len(a) + Len(b)
        /\ \A i \in 1..Len(a) + Len(b) :
              (Nodes(a) \o Nodes(b))[i] = IF i <= Len(a) THEN Nodes(a)[i] ELSE Nodes(b)[i - Len(a)]
    <2> DEFINE x == Nodes(a)  y == Nodes(b)
    <2>1. x \in Seq(Widgets) /\ Len(x) = Len(a) /\ y \in Seq(Widgets) /\ Len(y) = Len(b)
      BY <1>2
    <2> HIDE DEF x, y
    <2>2. /\ x \o y \in Seq(Widgets) /\ Len(x \o y) = Len(x) + Len(y)
          /\ \A i \in 1..Len(x) + Len(y) : (x \o y)[i] = IF i <= Len(x) THEN x[i] ELSE y[i - Len(x)]
      BY <2>1, ConcatProperties
    <2> QED  BY <2>1, <2>2 DEF x, y
  <1>5. ASSUME NEW i \in 1..Len(a) + Len(b) PROVE Nodes(a \o b)[i] = (Nodes(a) \o Nodes(b))[i]
    <2>1. Nodes(a \o b)[i] = (a \o b)[i].node
      BY <1>1 DEF Nodes
    <2>2. CASE i <= Len(a)
      <3>1. i \in 1..Len(a)
        BY <1>0, <2>2
      <3>2. Nodes(a)[i] = a[i].node
        BY <3>1 DEF Nodes
      <3> QED  BY <1>1, <1>4, <2>1, <2>2, <3>2
    <2>3. CASE ~(i <= Len(a))
      <3>1. i - Len(a) \in 1..Len(b)
        BY <1>0, <2>3
      <3>2. Nodes(b)[i - Len(a)] = b[i - Len(a)].node
        BY <3>1 DEF Nodes
      <3> QED  BY <1>1, <1>4, <2>1, <2>3, <3>2
    <2> QED  BY <2>2, <2>3
  <1> QED  BY <1>3, <1>4, <1>5, SeqEqual

LEMMA NodesFlatten ==
    ASSUME NEW t, NEW ss \in Seq(Seq(SlotsOf(t)))
    PROVE  Nodes(FlattenSeq(ss)) = FlattenSeq([i \in 1..Len(ss) |-> Nodes(ss[i])])
  <1> DEFINE R == Seq(SlotsOf(t))
             N == [s \in R |-> Nodes(s)]
             Z == {x \in Seq(R) : Nodes(FlattenSeq(x)) = Flat(N, x)}
  <1>0. N \in Cells(R, Widgets) /\ \A s \in R : N[s] = Nodes(s)
    BY NodesType DEF Cells
  <1>1. << >> \in Z
    <2>1. Nodes(<< >>) = << >>
      BY DEF Nodes
    <2> QED  BY <2>1, FlatEmpty, FlattenEmpty, EmptySeq
  <1>2. ASSUME NEW x \in Seq(R), NEW e \in R, x \in Z PROVE Append(x, e) \in Z
    <2>0. Append(x, e) \in Seq(R)
      OBVIOUS
    <2> HIDE DEF N
    <2>1. Flat(N, Append(x, e)) = Flat(N, x) \o N[e]
      BY <1>0, FlatAppend
    <2>2. FlattenSeq(x) \in Seq(SlotsOf(t))
      BY FlattenType
    <2>3. FlattenSeq(Append(x, e)) = FlattenSeq(x) \o e
      BY <2>2, FlattenAppend
    <2>4. Nodes(FlattenSeq(x) \o e) = Nodes(FlattenSeq(x)) \o Nodes(e)
      BY <2>2, NodesConcat
    <2> QED  BY <1>0, <1>2, <2>0, <2>1, <2>3, <2>4
  <1>3. Seq(R) \subseteq Z
    <2> HIDE DEF Z, R
    <2> QED  BY <1>1, <1>2, SeqInduct
  <1>4. [i \in 1..Len(ss) |-> N[ss[i]]] = [i \in 1..Len(ss) |-> Nodes(ss[i])]
    BY ElementOfSeq
  <1> QED  BY <1>3, <1>4 DEF Flat

LEMMA ShownType ==
    ASSUME NEW t, TreeLoads(t) PROVE Shown(t) \in [Places -> Seq(Widgets)]
  <1>1. ASSUME NEW p \in Existing(t) PROVE Nodes(Tree!Slots(t)[p]) \in Seq(Widgets)
    BY SlotsAreKnown, NodesType
  <1>2. << >> \in Seq(Widgets)
    OBVIOUS
  <1> QED  BY <1>1, <1>2 DEF Shown

LEMMA ShownSolves ==
    ASSUME NEW t, TreeLoads(t) PROVE Solves(Shown(t), t)
  <1> DEFINE F == Shown(t)
             S == Tree!Slots(t)
  <1>1. F \in [Places -> Seq(Widgets)]
    BY ShownType
  <1>2. IsTree(t) /\ \E d : IsDepth(t, d)
    BY DEF TreeLoads
  <1>3. ASSUME NEW p \in Existing(t) PROVE F[p] = Flat(Cell(F), t[p])
    <2>1. /\ SlotCells(t, S, p) \in Seq(Seq(SlotsOf(t)))
          /\ S[p] = FlattenSeq(SlotCells(t, S, p))
      BY SlotsAreKnown, SlotsAre
    <2>2. t[p] \in Seq(Items) /\ Len(t[p]) \in Nat
      BY <1>2, TextIs
    <2>3. Len(SlotCells(t, S, p)) = Len(t[p])
      BY <2>2 DEF SlotCells
    <2>4. ASSUME NEW i \in 1..Len(t[p]) PROVE Nodes(SlotCells(t, S, p)[i]) = Cell(F)[t[p][i]]
      <3>0. t[p][i] \in Items
        BY <2>2, ElementOfSeq
      <3>1. CASE t[p][i] \in Files
        <4> DEFINE e == t[p][i]
                   r == Tree!FirstKnows(S[e], e, p, i)
        <4>1. e \in Existing(t) /\ e \in Places
          BY <1>2, <3>1, PlacesAre DEF IsDepth
        <4>2. S[e] \in Seq(SlotsOf(t))
          BY <4>1, SlotsAreKnown
        <4>3. Len(r) = Len(S[e]) /\ \A n \in 1..Len(S[e]) : r[n].node = S[e][n].node
          <5> HIDE DEF S
          <5> QED  BY <1>2, <3>1, <4>2, FirstIsKnown
        <4>4. Nodes(r) = Nodes(S[e])
          <5> HIDE DEF S, r
          <5> QED  BY <4>3 DEF Nodes
        <4>5. SlotCells(t, S, p)[i] = r
          BY <3>1 DEF SlotCells
        <4>6. Cell(F)[e] = F[e]
          BY <3>0, <3>1 DEF Cell
        <4>7. F[e] = Nodes(S[e])
          BY <4>1 DEF Shown
        <4> QED  BY <4>4, <4>5, <4>6, <4>7
      <3>2. CASE t[p][i] \notin Files
        <4>1. SlotCells(t, S, p)[i] = <<Tree!Slot(t, p, i)>> /\ Cell(F)[t[p][i]] = <<t[p][i]>>
          BY <3>0, <3>2 DEF SlotCells, Cell
        <4>2. Tree!Slot(t, p, i).node = t[p][i]
          BY <1>2, <3>2, SlotIsKnown
        <4>3. ASSUME NEW s PROVE Nodes(<<s>>) = <<s.node>>
          BY DEF Nodes
        <4> QED  BY <4>1, <4>2, <4>3
      <3> QED  BY <3>1, <3>2
    <2>5. Nodes(FlattenSeq(SlotCells(t, S, p))) =
              FlattenSeq([i \in 1..Len(SlotCells(t, S, p)) |-> Nodes(SlotCells(t, S, p)[i])])
      BY <2>1, NodesFlatten
    <2>6. [i \in 1..Len(SlotCells(t, S, p)) |-> Nodes(SlotCells(t, S, p)[i])] =
              [i \in 1..Len(t[p]) |-> Cell(F)[t[p][i]]]
      <3> HIDE DEF S, F
      <3> QED  BY <2>3, <2>4
    <2>7. F[p] = Nodes(S[p])
      BY DEF Shown, Existing
    <2> QED  BY <2>1, <2>5, <2>6, <2>7 DEF Flat
  <1> QED  BY <1>1, <1>3 DEF Solves

LEMMA OneSolution ==
    ASSUME NEW t, TreeLoads(t), NEW F, Solves(F, t), NEW G, Solves(G, t)
    PROVE  \A p \in Existing(t) : F[p] = G[p]
  <1> DEFINE Z == {p \in Existing(t) : F[p] = G[p]}
  <1>1. IsTree(t)
    BY DEF TreeLoads
  <1>2. PICK d : IsDepth(t, d)
    BY DEF TreeLoads
  <1>3. ASSUME NEW p \in Existing(t), \A i \in 1..Len(t[p]) : t[p][i] \in Files => t[p][i] \in Z
        PROVE  p \in Z
    <2>1. t[p] \in Seq(Items)
      BY <1>1, TextIs
    <2>2. ASSUME NEW i \in 1..Len(t[p]) PROVE Cell(F)[t[p][i]] = Cell(G)[t[p][i]]
      <3>1. t[p][i] \in Items
        BY <2>1, ElementOfSeq
      <3> QED  BY <1>3, <3>1 DEF Cell
    <2>3. Flat(Cell(F), t[p]) = Flat(Cell(G), t[p])
      BY <2>2, FlatSame
    <2> QED  BY <2>3 DEF Solves
  <1> HIDE DEF Z
  <1>4. Existing(t) \subseteq Z
    BY <1>1, <1>2, <1>3, DepthInduct
  <1> QED  BY <1>4 DEF Z

LEMMA ShownIs ==
    ASSUME NEW t, TreeLoads(t), NEW G, Solves(G, t)
    PROVE  \A p \in Existing(t) : Shown(t)[p] = G[p]
  BY ShownSolves, OneSolution

-----------------------------------------------------------------------------
\* Every widget and every include is written once, so that every widget is shown
\* once.

WrittenOnce(t) ==
    \A p, q \in Existing(t) : \A i \in 1..Len(t[p]), j \in 1..Len(t[q]) :
        t[p][i] = t[q][j] => p = q /\ i = j

Closed(t, Z) ==
    \A r \in Existing(t) : r \in Z => \A i \in 1..Len(t[r]) : t[r][i] \in Files => t[r][i] \in Z

\* The place and what it includes, in one or more steps.
Under(t, p) == {q \in Places : \A Z \in SUBSET Places : p \in Z /\ Closed(t, Z) => q \in Z}

LEMMA UnderIs ==
    ASSUME NEW t, NEW p \in Places
    PROVE  /\ p \in Under(t, p) /\ Under(t, p) \subseteq Places /\ Closed(t, Under(t, p))
           /\ \A Z : p \in Z /\ Closed(t, Z) => Under(t, p) \subseteq Z
  <1>1. Closed(t, Places)
    BY PlacesAre DEF Closed
  <1>2. p \in Under(t, p) /\ Under(t, p) \subseteq Places
    BY DEF Under
  <1>3. ASSUME NEW r \in Existing(t), r \in Under(t, p), NEW i \in 1..Len(t[r]), t[r][i] \in Files
        PROVE  t[r][i] \in Under(t, p)
    <2>1. t[r][i] \in Places
      BY <1>3, PlacesAre
    <2>2. ASSUME NEW Z \in SUBSET Places, p \in Z, Closed(t, Z) PROVE t[r][i] \in Z
      <3>1. r \in Z
        BY <1>3, <2>2 DEF Under
      <3> QED  BY <1>3, <2>2, <3>1 DEF Closed
    <2> QED  BY <2>1, <2>2 DEF Under
  <1>4. ASSUME NEW Z, p \in Z, Closed(t, Z) PROVE Under(t, p) \subseteq Z
    <2> DEFINE Y == Z \cap Places
    <2>1. Closed(t, Y)
      BY <1>1, <1>4 DEF Closed
    <2>2. Y \in SUBSET Places /\ p \in Y
      BY <1>4
    <2>3. \A q \in Under(t, p) : q \in Y
      <3> HIDE DEF Y
      <3> QED  BY <2>1, <2>2 DEF Under
    <2> QED  BY <2>3
  <1>5. Closed(t, Under(t, p))
    BY <1>3 DEF Closed
  <1> QED  BY <1>2, <1>4, <1>5

\* Who is under p and not p is included by somebody under p.
LEMMA UnderHasIncluder ==
    ASSUME NEW t, NEW p \in Places, NEW q \in Under(t, p), q # p
    PROVE  \E r \in Existing(t) : r \in Under(t, p) /\ \E i \in 1..Len(t[r]) : t[r][i] = q /\ q \in Files
  <1> DEFINE In(x) == \E r \in Existing(t) : r \in Under(t, p) /\ \E i \in 1..Len(t[r]) : t[r][i] = x /\ x \in Files
             Z == {x \in Under(t, p) : x = p \/ In(x)}
  <1>1. p \in Z
    BY UnderIs
  <1>2. ASSUME NEW r \in Existing(t), r \in Z, NEW i \in 1..Len(t[r]), t[r][i] \in Files PROVE t[r][i] \in Z
    <2>1. t[r][i] \in Under(t, p)
      BY <1>2, UnderIs DEF Closed
    <2>2. In(t[r][i])
      BY <1>2
    <2> QED  BY <2>1, <2>2
  <1>3. Closed(t, Z)
    BY <1>2 DEF Closed
  <1>4. Under(t, p) \subseteq Z
    <2> HIDE DEF Z
    <2> QED  BY <1>1, <1>3, UnderIs
  <1> QED  BY <1>4

LEMMA UnderIsLower ==
    ASSUME NEW t, NEW d, IsDepth(t, d), NEW p \in Places
    PROVE  \A q \in Under(t, p) : d[q] <= d[p]
  <1> DEFINE Z == {q \in Places : d[q] <= d[p]}
  <1>0. \A q \in Places : d[q] \in Nat
    BY PlacesAre DEF IsDepth
  <1>1. p \in Z
    BY <1>0
  <1>2. ASSUME NEW r \in Existing(t), r \in Z, NEW i \in 1..Len(t[r]), t[r][i] \in Files PROVE t[r][i] \in Z
    <2>1. t[r][i] \in Places /\ d[t[r][i]] < d[r] /\ r \in Places
      BY <1>2, PlacesAre DEF IsDepth, Existing
    <2> QED  BY <1>0, <1>2, <2>1
  <1>3. Closed(t, Z)
    BY <1>2 DEF Closed
  <1>4. Under(t, p) \subseteq Z
    <2> HIDE DEF Z
    <2> QED  BY <1>1, <1>3, UnderIs
  <1> QED  BY <1>4

\* Two places with something under both are one under the other.
LEMMA UnderBoth ==
    ASSUME NEW t, WrittenOnce(t), NEW a \in Places, NEW b \in Places,
           NEW q \in Under(t, a), q \in Under(t, b)
    PROVE  a \in Under(t, b) \/ b \in Under(t, a)
  <1> DEFINE Ordered == a \in Under(t, b) \/ b \in Under(t, a)
             Z == {x \in Under(t, a) : x \in Under(t, b) => Ordered}
  <1>1. a \in Z
    BY UnderIs
  <1>2. ASSUME NEW r \in Existing(t), r \in Z, NEW i \in 1..Len(t[r]), t[r][i] \in Files PROVE t[r][i] \in Z
    <2>1. t[r][i] \in Under(t, a)
      BY <1>2, UnderIs DEF Closed
    <2>2. ASSUME t[r][i] \in Under(t, b) PROVE Ordered
      <3>1. CASE t[r][i] = b
        BY <2>1, <3>1
      <3>2. CASE t[r][i] # b
        <4>1. PICK s \in Existing(t) : s \in Under(t, b) /\ \E j \in 1..Len(t[s]) : t[s][j] = t[r][i]
          BY <2>2, <3>2, UnderHasIncluder
        <4>2. s = r
          BY <4>1 DEF WrittenOnce
        <4> QED  BY <1>2, <4>1, <4>2
      <3> QED  BY <3>1, <3>2
    <2> QED  BY <2>1, <2>2
  <1>3. Closed(t, Z)
    <2> HIDE DEF Z
    <2> QED  BY <1>2 DEF Closed
  <1>4. Under(t, a) \subseteq Z
    <2> HIDE DEF Z
    <2> QED  BY <1>1, <1>3, UnderIs
  <1> QED  BY <1>4

\* What is shown of a place is written under it.
LEMMA ShownIsWritten ==
    ASSUME NEW t, TreeLoads(t), NEW F, Solves(F, t), NEW x
    PROVE  \A p \in Existing(t) : Has(F[p], x) =>
              \E q \in Existing(t) : q \in Under(t, p) /\ \E i \in 1..Len(t[q]) : t[q][i] = x /\ x \in Widgets
  <1> DEFINE In(p) == \E q \in Existing(t) : q \in Under(t, p) /\ \E i \in 1..Len(t[q]) : t[q][i] = x /\ x \in Widgets
             Z == {p \in Existing(t) : Has(F[p], x) => In(p)}
  <1>1. IsTree(t) /\ F \in [Places -> Seq(Widgets)]
    BY DEF TreeLoads, Solves
  <1>2. PICK d : IsDepth(t, d)
    BY DEF TreeLoads
  <1>3. ASSUME NEW p \in Existing(t), \A i \in 1..Len(t[p]) : t[p][i] \in Files => t[p][i] \in Z
        PROVE  p \in Z
    <2> SUFFICES ASSUME Has(F[p], x) PROVE In(p)
      OBVIOUS
    <2>1. t[p] \in Seq(Items) /\ p \in Places
      BY <1>1, TextIs DEF Existing
    <2>2. Cell(F) \in Cells(Items, Widgets)
      BY <1>1, CellType
    <2>3. F[p] = Flat(Cell(F), t[p])
      BY DEF Solves
    <2>4. PICK i \in 1..Len(t[p]) : Has(Cell(F)[t[p][i]], x)
      BY <2>1, <2>2, <2>3, FlatHas
    <2>5. t[p][i] \in Items
      BY <2>1, ElementOfSeq
    <2>6. CASE t[p][i] \in Files
      <3> DEFINE e == t[p][i]
      <3>1. Cell(F)[e] = F[e]
        BY <2>5, <2>6 DEF Cell
      <3>2. In(e)
        BY <1>3, <2>4, <2>6, <3>1
      <3>3. e \in Under(t, p) /\ e \in Places
        BY <2>1, <2>6, UnderIs, PlacesAre DEF Closed
      <3>4. Under(t, e) \subseteq Under(t, p)
        BY <2>1, <3>3, UnderIs
      <3> QED  BY <3>2, <3>4
    <2>7. CASE t[p][i] \notin Files
      <3>1. Cell(F)[t[p][i]] = <<t[p][i]>> /\ t[p][i] \in Widgets
        BY <2>5, <2>7 DEF Cell, Items
      <3>2. x = t[p][i]
        BY <2>4, <3>1 DEF Has
      <3> QED  BY <2>1, <3>1, <3>2, UnderIs
    <2> QED  BY <2>6, <2>7
  <1> HIDE DEF Z
  <1>4. Existing(t) \subseteq Z
    BY <1>1, <1>2, <1>3, DepthInduct
  <1> QED  BY <1>4 DEF Z

LEMMA ShownInBoth ==
    ASSUME NEW t, TreeLoads(t), WrittenOnce(t), NEW F, Solves(F, t),
           NEW a \in Existing(t), NEW b \in Existing(t), NEW x, Has(F[a], x), Has(F[b], x)
    PROVE  a \in Under(t, b) \/ b \in Under(t, a)
  <1>1. PICK q \in Existing(t) : q \in Under(t, a) /\ \E i \in 1..Len(t[q]) : t[q][i] = x
    BY ShownIsWritten
  <1>2. PICK r \in Existing(t) : r \in Under(t, b) /\ \E i \in 1..Len(t[r]) : t[r][i] = x
    BY ShownIsWritten
  <1>3. q = r
    BY <1>1, <1>2 DEF WrittenOnce
  <1>4. a \in Places /\ b \in Places
    BY DEF Existing
  <1> QED  BY <1>1, <1>2, <1>3, <1>4, UnderBoth

\* No place is under what it includes, nor is one include under another.
LEMMA EntriesAreApart ==
    ASSUME NEW t, TreeLoads(t), WrittenOnce(t), NEW p \in Existing(t),
           NEW i \in 1..Len(t[p]), NEW j \in 1..Len(t[p]), t[p][i] \in Files, i # j
    PROVE  p \notin Under(t, t[p][i]) /\ t[p][j] \notin Under(t, t[p][i])
  <1>1. PICK d : IsDepth(t, d)
    BY DEF TreeLoads
  <1> DEFINE e == t[p][i]
  <1>2. e \in Places /\ d[e] < d[p] /\ d[e] \in Nat /\ d[p] \in Nat
    BY <1>1, PlacesAre DEF IsDepth, Existing
  <1>3. p \notin Under(t, e)
    BY <1>1, <1>2, UnderIsLower
  <1>4. ASSUME t[p][j] \in Under(t, e) PROVE FALSE
    <2>1. t[p][j] # e
      BY DEF WrittenOnce
    <2>2. PICK r \in Existing(t) : r \in Under(t, e) /\ \E k \in 1..Len(t[r]) : t[r][k] = t[p][j]
      BY <1>2, <1>4, <2>1, UnderHasIncluder
    <2>3. r = p
      BY <2>2 DEF WrittenOnce
    <2> QED  BY <1>3, <2>2, <2>3
  <1> QED  BY <1>3, <1>4

LEMMA ShownOnce ==
    ASSUME NEW t, TreeLoads(t), WrittenOnce(t), NEW F, Solves(F, t)
    PROVE  \A p \in Existing(t) : NoRepeat(F[p])
  <1> DEFINE Z == {p \in Existing(t) : NoRepeat(F[p])}
  <1>1. IsTree(t) /\ F \in [Places -> Seq(Widgets)] /\ Cell(F) \in Cells(Items, Widgets)
    BY CellType DEF TreeLoads, Solves
  <1>2. PICK d : IsDepth(t, d)
    BY DEF TreeLoads
  <1>3. ASSUME NEW p \in Existing(t), \A i \in 1..Len(t[p]) : t[p][i] \in Files => t[p][i] \in Z
        PROVE  p \in Z
    <2>1. t[p] \in Seq(Items)
      BY <1>1, TextIs
    <2>2. \A i \in 1..Len(t[p]) : t[p][i] \in Items
      BY <2>1, ElementOfSeq
    <2>3. ASSUME NEW i \in 1..Len(t[p]), t[p][i] \in Files
          PROVE  Cell(F)[t[p][i]] = F[t[p][i]] /\ t[p][i] \in Existing(t)
      BY <1>2, <2>2, <2>3 DEF Cell, IsDepth
    <2>4. ASSUME NEW i \in 1..Len(t[p]), t[p][i] \notin Files, NEW x, Has(Cell(F)[t[p][i]], x)
          PROVE  x = t[p][i] /\ x \in Widgets
      <3>1. Cell(F)[t[p][i]] = <<t[p][i]>> /\ t[p][i] \in Widgets
        BY <2>2, <2>4 DEF Cell, Items
      <3> QED  BY <2>4, <3>1 DEF Has
    <2>5. ASSUME NEW i \in 1..Len(t[p]) PROVE NoRepeat(Cell(F)[t[p][i]])
      <3>1. CASE t[p][i] \in Files
        BY <1>3, <2>3, <3>1
      <3>2. CASE t[p][i] \notin Files
        <4>1. Cell(F)[t[p][i]] = <<t[p][i]>>
          BY <2>2, <3>2 DEF Cell
        <4> QED  BY <4>1 DEF NoRepeat
      <3> QED  BY <3>1, <3>2
    <2>6. ASSUME NEW i \in 1..Len(t[p]), NEW j \in 1..Len(t[p]), i # j, t[p][i] \in Files,
                 NEW x, Has(Cell(F)[t[p][i]], x), Has(Cell(F)[t[p][j]], x)
          PROVE  FALSE
      <3>1. p \notin Under(t, t[p][i]) /\ t[p][j] \notin Under(t, t[p][i])
        BY <2>6, EntriesAreApart
      <3>2. CASE t[p][j] \in Files
        <4>1. t[p][i] \notin Under(t, t[p][j])
          BY <2>6, <3>2, EntriesAreApart
        <4>2. t[p][i] \in Under(t, t[p][j]) \/ t[p][j] \in Under(t, t[p][i])
          BY <2>3, <2>6, <3>2, ShownInBoth
        <4> QED  BY <3>1, <4>1, <4>2
      <3>3. CASE t[p][j] \notin Files
        <4>1. x = t[p][j]
          BY <2>4, <2>6, <3>3
        <4>2. PICK q \in Existing(t) : q \in Under(t, t[p][i]) /\ \E k \in 1..Len(t[q]) : t[q][k] = x
          <5>1. t[p][i] \in Existing(t) /\ Has(F[t[p][i]], x)
            BY <2>3, <2>6
          <5> QED  BY <5>1, ShownIsWritten
        <4>3. q = p
          BY <4>1, <4>2 DEF WrittenOnce
        <4> QED  BY <3>1, <4>2, <4>3
      <3> QED  BY <3>2, <3>3
    <2>7. ASSUME NEW i \in 1..Len(t[p]), NEW j \in 1..Len(t[p]), i # j,
                 NEW x, Has(Cell(F)[t[p][i]], x), Has(Cell(F)[t[p][j]], x)
          PROVE  FALSE
      <3>1. CASE t[p][i] \in Files
        BY <2>6, <2>7, <3>1
      <3>2. CASE t[p][j] \in Files
        BY <2>6, <2>7, <3>2
      <3>3. CASE t[p][i] \notin Files /\ t[p][j] \notin Files
        <4>1. t[p][i] = t[p][j]
          BY <2>4, <2>7, <3>3
        <4> QED  BY <2>7, <4>1 DEF WrittenOnce
      <3> QED  BY <3>1, <3>2, <3>3
    <2>8. Disjoint(Cell(F), t[p])
      BY <2>7 DEF Disjoint
    <2>9. NoRepeat(Flat(Cell(F), t[p]))
      BY <1>1, <2>1, <2>5, <2>8, FlatNoRepeat
    <2> QED  BY <2>9 DEF Solves
  <1> HIDE DEF Z
  <1>4. Existing(t) \subseteq Z
    BY <1>1, <1>2, <1>3, DepthInduct
  <1> QED  BY <1>4 DEF Z

LEMMA ListsAreApart ==
    ASSUME NEW t, TreeLoads(t), WrittenOnce(t), NEW F, Solves(F, t),
           NEW l \in Lists, NEW m \in Lists, l # m, NEW x
    PROVE  ~(Has(F[l], x) /\ Has(F[m], x))
  <1> SUFFICES ASSUME Has(F[l], x), Has(F[m], x) PROVE FALSE
    OBVIOUS
  <1>1. l \in Existing(t) /\ m \in Existing(t) /\ l \in Places /\ m \in Places
    BY PlacesAre DEF TreeLoads, IsTree, Existing
  <1>2. l \in Under(t, m) \/ m \in Under(t, l)
    BY <1>1, ShownInBoth
  <1>3. CASE l \in Under(t, m)
    <2>1. l \in Files
      BY <1>1, <1>3, UnderHasIncluder
    <2> QED  BY <2>1, PlacesAre
  <1>4. CASE m \in Under(t, l)
    <2>1. m \in Files
      BY <1>1, <1>4, UnderHasIncluder
    <2> QED  BY <2>1, PlacesAre
  <1> QED  BY <1>2, <1>3, <1>4

-----------------------------------------------------------------------------
\* Putting widgets in the place of a widget in the files puts them in its place
\* in what is shown.

\* u is t with h's entries in the place of each entry.
Substitutes(t, u, h) ==
    /\ Existing(t) = Existing(u)
    /\ \A p \in Existing(t) : u[p] = Flat(h, t[p])

LEMMA Substituted ==
    ASSUME NEW t, TreeLoads(t), NEW u, TreeLoads(u), NEW x \in Widgets, NEW m \in Seq(Widgets),
           NEW h, Puts(h, Items, x, m), Substitutes(t, u, h)
    PROVE  \A p \in Existing(t) : Shown(u)[p] = Flat(h, Shown(t)[p])
  <1> DEFINE F == Shown(t)
             G == [p \in Places |-> IF p \in Existing(t) THEN Flat(h, F[p]) ELSE << >>]
             g == [e \in Widgets |-> h[e]]
  <1>1. Solves(F, t) /\ F \in [Places -> Seq(Widgets)] /\ Cell(F) \in Cells(Items, Widgets)
    BY ShownSolves, CellType DEF Solves
  <1>2. IsTree(t)
    BY DEF TreeLoads
  <1>10. PICK d : IsDepth(t, d)
    BY DEF TreeLoads
  <1>3. /\ h \in Cells(Items, Items) /\ x \in Items /\ h[x] = m
        /\ \A e \in Items : e # x => h[e] = <<e>>
    BY DEF Puts
  <1>4. g \in Cells(Widgets, Widgets)
    <2>1. \A e \in Widgets : e \in Items /\ <<e>> \in Seq(Widgets)
      BY DEF Items
    <2>2. \A e \in Widgets : h[e] \in Seq(Widgets)
      BY <1>3, <2>1
    <2> QED  BY <2>2 DEF Cells
  <1> HIDE DEF F
  <1>5. ASSUME NEW s \in Seq(Widgets) PROVE Flat(h, s) = Flat(g, s) /\ Flat(h, s) \in Seq(Widgets)
    <2>1. \A i \in 1..Len(s) : h[s[i]] = g[s[i]]
      BY ElementOfSeq
    <2> HIDE DEF g
    <2>2. Flat(h, s) = Flat(g, s)
      BY <2>1, FlatSame
    <2> QED  BY <1>4, <2>2, FlatType
  <1>6. G \in [Places -> Seq(Widgets)]
    <2>1. \A p \in Existing(t) : p \in Places /\ F[p] \in Seq(Widgets)
      BY <1>1 DEF Existing
    <2>2. << >> \in Seq(Widgets)
      OBVIOUS
    <2>3. \A p \in Places : (IF p \in Existing(t) THEN Flat(h, F[p]) ELSE << >>) \in Seq(Widgets)
      BY <1>5, <2>1, <2>2
    <2> QED  BY <2>3
  <1>7. ASSUME NEW p \in Existing(u) PROVE G[p] = Flat(Cell(G), u[p])
    <2>1. p \in Existing(t) /\ p \in Places /\ u[p] = Flat(h, t[p]) /\ t[p] \in Seq(Items)
      BY <1>2, TextIs DEF Substitutes, Existing
    <2>2. Cell(G) \in Cells(Items, Widgets)
      BY <1>6, CellType
    <2> DEFINE a == [e \in Items |-> Flat(Cell(G), h[e])]
               b == [e \in Items |-> Flat(g, Cell(F)[e])]
    <2>3. Flat(Cell(G), Flat(h, t[p])) = Flat(a, t[p])
      <3> HIDE DEF G
      <3> QED  BY <1>3, <2>1, <2>2, FlatFlat
    <2>4. Flat(g, Flat(Cell(F), t[p])) = Flat(b, t[p])
      <3> HIDE DEF g
      <3> QED  BY <1>1, <1>4, <2>1, FlatFlat
    <2>5. ASSUME NEW i \in 1..Len(t[p]) PROVE a[t[p][i]] = b[t[p][i]]
      <3> DEFINE e == t[p][i]
      <3>0. e \in Items
        BY <2>1, ElementOfSeq
      <3>1. CASE e \in Files
        <4>1. e \in Existing(t) /\ e \in Places /\ e # x
          <5>1. e \in Existing(t)
            BY <1>10, <2>1, <3>1 DEF IsDepth
          <5>2. e \in Places /\ e # x
            BY <3>1, PlacesAre
          <5> QED  BY <5>1, <5>2
        <4>2. h[e] = <<e>> /\ Cell(G)[e] = G[e] /\ Cell(F)[e] = F[e]
          BY <1>3, <3>0, <3>1, <4>1 DEF Cell
        <4>3. Flat(Cell(G), <<e>>) = Cell(G)[e]
          <5> HIDE DEF G, e
          <5> QED  BY <2>2, <3>0, FlatOne
        <4>4. G[e] = Flat(h, F[e]) /\ F[e] \in Seq(Widgets)
          BY <1>1, <4>1
        <4>5. Flat(h, F[e]) = Flat(g, F[e])
          BY <1>5, <4>4
        <4>6. a[e] = Flat(Cell(G), h[e]) /\ b[e] = Flat(g, Cell(F)[e])
          BY <3>0
        <4> HIDE DEF a, b, e, G, g
        <4> QED  BY <4>2, <4>3, <4>4, <4>5, <4>6 DEF e
      <3>2. CASE e \notin Files
        <4>1. e \in Widgets
          BY <3>0, <3>2 DEF Items
        <4>2. Cell(F)[e] = <<e>> /\ h[e] = g[e] /\ g[e] \in Seq(Widgets)
          <5>1. Cell(F)[e] = <<e>>
            BY <3>0, <3>2 DEF Cell
          <5>2. g[e] \in Seq(Widgets)
            BY <1>4, <4>1, CellIs
          <5> QED  BY <4>1, <5>1, <5>2
        <4>3. Flat(g, <<e>>) = g[e]
          <5> HIDE DEF g, e
          <5> QED  BY <1>4, <4>1, FlatOne
        <4>4. ASSUME NEW s \in Seq(Widgets) PROVE Flat(Cell(G), s) = s
          <5>1. \A w \in Widgets : Cell(G)[w] = <<w>>
            BY <1>6, CellType
          <5> DEFINE c == [w \in Widgets |-> <<w>>]
          <5>2. c \in Cells(Widgets, Widgets) /\ \A k \in 1..Len(s) : c[s[k]] = <<s[k]>>
            BY ElementOfSeq DEF Cells
          <5>3. \A k \in 1..Len(s) : Cell(G)[s[k]] = c[s[k]]
            BY <5>1, <5>2, ElementOfSeq
          <5> HIDE DEF c, G
          <5>4. Flat(c, s) = s
            BY <5>2, FlatIdentity
          <5>5. Flat(Cell(G), s) = Flat(c, s)
            BY <5>3, FlatSame
          <5> QED  BY <5>4, <5>5
        <4>5. a[e] = Flat(Cell(G), h[e]) /\ b[e] = Flat(g, Cell(F)[e])
          BY <3>0
        <4> HIDE DEF a, b, e, G, g
        <4> QED  BY <4>2, <4>3, <4>4, <4>5 DEF e
      <3> QED  BY <3>1, <3>2
    <2>6. Flat(a, t[p]) = Flat(b, t[p])
      <3> HIDE DEF a, b
      <3> QED  BY <2>5, FlatSame
    <2>7. G[p] = Flat(h, F[p]) /\ F[p] = Flat(Cell(F), t[p]) /\ F[p] \in Seq(Widgets)
      BY <1>1, <2>1 DEF Solves
    <2>8. Flat(h, F[p]) = Flat(g, F[p])
      BY <1>5, <2>7
    <2> HIDE DEF a, b, G, g
    <2> QED  BY <2>1, <2>3, <2>4, <2>6, <2>7, <2>8
  <1>8. Solves(G, u)
    <2> HIDE DEF G
    <2> QED  BY <1>6, <1>7 DEF Solves
  <1>9. ASSUME NEW p \in Existing(t) PROVE Shown(u)[p] = Flat(h, F[p])
    <2>1. p \in Existing(u) /\ p \in Places
      BY DEF Substitutes, Existing
    <2>2. Shown(u)[p] = G[p]
      <3> HIDE DEF G
      <3> QED  BY <1>8, <2>1, ShownIs
    <2> QED  BY <2>1, <2>2
  <1> QED  BY <1>9 DEF F

-----------------------------------------------------------------------------
\* A change of one place.

IsNew(t, x) == \A p \in Existing(t) : ~Has(t[p], x)

Changes(t, u, q, s) == u = [t EXCEPT ![q] = s]

LEMMA OnceIs ==
    ASSUME NEW t
    PROVE  WrittenOnce(t) <=>
           /\ \A p \in Existing(t) : NoRepeat(t[p])
           /\ \A p, q \in Existing(t) : p # q => \A x : ~(Has(t[p], x) /\ Has(t[q], x))
  <1>1. ASSUME WrittenOnce(t), NEW p \in Existing(t) PROVE NoRepeat(t[p])
    BY <1>1 DEF WrittenOnce, NoRepeat
  <1>2. ASSUME WrittenOnce(t), NEW p \in Existing(t), NEW q \in Existing(t), p # q, NEW x
        PROVE  ~(Has(t[p], x) /\ Has(t[q], x))
    BY <1>2 DEF WrittenOnce, Has
  <1>3. ASSUME \A p \in Existing(t) : NoRepeat(t[p]),
               \A p, q \in Existing(t) : p # q => \A x : ~(Has(t[p], x) /\ Has(t[q], x)),
               NEW a \in Existing(t), NEW b \in Existing(t),
               NEW i \in 1..Len(t[a]), NEW j \in 1..Len(t[b]), t[a][i] = t[b][j]
        PROVE  a = b /\ i = j
    <2>1. Has(t[a], t[a][i]) /\ Has(t[b], t[a][i])
      BY <1>3 DEF Has
    <2>2. a = b
      BY <1>3, <2>1
    <2> QED  BY <1>3, <2>2 DEF NoRepeat
  <1>4. ASSUME \A p \in Existing(t) : NoRepeat(t[p]),
               \A p, q \in Existing(t) : p # q => \A x : ~(Has(t[p], x) /\ Has(t[q], x))
        PROVE  WrittenOnce(t)
    BY <1>3, <1>4 DEF WrittenOnce
  <1> QED  BY <1>1, <1>2, <1>4

LEMMA ChangedIs ==
    ASSUME NEW t, IsTree(t), NEW q \in Existing(t), NEW s \in Seq(Items), NEW u, Changes(t, u, q, s)
    PROVE  /\ IsTree(u) /\ Existing(u) = Existing(t)
           /\ u[q] = s /\ \A p \in Existing(t) : p # q => u[p] = t[p]
  <1>1. t \in [Places -> Seq(Items) \cup {Absent}] /\ q \in Places
    BY DEF IsTree, Existing
  <1>2. u \in [Places -> Seq(Items) \cup {Absent}] /\ u[q] = s /\ \A p \in Places : p # q => u[p] = t[p]
    BY <1>1 DEF Changes
  <1>3. s # Absent /\ t[q] # Absent
    BY PlacesAre DEF Existing
  <1>4. Existing(u) = Existing(t)
    BY <1>2, <1>3 DEF Existing
  <1>5. \A l \in Lists : l \in Places
    BY PlacesAre
  <1>6. IsTree(u)
    BY <1>2, <1>3, <1>5 DEF IsTree
  <1> QED  BY <1>2, <1>4, <1>6 DEF Existing

LEMMA LoadsWithLess ==
    ASSUME NEW t, TreeLoads(t), NEW u, IsTree(u), Existing(u) = Existing(t),
           \A p \in Existing(t) : \A f \in Files : Has(u[p], f) => Has(t[p], f)
    PROVE  TreeLoads(u)
  <1>1. PICK d : IsDepth(t, d)
    BY DEF TreeLoads
  <1>2. ASSUME NEW p \in Existing(u), NEW i \in 1..Len(u[p]), u[p][i] \in Files
        PROVE  u[p][i] \in Existing(u) /\ d[u[p][i]] < d[p]
    <2>1. Has(t[p], u[p][i])
      BY <1>2 DEF Has
    <2>2. PICK j \in 1..Len(t[p]) : t[p][j] = u[p][i]
      BY <2>1 DEF Has
    <2> QED  BY <1>1, <1>2, <2>2 DEF IsDepth
  <1>3. IsDepth(u, d)
    BY <1>1, <1>2 DEF IsDepth
  <1> QED  BY <1>3 DEF TreeLoads

LEMMA ChangedLoads ==
    ASSUME NEW t, TreeLoads(t), NEW q \in Existing(t), NEW s \in Seq(Items), NEW u, Changes(t, u, q, s),
           \A f \in Files : Has(s, f) => Has(t[q], f)
    PROVE  TreeLoads(u)
  <1>1. IsTree(t)
    BY DEF TreeLoads
  <1>2. /\ IsTree(u) /\ Existing(u) = Existing(t)
        /\ u[q] = s /\ \A p \in Existing(t) : p # q => u[p] = t[p]
    BY <1>1, ChangedIs
  <1>3. \A p \in Existing(t) : \A f \in Files : Has(u[p], f) => Has(t[p], f)
    BY <1>2
  <1> QED  BY <1>2, <1>3, LoadsWithLess

LEMMA ChangedOnce ==
    ASSUME NEW t, IsTree(t), WrittenOnce(t), NEW q \in Existing(t), NEW s \in Seq(Items),
           NEW u, Changes(t, u, q, s), NoRepeat(s),
           \A y : Has(s, y) => Has(t[q], y) \/ IsNew(t, y)
    PROVE  WrittenOnce(u)
  <1>1. /\ Existing(u) = Existing(t) /\ u[q] = s
        /\ \A p \in Existing(t) : p # q => u[p] = t[p]
    BY ChangedIs
  <1>2. /\ \A p \in Existing(t) : NoRepeat(t[p])
        /\ \A p, r \in Existing(t) : p # r => \A x : ~(Has(t[p], x) /\ Has(t[r], x))
    BY OnceIs
  <1>3. \A p \in Existing(u) : NoRepeat(u[p])
    BY <1>1, <1>2
  <1>4. ASSUME NEW p \in Existing(t), p # q, NEW x PROVE ~(Has(t[p], x) /\ Has(s, x))
    BY <1>2, <1>4 DEF IsNew
  <1>5. ASSUME NEW p \in Existing(u), NEW r \in Existing(u), p # r, NEW x
        PROVE  ~(Has(u[p], x) /\ Has(u[r], x))
    <2>1. CASE p = q
      BY <1>1, <1>4, <1>5, <2>1
    <2>2. CASE r = q
      BY <1>1, <1>4, <1>5, <2>2
    <2>3. CASE p # q /\ r # q
      BY <1>1, <1>2, <1>5, <2>3
    <2> QED  BY <2>1, <2>2, <2>3
  <1> QED  BY <1>3, <1>5, OnceIs

LEMMA SplicedNoRepeat ==
    ASSUME NEW S, NEW s \in Seq(S), NEW i \in 1..Len(s), NEW m \in Seq(S), NoRepeat(s), NoRepeat(m),
           \A y : Has(m, y) => y = s[i] \/ ~Has(s, y)
    PROVE  NoRepeat(Spliced(s, i, m))
  <1> DEFINE u == Before(s, i)  v == Behind(s, i)
  <1>1. u \in Seq(S) /\ v \in Seq(S)
    BY PartsOfSeq
  <1>2. /\ ~Has(u, s[i]) /\ ~Has(v, s[i]) /\ NoRepeat(u) /\ NoRepeat(v)
        /\ \A x : Has(s, x) <=> x = s[i] \/ Has(u, x) \/ Has(v, x)
        /\ \A x : ~(Has(u, x) /\ Has(v, x))
    BY PartsHave
  <1> HIDE DEF u, v
  <1>3. \A x : ~(Has(u, x) /\ Has(m, x))
    BY <1>2
  <1>4. NoRepeat(u \o m) /\ u \o m \in Seq(S)
    BY <1>1, <1>2, <1>3, ConcatNoRepeat, ConcatProperties
  <1>5. \A x : Has(u \o m, x) <=> Has(u, x) \/ Has(m, x)
    BY <1>1, ConcatHas
  <1>6. \A x : ~(Has(u \o m, x) /\ Has(v, x))
    BY <1>2, <1>5
  <1> DEFINE um == u \o m
  <1>7. NoRepeat(um) /\ um \in Seq(S) /\ \A x : ~(Has(um, x) /\ Has(v, x))
    BY <1>4, <1>6
  <1> HIDE DEF um
  <1>8. NoRepeat(um \o v)
    BY <1>1, <1>2, <1>7, ConcatNoRepeat
  <1> QED  BY <1>8 DEF um, u, v, Spliced

\* The widgets m in the place of x.
LEMMA SplicedShows ==
    ASSUME NEW t, TreeLoads(t), WrittenOnce(t), NEW q \in Existing(t), NEW i \in 1..Len(t[q]),
           t[q][i] \in Widgets, NEW m \in Seq(Widgets),
           NEW u, Changes(t, u, q, Spliced(t[q], i, m))
    PROVE  /\ TreeLoads(u) /\ Existing(u) = Existing(t)
           /\ \A p \in Existing(t) :
                 /\ ~Has(Shown(t)[p], t[q][i]) => Shown(u)[p] = Shown(t)[p]
                 /\ \A n \in 1..Len(Shown(t)[p]) :
                       Shown(t)[p][n] = t[q][i] => Shown(u)[p] = Spliced(Shown(t)[p], n, m)
  <1> DEFINE x == t[q][i]
             s == Spliced(t[q], i, m)
             h == [e \in Items |-> IF e = x THEN m ELSE <<e>>]
  <1>1. IsTree(t) /\ t[q] \in Seq(Items) /\ x \in Items
    BY TextIs DEF TreeLoads, Items
  <1>2. m \in Seq(Items)
    BY SeqMonotonic DEF Items
  <1>3. Puts(h, Items, x, m)
    <2>1. \A e \in Items : <<e>> \in Seq(Items)
      OBVIOUS
    <2>2. h \in [Items -> Seq(Items)]
      BY <1>2, <2>1
    <2> QED  BY <1>1, <1>2, <2>2 DEF Puts, Cells
  <1>4. s \in Seq(Items)
    BY <1>1, <1>2, SplicedType
  <1>5. \A p \in Existing(t) : NoRepeat(t[p])
    BY OnceIs
  <1>6. ASSUME NEW f \in Files, Has(s, f) PROVE Has(t[q], f)
    <2>1. Has(Before(t[q], i), f) \/ Has(m, f) \/ Has(Behind(t[q], i), f)
      BY <1>1, <1>2, <1>6, SplicedHas
    <2>2. ~Has(m, f)
      BY PlacesAre, ElementOfSeq DEF Has
    <2> QED  BY <1>1, <1>5, <2>1, <2>2, PartsHave
  <1> HIDE DEF h
  <1>7. /\ IsTree(u) /\ Existing(u) = Existing(t)
        /\ u[q] = s /\ \A p \in Existing(t) : p # q => u[p] = t[p]
    <2>1. Changes(t, u, q, s)
      OBVIOUS
    <2> HIDE DEF s
    <2> QED  BY <1>1, <1>4, <2>1, ChangedIs
  <1>8. TreeLoads(u)
    <2>1. Changes(t, u, q, s)
      OBVIOUS
    <2> HIDE DEF s
    <2> QED  BY <1>4, <1>6, <2>1, ChangedLoads
  <1>9. ASSUME NEW p \in Existing(t) PROVE u[p] = Flat(h, t[p])
    <2>0. t[p] \in Seq(Items)
      BY <1>1, TextIs
    <2>1. CASE p = q
      <3>1. Flat(h, t[q]) = Spliced(t[q], i, m)
        BY <1>1, <1>3, <1>5, PutsIt
      <3> QED  BY <1>7, <2>1, <3>1
    <2>2. CASE p # q
      <3>1. ~Has(t[p], x)
        BY <2>2 DEF WrittenOnce, Has
      <3>2. Flat(h, t[p]) = t[p]
        BY <1>3, <2>0, <3>1, PutsNothing
      <3> QED  BY <1>7, <2>2, <3>2
    <2> QED  BY <2>1, <2>2
  <1>10. Substitutes(t, u, h)
    BY <1>7, <1>9 DEF Substitutes
  <1>11. \A p \in Existing(t) : Shown(u)[p] = Flat(h, Shown(t)[p])
    BY <1>3, <1>8, <1>10, Substituted
  <1>12. ASSUME NEW p \in Existing(t) PROVE Shown(t)[p] \in Seq(Items) /\ NoRepeat(Shown(t)[p])
    <2>1. Shown(t)[p] \in Seq(Widgets)
      BY ShownType DEF Existing
    <2>2. NoRepeat(Shown(t)[p])
      BY ShownSolves, ShownOnce
    <2> QED  BY <2>1, <2>2, SeqMonotonic DEF Items
  <1>13. ASSUME NEW p \in Existing(t), ~Has(Shown(t)[p], x) PROVE Shown(u)[p] = Shown(t)[p]
    BY <1>3, <1>11, <1>12, <1>13, PutsNothing
  <1>14. ASSUME NEW p \in Existing(t), NEW n \in 1..Len(Shown(t)[p]), Shown(t)[p][n] = x
         PROVE  Shown(u)[p] = Spliced(Shown(t)[p], n, m)
    <2> DEFINE z == Shown(t)[p]
    <2>1. z \in Seq(Items) /\ NoRepeat(z) /\ n \in 1..Len(z) /\ z[n] = x
      BY <1>12, <1>14
    <2>2. Shown(u)[p] = Flat(h, z)
      BY <1>11
    <2> HIDE DEF z, x
    <2>3. Flat(h, z) = Spliced(z, n, m)
      BY <1>3, <2>1, PutsIt
    <2> QED  BY <2>2, <2>3 DEF z
  <1> QED  BY <1>7, <1>8, <1>13, <1>14

-----------------------------------------------------------------------------
\* Putting an entry in, as insertNode does, and taking one out.

Put(s, k, e) == IF k > Len(s) THEN Append(s, e) ELSE InsertAt(s, k, e)

\* z is a and then b.
Joins(z, a, b) ==
    /\ Len(z) = Len(a) + Len(b)
    /\ \A i \in 1..Len(a) : z[i] = a[i]
    /\ \A i \in 1..Len(b) : z[Len(a) + i] = b[i]

LEMMA ConcatIs ==
    ASSUME NEW S, NEW a \in Seq(S), NEW b \in Seq(S)
    PROVE  a \o b \in Seq(S) /\ Joins(a \o b, a, b)
  <1>1. Len(a) \in Nat /\ Len(b) \in Nat
    BY LenProperties
  <1>2. a \o b \in Seq(S) /\ Len(a \o b) = Len(a) + Len(b)
    BY ConcatProperties
  <1>3. \A i \in 1..Len(a) + Len(b) : (a \o b)[i] = IF i <= Len(a) THEN a[i] ELSE b[i - Len(a)]
    BY ConcatProperties
  <1>4. \A i \in 1..Len(a) : (a \o b)[i] = a[i]
    BY <1>1, <1>3
  <1>5. ASSUME NEW i \in 1..Len(b) PROVE (a \o b)[Len(a) + i] = b[i]
    <2>1. Len(a) + i \in 1..Len(a) + Len(b) /\ ~(Len(a) + i <= Len(a)) /\ (Len(a) + i) - Len(a) = i
      BY <1>1
    <2>2. (a \o b)[Len(a) + i] = b[(Len(a) + i) - Len(a)]
      BY <1>3, <2>1
    <2> QED  BY <2>1, <2>2
  <1> QED  BY <1>2, <1>4, <1>5 DEF Joins

\* u is s with e put in at k; v is s without what was at i.
Widened(u, s, k, e) ==
    /\ Len(u) = Len(s) + 1
    /\ \A i \in 1..k - 1 : u[i] = s[i]
    /\ u[k] = e
    /\ \A i \in k..Len(s) : u[i + 1] = s[i]

Narrowed(v, s, i) ==
    /\ Len(v) = Len(s) - 1
    /\ \A j \in 1..i - 1 : v[j] = s[j]
    /\ \A j \in i..Len(s) - 1 : v[j] = s[j + 1]

LEMMA PutIs ==
    ASSUME NEW S, NEW s \in Seq(S), NEW k \in 1..Len(s) + 1, NEW e \in S
    PROVE  Put(s, k, e) \in Seq(S) /\ Widened(Put(s, k, e), s, k, e)
  <1>0. Len(s) \in Nat
    BY LenProperties
  <1>1. CASE k > Len(s)
    <2>1. k = Len(s) + 1 /\ Put(s, k, e) = Append(s, e)
      BY <1>0, <1>1 DEF Put
    <2>2. /\ Append(s, e) \in Seq(S) /\ Len(Append(s, e)) = Len(s) + 1
          /\ \A i \in 1..Len(s) : Append(s, e)[i] = s[i]
          /\ Append(s, e)[Len(s) + 1] = e
      BY AppendProperties
    <2> QED  BY <1>0, <2>1, <2>2 DEF Widened
  <1>2. CASE k <= Len(s)
    <2> DEFINE u == SubSeq(s, 1, k - 1)  v == SubSeq(s, k, Len(s))  o == <<e>>  uo == u \o o  z == uo \o v
    <2>1. u \in Seq(S) /\ Len(u) = k - 1 /\ \A i \in 1..k - 1 : u[i] = s[i]
      BY <1>2, SubSeqProperties
    <2>2. v \in Seq(S) /\ Len(v) = Len(s) - k + 1 /\ \A i \in 1..Len(s) - k + 1 : v[i] = s[k + i - 1]
      BY <1>2, SubSeqProperties
    <2>3. o \in Seq(S) /\ Len(o) = 1 /\ o[1] = e
      OBVIOUS
    <2>4. Put(s, k, e) = z
      BY <1>0, <1>2 DEF Put, InsertAt
    <2> HIDE DEF u, v, o
    <2>5. uo \in Seq(S) /\ Joins(uo, u, o)
      BY <2>1, <2>3, ConcatIs
    <2> HIDE DEF uo
    <2>6. z \in Seq(S) /\ Joins(z, uo, v)
      BY <2>2, <2>5, ConcatIs
    <2> HIDE DEF z
    <2>7. Len(uo) = k /\ Len(z) = Len(s) + 1
      BY <1>0, <2>1, <2>2, <2>3, <2>5, <2>6 DEF Joins
    <2>8. \A i \in 1..k - 1 : z[i] = s[i]
      BY <2>1, <2>5, <2>6, <2>7 DEF Joins
    <2>9. uo[k] = e
      <3>1. uo[(k - 1) + 1] = o[1]
        BY <2>1, <2>3, <2>5 DEF Joins
      <3> QED  BY <2>3, <3>1
    <2>10. z[k] = e
      BY <2>6, <2>7, <2>9 DEF Joins
    <2>11. ASSUME NEW i \in k..Len(s) PROVE z[i + 1] = s[i]
      <3>1. i - k + 1 \in 1..Len(v) /\ k + (i - k + 1) = i + 1 /\ k + (i - k + 1) - 1 = i
        BY <1>0, <2>2
      <3>2. z[k + (i - k + 1)] = v[i - k + 1]
        BY <2>6, <2>7, <3>1 DEF Joins
      <3>3. v[i - k + 1] = s[k + (i - k + 1) - 1]
        BY <2>2, <3>1
      <3> QED  BY <3>1, <3>2, <3>3
    <2> QED  BY <2>4, <2>6, <2>7, <2>8, <2>10, <2>11 DEF Widened
  <1> QED  BY <1>0, <1>1, <1>2

LEMMA PutHas ==
    ASSUME NEW S, NEW s \in Seq(S), NEW k \in 1..Len(s) + 1, NEW e \in S
    PROVE  /\ \A x : Has(Put(s, k, e), x) <=> x = e \/ Has(s, x)
           /\ NoRepeat(s) /\ ~Has(s, e) => NoRepeat(Put(s, k, e))
  <1> DEFINE u == Put(s, k, e)
  <1>0. Len(s) \in Nat
    BY LenProperties
  <1>1. /\ u \in Seq(S) /\ Len(u) = Len(s) + 1
        /\ \A i \in 1..k - 1 : u[i] = s[i]
        /\ u[k] = e
        /\ \A i \in k..Len(s) : u[i + 1] = s[i]
    <2>1. u \in Seq(S) /\ Widened(u, s, k, e)
      BY PutIs
    <2> HIDE DEF u
    <2> QED  BY <2>1 DEF Widened
  <1> HIDE DEF u
  <1>2. ASSUME NEW i \in 1..Len(u)
        PROVE  \/ i < k /\ i \in 1..Len(s) /\ u[i] = s[i]
               \/ i = k /\ u[i] = e
               \/ i > k /\ i - 1 \in 1..Len(s) /\ u[i] = s[i - 1]
    <2>1. CASE i > k
      <3>1. i - 1 \in k..Len(s) /\ (i - 1) + 1 = i
        BY <1>0, <1>1, <2>1
      <3>2. u[(i - 1) + 1] = s[i - 1]
        BY <1>1, <3>1
      <3> QED  BY <1>0, <2>1, <3>1, <3>2
    <2> QED  BY <1>0, <1>1, <2>1
  <1>3. ASSUME NEW x, Has(u, x) PROVE x = e \/ Has(s, x)
    <2>1. PICK i \in 1..Len(u) : u[i] = x
      BY <1>3 DEF Has
    <2> QED  BY <1>2, <2>1 DEF Has
  <1>4. Has(u, e)
    BY <1>0, <1>1 DEF Has
  <1>5. ASSUME NEW x, Has(s, x) PROVE Has(u, x)
    <2>1. PICK i \in 1..Len(s) : s[i] = x
      BY <1>5 DEF Has
    <2>2. CASE i < k
      <3>1. i \in 1..Len(u) /\ u[i] = x
        BY <1>0, <1>1, <2>1, <2>2
      <3> QED  BY <3>1 DEF Has
    <2>3. CASE i >= k
      <3>1. i + 1 \in 1..Len(u) /\ u[i + 1] = x
        BY <1>0, <1>1, <2>1, <2>3
      <3> QED  BY <3>1 DEF Has
    <2> QED  BY <2>2, <2>3
  <1>6. ASSUME NoRepeat(s), ~Has(s, e), NEW i \in 1..Len(u), NEW j \in 1..Len(u), u[i] = u[j] PROVE i = j
    <2>1. \A n \in 1..Len(s) : s[n] # e
      BY <1>6 DEF Has
    <2>2. \A n \in 1..Len(s), m \in 1..Len(s) : s[n] = s[m] => n = m
      BY <1>6 DEF NoRepeat
    <2>3. CASE i = k
      <3>1. u[j] = e
        BY <1>1, <1>6, <2>3
      <3>2. ~(j < k /\ j \in 1..Len(s) /\ u[j] = s[j]) /\ ~(j > k /\ j - 1 \in 1..Len(s) /\ u[j] = s[j - 1])
        BY <2>1, <3>1
      <3>3. j = k
        BY <1>2, <3>2
      <3> QED  BY <2>3, <3>3
    <2>4. CASE j = k
      <3>1. u[i] = e
        BY <1>1, <1>6, <2>4
      <3>2. ~(i < k /\ i \in 1..Len(s) /\ u[i] = s[i]) /\ ~(i > k /\ i - 1 \in 1..Len(s) /\ u[i] = s[i - 1])
        BY <2>1, <3>1
      <3>3. i = k
        BY <1>2, <3>2
      <3> QED  BY <2>4, <3>3
    <2>5. CASE i # k /\ j # k
      <3>0. ASSUME NEW a \in 1..Len(u), a # k
            PROVE  \E n \in 1..Len(s) : u[a] = s[n] /\ ((a < k /\ n = a) \/ (a > k /\ n = a - 1))
        <4>1. CASE a < k
          <5>1. a \in 1..Len(s) /\ u[a] = s[a]
            BY <1>2, <4>1
          <5> QED  BY <4>1, <5>1
        <4>2. CASE a > k
          <5>1. a - 1 \in 1..Len(s) /\ u[a] = s[a - 1]
            BY <1>2, <4>2
          <5> QED  BY <4>2, <5>1
        <4> QED  BY <3>0, <4>1, <4>2
      <3>1. PICK n \in 1..Len(s) : u[i] = s[n] /\ ((i < k /\ n = i) \/ (i > k /\ n = i - 1))
        BY <2>5, <3>0
      <3>2. PICK m \in 1..Len(s) : u[j] = s[m] /\ ((j < k /\ m = j) \/ (j > k /\ m = j - 1))
        BY <2>5, <3>0
      <3>3. n = m
        BY <1>6, <2>2, <3>1, <3>2
      <3> QED  BY <3>1, <3>2, <3>3
    <2> QED  BY <2>3, <2>4, <2>5
  <1>7. NoRepeat(s) /\ ~Has(s, e) => NoRepeat(u)
    BY <1>6 DEF NoRepeat
  <1> QED  BY <1>3, <1>4, <1>5, <1>7 DEF u

LEMMA TakenIs ==
    ASSUME NEW S, NEW s \in Seq(S), NEW i \in 1..Len(s)
    PROVE  RemoveAt(s, i) \in Seq(S) /\ Narrowed(RemoveAt(s, i), s, i)
  <1> DEFINE u == Before(s, i)  v == Behind(s, i)  z == u \o v
  <1>0. Len(s) \in Nat
    BY LenProperties
  <1>1. /\ u \in Seq(S) /\ Len(u) = i - 1 /\ \A k \in 1..i - 1 : u[k] = s[k]
        /\ v \in Seq(S) /\ Len(v) = Len(s) - i /\ \A k \in 1..Len(s) - i : v[k] = s[i + k]
    BY PartsOfSeq
  <1>2. RemoveAt(s, i) = z
    BY DEF RemoveAt, Before, Behind
  <1> HIDE DEF u, v
  <1>3. z \in Seq(S) /\ Joins(z, u, v)
    BY <1>1, ConcatIs
  <1> HIDE DEF z
  <1>4. ASSUME NEW j \in i..Len(s) - 1 PROVE z[j] = s[j + 1]
    <2>1. j - (i - 1) \in 1..Len(v) /\ (i - 1) + (j - (i - 1)) = j /\ i + (j - (i - 1)) = j + 1
      BY <1>0, <1>1
    <2>2. z[(i - 1) + (j - (i - 1))] = v[j - (i - 1)]
      BY <1>1, <1>3, <2>1 DEF Joins
    <2>3. v[j - (i - 1)] = s[i + (j - (i - 1))]
      BY <1>1, <2>1
    <2> QED  BY <2>1, <2>2, <2>3
  <1>5. Len(z) = Len(s) - 1 /\ \A j \in 1..i - 1 : z[j] = s[j]
    BY <1>0, <1>1, <1>3 DEF Joins
  <1> QED  BY <1>2, <1>3, <1>4, <1>5 DEF Narrowed

LEMMA TakenHas ==
    ASSUME NEW S, NEW s \in Seq(S), NEW i \in 1..Len(s), NoRepeat(s)
    PROVE  /\ NoRepeat(RemoveAt(s, i))
           /\ \A x : Has(RemoveAt(s, i), x) <=> Has(s, x) /\ x # s[i]
  <1> DEFINE u == RemoveAt(s, i)
  <1>0. Len(s) \in Nat
    BY LenProperties
  <1>1. /\ u \in Seq(S) /\ Len(u) = Len(s) - 1
        /\ \A j \in 1..i - 1 : u[j] = s[j]
        /\ \A j \in i..Len(s) - 1 : u[j] = s[j + 1]
    <2>1. u \in Seq(S) /\ Narrowed(u, s, i)
      BY TakenIs
    <2> HIDE DEF u
    <2> QED  BY <2>1 DEF Narrowed
  <1>2. \A n, m \in 1..Len(s) : s[n] = s[m] => n = m
    BY DEF NoRepeat
  <1> HIDE DEF u
  <1>3. ASSUME NEW j \in 1..Len(u)
        PROVE  \E n \in 1..Len(s) : u[j] = s[n] /\ n # i /\ ((j < i /\ n = j) \/ (j >= i /\ n = j + 1))
    <2>1. CASE j < i
      <3>1. j \in 1..Len(s) /\ u[j] = s[j] /\ j # i
        BY <1>0, <1>1, <2>1
      <3> WITNESS j \in 1..Len(s)
      <3> QED  BY <2>1, <3>1
    <2>2. CASE j >= i
      <3>1. j + 1 \in 1..Len(s) /\ u[j] = s[j + 1] /\ j + 1 # i
        BY <1>0, <1>1, <2>2
      <3> DEFINE n == j + 1
      <3>2. n \in 1..Len(s) /\ u[j] = s[n] /\ n # i /\ j >= i /\ n = j + 1
        BY <2>2, <3>1
      <3> QED  BY <3>2
    <2> QED  BY <2>1, <2>2
  <1>4. ASSUME NEW j \in 1..Len(u), NEW k \in 1..Len(u), u[j] = u[k] PROVE j = k
    <2>1. PICK n \in 1..Len(s) : u[j] = s[n] /\ ((j < i /\ n = j) \/ (j >= i /\ n = j + 1))
      BY <1>3
    <2>2. PICK m \in 1..Len(s) : u[k] = s[m] /\ ((k < i /\ m = k) \/ (k >= i /\ m = k + 1))
      BY <1>3
    <2>3. n = m
      BY <1>2, <1>4, <2>1, <2>2
    <2> QED  BY <2>1, <2>2, <2>3
  <1>5. NoRepeat(u)
    BY <1>4 DEF NoRepeat
  <1>6. ASSUME NEW x, Has(u, x) PROVE Has(s, x) /\ x # s[i]
    <2>1. PICK j \in 1..Len(u) : u[j] = x
      BY <1>6 DEF Has
    <2>2. PICK n \in 1..Len(s) : u[j] = s[n] /\ n # i
      BY <1>3, <2>1
    <2> QED  BY <1>2, <2>1, <2>2 DEF Has
  <1>7. ASSUME NEW x, Has(s, x), x # s[i] PROVE Has(u, x)
    <2>1. PICK j \in 1..Len(s) : s[j] = x
      BY <1>7 DEF Has
    <2>2. CASE j < i
      <3>1. j \in 1..Len(u) /\ u[j] = x
        BY <1>0, <1>1, <2>1, <2>2
      <3> QED  BY <3>1 DEF Has
    <2>3. CASE j > i
      <3>1. j - 1 \in i..Len(s) - 1 /\ j - 1 \in 1..Len(u) /\ (j - 1) + 1 = j
        BY <1>0, <1>1, <2>1, <2>3
      <3>2. u[j - 1] = s[(j - 1) + 1]
        BY <1>1, <3>1
      <3> QED  BY <2>1, <3>1, <3>2 DEF Has
    <2> QED  BY <1>7, <2>1, <2>2, <2>3
  <1> QED  BY <1>5, <1>6, <1>7 DEF u

-----------------------------------------------------------------------------
\* One entry put in or taken out leaves a page that loads.

Fine(t) == TreeLoads(t) /\ WrittenOnce(t)

LEMMA FineIs ==
    ASSUME NEW t, Fine(t)
    PROVE  /\ TreeLoads(t) /\ WrittenOnce(t) /\ IsTree(t)
           /\ \A p \in Existing(t) : t[p] \in Seq(Items) /\ NoRepeat(t[p])
           /\ \A p, q \in Existing(t) : p # q => \A x : ~(Has(t[p], x) /\ Has(t[q], x))
  <1>1. TreeLoads(t) /\ WrittenOnce(t) /\ IsTree(t)
    BY DEF Fine, TreeLoads
  <1> QED  BY <1>1, TextIs, OnceIs

LEMMA PutFine ==
    ASSUME NEW t, Fine(t), NEW q \in Existing(t), NEW k \in 1..Len(t[q]) + 1,
           NEW w \in Widgets, IsNew(t, w), NEW u, Changes(t, u, q, Put(t[q], k, w))
    PROVE  /\ Fine(u) /\ Existing(u) = Existing(t) /\ u[q] = Put(t[q], k, w)
           /\ \A p \in Existing(t) : p # q => u[p] = t[p]
  <1> DEFINE s == Put(t[q], k, w)
  <1>1. /\ TreeLoads(t) /\ WrittenOnce(t) /\ IsTree(t) /\ t[q] \in Seq(Items) /\ NoRepeat(t[q])
        /\ w \in Items
    BY FineIs DEF Items
  <1>2. s \in Seq(Items)
    BY <1>1, PutIs
  <1>3. \A x : Has(s, x) <=> x = w \/ Has(t[q], x)
    BY <1>1, PutHas
  <1>4. NoRepeat(s)
    BY <1>1, PutHas DEF IsNew
  <1>5. Changes(t, u, q, s)
    OBVIOUS
  <1> HIDE DEF s
  <1>6. /\ Existing(u) = Existing(t) /\ u[q] = s
        /\ \A p \in Existing(t) : p # q => u[p] = t[p]
    BY <1>1, <1>2, <1>5, ChangedIs
  <1>7. \A f \in Files : Has(s, f) => Has(t[q], f)
    BY <1>3, PlacesAre
  <1>8. TreeLoads(u)
    BY <1>1, <1>2, <1>5, <1>7, ChangedLoads
  <1>9. \A y : Has(s, y) => Has(t[q], y) \/ IsNew(t, y)
    BY <1>3
  <1>10. WrittenOnce(u)
    BY <1>1, <1>2, <1>4, <1>5, <1>9, ChangedOnce
  <1> QED  BY <1>6, <1>8, <1>10 DEF Fine, s

LEMMA TakeFine ==
    ASSUME NEW t, Fine(t), NEW q \in Existing(t), NEW i \in 1..Len(t[q]),
           NEW u, Changes(t, u, q, RemoveAt(t[q], i))
    PROVE  /\ Fine(u) /\ Existing(u) = Existing(t) /\ u[q] = RemoveAt(t[q], i)
           /\ \A p \in Existing(t) : p # q => u[p] = t[p]
           /\ IsNew(u, t[q][i])
  <1> DEFINE s == RemoveAt(t[q], i)
  <1>1. /\ TreeLoads(t) /\ WrittenOnce(t) /\ IsTree(t) /\ t[q] \in Seq(Items) /\ NoRepeat(t[q])
        /\ \A p \in Existing(t) : p # q => \A x : ~(Has(t[p], x) /\ Has(t[q], x))
    BY FineIs
  <1>2. s \in Seq(Items)
    BY <1>1, TakenIs
  <1>3. NoRepeat(s) /\ \A x : Has(s, x) <=> Has(t[q], x) /\ x # t[q][i]
    BY <1>1, TakenHas
  <1>4. Changes(t, u, q, s)
    OBVIOUS
  <1> HIDE DEF s
  <1>5. /\ Existing(u) = Existing(t) /\ u[q] = s
        /\ \A p \in Existing(t) : p # q => u[p] = t[p]
    BY <1>1, <1>2, <1>4, ChangedIs
  <1>6. TreeLoads(u)
    BY <1>1, <1>2, <1>3, <1>4, ChangedLoads
  <1>7. WrittenOnce(u)
    BY <1>1, <1>2, <1>3, <1>4, ChangedOnce
  <1>8. Has(t[q], t[q][i])
    BY DEF Has
  <1>9. ASSUME NEW p \in Existing(u) PROVE ~Has(u[p], t[q][i])
    BY <1>1, <1>3, <1>5, <1>8
  <1> QED  BY <1>5, <1>6, <1>7, <1>9 DEF Fine, s, IsNew

-----------------------------------------------------------------------------
\* Where the last widget of what is shown is written, nothing behind it shows.

LEMMA NothingBehind ==
    ASSUME NEW t, Fine(t), NEW p \in Existing(t), NEW q \in Existing(t), NEW j \in 1..Len(t[q]),
           t[q][j] \in Widgets, EndsIn(Shown(t)[p], t[q][j])
    PROVE  Flat(Cell(Shown(t)), Behind(t[q], j)) = << >>
  <1> DEFINE F == Shown(t)  c == Cell(F)  y == t[q][j]  v == Behind(t[q], j)  b == Before(t[q], j)
             Z == {r \in Existing(t) : ~EndsIn(F[r], y)}
  <1>1. /\ TreeLoads(t) /\ WrittenOnce(t) /\ IsTree(t)
        /\ \A r \in Existing(t) : t[r] \in Seq(Items) /\ NoRepeat(t[r])
        /\ \A r \in Existing(t) : r # q => \A x : ~(Has(t[r], x) /\ Has(t[q], x))
    BY FineIs
  <1>2. Solves(F, t)
    BY <1>1, ShownSolves
  <1>3. /\ c \in Cells(Items, Widgets)
        /\ \A f \in Files : c[f] = F[f] /\ F[f] \in Seq(Widgets)
        /\ \A w \in Widgets : c[w] = <<w>>
    BY <1>1, ShownType, CellType
  <1>4. /\ b \in Seq(Items) /\ v \in Seq(Items) /\ <<y>> \in Seq(Items)
        /\ t[q] = Spliced(t[q], j, <<y>>)
    BY <1>1, PartsOfSeq
  <1>5. ~Has(v, y) /\ \A x : Has(v, x) => Has(t[q], x)
    BY <1>1, PartsHave
  <1>6. Has(t[q], y)
    BY DEF Has
  <1>7. PICK d : IsDepth(t, d)
    BY <1>1 DEF TreeLoads
  <1>8. SUFFICES ASSUME Flat(c, v) # << >> PROVE FALSE
    BY DEF F, c, v
  <1>9. \A r \in Existing(t) : F[r] = Flat(c, t[r])
    BY <1>2 DEF Solves
  <1>10. F[q] = (Flat(c, b) \o Flat(c, <<y>>)) \o Flat(c, v)
    <2>1. Flat(c, Spliced(t[q], j, <<y>>)) = (Flat(c, b) \o Flat(c, <<y>>)) \o Flat(c, v)
      <3>1. \A r \in Seq(Items) : Flat(c, Spliced(t[q], j, r)) = (Flat(c, b) \o Flat(c, r)) \o Flat(c, v)
        <4> HIDE DEF c
        <4> QED  BY <1>1, <1>3, FlatSpliced
      <3> QED  BY <1>4, <3>1
    <2> QED  BY <1>4, <1>9, <2>1
  <1> HIDE DEF F, c, y, v, b
  <1>11. ASSUME NEW r \in Existing(t), \A i \in 1..Len(t[r]) : t[r][i] \in Files => t[r][i] \in Z
         PROVE  r \in Z
    <2>1. ASSUME NEW s \in Seq(Items), \A x : Has(s, x) => Has(t[r], x), ~Has(s, y)
          PROVE  ~EndsIn(Flat(c, s), y)
      <3>1. ASSUME NEW i \in 1..Len(s) PROVE ~EndsIn(c[s[i]], y)
        <4>1. Has(s, s[i]) /\ s[i] \in Items
          BY ElementOfSeq DEF Has
        <4>2. CASE s[i] \in Files
          <5>1. PICK n \in 1..Len(t[r]) : t[r][n] = s[i]
            BY <2>1, <4>1 DEF Has
          <5> QED  BY <1>3, <1>11, <4>2, <5>1
        <4>3. CASE s[i] \in Widgets
          <5>1. c[s[i]] = <<s[i]>> /\ s[i] # y
            BY <1>3, <2>1, <4>1, <4>3
          <5> QED  BY <5>1 DEF EndsIn
        <4> QED  BY <4>1, <4>2, <4>3 DEF Items
      <3> QED  BY <1>3, <3>1, FlatEnds
    <2>2. CASE r # q
      <3>1. ~EndsIn(Flat(c, t[r]), y)
        BY <1>1, <1>6, <2>1, <2>2
      <3> QED  BY <1>9, <3>1
    <2>3. CASE r = q
      <3>1. ~EndsIn(Flat(c, v), y)
        BY <1>4, <1>5, <2>1, <2>3
      <3>2. /\ Flat(c, b) \in Seq(Widgets) /\ Flat(c, <<y>>) \in Seq(Widgets)
            /\ Flat(c, v) \in Seq(Widgets)
        BY <1>3, <1>4, FlatType
      <3>3. Flat(c, b) \o Flat(c, <<y>>) \in Seq(Widgets)
        BY <3>2, ConcatProperties
      <3> DEFINE a == Flat(c, b) \o Flat(c, <<y>>)  z == Flat(c, v)
      <3>4. a \in Seq(Widgets) /\ z \in Seq(Widgets) /\ z # << >> /\ ~EndsIn(z, y) /\ F[q] = a \o z
        BY <1>8, <1>10, <3>1, <3>2, <3>3
      <3> HIDE DEF a, z
      <3>5. ~EndsIn(a \o z, y)
        BY <3>4, ConcatEnds
      <3> QED  BY <2>3, <3>4, <3>5
    <2> QED  BY <2>2, <2>3
  <1>12. Existing(t) \subseteq Z
    <2> HIDE DEF Z
    <2> QED  BY <1>1, <1>7, <1>11, DepthInduct
  <1> QED  BY <1>12 DEF F, y

LEMMA MoveToEnd ==
    ASSUME NEW t, Fine(t), NEW p \in Existing(t), NEW q \in Existing(t), NEW j \in 1..Len(t[q]),
           t[q][j] \in Widgets, EndsIn(Shown(t)[p], t[q][j]),
           NEW u, Changes(t, u, q, Append(RemoveAt(t[q], j), t[q][j]))
    PROVE  TreeLoads(u) /\ \A r \in Existing(t) : Shown(u)[r] = Shown(t)[r]
  <1> DEFINE F == Shown(t)  c == Cell(F)  y == t[q][j]  v == Behind(t[q], j)  b == Before(t[q], j)
             k == RemoveAt(t[q], j)  s == Append(k, y)
  <1>1. TreeLoads(t) /\ WrittenOnce(t) /\ IsTree(t) /\ t[q] \in Seq(Items) /\ NoRepeat(t[q]) /\ y \in Items
    BY FineIs DEF Items
  <1>2. k \in Seq(Items) /\ \A x : Has(k, x) => Has(t[q], x)
    BY <1>1, TakenIs, TakenHas
  <1>3. Changes(t, u, q, s)
    OBVIOUS
  <1>4. k = b \o v
    BY DEF RemoveAt, Before, Behind
  <1>5. /\ b \in Seq(Items) /\ v \in Seq(Items) /\ <<y>> \in Seq(Items)
        /\ t[q] = Spliced(t[q], j, <<y>>)
    BY <1>1, PartsOfSeq
  <1>6. Flat(c, v) = << >>
    BY NothingBehind
  <1>7. c \in Cells(Items, Widgets)
    BY <1>1, ShownType, CellType
  <1>8. Solves(F, t) /\ F \in [Places -> Seq(Widgets)]
    BY <1>1, ShownSolves, ShownType
  <1>9. Flat(c, t[q]) = (Flat(c, b) \o Flat(c, <<y>>)) \o Flat(c, v)
    <2>1. Flat(c, Spliced(t[q], j, <<y>>)) = (Flat(c, b) \o Flat(c, <<y>>)) \o Flat(c, v)
      <3>1. \A r \in Seq(Items) : Flat(c, Spliced(t[q], j, r)) = (Flat(c, b) \o Flat(c, r)) \o Flat(c, v)
        <4> HIDE DEF c
        <4> QED  BY <1>1, <1>7, FlatSpliced
      <3> QED  BY <1>5, <3>1
    <2> QED  BY <1>5, <2>1
  <1> HIDE DEF F, c, y, v, b, k
  <1>10. s \in Seq(Items)
    BY <1>1, <1>2, AppendProperties
  <1>11. Flat(c, s) = Flat(c, t[q])
    <2>1. Flat(c, s) = Flat(c, k) \o c[y]
      BY <1>1, <1>2, <1>7, FlatAppend
    <2>2. Flat(c, k) = Flat(c, b) \o Flat(c, v)
      BY <1>4, <1>5, <1>7, FlatConcat
    <2>3. Flat(c, <<y>>) = c[y]
      BY <1>1, <1>7, FlatOne
    <2>4. Flat(c, b) \in Seq(Widgets) /\ c[y] \in Seq(Widgets)
      BY <1>1, <1>5, <1>7, FlatType, CellIs
    <2>5. Flat(c, b) \o << >> = Flat(c, b)
      BY <2>4, ConcatEmptySeq
    <2> DEFINE a == Flat(c, b) \o c[y]
    <2>6. a \in Seq(Widgets)
      BY <2>4, ConcatProperties
    <2>7. a \o << >> = a
      <3> HIDE DEF a
      <3> QED  BY <2>6, ConcatEmptySeq
    <2> QED  BY <1>6, <1>9, <2>1, <2>2, <2>3, <2>5, <2>7
  <1>12. ASSUME NEW f \in Files, Has(s, f) PROVE Has(t[q], f)
    <2>1. PICK n \in 1..Len(s) : s[n] = f
      BY <1>12 DEF Has
    <2>2. n \in 1..Len(k) + 1 /\ s[n] = IF n = Len(k) + 1 THEN y ELSE k[n]
      BY <1>1, <1>2, <2>1, AppendProperties
    <2>3. y # f
      BY PlacesAre DEF y
    <2>4. n \in 1..Len(k) /\ k[n] = f
      BY <1>2, <2>1, <2>2, <2>3, LenProperties
    <2> QED  BY <1>2, <2>4 DEF Has
  <1> HIDE DEF s
  <1>13. TreeLoads(u)
    BY <1>1, <1>3, <1>10, <1>12, ChangedLoads
  <1>14. /\ Existing(u) = Existing(t) /\ u[q] = s
         /\ \A r \in Existing(t) : r # q => u[r] = t[r]
    BY <1>1, <1>3, <1>10, ChangedIs
  <1>15. \A r \in Existing(t) : F[r] = Flat(c, t[r])
    BY <1>8 DEF Solves, c
  <1>16. Solves(F, u)
    BY <1>8, <1>11, <1>14, <1>15 DEF Solves, c
  <1>17. \A r \in Existing(t) : Shown(u)[r] = F[r]
    BY <1>13, <1>14, <1>16, ShownIs
  <1> QED  BY <1>13, <1>17 DEF F

-----------------------------------------------------------------------------
\* A widget that is the first of an included file may as well stand in front of
\* the include.

LEMMA DeeperIsAnother ==
    ASSUME NEW t, TreeLoads(t), NEW o \in Existing(t), NEW k \in 1..Len(t[o]), t[o][k] \in Files
    PROVE  t[o][k] \in Existing(t) /\ t[o][k] # o
  <1>1. PICK d : IsDepth(t, d)
    BY DEF TreeLoads
  <1>2. t[o][k] \in Existing(t) /\ d[t[o][k]] < d[o]
    BY <1>1 DEF IsDepth
  <1>3. d[o] \in Nat /\ d \in [Places -> 0..DepthLimit]
    BY <1>1 DEF IsDepth, Existing
  <1> QED  BY <1>2, <1>3

LEMMA FirstIs ==
    ASSUME NEW S, NEW s \in Seq(S), 1 \in 1..Len(s)
    PROVE  Behind(s, 1) = RemoveAt(s, 1) /\ Before(s, 1) = << >>
  <1> DEFINE a == Before(s, 1)  b == Behind(s, 1)
  <1>1. a \in Seq(S) /\ Len(a) = 0 /\ b \in Seq(S)
    <2>1. \A i \in 1..Len(s) :
             Before(s, i) \in Seq(S) /\ Len(Before(s, i)) = i - 1 /\ Behind(s, i) \in Seq(S)
      BY PartsOfSeq
    <2> QED  BY <2>1
  <1>2. RemoveAt(s, 1) = a \o b
    BY DEF RemoveAt, Before, Behind
  <1> HIDE DEF a, b
  <1>3. a = << >>
    BY <1>1, EmptySeq
  <1>4. << >> \o b = b
    BY <1>1, ConcatEmptySeq
  <1> QED  BY <1>2, <1>3, <1>4 DEF a, b

LEMMA MoveOut ==
    ASSUME NEW t, Fine(t), NEW o \in Existing(t), NEW k \in 1..Len(t[o]), NEW f \in Files, t[o][k] = f,
           t[f] # << >>, t[f][1] \in Widgets,
           NEW v, Changes(t, v, f, RemoveAt(t[f], 1)),
           NEW u, Changes(v, u, o, Put(v[o], k, t[f][1]))
    PROVE  TreeLoads(u) /\ \A p \in Existing(t) : p # f => Shown(u)[p] = Shown(t)[p]
  <1> DEFINE F == Shown(t)  c == Cell(F)  w == t[f][1]  r == RemoveAt(t[f], 1)
             G == [F EXCEPT ![f] = Flat(c, r)]  g == Cell(G)
  <1>1. /\ TreeLoads(t) /\ WrittenOnce(t) /\ IsTree(t)
        /\ \A p \in Existing(t) : t[p] \in Seq(Items) /\ NoRepeat(t[p])
        /\ \A p, q \in Existing(t) : p # q => \A x : ~(Has(t[p], x) /\ Has(t[q], x))
    BY FineIs
  <1>2. f \in Existing(t) /\ f # o
    BY <1>1, DeeperIsAnother
  <1>3. w \in Items /\ t[f] \in Seq(Items) /\ 1 \in 1..Len(t[f])
    BY <1>1, <1>2, EmptySeq DEF Items
  <1>4. /\ Fine(v) /\ Existing(v) = Existing(t) /\ v[f] = r
        /\ \A p \in Existing(t) : p # f => v[p] = t[p]
        /\ IsNew(v, w)
    BY <1>2, <1>3, TakeFine
  <1>5. v[o] = t[o]
    BY <1>2, <1>4
  <1>6. /\ Fine(u) /\ Existing(u) = Existing(t) /\ u[o] = Put(t[o], k, w)
        /\ \A p \in Existing(t) : p # o => u[p] = v[p]
    <2>1. Existing(v) = Existing(t) /\ o \in Existing(v) /\ k \in 1..Len(v[o]) + 1
      BY <1>4, <1>5
    <2> HIDE DEF w
    <2>2. /\ Fine(u) /\ Existing(u) = Existing(v) /\ u[o] = Put(v[o], k, w)
          /\ \A p \in Existing(v) : p # o => u[p] = v[p]
      <3>1. w \in Widgets /\ Changes(v, u, o, Put(v[o], k, w))
        BY DEF w
      <3> QED  BY <1>4, <2>1, <3>1, PutFine
    <2> QED  BY <1>5, <2>1, <2>2
  <1>7. /\ c \in Cells(Items, Widgets)
        /\ \A e \in Files : c[e] = F[e] /\ F[e] \in Seq(Widgets)
        /\ \A e \in Widgets : c[e] = <<e>>
    BY <1>1, ShownType, CellType
  <1>8. Solves(F, t) /\ F \in [Places -> Seq(Widgets)] /\ \A p \in Existing(t) : F[p] = Flat(c, t[p])
    BY <1>1, ShownSolves, ShownType DEF Solves
  <1>9. r \in Seq(Items) /\ \A x : Has(r, x) => Has(t[f], x)
    BY <1>1, <1>2, <1>3, TakenIs, TakenHas
  <1>10. Flat(c, r) \in Seq(Widgets) /\ f \in Places
    BY <1>7, <1>9, <1>2, FlatType DEF Existing
  <1>11. /\ G \in [Places -> Seq(Widgets)] /\ G[f] = Flat(c, r)
         /\ \A p \in Places : p # f => G[p] = F[p]
    BY <1>8, <1>10
  <1>12. /\ g \in Cells(Items, Widgets)
         /\ \A e \in Files : g[e] = G[e] /\ G[e] \in Seq(Widgets)
         /\ \A e \in Widgets : g[e] = <<e>>
    <2> HIDE DEF G
    <2> QED  BY <1>11, CellType
  <1>13. \A e \in Items : e # f => g[e] = c[e]
    BY <1>7, <1>11, <1>12, PlacesAre DEF Items
  <1>14. F[f] = <<w>> \o G[f]
    <2>1. Behind(t[f], 1) = r /\ Before(t[f], 1) = << >>
      <3>1. t[f] \in Seq(Items) /\ 1 \in 1..Len(t[f])
        BY <1>3
      <3> QED  BY ONLY <3>1, FirstIs DEF r
    <2>2. t[f] = Spliced(t[f], 1, <<w>>) /\ <<w>> \in Seq(Items)
      BY <1>3, PartsOfSeq
    <2>3. Spliced(t[f], 1, <<w>>) = (<< >> \o <<w>>) \o r
      BY <2>1 DEF Spliced
    <2> DEFINE o1 == <<w>>
    <2>4. << >> \o o1 = o1
      <3> HIDE DEF o1
      <3> QED  BY <2>2, ConcatEmptySeq DEF o1
    <2>5. t[f] = o1 \o r
      BY <2>2, <2>3, <2>4
    <2>6. Flat(c, o1) = c[w]
      <3> HIDE DEF c, w
      <3> QED  BY <1>3, <1>7, FlatOne DEF o1
    <2>7. Flat(c, o1 \o r) = Flat(c, o1) \o Flat(c, r)
      <3>1. o1 \in Seq(Items) /\ r \in Seq(Items)
        BY <1>9, <2>2
      <3> HIDE DEF c, r, o1
      <3> QED  BY <1>7, <3>1, FlatConcat
    <2>8. c[w] = <<w>>
      BY <1>7
    <2> HIDE DEF c, r, o1, F, G
    <2>9. F[f] = Flat(c, t[f]) /\ G[f] = Flat(c, r)
      BY <1>2, <1>8, <1>11
    <2> QED  BY <2>5, <2>6, <2>7, <2>8, <2>9
  <1> HIDE DEF F, G, c, g, w, r
  <1>15. ASSUME NEW s \in Seq(Items), ~Has(s, f) PROVE Flat(g, s) = Flat(c, s)
    <2>1. ASSUME NEW i \in 1..Len(s) PROVE g[s[i]] = c[s[i]]
      BY <1>13, <1>15, ElementOfSeq DEF Has
    <2> QED  BY <2>1, FlatSame
  <1>16. Has(t[o], f)
    BY DEF Has
  <1>17. ASSUME NEW p \in Existing(t), p # o, p # f PROVE G[p] = Flat(g, u[p])
    <2>1. u[p] = t[p] /\ ~Has(t[p], f) /\ t[p] \in Seq(Items)
      BY <1>1, <1>4, <1>6, <1>16, <1>17
    <2>2. G[p] = F[p]
      BY <1>11, <1>17 DEF Existing
    <2> QED  BY <1>8, <1>15, <2>1, <2>2
  <1>18. G[f] = Flat(g, u[f])
    <2>1. u[f] = r /\ ~Has(r, f)
      BY <1>1, <1>2, <1>4, <1>6, <1>9, <1>16
    <2> QED  BY <1>9, <1>11, <1>15, <2>1
  <1>19. G[o] = Flat(g, u[o])
    <2> DEFINE a == Before(t[o], k)  b == Behind(t[o], k)  two == <<w, f>>
    <2>1. /\ t[o] \in Seq(Items) /\ a \in Seq(Items) /\ b \in Seq(Items) /\ <<f>> \in Seq(Items)
          /\ t[o] = Spliced(t[o], k, <<f>>)
      BY <1>1, PartsOfSeq
    <2>2. ~Has(a, f) /\ ~Has(b, f)
      BY <1>1, <2>1, PartsHave
    <2>3. u[o] = Spliced(t[o], k, two)
      <3>1. Put(t[o], k, w) = InsertAt(t[o], k, w)
        BY <2>1 DEF Put
      <3>2. InsertAt(t[o], k, w) = Spliced(t[o], k, <<w, t[o][k]>>)
        BY <1>3, <2>1, InsertIs
      <3> QED  BY <1>6, <3>1, <3>2
    <2>4. f \in Items
      BY DEF Items
    <2>5. two \in Seq(Items) /\ <<w>> \in Seq(Items) /\ two = <<w>> \o <<f>>
      BY <1>3, <2>4, TwoIs
    <2>6. Flat(g, two) = Flat(g, <<w>>) \o Flat(g, <<f>>)
      <3> DEFINE ow == <<w>>  of == <<f>>
      <3>1. ow \in Seq(Items) /\ of \in Seq(Items) /\ two = ow \o of
        BY <2>1, <2>5
      <3> HIDE DEF ow, of, two
      <3>2. Flat(g, ow \o of) = Flat(g, ow) \o Flat(g, of)
        BY <1>12, <3>1, FlatConcat
      <3> QED  BY <3>1, <3>2 DEF ow, of
    <2>7. Flat(g, <<w>>) = g[w] /\ Flat(g, <<f>>) = g[f] /\ Flat(c, <<f>>) = c[f]
      BY <1>3, <1>7, <1>12, <2>4, FlatOne
    <2>8. g[w] = <<w>> /\ g[f] = G[f] /\ c[f] = F[f]
      BY <1>7, <1>12 DEF w
    <2>9. Flat(g, two) = Flat(c, <<f>>)
      BY <1>14, <2>6, <2>7, <2>8
    <2>10. Flat(g, a) = Flat(c, a) /\ Flat(g, b) = Flat(c, b)
      BY <1>15, <2>1, <2>2
    <2> DEFINE one == <<f>>
    <2> HIDE DEF two, one
    <2>11. Flat(g, Spliced(t[o], k, two)) = (Flat(g, a) \o Flat(g, two)) \o Flat(g, b)
      <3>1. two \in Seq(Items)
        BY <2>5 DEF two
      <3>2. \A n \in Seq(Items) : Flat(g, Spliced(t[o], k, n)) = (Flat(g, a) \o Flat(g, n)) \o Flat(g, b)
        <4>1. t[o] \in Seq(Items) /\ k \in 1..Len(t[o]) /\ g \in Cells(Items, Widgets)
          BY <1>1, <1>12
        <4> QED  BY ONLY <4>1, FlatSpliced DEF a, b
      <3> QED  BY <3>1, <3>2
    <2>12. Flat(c, Spliced(t[o], k, one)) = (Flat(c, a) \o Flat(c, one)) \o Flat(c, b)
      <3>1. one \in Seq(Items)
        BY <2>1 DEF one
      <3>2. \A n \in Seq(Items) : Flat(c, Spliced(t[o], k, n)) = (Flat(c, a) \o Flat(c, n)) \o Flat(c, b)
        <4>1. t[o] \in Seq(Items) /\ k \in 1..Len(t[o]) /\ c \in Cells(Items, Widgets)
          BY <1>1, <1>7
        <4> QED  BY ONLY <4>1, FlatSpliced DEF a, b
      <3> QED  BY <3>1, <3>2
    <2>13. G[o] = F[o]
      BY <1>2, <1>11 DEF Existing
    <2>14. F[o] = Flat(c, Spliced(t[o], k, one))
      BY <1>8, <2>1 DEF one
    <2>15. Flat(g, two) = Flat(c, one)
      BY <2>9 DEF one
    <2> QED  BY <2>3, <2>10, <2>11, <2>12, <2>13, <2>14, <2>15
  <1>20. Solves(G, u)
    <2>1. \A p \in Existing(u) : G[p] = Flat(g, u[p])
      BY <1>6, <1>17, <1>18, <1>19
    <2> QED  BY <1>11, <2>1 DEF Solves, g
  <1>21. TreeLoads(u)
    BY <1>6 DEF Fine
  <1>22. \A p \in Existing(t) : Shown(u)[p] = G[p]
    BY <1>6, <1>20, <1>21, ShownIs
  <1> QED  BY <1>11, <1>21, <1>22 DEF Existing, F

MovesOut(t, v, u, o, k, f) ==
    /\ o \in Existing(t) /\ k \in 1..Len(t[o]) /\ f \in Files /\ t[o][k] = f
    /\ t[f] # << >> /\ t[f][1] \in Widgets
    /\ Changes(t, v, f, RemoveAt(t[f], 1)) /\ Changes(v, u, o, Put(v[o], k, t[f][1]))

LEMMA MovedOut ==
    ASSUME NEW t, NEW v, NEW u, NEW o, NEW k, NEW f, Fine(t), MovesOut(t, v, u, o, k, f)
    PROVE  \A p \in Existing(t) : p # f => Shown(u)[p] = Shown(t)[p]
  BY MoveOut DEF MovesOut

\* The include of a file with nothing in it shows nothing.
LEMMA PruneShows ==
    ASSUME NEW t, Fine(t), NEW o \in Existing(t), NEW k \in 1..Len(t[o]), NEW f \in Files, t[o][k] = f,
           t[f] = << >>, NEW u, Changes(t, u, o, RemoveAt(t[o], k))
    PROVE  \A p \in Existing(t) : Shown(u)[p] = Shown(t)[p]
  <1> DEFINE F == Shown(t)  c == Cell(F)
  <1>1. TreeLoads(t) /\ WrittenOnce(t) /\ IsTree(t) /\ t[o] \in Seq(Items) /\ f \in Items
    BY FineIs DEF Items
  <1>2. f \in Existing(t) /\ f # o
    BY <1>1, DeeperIsAnother
  <1>3. /\ Fine(u) /\ Existing(u) = Existing(t) /\ u[o] = RemoveAt(t[o], k)
        /\ \A p \in Existing(t) : p # o => u[p] = t[p]
    BY TakeFine
  <1>4. c \in Cells(Items, Widgets) /\ c[f] = F[f]
    BY <1>1, ShownType, CellType
  <1>5. Solves(F, t) /\ F \in [Places -> Seq(Widgets)] /\ \A p \in Existing(t) : F[p] = Flat(c, t[p])
    BY <1>1, ShownSolves, ShownType DEF Solves
  <1>6. c[f] = << >>
    BY <1>2, <1>4, <1>5, FlatEmpty
  <1> DEFINE one == <<f>>  none == << >>
  <1>7. RemoveAt(t[o], k) = Spliced(t[o], k, none) /\ none \in Seq(Items)
    BY <1>1, RemoveIs, EmptySeq
  <1>8. one \in Seq(Items) /\ t[o] = Spliced(t[o], k, one)
    BY <1>1, PartsOfSeq
  <1>9. Flat(c, one) = none /\ Flat(c, none) = none
    <2>1. Flat(c, one) = c[f]
      <3> HIDE DEF c
      <3> QED  BY <1>1, <1>4, FlatOne
    <2> QED  BY <1>6, <2>1, FlatEmpty
  <1> HIDE DEF one, none, c, F
  <1>10. \A r \in Seq(Items) : Flat(c, Spliced(t[o], k, r))
                                  = (Flat(c, Before(t[o], k)) \o Flat(c, r)) \o Flat(c, Behind(t[o], k))
    BY <1>1, <1>4, FlatSpliced
  <1>11. Flat(c, Spliced(t[o], k, one)) = Flat(c, Spliced(t[o], k, none))
    BY <1>7, <1>8, <1>9, <1>10
  <1>12. F[o] = Flat(c, u[o])
    BY <1>3, <1>5, <1>7, <1>8, <1>11
  <1>13. \A p \in Existing(u) : F[p] = Flat(c, u[p])
    BY <1>3, <1>5, <1>12
  <1>14. Solves(F, u) /\ TreeLoads(u)
    BY <1>3, <1>5, <1>13 DEF Solves, Fine, c
  <1> QED  BY <1>3, <1>14, ShownIs DEF F

-----------------------------------------------------------------------------
\* The same position said in different ways.

LEMMA TakeBack ==
    ASSUME NEW S, NEW s \in Seq(S), NEW k \in 1..Len(s) + 1, NEW e \in S
    PROVE  RemoveAt(Put(s, k, e), k) = s
  <1> DEFINE u == Put(s, k, e)  v == RemoveAt(u, k)
  <1>0. Len(s) \in Nat
    BY LenProperties
  <1>1. /\ u \in Seq(S) /\ Len(u) = Len(s) + 1
        /\ \A i \in 1..k - 1 : u[i] = s[i]
        /\ \A i \in k..Len(s) : u[i + 1] = s[i]
    <2>1. u \in Seq(S) /\ Widened(u, s, k, e)
      BY PutIs
    <2> HIDE DEF u
    <2> QED  BY <2>1 DEF Widened
  <1> HIDE DEF u
  <1>2. k \in 1..Len(u)
    BY <1>0, <1>1
  <1>3. /\ v \in Seq(S) /\ Len(v) = Len(u) - 1
        /\ \A j \in 1..k - 1 : v[j] = u[j]
        /\ \A j \in k..Len(u) - 1 : v[j] = u[j + 1]
    <2>1. v \in Seq(S) /\ Narrowed(v, u, k)
      BY <1>1, <1>2, TakenIs
    <2> HIDE DEF v
    <2> QED  BY <2>1 DEF Narrowed
  <1> HIDE DEF v
  <1>4. Len(v) = Len(s) /\ \A j \in 1..Len(s) : v[j] = s[j]
    BY <1>0, <1>1, <1>3
  <1>5. v = s
    BY <1>3, <1>4, SeqEqual
  <1> QED  BY <1>5 DEF u, v

LEMMA PutBack ==
    ASSUME NEW S, NEW s \in Seq(S), NEW i \in 1..Len(s)
    PROVE  Put(RemoveAt(s, i), i, s[i]) = s
  <1> DEFINE v == RemoveAt(s, i)  x == s[i]  u == Put(v, i, x)
  <1>0. Len(s) \in Nat
    BY LenProperties
  <1>1. /\ v \in Seq(S) /\ Len(v) = Len(s) - 1
        /\ \A j \in 1..i - 1 : v[j] = s[j]
        /\ \A j \in i..Len(s) - 1 : v[j] = s[j + 1]
    <2>1. v \in Seq(S) /\ Narrowed(v, s, i)
      BY TakenIs
    <2> HIDE DEF v
    <2> QED  BY <2>1 DEF Narrowed
  <1>2. x \in S
    BY ElementOfSeq
  <1> HIDE DEF v
  <1>3. i \in 1..Len(v) + 1
    BY <1>0, <1>1
  <1> HIDE DEF x
  <1>4. /\ u \in Seq(S) /\ Len(u) = Len(v) + 1
        /\ \A j \in 1..i - 1 : u[j] = v[j]
        /\ u[i] = x
        /\ \A j \in i..Len(v) : u[j + 1] = v[j]
    <2>1. u \in Seq(S) /\ Widened(u, v, i, x)
      BY <1>1, <1>2, <1>3, PutIs
    <2> HIDE DEF u
    <2> QED  BY <2>1 DEF Widened
  <1> HIDE DEF u
  <1>5. ASSUME NEW j \in 1..Len(s) PROVE u[j] = s[j]
    <2>1. CASE j < i
      <3>1. j \in 1..i - 1
        BY <1>0, <2>1
      <3>2. u[j] = v[j] /\ v[j] = s[j]
        BY <1>1, <1>4, <3>1
      <3> QED  BY <3>2
    <2>2. CASE j = i
      BY <1>4, <2>2 DEF x
    <2>3. CASE j > i
      <3>1. j - 1 \in i..Len(v) /\ j - 1 \in i..Len(s) - 1 /\ (j - 1) + 1 = j
        BY <1>0, <1>1, <2>3
      <3>2. u[(j - 1) + 1] = v[j - 1] /\ v[j - 1] = s[(j - 1) + 1]
        BY <1>1, <1>4, <3>1
      <3> QED  BY <3>1, <3>2
    <2> QED  BY <2>1, <2>2, <2>3
  <1>6. Len(u) = Len(s)
    BY <1>0, <1>1, <1>4
  <1>7. u = s
    BY <1>4, <1>5, <1>6, SeqEqual
  <1> QED  BY <1>7 DEF u, v, x

LEMMA PutInFront ==
    ASSUME NEW S, NEW s \in Seq(S), NEW i \in 1..Len(s), NEW e \in S
    PROVE  Put(s, i, e) = Spliced(s, i, <<e, s[i]>>)
  BY InsertIs DEF Put

LEMMA PutLast ==
    ASSUME NEW S, NEW s \in Seq(S), NEW e \in S
    PROVE  Put(s, Len(s) + 1, e) = Append(s, e)
  BY LenProperties DEF Put

LEMMA PutBehind ==
    ASSUME NEW S, NEW s \in Seq(S), NEW j \in 1..Len(s), NEW e \in S
    PROVE  Put(s, j + 1, e) = Spliced(s, j, <<s[j], e>>)
  <1> DEFINE a == Before(s, j)  b == Behind(s, j)  two == <<s[j], e>>  x == s[j]
             at == a \o two  z == at \o b  u == Put(s, j + 1, e)
  <1>0. Len(s) \in Nat /\ j + 1 \in 1..Len(s) + 1
    BY LenProperties
  <1>1. /\ a \in Seq(S) /\ Len(a) = j - 1 /\ \A k \in 1..j - 1 : a[k] = s[k]
        /\ b \in Seq(S) /\ Len(b) = Len(s) - j /\ \A k \in 1..Len(s) - j : b[k] = s[j + k]
        /\ x \in S
    BY PartsOfSeq
  <1>2. two \in Seq(S) /\ Len(two) = 2 /\ two[1] = x /\ two[2] = e
    BY <1>1
  <1>3. Spliced(s, j, two) = z
    BY DEF Spliced
  <1>4. /\ u \in Seq(S) /\ Len(u) = Len(s) + 1
        /\ \A i \in 1..j : u[i] = s[i]
        /\ u[j + 1] = e
        /\ \A i \in j + 1..Len(s) : u[i + 1] = s[i]
    <2> DEFINE k == j + 1
    <2>1. k \in 1..Len(s) + 1 /\ k - 1 = j
      BY <1>0
    <2> HIDE DEF k
    <2>2. /\ Put(s, k, e) \in Seq(S) /\ Len(Put(s, k, e)) = Len(s) + 1
          /\ \A i \in 1..k - 1 : Put(s, k, e)[i] = s[i]
          /\ Put(s, k, e)[k] = e
          /\ \A i \in k..Len(s) : Put(s, k, e)[i + 1] = s[i]
      <3> DEFINE r == Put(s, k, e)
      <3>1. r \in Seq(S) /\ Widened(r, s, k, e)
        BY <2>1, PutIs
      <3> HIDE DEF r
      <3> QED  BY <3>1 DEF Widened, r
    <2> QED  BY <2>1, <2>2 DEF k
  <1> HIDE DEF a, b, two, u
  <1>5. at \in Seq(S) /\ Joins(at, a, two)
    BY <1>1, <1>2, ConcatIs
  <1> HIDE DEF at
  <1>6. z \in Seq(S) /\ Joins(z, at, b)
    BY <1>1, <1>5, ConcatIs
  <1> HIDE DEF z
  <1>7. /\ Len(at) = j + 1 /\ \A i \in 1..j - 1 : at[i] = s[i]
        /\ at[j] = x /\ at[j + 1] = e
    <2>1. Len(at) = j + 1 /\ \A i \in 1..j - 1 : at[i] = s[i]
      <3>1. Len(at) = Len(a) + Len(two) /\ \A i \in 1..Len(a) : at[i] = a[i]
        BY <1>5 DEF Joins
      <3>2. Len(a) = j - 1 /\ Len(two) = 2 /\ \A i \in 1..j - 1 : a[i] = s[i]
        BY <1>1, <1>2
      <3> QED  BY <3>1, <3>2
    <2>2. at[(j - 1) + 1] = two[1] /\ at[(j - 1) + 2] = two[2]
      BY <1>1, <1>2, <1>5 DEF Joins
    <2>3. (j - 1) + 1 = j /\ (j - 1) + 2 = j + 1
      OBVIOUS
    <2> QED  BY <1>2, <2>1, <2>2, <2>3
  <1>8. /\ Len(z) = Len(s) + 1 /\ \A i \in 1..j + 1 : z[i] = at[i]
        /\ \A i \in 1..Len(s) - j : z[(j + 1) + i] = s[j + i]
    BY <1>0, <1>1, <1>6, <1>7 DEF Joins
  <1>9. ASSUME NEW i \in 1..Len(s) + 1 PROVE u[i] = z[i]
    <2>1. CASE i < j
      BY <1>4, <1>7, <1>8, <2>1
    <2>2. CASE i = j
      BY <1>4, <1>7, <1>8, <2>2 DEF x
    <2>3. CASE i = j + 1
      BY <1>4, <1>7, <1>8, <2>3
    <2>4. CASE i > j + 1
      <3>1. i - (j + 1) \in 1..Len(s) - j /\ (j + 1) + (i - (j + 1)) = i /\ j + (i - (j + 1)) = i - 1
            /\ i - 1 \in j + 1..Len(s) /\ (i - 1) + 1 = i
        BY <1>0, <2>4
      <3>2. z[(j + 1) + (i - (j + 1))] = s[j + (i - (j + 1))]
        BY <1>8, <3>1
      <3>3. u[(i - 1) + 1] = s[i - 1]
        BY <1>4, <3>1
      <3> QED  BY <3>1, <3>2, <3>3
    <2> QED  BY <2>1, <2>2, <2>3, <2>4
  <1>10. u = z
    BY <1>4, <1>6, <1>8, <1>9, SeqEqual
  <1> QED  BY <1>3, <1>10 DEF u, z, at, two

LEMMA FlatAlike ==
    ASSUME NEW s, NEW r, NEW b, NEW c, Len(s) = Len(r), \A i \in 1..Len(s) : b[s[i]] = c[r[i]]
    PROVE  Flat(b, s) = Flat(c, r)
  <1>1. [i \in 1..Len(s) |-> b[s[i]]] = [i \in 1..Len(r) |-> c[r[i]]]
    OBVIOUS
  <1> QED  BY <1>1 DEF Flat

-----------------------------------------------------------------------------
\* Where an insertion shows at a position of a list.

\* In front of where y is written, or of the include of the file whose first
\* entry it is.
AheadOf(t, y, q, k) ==
    /\ k \in 1..Len(t[q])
    /\ \/ t[q][k] = y
       \/ t[q][k] \in Files /\ t[t[q][k]] # << >> /\ t[t[q][k]][1] = y

\* At the end of the list, or of the place the last widget is written in.
AtEnd(t, l, q, k) ==
    /\ k = Len(t[q]) + 1
    /\ q = l \/ \E j \in 1..Len(t[q]) : t[q][j] \in Widgets /\ EndsIn(Shown(t)[l], t[q][j])

Leads(t, l, to, q, k) ==
    /\ q \in Existing(t) /\ to \in 1..Len(Shown(t)[l]) + 1
    /\ to <= Len(Shown(t)[l]) => AheadOf(t, Shown(t)[l][to], q, k)
    /\ to = Len(Shown(t)[l]) + 1 => AtEnd(t, l, q, k)

\* u shows w at that position, and for the rest what t shows.
ShowsPut(t, u, l, to, w) ==
    /\ Shown(u)[l] = Put(Shown(t)[l], to, w)
    /\ \A m \in Lists : m # l => Shown(u)[m] = Shown(t)[m]

LEMMA ShownOfFine ==
    ASSUME NEW t, Fine(t)
    PROVE  /\ Shown(t) \in [Places -> Seq(Widgets)] /\ Solves(Shown(t), t)
           /\ \A l \in Lists : l \in Places /\ l \in Existing(t) /\ Shown(t)[l] \in Seq(Widgets)
           /\ \A p \in Existing(t) : NoRepeat(Shown(t)[p])
           /\ \A l, m \in Lists : l # m => \A x : ~(Has(Shown(t)[l], x) /\ Has(Shown(t)[m], x))
  <1>1. TreeLoads(t) /\ WrittenOnce(t) /\ IsTree(t)
    BY FineIs
  <1>2. Shown(t) \in [Places -> Seq(Widgets)] /\ Solves(Shown(t), t)
    BY <1>1, ShownType, ShownSolves
  <1>3. \A l \in Lists : l \in Places /\ l \in Existing(t)
    BY <1>1, PlacesAre DEF IsTree, Existing
  <1>4. \A p \in Existing(t) : NoRepeat(Shown(t)[p])
    BY <1>1, <1>2, ShownOnce
  <1>5. ASSUME NEW l \in Lists, NEW m \in Lists, l # m, NEW x
        PROVE  ~(Has(Shown(t)[l], x) /\ Has(Shown(t)[m], x))
    BY <1>1, <1>2, <1>5, ListsAreApart
  <1> QED  BY <1>2, <1>3, <1>4, <1>5

\* In the place of a widget of the list.
LEMMA PutBeforeShows ==
    ASSUME NEW t, Fine(t), NEW l \in Lists, NEW to \in 1..Len(Shown(t)[l]), NEW q \in Existing(t),
           NEW k \in 1..Len(t[q]), t[q][k] = Shown(t)[l][to], NEW m \in Seq(Widgets),
           NEW u, Changes(t, u, q, Spliced(t[q], k, m))
    PROVE  /\ TreeLoads(u) /\ Existing(u) = Existing(t)
           /\ Shown(u)[l] = Spliced(Shown(t)[l], to, m)
           /\ \A n \in Lists : n # l => Shown(u)[n] = Shown(t)[n]
  <1>1. TreeLoads(t) /\ WrittenOnce(t) /\ l \in Existing(t) /\ Shown(t)[l] \in Seq(Widgets)
    BY FineIs, ShownOfFine
  <1>2. t[q][k] \in Widgets /\ Has(Shown(t)[l], t[q][k])
    BY <1>1, ElementOfSeq DEF Has
  <1>3. /\ TreeLoads(u) /\ Existing(u) = Existing(t)
        /\ \A p \in Existing(t) :
              /\ ~Has(Shown(t)[p], t[q][k]) => Shown(u)[p] = Shown(t)[p]
              /\ \A n \in 1..Len(Shown(t)[p]) :
                    Shown(t)[p][n] = t[q][k] => Shown(u)[p] = Spliced(Shown(t)[p], n, m)
    BY <1>1, <1>2, SplicedShows
  <1>4. \A n \in Lists : n # l => n \in Existing(t) /\ ~Has(Shown(t)[n], t[q][k])
    BY <1>2, ShownOfFine
  <1> QED  BY <1>1, <1>3, <1>4

LEMMA PutInFrontShows ==
    ASSUME NEW t, Fine(t), NEW l \in Lists, NEW to \in 1..Len(Shown(t)[l]), NEW q \in Existing(t),
           NEW k \in 1..Len(t[q]), t[q][k] = Shown(t)[l][to], NEW w \in Widgets,
           NEW u, Changes(t, u, q, Put(t[q], k, w))
    PROVE  ShowsPut(t, u, l, to, w)
  <1> DEFINE y == t[q][k]  m == <<w, y>>  z == Shown(t)[l]
  <1>1. z \in Seq(Widgets) /\ t[q] \in Seq(Items) /\ y \in Widgets /\ w \in Items
    BY FineIs, ShownOfFine, ElementOfSeq DEF Items
  <1>2. m \in Seq(Widgets)
    BY <1>1, TwoIs
  <1>3. Put(t[q], k, w) = Spliced(t[q], k, m)
    BY <1>1, PutInFront
  <1>4. Put(z, to, w) = Spliced(z, to, m)
    BY <1>1, PutInFront
  <1> HIDE DEF m
  <1>5. Changes(t, u, q, Spliced(t[q], k, m))
    BY <1>3
  <1>6. /\ Shown(u)[l] = Spliced(Shown(t)[l], to, m)
        /\ \A n \in Lists : n # l => Shown(u)[n] = Shown(t)[n]
    BY <1>2, <1>5, PutBeforeShows
  <1> QED  BY <1>4, <1>6 DEF ShowsPut

LEMMA ChangesBack ==
    ASSUME NEW t, IsTree(t), NEW a \in Existing(t), NEW s, NEW v, Changes(t, v, a, s),
           NEW z, Changes(v, z, a, t[a])
    PROVE  z = t
  BY DEF IsTree, Existing, Changes

\* In front of the include of a file that y is the first of.
LEMMA PutOutShows ==
    ASSUME NEW t, Fine(t), NEW l \in Lists, NEW to \in 1..Len(Shown(t)[l]), NEW q \in Existing(t),
           NEW k \in 1..Len(t[q]), NEW f \in Files, t[q][k] = f, t[f] # << >>, t[f][1] = Shown(t)[l][to],
           NEW w \in Widgets, IsNew(t, w), NEW u, Changes(t, u, q, Put(t[q], k, w))
    PROVE  ShowsPut(t, u, l, to, w)
  <1> DEFINE v == [t EXCEPT ![f] = Put(t[f], 1, w)]  z == [v EXCEPT ![f] = RemoveAt(v[f], 1)]
  <1>1. TreeLoads(t) /\ IsTree(t) /\ \A p \in Existing(t) : t[p] \in Seq(Items)
    BY FineIs
  <1>2. f \in Existing(t) /\ f # q
    BY <1>1, DeeperIsAnother
  <1>3. w \in Items /\ t[f] \in Seq(Items) /\ 1 \in 1..Len(t[f]) /\ 1 \in 1..Len(t[f]) + 1
    BY <1>1, <1>2, EmptySeq DEF Items
  <1>4. Changes(t, v, f, Put(t[f], 1, w)) /\ Changes(v, z, f, RemoveAt(v[f], 1))
    BY DEF Changes
  <1> HIDE DEF v, z
  <1>5. /\ Fine(v) /\ Existing(v) = Existing(t) /\ v[f] = Put(t[f], 1, w)
        /\ \A p \in Existing(t) : p # f => v[p] = t[p]
    BY <1>2, <1>3, <1>4, PutFine
  <1>6. ShowsPut(t, v, l, to, w)
    BY <1>2, <1>3, <1>4, PutInFrontShows
  <1>7. RemoveAt(v[f], 1) = t[f]
    BY <1>3, <1>5, TakeBack
  <1>8. z = t
    <2>1. Changes(v, z, f, t[f])
      BY <1>4, <1>7
    <2> QED  BY <1>1, <1>2, <1>4, <2>1, ChangesBack
  <1>9. v[f] \in Seq(Items) /\ Len(v[f]) = Len(t[f]) + 1 /\ v[f][1] = w
    <2>1. v[f] \in Seq(Items) /\ Widened(v[f], t[f], 1, w)
      BY <1>3, <1>5, PutIs
    <2> QED  BY <2>1 DEF Widened
  <1>10. v[f] # << >> /\ v[f][1] \in Widgets /\ v[q] = t[q] /\ v[q][k] = f /\ q \in Existing(v) /\ k \in 1..Len(v[q])
    BY <1>2, <1>3, <1>5, <1>9
  <1>11. Changes(z, u, q, Put(z[q], k, v[f][1]))
    BY <1>8, <1>9
  <1>12. \A p \in Existing(v) : p # f => Shown(u)[p] = Shown(v)[p]
    <2>1. MovesOut(v, z, u, q, k, f)
      BY <1>4, <1>5, <1>10, <1>11 DEF MovesOut
    <2> QED  BY <1>5, <2>1, MovedOut
  <1>13. \A n \in Lists : n \in Existing(v) /\ n # f
    BY <1>5, ShownOfFine, PlacesAre
  <1> QED  BY <1>6, <1>12, <1>13 DEF ShowsPut

LEMMA PutEndShows ==
    ASSUME NEW t, Fine(t), NEW l \in Lists, NEW w \in Widgets, IsNew(t, w),
           NEW u, Changes(t, u, l, Put(t[l], Len(t[l]) + 1, w))
    PROVE  ShowsPut(t, u, l, Len(Shown(t)[l]) + 1, w)
  <1> DEFINE F == Shown(t)  c == Cell(F)  G == [F EXCEPT ![l] = Append(F[l], w)]  g == Cell(G)
             k == Len(t[l]) + 1
  <1>1. /\ F \in [Places -> Seq(Widgets)] /\ Solves(F, t)
        /\ \A n \in Lists : n \in Places /\ n \in Existing(t) /\ F[n] \in Seq(Widgets)
    BY ShownOfFine
  <1>2. w \in Items /\ \A p \in Existing(t) : t[p] \in Seq(Items)
    BY FineIs DEF Items
  <1>3. k \in 1..Len(t[l]) + 1
    BY <1>1, <1>2, LenProperties
  <1>4. /\ Fine(u) /\ Existing(u) = Existing(t) /\ u[l] = Put(t[l], k, w)
        /\ \A p \in Existing(t) : p # l => u[p] = t[p]
    <2> HIDE DEF k
    <2> QED  BY <1>1, <1>3, PutFine DEF k
  <1>5. u[l] = Append(t[l], w)
    BY <1>1, <1>2, <1>4, PutLast
  <1>6. G \in [Places -> Seq(Widgets)] /\ G[l] = Append(F[l], w) /\ \A p \in Places : p # l => G[p] = F[p]
    <2>1. Append(F[l], w) \in Seq(Widgets)
      BY <1>1, AppendProperties
    <2> QED  BY <1>1, <2>1
  <1>7. /\ c \in Cells(Items, Widgets) /\ \A e \in Files : c[e] = F[e]
        /\ \A e \in Widgets : c[e] = <<e>>
    <2> HIDE DEF F
    <2> QED  BY <1>1, CellType
  <1>8. /\ \A e \in Files : g[e] = G[e]
        /\ \A e \in Widgets : g[e] = <<e>>
    <2> HIDE DEF G
    <2> QED  BY <1>6, CellType
  <1>9. \A e \in Items : g[e] = c[e]
    <2>1. \A e \in Files : e \in Places /\ e # l
      BY PlacesAre
    <2> QED  BY <1>6, <1>7, <1>8, <2>1 DEF Items
  <1> HIDE DEF F, G, c, g, k
  <1>10. ASSUME NEW s \in Seq(Items) PROVE Flat(g, s) = Flat(c, s)
    <2>1. \A i \in 1..Len(s) : g[s[i]] = c[s[i]]
      BY <1>9, ElementOfSeq
    <2> QED  BY <2>1, FlatSame
  <1>11. Append(t[l], w) \in Seq(Items)
    BY <1>1, <1>2, AppendProperties
  <1>12. Flat(c, Append(t[l], w)) = Flat(c, t[l]) \o c[w]
    BY <1>1, <1>2, <1>7, FlatAppend
  <1>13. \A p \in Existing(t) : F[p] = Flat(c, t[p])
    BY <1>1 DEF Solves, c
  <1>14. Append(F[l], w) = F[l] \o <<w>>
    <2>1. F[l] \in Seq(Widgets)
      BY <1>1
    <2> DEFINE z == F[l]
    <2> HIDE DEF z
    <2>2. z \in Seq(Widgets)
      BY <2>1 DEF z
    <2>3. Append(z, w) = z \o <<w>>
      BY <2>2, AppendIsConcat
    <2> QED  BY <2>3 DEF z
  <1>15. G[l] = Flat(g, u[l])
    BY <1>1, <1>5, <1>6, <1>7, <1>10, <1>11, <1>12, <1>13, <1>14
  <1>16. ASSUME NEW p \in Existing(t), p # l PROVE G[p] = Flat(g, u[p])
    <2>1. p \in Places
      BY DEF Existing
    <2> QED  BY <1>2, <1>4, <1>6, <1>10, <1>13, <1>16, <2>1
  <1>17. Solves(G, u)
    BY <1>4, <1>6, <1>15, <1>16 DEF Solves, g
  <1>18. \A p \in Existing(t) : Shown(u)[p] = G[p]
    BY <1>4, <1>17, ShownIs DEF Fine
  <1>19. Put(F[l], Len(F[l]) + 1, w) = Append(F[l], w)
    BY <1>1, PutLast
  <1>20. Shown(u)[l] = Put(F[l], Len(F[l]) + 1, w)
    BY <1>1, <1>6, <1>18, <1>19
  <1>21. \A n \in Lists : n # l => Shown(u)[n] = F[n]
    BY <1>1, <1>6, <1>18
  <1> QED  BY <1>20, <1>21 DEF ShowsPut, F

\* Behind everything in the place the last widget is written in.
LEMMA PutLastShows ==
    ASSUME NEW t, Fine(t), NEW l \in Lists, NEW q \in Existing(t), NEW j \in 1..Len(t[q]),
           t[q][j] \in Widgets, EndsIn(Shown(t)[l], t[q][j]), NEW w \in Widgets, IsNew(t, w),
           NEW u, Changes(t, u, q, Put(t[q], Len(t[q]) + 1, w))
    PROVE  ShowsPut(t, u, l, Len(Shown(t)[l]) + 1, w)
  <1> DEFINE z == Shown(t)[l]  n == Len(z)  m == <<t[q][j], w>>
             v == [t EXCEPT ![q] = Put(t[q], j + 1, w)]
  <1>1. /\ l \in Existing(t) /\ z \in Seq(Widgets) /\ n \in 1..Len(z) /\ z[n] = t[q][j]
    BY ShownOfFine, LenProperties, EmptySeq DEF EndsIn
  <1>2. IsTree(t) /\ t[q] \in Seq(Items) /\ w \in Items /\ q \in Places
    BY FineIs DEF Items, Existing
  <1>3. Changes(t, v, q, Put(t[q], j + 1, w)) /\ j + 1 \in 1..Len(t[q]) + 1
    BY <1>2, LenProperties DEF Changes
  <1> HIDE DEF v
  <1>4. /\ Fine(v) /\ Existing(v) = Existing(t) /\ v[q] = Put(t[q], j + 1, w)
        /\ \A p \in Existing(t) : p # q => v[p] = t[p]
    BY <1>3, PutFine
  <1>5. m \in Seq(Widgets) /\ Put(t[q], j + 1, w) = Spliced(t[q], j, m)
    BY <1>2, TwoIs, PutBehind
  <1>6. Put(z, n + 1, w) = Spliced(z, n, m)
    BY <1>1, PutBehind
  <1>7. ShowsPut(t, v, l, n + 1, w)
    <2>1. Changes(t, v, q, Spliced(t[q], j, m)) /\ m \in Seq(Widgets)
      BY <1>3, <1>5
    <2> HIDE DEF m
    <2>2. /\ Shown(v)[l] = Spliced(Shown(t)[l], n, m)
          /\ \A i \in Lists : i # l => Shown(v)[i] = Shown(t)[i]
      BY <1>1, <2>1, PutBeforeShows
    <2> QED  BY <1>6, <2>2 DEF ShowsPut
  <1>8. Put(z, n + 1, w) = Append(z, w)
    BY <1>1, PutLast
  <1>9. EndsIn(Shown(v)[l], w)
    <2>1. Shown(v)[l] = Append(z, w)
      BY <1>7, <1>8 DEF ShowsPut
    <2> HIDE DEF z
    <2>2. Append(z, w) # << >> /\ Append(z, w)[Len(Append(z, w))] = w
      BY <1>1, AppendProperties
    <2> QED  BY <2>1, <2>2 DEF EndsIn
  <1>10. /\ v[q] \in Seq(Items) /\ Len(v[q]) = Len(t[q]) + 1 /\ v[q][j + 1] = w
         /\ RemoveAt(v[q], j + 1) = t[q]
    <2> DEFINE k == j + 1  s == t[q]
    <2>1. k \in 1..Len(s) + 1 /\ s \in Seq(Items) /\ w \in Items /\ v[q] = Put(s, k, w)
      BY <1>2, <1>3, <1>4
    <2> HIDE DEF k, s
    <2>2. v[q] \in Seq(Items) /\ Widened(v[q], s, k, w)
      BY <2>1, PutIs
    <2>3. RemoveAt(v[q], k) = s
      BY <2>1, TakeBack
    <2>4. Len(v[q]) = Len(s) + 1 /\ v[q][k] = w
      BY <2>2 DEF Widened
    <2> QED  BY <2>2, <2>3, <2>4 DEF k, s
  <1>11. j + 1 \in 1..Len(v[q])
    BY <1>3, <1>10
  <1>12. Changes(v, u, q, Append(RemoveAt(v[q], j + 1), v[q][j + 1]))
    <2>1. Put(t[q], Len(t[q]) + 1, w) = Append(t[q], w)
      BY <1>2, PutLast
    <2>2. u = [t EXCEPT ![q] = Append(t[q], w)]
      BY <2>1 DEF Changes
    <2>3. v = [t EXCEPT ![q] = v[q]]
      BY <1>2, <1>3, <1>4 DEF Changes
    <2>4. u = [v EXCEPT ![q] = Append(t[q], w)]
      BY <1>2, <2>2, <2>3 DEF IsTree
    <2> QED  BY <1>10, <2>4 DEF Changes
  <1>13. \A p \in Existing(v) : Shown(u)[p] = Shown(v)[p]
    BY <1>1, <1>4, <1>9, <1>10, <1>11, <1>12, MoveToEnd
  <1>14. \A i \in Lists : i \in Existing(v)
    BY <1>4, ShownOfFine
  <1> QED  BY <1>7, <1>13, <1>14 DEF ShowsPut

LEMMA PutShows ==
    ASSUME NEW t, Fine(t), NEW l \in Lists, NEW to, NEW q, NEW k, Leads(t, l, to, q, k),
           NEW w \in Widgets, IsNew(t, w), NEW u, Changes(t, u, q, Put(t[q], k, w))
    PROVE  ShowsPut(t, u, l, to, w)
  <1>1. q \in Existing(t) /\ to \in 1..Len(Shown(t)[l]) + 1 /\ Shown(t)[l] \in Seq(Widgets)
    BY ShownOfFine DEF Leads
  <1>2. CASE to <= Len(Shown(t)[l])
    <2>1. AheadOf(t, Shown(t)[l][to], q, k) /\ to \in 1..Len(Shown(t)[l])
      BY <1>1, <1>2 DEF Leads
    <2>2. CASE t[q][k] = Shown(t)[l][to]
      BY <1>1, <2>1, <2>2, PutInFrontShows DEF AheadOf
    <2>3. CASE t[q][k] \in Files /\ t[t[q][k]] # << >> /\ t[t[q][k]][1] = Shown(t)[l][to]
      BY <1>1, <2>1, <2>3, PutOutShows DEF AheadOf
    <2> QED  BY <2>1, <2>2, <2>3 DEF AheadOf
  <1>3. CASE to = Len(Shown(t)[l]) + 1
    <2>1. AtEnd(t, l, q, k) /\ k = Len(t[q]) + 1
      BY <1>3 DEF Leads, AtEnd
    <2>2. CASE q = l
      BY <1>3, <2>1, <2>2, PutEndShows
    <2>3. CASE \E j \in 1..Len(t[q]) : t[q][j] \in Widgets /\ EndsIn(Shown(t)[l], t[q][j])
      <3>1. PICK j \in 1..Len(t[q]) : t[q][j] \in Widgets /\ EndsIn(Shown(t)[l], t[q][j])
        BY <2>3
      <3> QED  BY <1>1, <1>3, <2>1, <3>1, PutLastShows
    <2> QED  BY <2>1, <2>2, <2>3 DEF AtEnd
  <1>4. Len(Shown(t)[l]) \in Nat
    BY <1>1, LenProperties
  <1> QED  BY <1>1, <1>2, <1>3, <1>4

-----------------------------------------------------------------------------
\* A widget taken out of its list, and put in somewhere else.

LEMMA TakeShows ==
    ASSUME NEW t, Fine(t), NEW l \in Lists, NEW at \in 1..Len(Shown(t)[l]), NEW q \in Existing(t),
           NEW i \in 1..Len(t[q]), t[q][i] = Shown(t)[l][at],
           NEW u, Changes(t, u, q, RemoveAt(t[q], i))
    PROVE  /\ Shown(u)[l] = RemoveAt(Shown(t)[l], at)
           /\ \A n \in Lists : n # l => Shown(u)[n] = Shown(t)[n]
  <1> DEFINE none == << >>
  <1>1. t[q] \in Seq(Items) /\ Shown(t)[l] \in Seq(Widgets) /\ none \in Seq(Widgets)
    BY FineIs, ShownOfFine, EmptySeq
  <1>2. RemoveAt(t[q], i) = Spliced(t[q], i, none) /\ RemoveAt(Shown(t)[l], at) = Spliced(Shown(t)[l], at, none)
    BY <1>1, RemoveIs
  <1>3. Changes(t, u, q, Spliced(t[q], i, none))
    BY <1>2
  <1> HIDE DEF none
  <1>4. /\ Shown(u)[l] = Spliced(Shown(t)[l], at, none)
        /\ \A n \in Lists : n # l => Shown(u)[n] = Shown(t)[n]
    BY <1>1, <1>3, PutBeforeShows
  <1> QED  BY <1>2, <1>4

\* Where position k is once position i of the same list is gone.
Down(k, i) == IF k > i THEN k - 1 ELSE k

Shifted(k, i, a, b) == IF a = b THEN Down(k, i) ELSE k

LEMMA StillThere ==
    ASSUME NEW S, NEW s \in Seq(S), NEW i \in 1..Len(s), NEW k \in 1..Len(s), k # i
    PROVE  /\ Down(k, i) \in 1..Len(RemoveAt(s, i))
           /\ RemoveAt(s, i)[Down(k, i)] = s[k]
  <1> DEFINE v == RemoveAt(s, i)
  <1>1. /\ v \in Seq(S) /\ Len(v) = Len(s) - 1
        /\ \A j \in 1..i - 1 : v[j] = s[j]
        /\ \A j \in i..Len(s) - 1 : v[j] = s[j + 1]
    <2>1. v \in Seq(S) /\ Narrowed(v, s, i)
      BY TakenIs
    <2> HIDE DEF v
    <2> QED  BY <2>1 DEF Narrowed
  <1> HIDE DEF v
  <1>2. Len(s) \in Nat
    BY LenProperties
  <1>3. CASE k < i
    <2>1. Down(k, i) = k
      BY <1>3 DEF Shifted, Down
    <2> QED  BY <1>1, <1>2, <1>3, <2>1 DEF v
  <1>4. CASE k > i
    <2>1. Down(k, i) = k - 1
      BY <1>4 DEF Shifted, Down
    <2>2. k - 1 \in i..Len(s) - 1 /\ k - 1 \in 1..Len(v) /\ (k - 1) + 1 = k
      BY <1>1, <1>2, <1>4
    <2>3. v[k - 1] = s[(k - 1) + 1]
      BY <1>1, <2>2
    <2> QED  BY <2>1, <2>2, <2>3 DEF v
  <1> QED  BY <1>3, <1>4

\* Whoever is put where the insertion leads does not look at x.
NotBy(t, m, to, q, x) ==
    /\ to <= Len(Shown(t)[m]) => Shown(t)[m][to] # x
    /\ to = Len(Shown(t)[m]) + 1 =>
          q = m \/ \E j \in 1..Len(t[q]) :
                      t[q][j] \in Widgets /\ t[q][j] # x /\ EndsIn(Shown(t)[m], t[q][j])

LEMMA LeadsStill ==
    ASSUME NEW t, Fine(t), NEW l \in Lists, NEW at \in 1..Len(Shown(t)[l]), NEW q \in Existing(t),
           NEW i \in 1..Len(t[q]), t[q][i] = Shown(t)[l][at],
           NEW u, Changes(t, u, q, RemoveAt(t[q], i)),
           NEW m \in Lists, NEW to, NEW o, NEW k, Leads(t, m, to, o, k), NotBy(t, m, to, o, t[q][i])
    PROVE  Leads(u, m, Shifted(to, at, l, m), o, Shifted(k, i, o, q))
  <1> DEFINE x == t[q][i]  z == Shown(t)[m]  zu == Shown(u)[m]
             there == Shifted(to, at, l, m)  ku == Shifted(k, i, o, q)
  <1>1. /\ Existing(u) = Existing(t) /\ u[q] = RemoveAt(t[q], i)
        /\ \A p \in Existing(t) : p # q => u[p] = t[p]
    BY TakeFine
  <1>2. zu = IF m = l THEN RemoveAt(z, at) ELSE z
    BY TakeShows
  <1>3. /\ z \in Seq(Widgets) /\ Len(z) \in Nat
        /\ \A p \in Existing(t) : t[p] \in Seq(Items) /\ Len(t[p]) \in Nat
    BY FineIs, ShownOfFine, LenProperties
  <1>4. x \notin Files
    BY ShownOfFine, ElementOfSeq, PlacesAre
  <1>5. o \in Existing(t) /\ to \in 1..Len(z) + 1
    BY DEF Leads
  <1>6. m = l => at \in 1..Len(z) /\ z[at] = x
    OBVIOUS
  <1>7. \A n \in 1..Len(z) : (m = l => n # at) =>
           Shifted(n, at, l, m) \in 1..Len(zu) /\ zu[Shifted(n, at, l, m)] = z[n]
    <2>1. CASE m = l
      <3>1. ASSUME NEW n \in 1..Len(z), n # at
            PROVE  /\ Down(n, at) \in 1..Len(RemoveAt(z, at))
                   /\ RemoveAt(z, at)[Down(n, at)] = z[n]
        BY <1>3, <1>6, <2>1, <3>1, StillThere
      <3>2. \A n : Shifted(n, at, l, m) = Down(n, at)
        BY <2>1 DEF Shifted
      <3> HIDE DEF zu, z
      <3> QED  BY <1>2, <2>1, <3>1, <3>2
    <2>2. CASE m # l
      BY <1>2, <2>2 DEF Shifted, Down
    <2> QED  BY <2>1, <2>2
  <1>8. Len(zu) = (IF m = l THEN Len(z) - 1 ELSE Len(z)) /\ zu \in Seq(Widgets)
    <2>1. CASE m = l
      <3>1. RemoveAt(z, at) \in Seq(Widgets) /\ Narrowed(RemoveAt(z, at), z, at)
        BY <1>3, <1>6, <2>1, TakenIs
      <3> QED  BY <1>2, <2>1, <3>1 DEF Narrowed
    <2> QED  BY <1>2, <1>3, <2>1
  <1>9. \A p \in Existing(t) : \A n \in 1..Len(t[p]) : (p = q => n # i) =>
           Shifted(n, i, p, q) \in 1..Len(u[p]) /\ u[p][Shifted(n, i, p, q)] = t[p][n]
    <2> SUFFICES ASSUME NEW p \in Existing(t), NEW n \in 1..Len(t[p]), p = q => n # i
                 PROVE  Shifted(n, i, p, q) \in 1..Len(u[p]) /\ u[p][Shifted(n, i, p, q)] = t[p][n]
      OBVIOUS
    <2>1. CASE p = q
      <3>1. /\ Down(n, i) \in 1..Len(RemoveAt(t[q], i))
            /\ RemoveAt(t[q], i)[Down(n, i)] = t[q][n]
        BY <1>3, <2>1, StillThere
      <3>2. Shifted(n, i, p, q) = Down(n, i)
        BY <2>1 DEF Shifted
      <3> QED  BY <1>1, <2>1, <3>1, <3>2
    <2>2. CASE p # q
      BY <1>1, <2>2 DEF Shifted, Down
    <2> QED  BY <2>1, <2>2
  <1>10. \A p \in Existing(t) : Len(u[p]) = IF p = q THEN Len(t[p]) - 1 ELSE Len(t[p])
    <2>1. Narrowed(RemoveAt(t[q], i), t[q], i)
      BY <1>3, TakenIs
    <2> QED  BY <1>1, <2>1 DEF Narrowed
  <1> HIDE DEF x, z, zu
  <1>11. CASE to <= Len(z)
    <2> DEFINE y == z[to]
    <2>1. AheadOf(t, y, o, k) /\ y # x /\ to \in 1..Len(z)
      BY <1>3, <1>5, <1>11 DEF Leads, NotBy, z, x
    <2>2. k \in 1..Len(t[o])
      BY <2>1 DEF AheadOf
    <2>3. there \in 1..Len(zu) /\ zu[there] = y
      <3>1. m = l => to # at
        BY <1>6, <2>1
      <3> QED  BY <1>7, <2>1, <3>1
    <2>4. AheadOf(u, y, o, ku)
      <3>1. CASE t[o][k] = y
        <4>1. o = q => k # i
          BY <2>1, <3>1 DEF x
        <4>2. ku \in 1..Len(u[o]) /\ u[o][ku] = t[o][k]
          BY <1>5, <1>9, <2>2, <4>1
        <4> HIDE DEF ku
        <4> QED  BY <3>1, <4>2 DEF AheadOf
      <3>2. CASE t[o][k] \in Files /\ t[t[o][k]] # << >> /\ t[t[o][k]][1] = y
        <4> DEFINE f == t[o][k]
        <4>1. o = q => k # i
          BY <1>4, <3>2 DEF x
        <4>2. ku \in 1..Len(u[o]) /\ u[o][ku] = f
          BY <1>5, <1>9, <2>2, <4>1
        <4>3. f \in Existing(t)
          BY <1>5, <2>2, <3>2, FineIs, DeeperIsAnother
        <4>4. 1 \in 1..Len(t[f])
          BY <1>3, <3>2, <4>3, EmptySeq
        <4>5. f = q => 1 # i
          BY <2>1, <3>2 DEF x
        <4>6. Shifted(1, i, f, q) = 1
          BY DEF Shifted, Down
        <4>7. 1 \in 1..Len(u[f]) /\ u[f][1] = y
          <5>1. Shifted(1, i, f, q) \in 1..Len(u[f]) /\ u[f][Shifted(1, i, f, q)] = t[f][1]
            <6> HIDE DEF f
            <6> QED  BY <1>9, <4>3, <4>4, <4>5
          <5> QED  BY <3>2, <4>6, <5>1
        <4>8. u[f] # << >>
          <5>1. Len(<< >>) = 0
            BY LenProperties, EmptySeq
          <5> HIDE DEF f
          <5> QED  BY <4>7, <5>1
        <4> HIDE DEF ku
        <4> QED  BY <3>2, <4>2, <4>7, <4>8 DEF AheadOf
      <3> QED  BY <2>1, <3>1, <3>2 DEF AheadOf
    <2>5. there \in 1..Len(zu) + 1 /\ there <= Len(zu) /\ there # Len(zu) + 1
      BY <1>8, <2>3, LenProperties
    <2> HIDE DEF there, ku
    <2>6. Leads(u, m, there, o, ku)
      BY <1>1, <1>5, <2>3, <2>4, <2>5 DEF Leads, zu
    <2> QED  BY <2>6 DEF there, ku
  <1>12. CASE to = Len(z) + 1
    <2>1. k = Len(t[o]) + 1
      BY <1>12 DEF Leads, AtEnd, z
    <2>2. there = Len(zu) + 1
      BY <1>3, <1>6, <1>8, <1>12 DEF Shifted, Down
    <2>3. ku = Len(u[o]) + 1
      <3>1. CASE o = q
        <4>1. Len(u[o]) = Len(t[o]) - 1 /\ k > i /\ Len(t[o]) \in Nat
          BY <1>3, <1>5, <1>10, <2>1, <3>1
        <4> QED  BY <2>1, <3>1, <4>1 DEF Shifted, Down
      <3>2. CASE o # q
        BY <1>3, <1>5, <1>10, <2>1, <3>2 DEF Shifted, Down
      <3> QED  BY <3>1, <3>2
    <2>4. o = m \/ \E j \in 1..Len(u[o]) : u[o][j] \in Widgets /\ EndsIn(zu, u[o][j])
      <3>1. SUFFICES ASSUME o # m PROVE \E j \in 1..Len(u[o]) : u[o][j] \in Widgets /\ EndsIn(zu, u[o][j])
        OBVIOUS
      <3>2. PICK j \in 1..Len(t[o]) : t[o][j] \in Widgets /\ t[o][j] # x /\ EndsIn(z, t[o][j])
        BY <1>12, <3>1 DEF NotBy, z, x
      <3> DEFINE y == t[o][j]
      <3>3. o = q => j # i
        BY <3>2 DEF x
      <3>4. Shifted(j, i, o, q) \in 1..Len(u[o]) /\ u[o][Shifted(j, i, o, q)] = y
        BY <1>5, <1>9, <3>3
      <3>5. Len(z) \in 1..Len(z) /\ z[Len(z)] = y /\ (m = l => Len(z) # at)
        BY <1>3, <1>6, <3>2, EmptySeq DEF EndsIn
      <3>6. Shifted(Len(z), at, l, m) \in 1..Len(zu) /\ zu[Shifted(Len(z), at, l, m)] = y
        BY <1>7, <3>5
      <3>7. Shifted(Len(z), at, l, m) = Len(zu)
        BY <1>3, <1>6, <1>8, <3>5 DEF Shifted, Down
      <3>8. EndsIn(zu, y)
        <4>1. zu # << >>
          BY <3>6, <3>7, EmptySeq
        <4> QED  BY <3>6, <3>7, <4>1 DEF EndsIn
      <3> QED  BY <3>2, <3>4, <3>8
    <2>5. there \in 1..Len(zu) + 1 /\ ~(there <= Len(zu))
      BY <1>8, <2>2, LenProperties
    <2>6. AtEnd(u, m, o, ku)
      BY <2>3, <2>4 DEF AtEnd, zu
    <2> HIDE DEF there, ku
    <2>7. Leads(u, m, there, o, ku)
      BY <1>1, <1>5, <2>2, <2>5, <2>6 DEF Leads, zu
    <2> QED  BY <2>7 DEF there, ku
  <1>13. to <= Len(z) \/ to = Len(z) + 1
    BY <1>3, <1>5
  <1> QED  BY <1>11, <1>12, <1>13

\* u shows what t shows, with one widget moved.
ShowsMove(t, u, l, at, m, to) ==
    /\ l # m => Shown(u)[l] = RemoveAt(Shown(t)[l], at)
    /\ Shown(u)[m] = Put(IF l = m THEN RemoveAt(Shown(t)[l], at) ELSE Shown(t)[m],
                         Shifted(to, at, l, m), Shown(t)[l][at])
    /\ \A n \in Lists : n # l /\ n # m => Shown(u)[n] = Shown(t)[n]

\* The files of a page with the entry at (q, i) moved to (o, k).
Moves(t, v, u, q, i, o, k) ==
    /\ Changes(t, v, q, RemoveAt(t[q], i))
    /\ Changes(v, u, o, Put(v[o], Shifted(k, i, o, q), t[q][i]))

LEMMA MoveFine ==
    ASSUME NEW t, Fine(t), NEW q \in Existing(t), NEW i \in 1..Len(t[q]), t[q][i] \in Widgets,
           NEW o \in Existing(t), NEW k \in 1..Len(t[o]) + 1, NEW v, NEW u, Moves(t, v, u, q, i, o, k)
    PROVE  /\ Fine(v) /\ Existing(v) = Existing(t) /\ v[q] = RemoveAt(t[q], i)
           /\ \A p \in Existing(t) : p # q => v[p] = t[p]
           /\ IsNew(v, t[q][i])
           /\ Fine(u) /\ Existing(u) = Existing(t)
           /\ Shifted(k, i, o, q) \in 1..Len(v[o]) + 1
           /\ u[o] = Put(v[o], Shifted(k, i, o, q), t[q][i])
           /\ \A p \in Existing(t) : p # o => u[p] = v[p]
  <1> DEFINE x == t[q][i]  ku == Shifted(k, i, o, q)
  <1>1. /\ Fine(v) /\ Existing(v) = Existing(t) /\ v[q] = RemoveAt(t[q], i)
        /\ \A p \in Existing(t) : p # q => v[p] = t[p]
        /\ IsNew(v, x)
    BY TakeFine DEF Moves
  <1>2. t[q] \in Seq(Items) /\ Len(t[q]) \in Nat /\ Len(v[q]) = Len(t[q]) - 1
    <2>1. t[q] \in Seq(Items) /\ Len(t[q]) \in Nat
      BY FineIs, LenProperties
    <2>2. Narrowed(RemoveAt(t[q], i), t[q], i)
      BY <2>1, TakenIs
    <2> QED  BY <1>1, <2>1, <2>2 DEF Narrowed
  <1>3. Len(v[o]) = IF o = q THEN Len(t[o]) - 1 ELSE Len(t[o])
    BY <1>1, <1>2
  <1>4. t[o] \in Seq(Items) /\ Len(t[o]) \in Nat
    BY FineIs, LenProperties
  <1>5. ku \in 1..Len(v[o]) + 1
    BY <1>2, <1>3, <1>4 DEF Shifted, Down
  <1>6. Changes(v, u, o, Put(v[o], ku, x)) /\ x \in Widgets
    BY DEF Moves
  <1> HIDE DEF x, ku
  <1>7. /\ Fine(u) /\ Existing(u) = Existing(v) /\ u[o] = Put(v[o], ku, x)
        /\ \A p \in Existing(v) : p # o => u[p] = v[p]
    BY <1>1, <1>5, <1>6, PutFine
  <1> QED  BY <1>1, <1>5, <1>7 DEF x, ku

\* Nothing shows differently.
LEMMA MovesNowhere ==
    ASSUME NEW t, Fine(t), NEW l \in Lists, NEW at \in 1..Len(Shown(t)[l]), NEW to,
           Down(to, at) = at,
           NEW u, \A n \in Lists : Shown(u)[n] = Shown(t)[n]
    PROVE  ShowsMove(t, u, l, at, l, to)
  <1>1. Shown(t)[l] \in Seq(Widgets)
    BY ShownOfFine
  <1>2. Put(RemoveAt(Shown(t)[l], at), at, Shown(t)[l][at]) = Shown(t)[l]
    BY <1>1, PutBack
  <1>3. Shifted(to, at, l, l) = at
    BY DEF Shifted, Down
  <1> QED  BY <1>2, <1>3 DEF ShowsMove

LEMMA MoveShows ==
    ASSUME NEW t, Fine(t), NEW l \in Lists, NEW at \in 1..Len(Shown(t)[l]), NEW q \in Existing(t),
           NEW i \in 1..Len(t[q]), t[q][i] = Shown(t)[l][at],
           NEW m \in Lists, NEW to, NEW o, NEW k, Leads(t, m, to, o, k),
           k \in 1..Len(t[o]) + 1, NEW v, NEW u, Moves(t, v, u, q, i, o, k)
    PROVE  ShowsMove(t, u, l, at, m, to)
  <1> DEFINE x == t[q][i]  z == Shown(t)[m]
  <1>1. o \in Existing(t) /\ to \in 1..Len(z) + 1
    BY DEF Leads
  <1>2. /\ z \in Seq(Widgets) /\ Len(z) \in Nat /\ x \in Widgets /\ x \notin Files
        /\ Has(Shown(t)[l], x) /\ NoRepeat(Shown(t)[l])
        /\ \A n \in Lists : n # l => ~Has(Shown(t)[n], x)
    <2>1. Has(Shown(t)[l], x)
      BY DEF Has
    <2> QED  BY <2>1, ShownOfFine, ElementOfSeq, LenProperties, PlacesAre
  <1>3. /\ Fine(v) /\ Existing(v) = Existing(t) /\ v[q] = RemoveAt(t[q], i)
        /\ \A p \in Existing(t) : p # q => v[p] = t[p]
        /\ IsNew(v, x)
        /\ Fine(u) /\ Existing(u) = Existing(t)
        /\ u[o] = Put(v[o], Shifted(k, i, o, q), x)
        /\ \A p \in Existing(t) : p # o => u[p] = v[p]
    BY <1>1, <1>2, MoveFine
  <1>4. Changes(t, v, q, RemoveAt(t[q], i)) /\ Changes(v, u, o, Put(v[o], Shifted(k, i, o, q), x))
    BY DEF Moves
  <1>5. /\ WrittenOnce(t) /\ IsTree(t)
        /\ \A p \in Existing(t) : t[p] \in Seq(Items) /\ NoRepeat(t[p]) /\ Len(t[p]) \in Nat
    BY FineIs, LenProperties
  <1>6. \A n \in Lists : n \in Existing(t)
    BY ShownOfFine
  <1>7. \A p \in Existing(t) : \A j \in 1..Len(t[p]) : t[p][j] = x => p = q /\ j = i
    BY <1>5 DEF WrittenOnce
  <1> HIDE DEF x
  <1>8. CASE NotBy(t, m, to, o, x)
    <2> DEFINE there == Shifted(to, at, l, m)  ku == Shifted(k, i, o, q)
    <2>1. Leads(v, m, there, o, ku)
      BY <1>4, <1>8, LeadsStill DEF x
    <2>2. Changes(v, u, o, Put(v[o], ku, x))
      BY <1>4
    <2> HIDE DEF there, ku
    <2>3. ShowsPut(v, u, m, there, x)
      BY <1>2, <1>3, <2>1, <2>2, PutShows
    <2>4. /\ Shown(v)[l] = RemoveAt(Shown(t)[l], at)
          /\ \A n \in Lists : n # l => Shown(v)[n] = Shown(t)[n]
      BY <1>4, TakeShows
    <2>5. x = Shown(t)[l][at]
      BY DEF x
    <2> QED  BY <2>3, <2>4, <2>5 DEF ShowsPut, ShowsMove, there
  <1>9. CASE to <= Len(z) /\ z[to] = x
    <2>1. to \in 1..Len(z) /\ Has(z, x)
      BY <1>1, <1>2, <1>9 DEF Has
    <2>2. m = l
      BY <1>2, <2>1
    <2>3. to = at
      BY <1>2, <1>9, <2>1, <2>2 DEF NoRepeat, x
    <2>4. AheadOf(t, x, o, k)
      BY <1>9, <2>1 DEF Leads
    <2>5. k \in 1..Len(t[o])
      BY <2>4 DEF AheadOf
    <2>6. \A n \in Lists : Shown(u)[n] = Shown(t)[n]
      <3>1. CASE t[o][k] = x
        <4>1. o = q /\ k = i
          BY <1>1, <1>7, <2>5, <3>1
        <4>2. Shifted(k, i, o, q) = i
          BY <4>1 DEF Shifted, Down
        <4>3. Put(RemoveAt(t[q], i), i, t[q][i]) = t[q]
          BY <1>5, PutBack
        <4>4. Changes(v, u, q, t[q])
          BY <1>3, <1>4, <4>1, <4>2, <4>3 DEF x
        <4>5. u = t
          BY <1>4, <1>5, <4>4, ChangesBack
        <4> QED  BY <4>5
      <3>2. CASE t[o][k] \in Files /\ t[t[o][k]] # << >> /\ t[t[o][k]][1] = x
        <4> DEFINE f == t[o][k]
        <4>1. f \in Existing(t) /\ f # o
          BY <1>1, <2>5, <3>2, FineIs, DeeperIsAnother
        <4>2. 1 \in 1..Len(t[f])
          BY <1>5, <3>2, <4>1, EmptySeq
        <4>3. f = q /\ i = 1
          BY <1>7, <3>2, <4>1, <4>2
        <4>4. Shifted(k, i, o, q) = k
          BY <4>1, <4>3 DEF Shifted, Down
        <4>5. /\ Changes(t, v, f, RemoveAt(t[f], 1)) /\ Changes(v, u, o, Put(v[o], k, t[f][1]))
              /\ f \in Files /\ t[f] # << >> /\ t[f][1] \in Widgets
          BY <1>2, <1>4, <3>2, <4>3, <4>4
        <4>6. \A p \in Existing(t) : p # f => Shown(u)[p] = Shown(t)[p]
          <5>1. MovesOut(t, v, u, o, k, f)
            BY <1>1, <2>5, <4>5 DEF MovesOut
          <5> HIDE DEF f
          <5> QED  BY <5>1, MovedOut
        <4>7. \A n \in Lists : n # f
          BY <4>5, PlacesAre
        <4> QED  BY <1>6, <4>6, <4>7
      <3> QED  BY <2>4, <3>1, <3>2 DEF AheadOf
    <2>7. Down(to, at) = at
      BY <2>3 DEF Shifted, Down
    <2> QED  BY <2>2, <2>6, <2>7, MovesNowhere
  <1>10. CASE to = Len(z) + 1 /\ o # m /\ \A j \in 1..Len(t[o]) :
                 t[o][j] \in Widgets /\ EndsIn(z, t[o][j]) => t[o][j] = x
    <2>1. AtEnd(t, m, o, k)
      BY <1>10 DEF Leads
    <2>2. PICK j \in 1..Len(t[o]) : t[o][j] \in Widgets /\ EndsIn(z, t[o][j])
      BY <1>10, <2>1 DEF AtEnd
    <2>3. t[o][j] = x /\ o = q /\ j = i
      BY <1>1, <1>7, <1>10, <2>2
    <2>4. Len(z) \in 1..Len(z) /\ z[Len(z)] = x
      BY <1>2, <2>2, <2>3, EmptySeq DEF EndsIn
    <2>5. m = l
      <3>1. Has(z, x)
        BY <2>4 DEF Has
      <3> QED  BY <1>2, <3>1
    <2>6. at = Len(z)
      BY <1>2, <2>4, <2>5 DEF NoRepeat, x
    <2>7. k = Len(t[q]) + 1
      BY <2>1, <2>3 DEF AtEnd
    <2>8. RemoveAt(t[q], i) \in Seq(Items) /\ Len(RemoveAt(t[q], i)) = Len(t[q]) - 1
      <3>1. RemoveAt(t[q], i) \in Seq(Items) /\ Narrowed(RemoveAt(t[q], i), t[q], i)
        BY <1>5, TakenIs
      <3> QED  BY <3>1 DEF Narrowed
    <2>9. Shifted(k, i, o, q) = Len(RemoveAt(t[q], i)) + 1
      BY <1>5, <2>3, <2>7, <2>8 DEF Shifted, Down
    <2>10. x \in Items
      BY <1>2 DEF Items
    <2>11. Changes(v, u, q, Append(RemoveAt(t[q], i), t[q][i]))
      <3> DEFINE r == RemoveAt(t[q], i)
      <3>1. r \in Seq(Items) /\ v[q] = r /\ Shifted(k, i, o, q) = Len(r) + 1
        BY <1>3, <2>8, <2>9
      <3> HIDE DEF r
      <3>2. Put(r, Len(r) + 1, x) = Append(r, x)
        BY <2>10, <3>1, PutLast
      <3> QED  BY <1>4, <2>3, <3>1, <3>2 DEF r, x
    <2>12. Changes(t, u, q, Append(RemoveAt(t[q], i), t[q][i]))
      <3> DEFINE s == Append(RemoveAt(t[q], i), t[q][i])
      <3>1. Changes(v, u, q, s)
        BY <2>11
      <3> HIDE DEF s
      <3>2. Changes(t, u, q, s)
        BY <1>4, <1>5, <3>1 DEF Changes, IsTree
      <3> QED  BY <3>2 DEF s
    <2>13. l \in Existing(t) /\ EndsIn(Shown(t)[l], t[q][i]) /\ t[q][i] \in Widgets
      BY <1>2, <1>6, <2>2, <2>3, <2>5 DEF x
    <2>14. \A p \in Existing(t) : Shown(u)[p] = Shown(t)[p]
      BY <2>12, <2>13, MoveToEnd
    <2>15. Down(to, at) = at
      BY <1>2, <1>10, <2>6 DEF Shifted, Down
    <2> QED  BY <1>6, <2>5, <2>14, <2>15, MovesNowhere
  <1> QED  BY <1>8, <1>9, <1>10 DEF NotBy

-----------------------------------------------------------------------------
\* The edits of EditorTree in these terms.

LEMMA WrittenIs ==
    ASSUME NEW t, IsTree(t), NEW p \in Places
    PROVE  /\ p \in Existing(t) => /\ t[p] \in Seq(Items) /\ DOMAIN t[p] = 1..Len(t[p])
                                   /\ \A x : x \in Tree!Written(t, p) <=> Has(t[p], x)
           /\ p \notin Existing(t) => Tree!Written(t, p) = {}
  <1>0. \A s : Tree!ToSet(s) = {s[i] : i \in DOMAIN s}
    BY DEF Tree!ToSet
  <1>1. CASE p \in Existing(t)
    <2>1. t[p] \in Seq(Items) /\ t[p] # Absent
      BY <1>1, TextIs DEF Existing
    <2>2. DOMAIN t[p] = 1..Len(t[p])
      BY <2>1, LenProperties
    <2>3. Tree!Written(t, p) = {t[p][i] : i \in DOMAIN t[p]}
      BY <1>0, <2>1 DEF Tree!Written
    <2> QED  BY <1>1, <2>1, <2>2, <2>3 DEF Has
  <1>2. CASE p \notin Existing(t)
    BY <1>2 DEF Existing, Tree!Written
  <1> QED  BY <1>1, <1>2

LEMMA FitsIs == ASSUME NEW t, IsTree(t) PROVE Tree!Fits(t) <=> \E d : IsDepth(t, d)
  <1>1. ASSUME NEW d \in [Places -> 0..DepthLimit]
        PROVE  IsDepth(t, d) <=>
               \A p \in Places : \A f \in Tree!Written(t, p) \cap Files : t[f] # Absent /\ d[f] < d[p]
    <2>1. ASSUME IsDepth(t, d), NEW p \in Places, NEW f \in Tree!Written(t, p) \cap Files
          PROVE  t[f] # Absent /\ d[f] < d[p]
      <3>1. p \in Existing(t) /\ Has(t[p], f)
        BY WrittenIs, <2>1
      <3>2. PICK i \in 1..Len(t[p]) : t[p][i] = f
        BY <3>1 DEF Has
      <3> QED  BY <2>1, <3>1, <3>2 DEF IsDepth, Existing
    <2>2. ASSUME \A p \in Places : \A f \in Tree!Written(t, p) \cap Files : t[f] # Absent /\ d[f] < d[p],
                 NEW p \in Existing(t), NEW i \in 1..Len(t[p]), t[p][i] \in Files
          PROVE  t[p][i] \in Existing(t) /\ d[t[p][i]] < d[p]
      <3>1. p \in Places
        BY DEF Existing
      <3>2. Has(t[p], t[p][i])
        BY DEF Has
      <3>3. t[p][i] \in Tree!Written(t, p) \cap Files
        BY WrittenIs, <2>2, <3>1, <3>2
      <3>4. t[t[p][i]] # Absent /\ d[t[p][i]] < d[p]
        BY <2>2, <3>1, <3>3
      <3> QED  BY <2>2, <3>4, PlacesAre DEF Existing
    <2> QED  BY <1>1, <2>1, <2>2 DEF IsDepth
  <1>2. \A d : IsDepth(t, d) => d \in [Places -> 0..DepthLimit]
    BY DEF IsDepth
  <1>3. Tree!Fits(t) <=> \E d \in [Places -> 0..DepthLimit] :
            \A p \in Places : \A f \in Tree!Written(t, p) \cap Files : t[f] # Absent /\ d[f] < d[p]
    BY DEF Tree!Fits, Places
  <1> QED  BY <1>1, <1>2, <1>3

LEMMA FineIsWellWritten == ASSUME NEW t PROVE Fine(t) <=> Tree!WellWritten(t)
  <1>1. ASSUME IsTree(t), NEW p \in Places
        PROVE  /\ p \in Existing(t) => /\ t[p] \in Seq(Items) /\ DOMAIN t[p] = 1..Len(t[p])
                                       /\ \A x : x \in Tree!Written(t, p) <=> Has(t[p], x)
               /\ p \notin Existing(t) => Tree!Written(t, p) = {}
    BY <1>1, WrittenIs
  <1>2. ASSUME IsTree(t) PROVE Tree!Fits(t) <=> \E d : IsDepth(t, d)
    BY <1>2, FitsIs
  <1>3. ASSUME IsTree(t)
        PROVE  /\ WrittenOnce(t) <=>
                  /\ \A p, q \in Places : Tree!Written(t, p) \cap Tree!Written(t, q) # {} => p = q
                  /\ \A p \in Places : t[p] # Absent =>
                        \A i, j \in DOMAIN t[p] : t[p][i] = t[p][j] => i = j
    <2>1. (\A p \in Existing(t) : NoRepeat(t[p])) <=>
          \A p \in Places : t[p] # Absent => \A i, j \in DOMAIN t[p] : t[p][i] = t[p][j] => i = j
      <3>1. \A p \in Existing(t) : DOMAIN t[p] = 1..Len(t[p])
        BY <1>1, <1>3 DEF Existing
      <3> QED  BY <3>1 DEF NoRepeat, Existing
    <2>2. (\A p, q \in Existing(t) : p # q => \A x : ~(Has(t[p], x) /\ Has(t[q], x))) <=>
          \A p, q \in Places : Tree!Written(t, p) \cap Tree!Written(t, q) # {} => p = q
      <3>1. \A p \in Existing(t) : p \in Places /\ \A x : x \in Tree!Written(t, p) <=> Has(t[p], x)
        BY <1>1, <1>3 DEF Existing
      <3>2. \A p \in Places : p \notin Existing(t) => Tree!Written(t, p) = {}
        BY <1>1, <1>3
      <3> QED  BY <3>1, <3>2
    <2> QED  BY <2>1, <2>2, OnceIs
  <1>4. IsTree(t) <=> /\ t \in [Tree!Places -> Seq(Widgets \cup Files) \cup {Absent}]
                      /\ \A l \in Lists : t[l] # Absent
    BY DEF IsTree, Places, Items
  <1> QED  BY <1>2, <1>3, <1>4 DEF Fine, TreeLoads, Tree!WellWritten, Places

LEMMA SlotIs ==
    ASSUME NEW t, Fine(t), NEW l \in Lists
    PROVE  /\ Len(Tree!Slots(t)[l]) = Len(Shown(t)[l]) /\ Len(Shown(t)[l]) \in Nat
           /\ Tree!Slots(t)[l] \in Seq(SlotsOf(t))
           /\ \A n \in 1..Len(Shown(t)[l]) :
                 Tree!Slots(t)[l][n] \in SlotsOf(t) /\ Shown(t)[l][n] = Tree!Slots(t)[l][n].node
  <1>1. TreeLoads(t) /\ l \in Existing(t) /\ l \in Places
    BY FineIs, ShownOfFine
  <1> DEFINE s == Tree!Slots(t)[l]
  <1>2. s \in Seq(SlotsOf(t))
    BY <1>1, SlotsAreKnown
  <1>3. Shown(t)[l] = Nodes(s)
    BY <1>1 DEF Shown
  <1> HIDE DEF s
  <1>4. Nodes(s) \in Seq(Widgets) /\ Len(Nodes(s)) = Len(s) /\ Len(s) \in Nat
    BY <1>2, NodesType, LenProperties
  <1>5. \A n \in 1..Len(s) : Nodes(s)[n] = s[n].node /\ s[n] \in SlotsOf(t)
    BY <1>2, ElementOfSeq DEF Nodes
  <1> QED  BY <1>2, <1>3, <1>4, <1>5 DEF s

LEMMA InsertPointLeads ==
    ASSUME Fine(tree), kind \in [Lists -> {"list", "block"}], NEW l \in Lists,
           NEW to \in 1..Len(Shown(tree)[l]) + 1, NEW point, point = Tree!InsertPoint(l, to),
           point # Tree!Nowhere
    PROVE  /\ Leads(tree, l, to, point.seq, point.at)
           /\ point = [seq |-> point.seq, at |-> point.at]
           /\ point.at \in 1..Len(tree[point.seq]) + 1
  <1> DEFINE slots == Tree!Slots(tree)[l]  z == Shown(tree)[l]
             last == slots[Len(slots)]  mine == slots[to]
             behind == to > Len(slots)  first == mine.index = 1 /\ kind[l] = "list"
  <1>1. /\ Len(slots) = Len(z) /\ Len(z) \in Nat /\ slots \in Seq(SlotsOf(tree))
        /\ \A n \in 1..Len(z) : slots[n] \in SlotsOf(tree) /\ z[n] = slots[n].node
    BY SlotIs
  <1>2. point = CASE behind /\ kind[l] = "list" -> [seq |-> l, at |-> Len(tree[l]) + 1]
                  [] behind /\ kind[l] = "block" /\ slots # << >> ->
                        [seq |-> last.seq, at |-> Len(tree[last.seq]) + 1]
                  [] ~behind /\ first -> [seq |-> mine.outer, at |-> mine.outerIdx]
                  [] ~behind /\ ~first -> [seq |-> mine.seq, at |-> mine.index]
                  [] OTHER -> Tree!Nowhere
    BY DEF Tree!InsertPoint
  <1>3. l \in Existing(tree) /\ \A p \in Existing(tree) : tree[p] \in Seq(Items) /\ Len(tree[p]) \in Nat
    BY FineIs, ShownOfFine, LenProperties
  <1>4. \A s \in SlotsOf(tree) :
           /\ s.seq \in Existing(tree) /\ s.index \in 1..Len(tree[s.seq]) /\ s.node = tree[s.seq][s.index]
           /\ s.outer \in Existing(tree) /\ s.outerIdx \in 1..Len(tree[s.outer]) /\ s.node \in Widgets
           /\ \/ s.outer = s.seq /\ s.outerIdx = s.index
              \/ s.index = 1 /\ s.seq \in Files /\ tree[s.outer][s.outerIdx] = s.seq
    BY DEF SlotsOf
  <1> HIDE DEF slots, z, last, mine, behind, first
  <1>5. CASE behind /\ kind[l] = "list"
    <2>1. point = [seq |-> l, at |-> Len(tree[l]) + 1]
      BY <1>2, <1>5
    <2>2. AtEnd(tree, l, point.seq, point.at)
      BY <2>1 DEF AtEnd
    <2>3. to = Len(z) + 1 /\ ~(to <= Len(z))
      BY <1>1, <1>5 DEF behind, z
    <2> QED  BY <1>3, <2>1, <2>2, <2>3 DEF Leads, z
  <1>6. CASE behind /\ kind[l] = "block" /\ slots # << >>
    <2>1. point = [seq |-> last.seq, at |-> Len(tree[last.seq]) + 1]
      BY <1>2, <1>6
    <2>2. to = Len(z) + 1 /\ ~(to <= Len(z))
      BY <1>1, <1>6 DEF behind, z
    <2>3. Len(slots) \in 1..Len(z) /\ z # << >>
      BY <1>1, <1>6, EmptySeq
    <2>4. last \in SlotsOf(tree) /\ z[Len(z)] = last.node
      BY <1>1, <2>3 DEF last
    <2>5. EndsIn(z, tree[last.seq][last.index])
      BY <1>4, <2>3, <2>4 DEF EndsIn
    <2>6. AtEnd(tree, l, point.seq, point.at)
      BY <1>4, <2>1, <2>4, <2>5 DEF AtEnd, z
    <2> QED  BY <1>3, <1>4, <2>1, <2>2, <2>4, <2>6 DEF Leads, z
  <1>7. CASE ~behind
    <2>1. to \in 1..Len(z) /\ to <= Len(z) /\ to # Len(z) + 1
      BY <1>1, <1>7 DEF behind, z
    <2>2. mine \in SlotsOf(tree) /\ z[to] = mine.node
      BY <1>1, <2>1 DEF mine
    <2>3. CASE first
      <3>1. point = [seq |-> mine.outer, at |-> mine.outerIdx]
        BY <1>2, <1>7, <2>3
      <3>2. AheadOf(tree, z[to], point.seq, point.at)
        <4>1. CASE mine.outer = mine.seq /\ mine.outerIdx = mine.index
          BY <1>4, <2>2, <3>1, <4>1 DEF AheadOf
        <4>2. CASE mine.index = 1 /\ mine.seq \in Files /\ tree[mine.outer][mine.outerIdx] = mine.seq
          <5>1. tree[mine.seq] # << >>
            BY <1>4, <2>2, <4>2, EmptySeq
          <5> QED  BY <1>4, <2>2, <3>1, <4>2, <5>1 DEF AheadOf
        <4> QED  BY <1>4, <2>2, <4>1, <4>2
      <3> QED  BY <1>3, <1>4, <2>1, <2>2, <3>1, <3>2 DEF Leads, z
    <2>4. CASE ~first
      <3>1. point = [seq |-> mine.seq, at |-> mine.index]
        BY <1>2, <1>7, <2>4
      <3>2. AheadOf(tree, z[to], point.seq, point.at)
        BY <1>4, <2>2, <3>1 DEF AheadOf
      <3> QED  BY <1>3, <1>4, <2>1, <2>2, <3>1, <3>2 DEF Leads, z
    <2> QED  BY <2>3, <2>4
  <1>8. behind /\ kind[l] = "block" /\ slots = << >> => point = Tree!Nowhere
    BY <1>2
  <1> QED  BY <1>5, <1>6, <1>7, <1>8

LEMMA PrunedIs ==
    ASSUME NEW t, Fine(t), NEW slot, slot.seq \in Existing(t), slot.outer \in Existing(t)
    PROVE  /\ Fine(Tree!Pruned(t, slot)) /\ Existing(Tree!Pruned(t, slot)) = Existing(t)
           /\ (slot.seq # slot.outer /\ t[slot.seq] = << >> /\ slot.outerIdx \in 1..Len(t[slot.outer])
                  /\ t[slot.outer][slot.outerIdx] \in Files
                  => t[slot.outer][slot.outerIdx] = slot.seq)
              => \A p \in Existing(t) : Shown(Tree!Pruned(t, slot))[p] = Shown(t)[p]
  <1> DEFINE u == Tree!Pruned(t, slot)  o == slot.outer  k == slot.outerIdx
             drops == /\ slot.seq # o /\ t[slot.seq] = << >> /\ k \in 1..Len(t[o]) /\ t[o][k] \in Files
  <1>1. u = IF drops THEN [t EXCEPT ![o] = Tree!RemoveAt(@, k)] ELSE t
    BY DEF Tree!Pruned, Tree!Emptied
  <1>2. Tree!RemoveAt(t[o], k) = RemoveAt(t[o], k)
    BY DEF Tree!RemoveAt, RemoveAt
  <1> HIDE DEF u
  <1>3. CASE ~drops
    BY <1>1, <1>3 DEF u
  <1>4. CASE drops
    <2>1. Changes(t, u, o, RemoveAt(t[o], k))
      BY <1>1, <1>2, <1>4 DEF Changes
    <2>2. Fine(u) /\ Existing(u) = Existing(t)
      BY <1>4, <2>1, TakeFine
    <2>3. ASSUME t[o][k] = slot.seq PROVE \A p \in Existing(t) : Shown(u)[p] = Shown(t)[p]
      BY <1>4, <2>1, <2>3, PruneShows
    <2> QED  BY <1>4, <2>2, <2>3 DEF u
  <1> QED  BY <1>3, <1>4

LEMMA NewIs ==
    ASSUME NEW w \in Widgets, w \notin Tree!OnDisk, Fine(tree) PROVE IsNew(tree, w)
  <1>1. SUFFICES ASSUME NEW p \in Existing(tree), Has(tree[p], w) PROVE FALSE
    BY DEF IsNew
  <1>2. tree[p] \in Seq(Items) /\ p \in Tree!Places /\ tree[p] # Absent
    BY FineIs DEF Existing, Places
  <1>3. PICK i \in 1..Len(tree[p]) : tree[p][i] = w
    BY <1>1 DEF Has
  <1>4. i \in DOMAIN tree[p]
    BY <1>2, <1>3, LenProperties
  <1>5. w \in Tree!Written(tree, p)
    BY <1>2, <1>3, <1>4 DEF Tree!Written, Tree!ToSet
  <1>6. w \in UNION {Tree!Written(tree, r) : r \in Tree!Places}
    BY <1>2, <1>5
  <1> QED  BY <1>6 DEF Tree!OnDisk

LEMMA InsertedIs ==
    ASSUME NEW t, NEW q, NEW k, NEW e
    PROVE  Tree!Inserted(t, [seq |-> q, at |-> k], e) = [t EXCEPT ![q] = Put(t[q], k, e)]
  BY DEF Tree!Inserted, Put, Tree!InsertAt, InsertAt

KindsAre == kind \in [Lists -> {"list", "block"}]

LEMMA KindsStay == ASSUME NEW t, KindsAre, Tree!Save(t) PROVE tree' = t /\ KindsAre'
  BY DEF KindsAre, Tree!Save, Tree!Kinds

LEMMA TargetsAre ==
    ASSUME Fine(tree), NEW l \in Lists
    PROVE  /\ Tree!Merged[l] = Shown(tree)[l]
           /\ Tree!Positions(l) = 1..Len(Shown(tree)[l])
           /\ Tree!Targets(l) = 1..Len(Shown(tree)[l]) + 1
  <1>1. Shown(tree)[l] = Nodes(Tree!Slots(tree)[l])
    BY ShownOfFine DEF Shown
  <1>2. Tree!Merged[l] = Shown(tree)[l]
    BY <1>1 DEF Tree!Merged, Nodes
  <1> QED  BY <1>2 DEF Tree!Positions, Tree!Targets

LEMMA AddIs ==
    ASSUME Fine(tree), KindsAre, NEW l \in Lists, NEW to \in Tree!Targets(l), NEW w \in Widgets,
           Tree!AddWidget(l, to, w)
    PROVE  Fine(tree') /\ KindsAre' /\ w \notin Tree!OnDisk /\ ShowsPut(tree, tree', l, to, w)
  <1> DEFINE point == Tree!InsertPoint(l, to)
  <1>1. w \notin Tree!OnDisk /\ point # Tree!Nowhere /\ Tree!Save(Tree!Inserted(tree, point, w))
    BY DEF Tree!AddWidget
  <1>2. tree' = Tree!Inserted(tree, point, w) /\ KindsAre'
    BY <1>1, KindsStay
  <1>3. to \in 1..Len(Shown(tree)[l]) + 1
    BY TargetsAre
  <1> HIDE DEF point
  <1>4. /\ Leads(tree, l, to, point.seq, point.at) /\ point = [seq |-> point.seq, at |-> point.at]
        /\ point.at \in 1..Len(tree[point.seq]) + 1
    BY <1>1, <1>3, InsertPointLeads DEF KindsAre, point
  <1> DEFINE q == point.seq  k == point.at
  <1>5. q \in Existing(tree)
    BY <1>4 DEF Leads
  <1>6. tree' = [tree EXCEPT ![q] = Put(tree[q], k, w)]
    <2>1. Tree!Inserted(tree, [seq |-> q, at |-> k], w) = [tree EXCEPT ![q] = Put(tree[q], k, w)]
      BY InsertedIs
    <2> QED  BY <1>2, <1>4, <2>1
  <1>7. IsNew(tree, w)
    BY <1>1, NewIs
  <1> HIDE DEF q, k
  <1>8. Changes(tree, tree', q, Put(tree[q], k, w))
    BY <1>6 DEF Changes
  <1>9. k \in 1..Len(tree[q]) + 1 /\ Leads(tree, l, to, q, k)
    BY <1>4 DEF q, k
  <1>10. Fine(tree')
    BY <1>5, <1>7, <1>8, <1>9, PutFine
  <1>11. ShowsPut(tree, tree', l, to, w)
    BY <1>7, <1>8, <1>9, PutShows
  <1> QED  BY <1>1, <1>2, <1>10, <1>11

LEMMA EditIs ==
    ASSUME Fine(tree), KindsAre, NEW l \in Lists, NEW at \in Tree!Positions(l), NEW w \in Widgets,
           Tree!EditWidget(l, at, w)
    PROVE  /\ Fine(tree') /\ KindsAre' /\ w \notin Tree!OnDisk
           /\ Shown(tree')[l] = [Shown(tree)[l] EXCEPT ![at] = w]
           /\ \A n \in Lists : n # l => Shown(tree')[n] = Shown(tree)[n]
  <1> DEFINE slot == Tree!Slots(tree)[l][at]  q == slot.seq  i == slot.index  one == <<w>>
             z == Shown(tree)[l]
  <1>1. w \notin Tree!OnDisk /\ Tree!Save([tree EXCEPT ![q][i] = w])
    BY DEF Tree!EditWidget
  <1>2. tree' = [tree EXCEPT ![q][i] = w] /\ KindsAre'
    BY <1>1, KindsStay
  <1>3. at \in 1..Len(z)
    BY TargetsAre
  <1>4. slot \in SlotsOf(tree) /\ z[at] = slot.node
    BY <1>3, SlotIs
  <1>5. q \in Existing(tree) /\ i \in 1..Len(tree[q]) /\ tree[q][i] = z[at]
    BY <1>4 DEF SlotsOf
  <1>6. tree[q] \in Seq(Items) /\ NoRepeat(tree[q]) /\ z \in Seq(Widgets) /\ w \in Items /\ IsTree(tree)
    BY <1>5, FineIs, ShownOfFine DEF Items
  <1>7. one \in Seq(Widgets) /\ one \in Seq(Items)
    BY <1>6
  <1> HIDE DEF slot, q, i
  <1>8. [tree[q] EXCEPT ![i] = w] = Spliced(tree[q], i, one)
    BY <1>5, <1>6, ReplaceIs
  <1>9. [z EXCEPT ![at] = w] = Spliced(z, at, one)
    BY <1>3, <1>6, ReplaceIs
  <1>10. tree' = [tree EXCEPT ![q] = [tree[q] EXCEPT ![i] = w]]
    BY <1>2, <1>5, <1>6 DEF IsTree, Existing
  <1> DEFINE s == Spliced(tree[q], i, one)
  <1>11. Changes(tree, tree', q, s)
    BY <1>8, <1>10 DEF Changes
  <1>12. IsNew(tree, w)
    BY <1>1, NewIs
  <1>13. NoRepeat(one) /\ \A y : Has(one, y) <=> y = w
    BY DEF NoRepeat, Has
  <1> HIDE DEF one, z
  <1>14. /\ TreeLoads(tree')
         /\ Shown(tree')[l] = Spliced(z, at, one)
         /\ \A n \in Lists : n # l => Shown(tree')[n] = Shown(tree)[n]
    BY <1>3, <1>5, <1>7, <1>11, PutBeforeShows DEF z
  <1>15. NoRepeat(s)
    BY <1>5, <1>6, <1>7, <1>12, <1>13, SplicedNoRepeat DEF IsNew
  <1>16. s \in Seq(Items)
    BY <1>5, <1>6, <1>7, SplicedType
  <1>17. ASSUME NEW y, Has(s, y) PROVE Has(tree[q], y) \/ IsNew(tree, y)
    <2>1. Has(Before(tree[q], i), y) \/ Has(one, y) \/ Has(Behind(tree[q], i), y)
      BY <1>5, <1>6, <1>7, <1>17, SplicedHas
    <2> QED  BY <1>5, <1>6, <1>12, <1>13, <2>1, PartsHave
  <1> HIDE DEF s
  <1>18. WrittenOnce(tree')
    BY <1>5, <1>6, <1>11, <1>15, <1>16, <1>17, FineIs, ChangedOnce
  <1> QED  BY <1>1, <1>2, <1>9, <1>14, <1>18 DEF Fine, z

LEMMA DropIs ==
    ASSUME Fine(tree), KindsAre, NEW l \in Lists, NEW at \in Tree!Positions(l), Tree!RemoveWidget(l, at)
    PROVE  /\ Fine(tree') /\ KindsAre'
           /\ Shown(tree')[l] = RemoveAt(Shown(tree)[l], at)
           /\ \A n \in Lists : n # l => Shown(tree')[n] = Shown(tree)[n]
  <1> DEFINE slot == Tree!Slots(tree)[l][at]  q == slot.seq  i == slot.index
             v == Tree!Removed(tree, slot)
  <1>1. tree' = Tree!Pruned(v, slot) /\ KindsAre'
    <2>1. Tree!Save(Tree!Pruned(v, slot))
      BY DEF Tree!RemoveWidget
    <2> HIDE DEF v
    <2> QED  BY <2>1, KindsStay
  <1>2. at \in 1..Len(Shown(tree)[l])
    BY TargetsAre
  <1>3. slot \in SlotsOf(tree) /\ Shown(tree)[l][at] = slot.node
    BY <1>2, SlotIs
  <1>4. v = [tree EXCEPT ![q] = RemoveAt(tree[q], i)]
    BY DEF Tree!Removed, Tree!RemoveAt, RemoveAt
  <1> HIDE DEF slot, v
  <1>5. /\ q \in Existing(tree) /\ i \in 1..Len(tree[q]) /\ tree[q][i] = Shown(tree)[l][at]
        /\ slot.outer \in Existing(tree)
        /\ slot.seq # slot.outer => tree[slot.outer][slot.outerIdx] = slot.seq
    BY <1>3 DEF SlotsOf
  <1>6. Changes(tree, v, q, RemoveAt(tree[q], i))
    BY <1>4 DEF Changes
  <1>7. /\ Fine(v) /\ Existing(v) = Existing(tree)
        /\ \A p \in Existing(tree) : p # q => v[p] = tree[p]
    BY <1>5, <1>6, TakeFine
  <1>8. /\ Shown(v)[l] = RemoveAt(Shown(tree)[l], at)
        /\ \A n \in Lists : n # l => Shown(v)[n] = Shown(tree)[n]
    BY <1>2, <1>5, <1>6, TakeShows
  <1>9. Fine(tree') /\ \A p \in Existing(v) : Shown(tree')[p] = Shown(v)[p]
    BY <1>1, <1>5, <1>7, PrunedIs
  <1>10. \A n \in Lists : n \in Existing(v)
    BY <1>7, ShownOfFine
  <1> QED  BY <1>1, <1>8, <1>9, <1>10

LEMMA MoveIs ==
    ASSUME Fine(tree), KindsAre, NEW l \in Lists, NEW at \in Tree!Positions(l),
           NEW m \in Lists, NEW to \in Tree!Targets(m), Tree!MoveWidget(l, at, m, to)
    PROVE  /\ Fine(tree') /\ KindsAre'
           /\ ShowsMove(tree, tree', l, at, m, to) \/ Tree!MissesInclude(l, at, m, to)
  <1> DEFINE slot == Tree!Slots(tree)[l][at]  point == Tree!InsertPoint(m, to)
             q == slot.seq  i == slot.index  x == slot.node  o == point.seq  k == point.at
             v == Tree!Removed(tree, slot)  u == Tree!Inserted(v, Tree!There(slot, point), x)
  <1>1. point # Tree!Nowhere /\ tree' = Tree!Pruned(u, slot) /\ KindsAre'
    <2>1. point # Tree!Nowhere /\ Tree!Save(Tree!Pruned(u, slot))
      BY DEF Tree!MoveWidget
    <2> HIDE DEF u, point
    <2> QED  BY <2>1, KindsStay
  <1>2. at \in 1..Len(Shown(tree)[l]) /\ to \in 1..Len(Shown(tree)[m]) + 1
    BY TargetsAre
  <1>3. slot \in SlotsOf(tree) /\ Shown(tree)[l][at] = x
    BY <1>2, SlotIs
  <1>4. /\ Leads(tree, m, to, o, k) /\ point = [seq |-> o, at |-> k]
        /\ k \in 1..Len(tree[o]) + 1
    <2> HIDE DEF point
    <2> QED  BY <1>1, <1>2, InsertPointLeads DEF KindsAre, point
  <1>5. v = [tree EXCEPT ![q] = RemoveAt(tree[q], i)]
    BY DEF Tree!Removed, Tree!RemoveAt, RemoveAt
  <1>6. Tree!There(slot, point) = [seq |-> o, at |-> Shifted(k, i, o, q)]
    <2> HIDE DEF point, slot
    <2>1. point.seq = o /\ point.at = k
      OBVIOUS
    <2>2. CASE o = q
      BY <1>4, <2>2 DEF Tree!There, Shifted, Down
    <2>3. CASE o # q
      BY <1>4, <2>3 DEF Tree!There, Shifted, Down
    <2> QED  BY <2>2, <2>3
  <1>7. /\ q \in Existing(tree) /\ i \in 1..Len(tree[q]) /\ tree[q][i] = x /\ x \in Widgets
        /\ slot.outer \in Existing(tree)
        /\ slot.seq # slot.outer => tree[slot.outer][slot.outerIdx] = slot.seq
        /\ slot.outerIdx \in 1..Len(tree[slot.outer])
    BY <1>3 DEF SlotsOf
  <1>8. o \in Existing(tree)
    BY <1>4 DEF Leads
  <1>9. Tree!MissesInclude(l, at, m, to) <=>
            /\ q # slot.outer /\ Len(tree[q]) = 1 /\ o = slot.outer /\ k < slot.outerIdx
    BY DEF Tree!MissesInclude
  <1> HIDE DEF slot, point, v
  <1> DEFINE ku == Shifted(k, i, o, q)
  <1>10. u = [v EXCEPT ![o] = Put(v[o], ku, x)]
    <2>1. Tree!Inserted(v, [seq |-> o, at |-> ku], x) = [v EXCEPT ![o] = Put(v[o], ku, x)]
      BY InsertedIs
    <2> QED  BY <1>6, <2>1
  <1> HIDE DEF u, q, i, x, o, k, ku
  <1>11. Moves(tree, v, u, q, i, o, k)
    BY <1>5, <1>7, <1>10 DEF Moves, Changes, ku
  <1>12. /\ Fine(v) /\ Existing(v) = Existing(tree) /\ v[q] = RemoveAt(tree[q], i)
         /\ \A p \in Existing(tree) : p # q => v[p] = tree[p]
         /\ Fine(u) /\ Existing(u) = Existing(tree)
         /\ ku \in 1..Len(v[o]) + 1
         /\ u[o] = Put(v[o], ku, x)
         /\ \A p \in Existing(tree) : p # o => u[p] = v[p]
    <2>1. tree[q][i] \in Widgets
      BY <1>7
    <2>2. /\ Fine(v) /\ Existing(v) = Existing(tree) /\ v[q] = RemoveAt(tree[q], i)
          /\ \A p \in Existing(tree) : p # q => v[p] = tree[p]
          /\ Fine(u) /\ Existing(u) = Existing(tree)
          /\ Shifted(k, i, o, q) \in 1..Len(v[o]) + 1
          /\ u[o] = Put(v[o], Shifted(k, i, o, q), tree[q][i])
          /\ \A p \in Existing(tree) : p # o => u[p] = v[p]
      BY <1>4, <1>7, <1>8, <1>11, <2>1, MoveFine
    <2> QED  BY <1>7, <2>2 DEF ku
  <1>13. ShowsMove(tree, u, l, at, m, to)
    <2>1. tree[q][i] = Shown(tree)[l][at]
      BY <1>3, <1>7 DEF x
    <2> QED  BY <1>2, <1>4, <1>7, <1>11, <2>1, MoveShows
  <1>14. q = slot.seq
    BY DEF q
  <1>15. slot.seq \in Existing(u) /\ slot.outer \in Existing(u)
    BY <1>7, <1>12, <1>14
  <1>16. Fine(tree')
    BY <1>1, <1>12, <1>15, PrunedIs
  <1>17. ASSUME ~Tree!MissesInclude(l, at, m, to) PROVE ShowsMove(tree, tree', l, at, m, to)
    <2> DEFINE a == slot.outer  b == slot.outerIdx
    <2>1. ASSUME slot.seq # a, u[slot.seq] = << >>, b \in 1..Len(u[a]), u[a][b] \in Files
          PROVE  u[a][b] = slot.seq
      <3>1. tree[a][b] = q /\ a # q /\ a \in Existing(tree) /\ b \in 1..Len(tree[a]) /\ v[a] = tree[a]
        BY <1>7, <1>12, <1>14, <2>1
      <3>2. tree[q] \in Seq(Items) /\ tree[a] \in Seq(Items) /\ Len(tree[q]) \in Nat /\ Len(tree[a]) \in Nat
        BY <1>7, <3>1, FineIs, LenProperties
      <3>3. v[o] \in Seq(Items) /\ x \in Items
        BY <1>7, <1>8, <1>12, FineIs DEF Items
      <3>4. Len(u[o]) = Len(v[o]) + 1 /\ Len(v[o]) \in Nat
        <4>1. Widened(u[o], v[o], ku, x)
          BY <1>12, <3>3, PutIs
        <4> QED  BY <3>3, <4>1, LenProperties DEF Widened
      <3>5. o # q
        BY <1>14, <2>1, <3>4, EmptySeq
      <3>6. Len(tree[q]) = 1
        <4>1. u[q] = RemoveAt(tree[q], i) /\ u[q] = << >>
          BY <1>7, <1>12, <1>14, <2>1, <3>5
        <4>2. Len(RemoveAt(tree[q], i)) = Len(tree[q]) - 1
          <5>1. Narrowed(RemoveAt(tree[q], i), tree[q], i)
            BY <1>7, <3>2, TakenIs
          <5> QED  BY <5>1 DEF Narrowed
        <4> QED  BY <3>2, <4>1, <4>2, EmptySeq
      <3>7. ku = k
        BY <3>5 DEF ku, Shifted
      <3>8. CASE o # a
        BY <1>12, <1>14, <3>1, <3>8
      <3>9. CASE o = a
        <4>1. ~(k < b) /\ k \in 1..Len(tree[a]) + 1
          BY <1>4, <1>9, <1>14, <1>17, <3>1, <3>6, <3>9
        <4> DEFINE s == tree[a]
        <4>2. s \in Seq(Items) /\ b \in 1..Len(s) /\ k \in 1..Len(s) + 1 /\ Len(s) \in Nat
          BY <3>1, <3>2, <4>1
        <4>3. u[a] = Put(s, k, x)
          BY <1>12, <3>1, <3>7, <3>9
        <4>4. s[b] = q
          BY <3>1
        <4> HIDE DEF s, a, b
          <4>5. (b < k => u[a][b] = s[b]) /\ (b = k => u[a][b] = x)
            <5>1. Widened(u[a], s, k, x)
              BY <3>3, <4>2, <4>3, PutIs
            <5> QED  BY <4>2, <5>1 DEF Widened
          <4>6. b # k
            <5>1. x \notin Files
              BY <1>7, PlacesAre
            <5> QED  BY <2>1, <4>5, <5>1 DEF a, b
          <4>7. b < k
            BY <4>1, <4>2, <4>6 DEF a, b
          <4> QED  BY <1>14, <4>4, <4>5, <4>7 DEF a, b
      <3> QED  BY <3>8, <3>9
    <2>2. \A p \in Existing(u) : Shown(tree')[p] = Shown(u)[p]
      BY <1>1, <1>12, <1>15, <2>1, PrunedIs
    <2>3. \A n \in Lists : n \in Existing(u)
      BY <1>12, ShownOfFine
    <2> QED  BY <1>13, <2>2, <2>3 DEF ShowsMove
  <1> QED  BY <1>1, <1>16, <1>17

\* A widget put in as a file of its own, with an include where it belongs.
Splits(t, v, u, q, k, w, f) ==
    /\ Changes(t, v, q, Put(t[q], k, f))
    /\ u = [v EXCEPT ![f] = <<w>>]
    /\ \E d : IsDepth(u, d)

LEMMA SplitFine ==
    ASSUME NEW t, Fine(t), NEW q \in Existing(t), NEW k \in 1..Len(t[q]) + 1, NEW w \in Widgets, IsNew(t, w),
           NEW f \in Files, t[f] = Absent, NEW v, NEW u, Splits(t, v, u, q, k, w, f)
    PROVE  /\ Fine(u) /\ Existing(u) = Existing(t) \cup {f}
           /\ u[f] = <<w>> /\ u[q] = Put(t[q], k, f)
           /\ \A p \in Existing(t) : p # q => u[p] = t[p]
           /\ IsNew(t, f) /\ f \notin Existing(t)
  <1> DEFINE s == Put(t[q], k, f)  one == <<w>>
  <1>1. /\ TreeLoads(t) /\ WrittenOnce(t) /\ IsTree(t) /\ t[q] \in Seq(Items) /\ NoRepeat(t[q])
        /\ f \in Items /\ w \in Items /\ w \notin Files /\ f \in Places /\ f \notin Lists
    BY FineIs, PlacesAre DEF Items
  <1>2. f \notin Existing(t) /\ f # q
    BY DEF Existing
  <1>3. IsNew(t, f)
    <2>1. PICK d : IsDepth(t, d)
      BY <1>1 DEF TreeLoads
    <2>2. ASSUME NEW p \in Existing(t), Has(t[p], f) PROVE FALSE
      <3>1. PICK i \in 1..Len(t[p]) : t[p][i] = f
        BY <2>2 DEF Has
      <3> QED  BY <1>2, <2>1, <3>1 DEF IsDepth
    <2> QED  BY <2>2 DEF IsNew
  <1>4. s \in Seq(Items)
    BY <1>1, PutIs
  <1>5. \A x : Has(s, x) <=> x = f \/ Has(t[q], x)
    BY <1>1, PutHas
  <1>6. NoRepeat(s)
    BY <1>1, <1>3, PutHas DEF IsNew
  <1>7. Changes(t, v, q, s) /\ u = [v EXCEPT ![f] = one] /\ \E d : IsDepth(u, d)
    BY DEF Splits
  <1>8. one \in Seq(Items) /\ NoRepeat(one) /\ \A x : Has(one, x) <=> x = w
    BY <1>1 DEF NoRepeat, Has
  <1> HIDE DEF s, one
  <1>9. /\ IsTree(v) /\ Existing(v) = Existing(t) /\ v[q] = s
        /\ \A p \in Existing(t) : p # q => v[p] = t[p]
    BY <1>1, <1>4, <1>7, ChangedIs
  <1>10. WrittenOnce(v)
    BY <1>1, <1>3, <1>4, <1>5, <1>6, <1>7, ChangedOnce
  <1>11. u \in [Places -> Seq(Items) \cup {Absent}] /\ u[f] = one /\ \A p \in Places : p # f => u[p] = v[p]
    BY <1>1, <1>7, <1>8, <1>9 DEF IsTree
  <1>12. IsTree(u)
    BY <1>1, <1>9, <1>11, PlacesAre DEF IsTree
  <1>13. Existing(u) = Existing(t) \cup {f}
    <2>1. one # Absent
      BY <1>8, PlacesAre
    <2>2. \A p : p \in Existing(u) <=> p \in Places /\ u[p] # Absent
      BY DEF Existing
    <2>3. \A p : p \in Existing(t) <=> p \in Places /\ v[p] # Absent
      BY <1>9 DEF Existing
    <2> QED  BY <1>1, <1>11, <2>1, <2>2, <2>3
  <1>14. \A p \in Existing(t) : u[p] = v[p]
    BY <1>2, <1>11 DEF Existing
  <1>15. ASSUME NEW p \in Existing(t) PROVE ~Has(v[p], w)
    <2>1. w # f /\ ~Has(t[p], w)
      BY <1>1 DEF IsNew
    <2> QED  BY <1>5, <1>9, <2>1
  <1>16. WrittenOnce(u)
    <2>1. /\ \A p \in Existing(t) : NoRepeat(v[p])
          /\ \A p, r \in Existing(t) : p # r => \A x : ~(Has(v[p], x) /\ Has(v[r], x))
      BY <1>9, <1>10, OnceIs
    <2>2. \A p \in Existing(u) : NoRepeat(u[p])
      BY <1>8, <1>11, <1>13, <1>14, <2>1
    <2>3. ASSUME NEW p \in Existing(u), NEW r \in Existing(u), p # r, NEW x, Has(u[p], x), Has(u[r], x)
          PROVE  FALSE
      <3>1. CASE p = f
        <4>1. r \in Existing(t) /\ x = w
          BY <1>8, <1>11, <1>13, <2>3, <3>1
        <4> QED  BY <1>14, <1>15, <2>3, <4>1
      <3>2. CASE r = f
        <4>1. p \in Existing(t) /\ x = w
          BY <1>8, <1>11, <1>13, <2>3, <3>2
        <4> QED  BY <1>14, <1>15, <2>3, <4>1
      <3>3. CASE p # f /\ r # f
        BY <1>13, <1>14, <2>1, <2>3, <3>3
      <3> QED  BY <3>1, <3>2, <3>3
    <2> QED  BY <2>2, <2>3, OnceIs
  <1>17. Fine(u)
    BY <1>7, <1>12, <1>16 DEF Fine, TreeLoads
  <1> QED  BY <1>2, <1>3, <1>9, <1>11, <1>13, <1>14, <1>17 DEF s, one

LEMMA SplitShows ==
    ASSUME NEW t, Fine(t), NEW l \in Lists, NEW to, NEW q, NEW k, Leads(t, l, to, q, k),
           k \in 1..Len(t[q]) + 1, NEW w \in Widgets, IsNew(t, w),
           NEW f \in Files, t[f] = Absent, NEW v, NEW u, Splits(t, v, u, q, k, w, f)
    PROVE  Fine(u) /\ ShowsPut(t, u, l, to, w)
  <1> DEFINE z == [t EXCEPT ![q] = Put(t[q], k, w)]  H == Shown(z)  c == Cell(H)  one == <<w>>
             G == [H EXCEPT ![f] = one]  g == Cell(G)
  <1>0. q \in Existing(t)
    BY DEF Leads
  <1>1. /\ Fine(u) /\ Existing(u) = Existing(t) \cup {f} /\ u[f] = one /\ u[q] = Put(t[q], k, f)
        /\ \A p \in Existing(t) : p # q => u[p] = t[p]
        /\ IsNew(t, f) /\ f \notin Existing(t)
    BY <1>0, SplitFine
  <1>2. Changes(t, z, q, Put(t[q], k, w))
    BY DEF Changes
  <1> HIDE DEF z
  <1>3. /\ Fine(z) /\ Existing(z) = Existing(t) /\ z[q] = Put(t[q], k, w)
        /\ \A p \in Existing(t) : p # q => z[p] = t[p]
    BY <1>0, <1>2, PutFine
  <1>4. ShowsPut(t, z, l, to, w)
    BY <1>2, PutShows
  <1>5. H \in [Places -> Seq(Widgets)] /\ Solves(H, z)
    BY <1>3, ShownOfFine
  <1>6. /\ t[q] \in Seq(Items) /\ f \in Items /\ w \in Items /\ f \in Places /\ one \in Seq(Widgets)
        /\ \A p \in Existing(t) : t[p] \in Seq(Items) /\ p \in Places
    BY <1>0, FineIs, PlacesAre DEF Items, Existing
  <1>7. one \in Seq(Items) /\ Len(one) = 1 /\ one[1] = w
    BY <1>6
  <1> HIDE DEF one, H
  <1>8. G \in [Places -> Seq(Widgets)] /\ G[f] = one /\ \A p \in Places : p # f => G[p] = H[p]
    BY <1>5, <1>6
  <1>9. \A e \in Files : c[e] = H[e]
    BY <1>5, CellType
  <1>10. \A e \in Widgets : c[e] = <<e>>
    BY <1>5, CellType
  <1>11. /\ g \in Cells(Items, Widgets) /\ \A e \in Files : g[e] = G[e]
         /\ \A e \in Widgets : g[e] = <<e>>
    <2> HIDE DEF G
    <2> QED  BY <1>8, CellType
  <1>12. \A e \in Items : e # f => g[e] = c[e]
    BY <1>8, <1>9, <1>10, <1>11, PlacesAre DEF Items
  <1>13. g[f] = one /\ c[w] = one /\ g[w] = one
    BY <1>8, <1>10, <1>11 DEF one
  <1>14. \A p \in Existing(t) : H[p] = Flat(c, z[p])
    BY <1>3, <1>5 DEF Solves
  <1> HIDE DEF G, c, g
  <1>15. ASSUME NEW p \in Existing(t), p # q PROVE G[p] = Flat(g, u[p])
    <2>1. u[p] = t[p] /\ z[p] = t[p] /\ t[p] \in Seq(Items) /\ ~Has(t[p], f) /\ p \in Places /\ p # f
      BY <1>1, <1>3, <1>6, <1>15 DEF IsNew
    <2>2. \A i \in 1..Len(t[p]) : g[t[p][i]] = c[t[p][i]]
      BY <1>12, <2>1, ElementOfSeq DEF Has
    <2>3. Flat(g, t[p]) = Flat(c, t[p])
      BY <2>2, FlatSame
    <2> QED  BY <1>8, <1>14, <2>1, <2>3
  <1>16. G[q] = Flat(g, u[q])
    <2> DEFINE s == t[q]  a == Put(s, k, f)  b == Put(s, k, w)
    <2>1. /\ s \in Seq(Items) /\ k \in 1..Len(s) + 1 /\ u[q] = a /\ z[q] = b /\ ~Has(s, f)
      BY <1>0, <1>1, <1>3, <1>6 DEF IsNew
    <2> HIDE DEF s
    <2>2. Widened(a, s, k, f) /\ Widened(b, s, k, w)
      BY <1>6, <2>1, PutIs
    <2> HIDE DEF a, b
    <2>3. Len(s) \in Nat
      BY <2>1, LenProperties
    <2>4. Len(a) = Len(b) /\ Len(a) = Len(s) + 1
      BY <2>2 DEF Widened
    <2>5. \A i \in 1..Len(s) : s[i] \in Items /\ s[i] # f
      BY <2>1, ElementOfSeq DEF Has
    <2>6. ASSUME NEW i \in 1..Len(a) PROVE g[a[i]] = c[b[i]]
      <3>1. CASE i < k
        <4>1. i \in 1..k - 1 /\ i \in 1..Len(s)
          BY <2>1, <2>3, <2>4, <3>1
        <4>2. a[i] = s[i] /\ b[i] = s[i]
          BY <2>2, <4>1 DEF Widened
        <4> QED  BY <1>12, <2>5, <4>1, <4>2
      <3>2. CASE i = k
        BY <1>13, <2>2, <3>2 DEF Widened
      <3>3. CASE i > k
        <4> DEFINE j == i - 1
        <4>1. j \in k..Len(s) /\ j \in 1..Len(s) /\ j + 1 = i
          BY <2>1, <2>3, <2>4, <3>3
        <4> HIDE DEF j
        <4>2. a[j + 1] = s[j] /\ b[j + 1] = s[j]
          BY <2>2, <4>1 DEF Widened
        <4> QED  BY <1>12, <2>5, <4>1, <4>2
      <3> QED  BY <2>1, <2>3, <2>4, <3>1, <3>2, <3>3
    <2>7. Flat(g, a) = Flat(c, b)
      <3>1. Len(a) = Len(b) /\ \A i \in 1..Len(a) : g[a[i]] = c[b[i]]
        BY <2>4, <2>6
      <3> QED  BY ONLY <3>1, FlatAlike
    <2>8. G[q] = H[q]
      BY <1>0, <1>1, <1>6, <1>8
    <2> QED  BY <1>0, <1>14, <2>1, <2>7, <2>8
  <1>17. G[f] = Flat(g, u[f])
    <2>1. Flat(g, one) = g[w]
      BY <1>6, <1>11, FlatOne DEF one
    <2> QED  BY <1>1, <1>8, <1>13, <2>1
  <1>18. Solves(G, u)
    <2>1. \A p \in Existing(u) : G[p] = Flat(g, u[p])
      BY <1>1, <1>15, <1>16, <1>17
    <2> QED  BY <1>8, <2>1 DEF Solves, g
  <1>19. \A p \in Existing(u) : Shown(u)[p] = G[p]
    BY <1>1, <1>18, ShownIs DEF Fine
  <1>20. \A n \in Lists : Shown(u)[n] = Shown(z)[n]
    <2>1. \A n \in Lists : n \in Existing(t)
      BY ShownOfFine
    <2> QED  BY <1>1, <1>6, <1>8, <1>19, <2>1 DEF H
  <1> QED  BY <1>1, <1>4, <1>20 DEF ShowsPut

LEMMA SplitIsTree ==
    ASSUME NEW t, Fine(t), NEW q \in Existing(t), NEW k \in 1..Len(t[q]) + 1, NEW w \in Widgets,
           NEW f \in Files, NEW v, Changes(t, v, q, Put(t[q], k, f))
    PROVE  IsTree([v EXCEPT ![f] = <<w>>])
  <1> DEFINE s == Put(t[q], k, f)  one == <<w>>  u == [v EXCEPT ![f] = one]
  <1>1. IsTree(t) /\ t[q] \in Seq(Items) /\ f \in Items /\ w \in Items /\ f \in Places /\ f \notin Lists
    BY FineIs, PlacesAre DEF Items
  <1>2. s \in Seq(Items) /\ Changes(t, v, q, s)
    BY <1>1, PutIs
  <1>3. one \in Seq(Items)
    BY <1>1
  <1> HIDE DEF s, one
  <1>4. IsTree(v)
    BY <1>1, <1>2, ChangedIs
  <1>5. u \in [Places -> Seq(Items) \cup {Absent}] /\ \A p \in Places : p # f => u[p] = v[p]
    BY <1>1, <1>3, <1>4 DEF IsTree
  <1>6. IsTree(u)
    BY <1>1, <1>4, <1>5, PlacesAre DEF IsTree
  <1> QED  BY <1>6 DEF one

LEMMA AddFileIs ==
    ASSUME Fine(tree), KindsAre, NEW l \in Lists, NEW to \in Tree!Targets(l), NEW w \in Widgets,
           NEW f \in Files, Tree!AddWidgetFile(l, to, w, f)
    PROVE  Fine(tree') /\ KindsAre' /\ w \notin Tree!OnDisk /\ ShowsPut(tree, tree', l, to, w)
  <1> DEFINE point == Tree!InsertPoint(l, to)  v == Tree!Inserted(tree, point, f)  u == [v EXCEPT ![f] = <<w>>]
  <1>1. w \notin Tree!OnDisk /\ tree[f] = Absent /\ point # Tree!Nowhere /\ Tree!Fits(u) /\ Tree!Save(u)
    BY DEF Tree!AddWidgetFile
  <1> DEFINE uu == u
  <1>2. tree' = uu /\ KindsAre'
    <2>1. Tree!Save(uu)
      BY <1>1
    <2> HIDE DEF uu
    <2> QED  BY <2>1, KindsStay
  <1>3. to \in 1..Len(Shown(tree)[l]) + 1
    BY TargetsAre
  <1> HIDE DEF point, uu
  <1>4. /\ Leads(tree, l, to, point.seq, point.at) /\ point = [seq |-> point.seq, at |-> point.at]
        /\ point.at \in 1..Len(tree[point.seq]) + 1
    BY <1>1, <1>3, InsertPointLeads DEF KindsAre, point
  <1> DEFINE q == point.seq  k == point.at
  <1>5. q \in Existing(tree)
    BY <1>4 DEF Leads
  <1>6. v = [tree EXCEPT ![q] = Put(tree[q], k, f)]
    <2>1. Tree!Inserted(tree, [seq |-> q, at |-> k], f) = [tree EXCEPT ![q] = Put(tree[q], k, f)]
      BY InsertedIs
    <2> QED  BY <1>4, <2>1
  <1>7. IsNew(tree, w)
    BY <1>1, NewIs
  <1> HIDE DEF q, k, v
  <1>8. Changes(tree, v, q, Put(tree[q], k, f))
    BY <1>6 DEF Changes
  <1>9. k \in 1..Len(tree[q]) + 1 /\ Leads(tree, l, to, q, k)
    BY <1>4 DEF q, k
  <1>10. IsTree(u)
    BY <1>5, <1>8, <1>9, SplitIsTree
  <1>11. \E d : IsDepth(uu, d)
    <2>1. IsTree(uu) /\ Tree!Fits(uu)
      BY <1>1, <1>10 DEF uu
    <2> QED  BY <2>1, FitsIs
  <1>12. Splits(tree, v, uu, q, k, w, f)
    BY <1>8, <1>11 DEF Splits, uu
  <1>13. Fine(uu) /\ ShowsPut(tree, uu, l, to, w)
    BY <1>1, <1>7, <1>9, <1>12, SplitShows
  <1> QED  BY <1>1, <1>2, <1>13

-----------------------------------------------------------------------------
\* Every edit is, of the lists on the screen, what WidgetList says.

OnScreen(t) == [l \in Lists |-> Shown(t)[l]]

MergedOf(t) == [l \in Lists |-> LET s == Tree!Slots(t)[l] IN [i \in 1..Len(s) |-> s[i].node]]

LEMMA MergedIs == ASSUME NEW t, Fine(t) PROVE MergedOf(t) = OnScreen(t)
  <1>1. \A l \in Lists : Shown(t)[l] = Nodes(Tree!Slots(t)[l])
    BY ShownOfFine DEF Shown
  <1> QED  BY <1>1 DEF MergedOf, OnScreen, Nodes

LEMMA MergedNow == Tree!Merged = MergedOf(tree) /\ Tree!Merged' = MergedOf(tree')
  BY DEF Tree!Merged, MergedOf

LEMMA PutIsInsert ==
    ASSUME NEW S, NEW s \in Seq(S), NEW k \in 1..Len(s) + 1, NEW e \in S
    PROVE  Put(s, k, e) = InsertAt(s, k, e)
  <1>1. CASE k <= Len(s)
    <2>1. ~(k > Len(s))
      BY <1>1, LenProperties
    <2> QED  BY <2>1 DEF Put
  <1>2. CASE k = Len(s) + 1
    BY <1>2, PutLast, InsertLast
  <1> QED  BY <1>1, <1>2, LenProperties

LEMMA NotOnPage ==
    ASSUME Fine(tree), NEW w \in Widgets, w \notin Tree!OnDisk PROVE w \notin Tree!List!OnPage
  <1>1. IsNew(tree, w) /\ TreeLoads(tree) /\ Solves(Shown(tree), tree)
    BY NewIs, FineIs, ShownOfFine
  <1>2. ASSUME NEW l \in Lists PROVE ~Has(Shown(tree)[l], w)
    <2>1. SUFFICES ASSUME Has(Shown(tree)[l], w) PROVE FALSE
      OBVIOUS
    <2>2. l \in Existing(tree)
      BY ShownOfFine
    <2>3. PICK q \in Existing(tree) : \E i \in 1..Len(tree[q]) : tree[q][i] = w
      BY <1>1, <2>1, <2>2, ShownIsWritten
    <2>4. Has(tree[q], w)
      BY <2>3 DEF Has
    <2> QED  BY <1>1, <2>4 DEF IsNew
  <1>3. \A l \in Lists : Tree!Merged[l] = Shown(tree)[l] /\ DOMAIN Shown(tree)[l] = 1..Len(Shown(tree)[l])
    BY ShownOfFine, TargetsAre, LenProperties
  <1>4. ASSUME NEW l \in Lists PROVE w \notin Tree!List!ToSet(Tree!Merged[l])
    <2>1. Tree!List!ToSet(Tree!Merged[l]) = {Tree!Merged[l][i] : i \in DOMAIN Tree!Merged[l]}
      BY DEF Tree!List!ToSet
    <2> QED  BY <1>2, <1>3, <2>1 DEF Has
  <1> QED  BY <1>4 DEF Tree!List!OnPage

LEMMA AddSeen ==
    ASSUME Fine(tree), Fine(tree'), NEW l \in Lists, NEW to \in Tree!Targets(l), NEW w \in Widgets,
           w \notin Tree!OnDisk, ShowsPut(tree, tree', l, to, w)
    PROVE  Tree!List!Add(l, to, w)
  <1> DEFINE z == Shown(tree)[l]
  <1>1. w \notin Tree!List!OnPage
    BY NotOnPage
  <1>2. z \in Seq(Widgets) /\ to \in 1..Len(z) + 1
    BY ShownOfFine, TargetsAre
  <1>3. Put(z, to, w) = InsertAt(z, to, w)
    BY <1>2, PutIsInsert
  <1>4. Tree!Merged = OnScreen(tree) /\ Tree!Merged' = OnScreen(tree')
    BY MergedIs, MergedNow
  <1>5. OnScreen(tree') = [OnScreen(tree) EXCEPT ![l] = InsertAt(z, to, w)]
    BY <1>3 DEF OnScreen, ShowsPut
  <1>6. OnScreen(tree)[l] = z
    BY DEF OnScreen
  <1> HIDE DEF z
  <1>7. Tree!Merged' = [Tree!Merged EXCEPT ![l] = InsertAt(Tree!Merged[l], to, w)]
    BY <1>4, <1>5, <1>6
  <1> QED  BY <1>1, <1>7 DEF Tree!List!Add, Tree!List!InsertAt, InsertAt

LEMMA TakeSeen ==
    ASSUME Fine(tree), Fine(tree'), NEW l \in Lists, NEW at,
           Shown(tree')[l] = RemoveAt(Shown(tree)[l], at),
           \A n \in Lists : n # l => Shown(tree')[n] = Shown(tree)[n]
    PROVE  Tree!List!TakeOff(l, at)
  <1>1. Tree!Merged = OnScreen(tree) /\ Tree!Merged' = OnScreen(tree')
    BY MergedIs, MergedNow
  <1>2. OnScreen(tree') = [OnScreen(tree) EXCEPT ![l] = RemoveAt(OnScreen(tree)[l], at)]
    BY DEF OnScreen
  <1> QED  BY <1>1, <1>2 DEF Tree!List!TakeOff, Tree!List!RemoveAt, RemoveAt

LEMMA ChangeSeen ==
    ASSUME Fine(tree), Fine(tree'), NEW l \in Lists, NEW at, NEW w \in Widgets, w \notin Tree!OnDisk,
           Shown(tree')[l] = [Shown(tree)[l] EXCEPT ![at] = w],
           \A n \in Lists : n # l => Shown(tree')[n] = Shown(tree)[n]
    PROVE  Tree!List!Change(l, at, w)
  <1>1. Tree!Merged = OnScreen(tree) /\ Tree!Merged' = OnScreen(tree')
    BY MergedIs, MergedNow
  <1>2. OnScreen(tree') = [OnScreen(tree) EXCEPT ![l] = [OnScreen(tree)[l] EXCEPT ![at] = w]]
    BY DEF OnScreen
  <1> QED  BY <1>1, <1>2, NotOnPage DEF Tree!List!Change, Tree!List!ReplaceAt

LEMMA MoveSeen ==
    ASSUME Fine(tree), Fine(tree'), NEW l \in Lists, NEW at \in Tree!Positions(l),
           NEW m \in Lists, NEW to \in Tree!Targets(m), ShowsMove(tree, tree', l, at, m, to)
    PROVE  Tree!List!Move(l, at, m, to)
  <1> DEFINE s == OnScreen(tree)  without == [s EXCEPT ![l] = RemoveAt(s[l], at)]
             there == Shifted(to, at, l, m)  x == s[l][at]  r == without[m]
  <1>1. Tree!Merged = s /\ Tree!Merged' = OnScreen(tree')
    BY MergedIs, MergedNow
  <1>2. /\ \A n \in Lists : s[n] = Shown(tree)[n] /\ s[n] \in Seq(Widgets)
        /\ s = [n \in Lists |-> s[n]] /\ at \in 1..Len(s[l]) /\ to \in 1..Len(s[m]) + 1
    BY ShownOfFine, TargetsAre DEF OnScreen
  <1> HIDE DEF s
  <1>3. x \in Widgets
    BY <1>2, ElementOfSeq
  <1>4. r = IF l = m THEN RemoveAt(s[l], at) ELSE s[m]
    BY <1>2
  <1>5. RemoveAt(s[l], at) \in Seq(Widgets) /\ Len(RemoveAt(s[l], at)) = Len(s[l]) - 1 /\ Len(s[l]) \in Nat
    <2>1. s[l] \in Seq(Widgets) /\ RemoveAt(s[l], at) \in Seq(Widgets) /\ Narrowed(RemoveAt(s[l], at), s[l], at)
      BY <1>2, TakenIs
    <2> QED  BY <2>1, LenProperties DEF Narrowed
  <1>6. r \in Seq(Widgets) /\ there \in 1..Len(r) + 1
    <2>1. CASE l = m
      BY <1>2, <1>4, <1>5, <2>1 DEF Shifted, Down
    <2>2. CASE l # m
      BY <1>2, <1>4, <2>2 DEF Shifted
    <2> QED  BY <2>1, <2>2
  <1>7. Put(r, there, x) = InsertAt(r, there, x)
    <2> HIDE DEF r, there, x
    <2> QED  BY <1>3, <1>6, PutIsInsert
  <1>8. OnScreen(tree') = [n \in Lists |-> Shown(tree')[n]]
    BY DEF OnScreen
  <1>9. Shown(tree')[m] = InsertAt(r, there, x)
    BY <1>2, <1>4, <1>7 DEF ShowsMove
  <1>10. \A n \in Lists : n # m => Shown(tree')[n] = without[n]
    BY <1>2 DEF ShowsMove
  <1> DEFINE i == InsertAt(r, there, x)
  <1>11. OnScreen(tree') = [without EXCEPT ![m] = i]
    <2>1. without = [n \in Lists |-> without[n]] /\ Shown(tree')[m] = i
      BY <1>2, <1>9
    <2> HIDE DEF i, without
    <2> QED  BY <1>8, <1>10, <2>1
  <1>12. there = IF l = m /\ to > at THEN to - 1 ELSE to
    BY DEF Shifted, Down
  <1> HIDE DEF there
  <1> QED
    BY <1>1, <1>11, <1>12 DEF Tree!List!Move, Tree!List!RemoveAt, Tree!List!InsertAt, RemoveAt, InsertAt

LEMMA EditsSeen == ASSUME Fine(tree), KindsAre PROVE Tree!FaithfulStep
  <1>1. ASSUME NEW l \in Lists, NEW to \in Tree!Targets(l), NEW w \in Widgets, Tree!AddWidget(l, to, w)
        PROVE  Tree!List!Add(l, to, w)
    <2>1. Fine(tree') /\ w \notin Tree!OnDisk /\ ShowsPut(tree, tree', l, to, w)
      BY <1>1, AddIs
    <2> QED  BY <2>1, AddSeen
  <1>2. ASSUME NEW l \in Lists, NEW to \in Tree!Targets(l), NEW w \in Widgets, NEW f \in Files,
               Tree!AddWidgetFile(l, to, w, f)
        PROVE  Tree!List!Add(l, to, w)
    <2>1. Fine(tree') /\ w \notin Tree!OnDisk /\ ShowsPut(tree, tree', l, to, w)
      BY <1>2, AddFileIs
    <2> QED  BY <2>1, AddSeen
  <1>3. ASSUME NEW l \in Lists, NEW at \in Tree!Positions(l), Tree!RemoveWidget(l, at)
        PROVE  Tree!List!TakeOff(l, at)
    <2>1. /\ Fine(tree') /\ Shown(tree')[l] = RemoveAt(Shown(tree)[l], at)
          /\ \A n \in Lists : n # l => Shown(tree')[n] = Shown(tree)[n]
      BY <1>3, DropIs
    <2> QED  BY <2>1, TakeSeen
  <1>4. ASSUME NEW l \in Lists, NEW at \in Tree!Positions(l), NEW w \in Widgets, Tree!EditWidget(l, at, w)
        PROVE  Tree!List!Change(l, at, w)
    <2>1. /\ Fine(tree') /\ w \notin Tree!OnDisk
          /\ Shown(tree')[l] = [Shown(tree)[l] EXCEPT ![at] = w]
          /\ \A n \in Lists : n # l => Shown(tree')[n] = Shown(tree)[n]
      BY <1>4, EditIs
    <2> QED  BY <2>1, ChangeSeen
  <1>5. ASSUME NEW l \in Lists, NEW at \in Tree!Positions(l), NEW m \in Lists, NEW to \in Tree!Targets(m),
               Tree!MoveWidget(l, at, m, to)
        PROVE  Tree!List!Move(l, at, m, to) \/ Tree!MissesInclude(l, at, m, to)
    <2>1. Fine(tree') /\ (ShowsMove(tree, tree', l, at, m, to) \/ Tree!MissesInclude(l, at, m, to))
      BY <1>5, MoveIs
    <2> QED  BY <2>1, MoveSeen
  <1> QED  BY <1>1, <1>2, <1>3, <1>4, <1>5 DEF Tree!FaithfulStep

-----------------------------------------------------------------------------
\* The files of a page that loaded once always load, with every widget and every
\* include written once.

TreeInv == Fine(tree) /\ KindsAre

LEMMA TreeStart == Tree!Init => TreeInv
  <1> SUFFICES ASSUME Tree!Init PROVE TreeInv
    OBVIOUS
  <1>1. PICK s \in TreeStarts : tree = s.tree /\ kind = s.kind
    BY DEF Tree!Init
  <1>2. Tree!WellWritten(tree) /\ kind \in [Lists -> {"list", "block"}]
    BY <1>1, ListsAssumption DEF Tree!TreeAssumption
  <1> QED  BY <1>2, FineIsWellWritten DEF TreeInv, KindsAre

LEMMA TreeStepKeeps == TreeInv /\ [EditorNext]_editorVars => TreeInv'
  <1> SUFFICES ASSUME TreeInv, [EditorNext]_editorVars PROVE TreeInv'
    OBVIOUS
  <1>1. Tree!Next \/ UNCHANGED treeVars
    BY DEF EditorNext, editorVars
  <1>2. CASE UNCHANGED treeVars
    BY <1>2 DEF TreeInv, KindsAre, treeVars
  <1>3. CASE Tree!Next
    <2>1. PICK l \in Lists :
             \/ \E to \in Tree!Targets(l), w \in Widgets :
                   Tree!AddWidget(l, to, w) \/ \E f \in Files : Tree!AddWidgetFile(l, to, w, f)
             \/ \E at \in Tree!Positions(l) :
                   \/ Tree!RemoveWidget(l, at)
                   \/ \E w \in Widgets : Tree!EditWidget(l, at, w)
                   \/ \E m \in Lists : \E to \in Tree!Targets(m) : Tree!MoveWidget(l, at, m, to)
      BY <1>3 DEF Tree!Next
    <2>2. Fine(tree) /\ KindsAre
      BY DEF TreeInv
    <2>3. ASSUME NEW to \in Tree!Targets(l), NEW w \in Widgets, Tree!AddWidget(l, to, w)
          PROVE  Fine(tree') /\ KindsAre'
      BY <2>2, <2>3, AddIs
    <2>4. ASSUME NEW to \in Tree!Targets(l), NEW w \in Widgets, NEW f \in Files, Tree!AddWidgetFile(l, to, w, f)
          PROVE  Fine(tree') /\ KindsAre'
      BY <2>2, <2>4, AddFileIs
    <2>5. ASSUME NEW at \in Tree!Positions(l), Tree!RemoveWidget(l, at) PROVE Fine(tree') /\ KindsAre'
      BY <2>2, <2>5, DropIs
    <2>6. ASSUME NEW at \in Tree!Positions(l), NEW w \in Widgets, Tree!EditWidget(l, at, w)
          PROVE  Fine(tree') /\ KindsAre'
      BY <2>2, <2>6, EditIs
    <2>7. ASSUME NEW at \in Tree!Positions(l), NEW m \in Lists, NEW to \in Tree!Targets(m),
                 Tree!MoveWidget(l, at, m, to)
          PROVE  Fine(tree') /\ KindsAre'
      BY <2>2, <2>7, MoveIs
    <2>8. Fine(tree') /\ KindsAre'
      BY <2>1, <2>3, <2>4, <2>5, <2>6, <2>7
    <2> QED  BY <2>8 DEF TreeInv
  <1> QED  BY <1>1, <1>2, <1>3

LEMMA TreeAlways == EditorSpec => []TreeInv
  <1>1. EditorInit => TreeInv
    BY TreeStart DEF EditorInit
  <1> QED  BY <1>1, TreeStepKeeps, PTL DEF EditorSpec

\* The files of a page always load: whatever edits there were, each include is of a
\* file there is and none is nested deeper than the limit, and every widget and
\* include is written once (parseYAMLIncludes, config-editor.go:542-654).
THEOREM PagesStayWellWritten == EditorSpec => []Tree!WellWritten(tree)
  <1>1. TreeInv => Tree!WellWritten(tree)
    BY FineIsWellWritten DEF TreeInv
  <1> QED  BY <1>1, TreeAlways, PTL

\* The half of EditsAreFaithful that is about widgets: an edit at a position of a
\* merged list does to the lists what it does on the screen, however they are
\* spread over included files (but for the moves of MissesInclude).
THEOREM ShownListChanges == EditorSpec => [][Tree!FaithfulStep]_editorVars
  <1>1. TreeInv => Tree!FaithfulStep
    BY EditsSeen DEF TreeInv
  <1> QED  BY <1>1, TreeAlways, PTL DEF EditorSpec

-----------------------------------------------------------------------------
\* Whatever versions the files, the application and the browser are at and however
\* the lists are spread over files, an edit changes what its user was shown there,
\* as it did on the screen, and nothing else (but for the moves of MissesInclude):
\* config-editor.go:455-520, 542-654.
THEOREM EditsAreFaithfulHolds == EditorSpec => EditsAreFaithful
  <1>1. /\ EditorSpec => [][Tree!FaithfulStep]_editorVars
        /\ EditorSpec => [][level = "rights" => Rights!ShownStep]_editorVars
    BY ShownListChanges, ShownPageChanges
  <1> QED  BY <1>1, PTL DEF EditsAreFaithful
=============================================================================

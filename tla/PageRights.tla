----------------------------- MODULE PageRights -----------------------------
(***************************************************************************)
(* Which page an edit is about, and who may edit it (config-editor.go,     *)
(* newApplication).  A request names a page by its position, as the browser*)
(* has it from the list it loaded; the server finds the position in the    *)
(* files as they are now, and its rights at the page of the running        *)
(* application that has its name and slug.  Files, application and browser *)
(* may each be at another version.                                         *)
(***************************************************************************)
EXTENDS PageSlugs, SequencesExt

CONSTANTS
    Entries,        \* pages as the files have them
    NameOf,         \* entry -> its name
    SlugOf,         \* entry -> its slug, or NoSlug
    TitleSlug,      \* name -> the slug it gives
    NoSlug,
    ReadersOf,      \* entry -> its allowed users, {} for everybody
    Editors,        \* who uses the editor
    RestrictedTo,   \* editor -> the slugs of restrict-editing, {} for none
    EditingUsers,   \* server.editing-users
    AllowEditing,   \* server.allow-editing
    Hidden,         \* the empty slot shown for a page the user may not read
    Versions,       \* what a text editor may make of the files: lists of entries
    FirstVersion,   \* the files the program started with
    MaxChanges      \* bound on changes of the files

\* What the slug of a page is made of: its own, or that of its title.
Base(e) == IF SlugOf[e] = NoSlug THEN TitleSlug[NameOf[e]] ELSE SlugOf[e]

\* A slug is a sequence of words.
RightsAssumption ==
    /\ FirstVersion \in Seq(Entries) /\ \A v \in Versions : v \in Seq(Entries)
    /\ \A e \in Entries : Base(e) \in Seq(Range(Base(e)))

VARIABLES
    files,      \* the pages in the files, in order
    loaded,     \* the pages of the running application
    view,       \* [by, shown, of, app]: whose browser shows what, of which files,
                \* and what application answered it
    edited,     \* the last edit that was made
    edits       \* changes so far

rightsVars == <<files, loaded, view, edited, edits>>

NoEdit == [by |-> {}]

Slugs(pages) == SlugsFor([i \in DOMAIN pages |-> Base(pages[i])])

--------------------------------------------------------------------------------

CanRead(u, e) == ReadersOf[e] = {} \/ u \in ReadersOf[e]

MayUseEditor(u) == EditingUsers = {} \/ u \in EditingUsers
CanEditAnything(u) == MayUseEditor(u) /\ (AllowEditing \/ RestrictedTo[u] /= {})
MayAddPages(u) == RestrictedTo[u] = {} /\ AllowEditing

\* EditingAllowedForPage, of the page at position i of the application.
AllowedForPage(u, i) ==
    /\ CanRead(u, loaded[i])
    /\ IF RestrictedTo[u] /= {} THEN Slugs(loaded)[i] \in RestrictedTo[u] ELSE AllowEditing

\* pageMatchesNode, of the page at position i of an application: a slug that got a
\* number behind it still counts, and so does every other that starts with it.
Matches(app, i, e) ==
    /\ NameOf[app[i]] = NameOf[e]
    /\ SlugOf[e] = NoSlug \/ IsPrefix(SlugOf[e], Slugs(app)[i])

\* A mutant: whatever stands at the position.
PageThere(app, e, i) == {i} \intersect DOMAIN app

\* configPageForSlot: the page at the same position, or the only one that matches.
ConfigPage(app, e, i) ==
    LET found == {j \in DOMAIN app : Matches(app, j, e)}
    IN IF i \in found THEN {i} ELSE IF Cardinality(found) = 1 THEN found ELSE {}

--------------------------------------------------------------------------------

RightsInit == /\ files = FirstVersion /\ loaded = files
              /\ view = [by |-> {}, shown |-> << >>, of |-> << >>, app |-> << >>]
              /\ edited = NoEdit /\ edits = 0

Changed == edits < MaxChanges /\ edits' = edits + 1

\* A text editor reorders, adds or removes pages; the program reloads.
Rewrite(order) ==
    /\ Changed /\ files' = order /\ order /= files
    /\ edited' = NoEdit /\ UNCHANGED <<loaded, view>>

LoadConfig ==
    /\ loaded /= files /\ loaded' = files
    /\ edited' = NoEdit /\ UNCHANGED <<files, view, edits>>

\* buildEditorConfigView, of the files as an application sees them.
Visible(u, pages, app, i) == \A j \in ConfigPage(app, pages[i], i) : CanRead(u, app[j])

\* A mutant: pages that are not shown take no position.
ShownOnly(u, pages, app) ==
    LET seen == {i \in DOMAIN pages : Visible(u, pages, app, i)}
    IN [k \in 1..Cardinality(seen) |->
            pages[CHOOSE i \in seen : Cardinality({j \in seen : j <= i}) = k]]

Shown(u, pages, app) ==
    [i \in DOMAIN pages |-> IF Visible(u, pages, app, i) THEN pages[i] ELSE Hidden]

OpenEditor(u) ==
    /\ CanEditAnything(u)
    /\ view' = [by |-> {u}, shown |-> Shown(u, files, loaded), of |-> files, app |-> loaded]
    /\ edited' = NoEdit /\ UNCHANGED <<files, loaded, edits>>

\* applyEditorMutation of the page at position i, whatever the browser shows there:
\* any position may be posted.  removePage stands for all of them, because it moves
\* the others.
EditPageAt(u, i) ==
    /\ CanEditAnything(u)
    /\ i \in DOMAIN files
    /\ \E j \in ConfigPage(loaded, files[i], i) : AllowedForPage(u, j)
    /\ Changed
    /\ files' = [j \in 1..Len(files) - 1 |-> files[IF j < i THEN j ELSE j + 1]]
    /\ Len(files) > 1
    /\ edited' = [by |-> {u}, page |-> files[i], at |-> i, current |-> files = loaded]
    /\ UNCHANGED <<loaded, view>>

AddPageBy(u, e) ==
    /\ CanEditAnything(u) /\ MayAddPages(u)
    /\ \A i \in DOMAIN files : files[i] /= e
    /\ Changed
    /\ files' = Append(files, e)
    /\ edited' = NoEdit
    /\ UNCHANGED <<loaded, view>>

RightsNext ==
    \/ \E o \in Versions : Rewrite(o)
    \/ LoadConfig
    \/ \E u \in Editors : \/ OpenEditor(u)
                          \/ \E i \in 1..Cardinality(Entries) : EditPageAt(u, i)
                          \/ \E e \in Entries : AddPageBy(u, e)

--------------------------------------------------------------------------------

Twins(e) == {f \in Entries \ {e} : NameOf[f] = NameOf[e]}

\* What newApplication may make of a slug.
Numbered(slug) == {slug} \union {Append(slug, k) : k \in 2..Len(loaded) + 1}

\* Whatever a request names, and whatever versions the files, the application and
\* the browser are at, an edit changes only a page that its user may read, and, for
\* a user restricted to some pages, one of these: its slug is its own or that of its
\* title, with or without a number.  (Of pages with one name this asks that one of
\* them is permitted: a file may have them in another order than the application.)
\* While the application runs what the files say, it is that very page.
EditsArePermitted ==
    \A u \in edited.by :
        /\ \E e \in {edited.page} \union Twins(edited.page) :
               /\ CanRead(u, e)
               /\ RestrictedTo[u] /= {} => RestrictedTo[u] \intersect Numbered(Base(e)) /= {}
        /\ edited.current =>
               /\ edited.page = loaded[edited.at] /\ CanRead(u, edited.page)
               /\ RestrictedTo[u] /= {} => Slugs(loaded)[edited.at] \in RestrictedTo[u]

\* As long as the files are what the browser was shown, the page that changes is
\* the one shown at that position; a hidden one only if the application is another
\* by now.
ShownStep ==
    \A u \in edited'.by \intersect view.by :
        edited' /= edited /\ view.of = files /\ edited'.at \in DOMAIN view.shown =>
            view.shown[edited'.at] \in {edited'.page} \union IF view.app = loaded THEN {} ELSE {Hidden}
=============================================================================

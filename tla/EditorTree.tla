----------------------------- MODULE EditorTree -----------------------------
(***************************************************************************)
(* The widgets of one page as the UI editor changes them, config-editor.go:*)
(* a list of widgets may be written in place, or as $include entries of    *)
(* files that hold more of it, and the editor addresses a widget by its    *)
(* position in the merged config.  An edit finds the list the widget is    *)
(* written in, changes that, and drops the include of a file it emptied.   *)
(*                                                                         *)
(* A list is a column or a container widget; columns are edited by the same*)
(* code with columns in the place of widgets.  Lists hold no lists here, so*)
(* the check that no container is moved into itself is left out.  An       *)
(* include block is a list of nothing but includes, written as a mapping.  *)
(* An edit is one action: it runs under editorMu, and what it does to the  *)
(* disk is ConfigEditor's.                                                 *)
(***************************************************************************)
EXTENDS Naturals, Sequences, FiniteSets, SequencesExt

CONSTANTS
    Lists,       \* lists of the page's own file
    Files,       \* files that are or may be included
    Widgets,
    Absent,      \* what a file that does not exist holds
    DepthLimit,  \* CONFIG_INCLUDE_RECURSION_DEPTH_LIMIT
    Starts       \* pages somebody wrote by hand, which load: [tree : ..., kind : ...]

Places == Lists \cup Files

VARIABLES
    tree,        \* place -> the entries written there, widgets and includes
    kind         \* list -> "list" or "block"

vars == <<tree, kind>>

Written(t, p) == IF t[p] = Absent THEN {} ELSE ToSet(t[p])

OnDisk == (UNION {Written(tree, p) : p \in Places}) \cap Widgets

\* recursiveParseYAMLIncludes: every include is of a file there is, and none is
\* nested deeper than the limit.
Fits(t) ==
    \E depth \in [Places -> 0..DepthLimit] :
        \A p \in Places : \A f \in Written(t, p) \cap Files : t[f] # Absent /\ depth[f] < depth[p]

\* Every widget and every include is written once.
WellWritten(t) ==
    /\ t \in [Places -> Seq(Widgets \cup Files) \cup {Absent}]
    /\ \A l \in Lists : t[l] # Absent
    /\ \A p, q \in Places : Written(t, p) \cap Written(t, q) # {} => p = q
    /\ \A p \in Places : t[p] # Absent =>
          \A i, j \in DOMAIN t[p] : t[p][i] = t[p][j] => i = j
    /\ Fits(t)

TreeAssumption ==
    /\ Lists \cap Files = {} /\ Widgets \cap Files = {}
    /\ Absent \notin Seq(Widgets \cup Files) /\ DepthLimit \in Nat
    /\ \A s \in Starts : WellWritten(s.tree) /\ s.kind \in [Lists -> {"list", "block"}]

Init == \E s \in Starts : tree = s.tree /\ kind = s.kind

-----------------------------------------------------------------------------
\* expandWidgetSlots: where each widget of the merged list is written.  A
\* widget that is the first of an included file also knows the include, its
\* outer entry, for outside the file is where to insert in front of it.
Slot(t, p, i) == [node |-> t[p][i], seq |-> p, index |-> i, outer |-> p, outerIdx |-> i]

FirstKnows(slots, f, p, i) ==
    [n \in 1..Len(slots) |->
        IF slots[n].seq = f /\ slots[n].index = 1
        THEN [slots[n] EXCEPT !.outer = p, !.outerIdx = i]
        ELSE slots[n]]

Expands(t, e, depth) == e \in Files /\ t[e] # Absent /\ depth > 0

Slots(t) ==
    LET expand[depth \in 0..DepthLimit] ==
            LET inside == expand[depth - 1] IN
            [p \in {q \in Places : t[q] # Absent} |->
                FlattenSeq([i \in 1..Len(t[p]) |->
                    IF Expands(t, t[p][i], depth)
                    THEN FirstKnows(inside[t[p][i]], t[p][i], p, i)
                    ELSE <<Slot(t, p, i)>>])]
    IN  expand[DepthLimit]

Merged == [l \in Lists |-> LET s == Slots(tree)[l] IN [i \in 1..Len(s) |-> s[i].node]]

\* widgetInsertPoint
Nowhere == [seq |-> Absent, at |-> 0]

InsertPoint(l, to) ==
    LET slots  == Slots(tree)[l]
        behind == to > Len(slots)
        last   == slots[Len(slots)]
        first  == slots[to].index = 1 /\ kind[l] = "list"
    IN
    CASE behind /\ kind[l] = "list" -> [seq |-> l, at |-> Len(tree[l]) + 1]
      [] behind /\ kind[l] = "block" /\ slots # << >> ->
            [seq |-> last.seq, at |-> Len(tree[last.seq]) + 1]
      [] ~behind /\ first -> [seq |-> slots[to].outer, at |-> slots[to].outerIdx]
      [] ~behind /\ ~first -> [seq |-> slots[to].seq, at |-> slots[to].index]
      [] OTHER -> Nowhere

\* pruneEmptyInclude.  The mutant drops the include of a file that still has
\* something in it.
EmptiedOrNot(t, slot) == TRUE

Emptied(t, slot) == t[slot.seq] = << >>

Pruned(t, slot) ==
    IF /\ slot.seq # slot.outer /\ Emptied(t, slot)
       /\ slot.outerIdx \in 1..Len(t[slot.outer])
       /\ t[slot.outer][slot.outerIdx] \in Files
    THEN [t EXCEPT ![slot.outer] = RemoveAt(@, slot.outerIdx)]
    ELSE t

\* emptyIncludeBlockToList.  The mutant leaves an empty block a block.
KindsKept(t) == kind

Kinds(t) == [l \in Lists |-> IF t[l] = << >> THEN "list" ELSE kind[l]]

Save(t) == tree' = t /\ kind' = Kinds(t)

\* insertNode appends where there is no such place.
Inserted(t, point, e) ==
    [t EXCEPT ![point.seq] = IF point.at > Len(@) THEN Append(@, e)
                             ELSE InsertAt(@, point.at, e)]

Removed(t, slot) == [t EXCEPT ![slot.seq] = RemoveAt(@, slot.index)]

AddWidget(l, to, w) ==
    LET point == InsertPoint(l, to) IN
    /\ w \notin OnDisk
    /\ point # Nowhere
    /\ Save(Inserted(tree, point, w))

\* splitWidgetFile: the new widget goes into a file of its own.  It is the only
\* edit that nests includes deeper; what does not load is rolled back.
AddWidgetFile(l, to, w, f) ==
    LET point == InsertPoint(l, to)
        split == [Inserted(tree, point, f) EXCEPT ![f] = <<w>>]
    IN
    /\ w \notin OnDisk
    /\ tree[f] = Absent
    /\ point # Nowhere
    /\ Fits(split)
    /\ Save(split)

EditWidget(l, at, w) ==
    LET slot == Slots(tree)[l][at] IN
    /\ w \notin OnDisk
    /\ Save([tree EXCEPT ![slot.seq][slot.index] = w])

RemoveWidget(l, at) ==
    LET slot == Slots(tree)[l][at] IN Save(Pruned(Removed(tree, slot), slot))

\* Where the destination is once the widget is taken out of its list.  The
\* mutant forgets that it may be the same one.
ThereUnshifted(slot, point) == point

There(slot, point) ==
    IF point.seq = slot.seq /\ point.at > slot.index
    THEN [point EXCEPT !.at = @ - 1]
    ELSE point

MoveWidget(l, at, m, to) ==
    LET slot  == Slots(tree)[l][at]
        point == InsertPoint(m, to)
    IN
    /\ point # Nowhere
    /\ Save(Pruned(Inserted(Removed(tree, slot), There(slot, point), slot.node), slot))

Positions(l) == 1..Len(Merged[l])

Targets(l) == 1..Len(Merged[l]) + 1

Next ==
    \E l \in Lists :
        \/ \E to \in Targets(l), w \in Widgets :
            \/ AddWidget(l, to, w)
            \/ \E f \in Files : AddWidgetFile(l, to, w, f)
        \/ \E at \in Positions(l) :
            \/ RemoveWidget(l, at)
            \/ \E w \in Widgets : EditWidget(l, at, w)
            \/ \E m \in Lists : \E to \in Targets(m) : MoveWidget(l, at, m, to)

Spec == Init /\ [][Next]_vars

-----------------------------------------------------------------------------
List == INSTANCE WidgetList WITH shown <- Merged

\* A move out of an included file that it empties, to a place in front of the
\* include: the insertion shifts the include, and pruneEmptyInclude, which
\* still has its old position, drops whatever include stands there now.
MissesInclude(l, at, m, to) ==
    LET slot == Slots(tree)[l][at]  point == InsertPoint(m, to) IN
    /\ slot.seq # slot.outer /\ Len(tree[slot.seq]) = 1
    /\ point.seq = slot.outer /\ point.at < slot.outerIdx

\* An edit at a position does to the merged list what it does to the list on the
\* screen, and to no other widget.
FaithfulStep ==
    \A l \in Lists :
        /\ \A to \in Targets(l), w \in Widgets \ OnDisk :
            /\ AddWidget(l, to, w) => List!Add(l, to, w)
            /\ \A f \in Files : AddWidgetFile(l, to, w, f) => List!Add(l, to, w)
        /\ \A at \in Positions(l) :
            /\ RemoveWidget(l, at) => List!TakeOff(l, at)
            /\ \A w \in Widgets \ OnDisk : EditWidget(l, at, w) => List!Change(l, at, w)
            /\ \A m \in Lists : \A to \in Targets(m) :
                MoveWidget(l, at, m, to) =>
                    List!Move(l, at, m, to) \/ MissesInclude(l, at, m, to)

\* Moving a widget removes none.
LossStep ==
    (\E l, m \in Lists : \E at \in Positions(l), to \in Targets(m) : MoveWidget(l, at, m, to))
        => UNION {ToSet(Merged'[l]) : l \in Lists} = UNION {ToSet(Merged[l]) : l \in Lists}
=============================================================================

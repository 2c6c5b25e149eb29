----------------------------- MODULE WidgetList -----------------------------
(***************************************************************************)
(* What somebody who edits a page with the UI editor sees: lists of        *)
(* widgets, changed by position.  Which file of the config a widget is     *)
(* written in does not show.                                               *)
(***************************************************************************)
EXTENDS Naturals, Sequences, SequencesExt

CONSTANT Lists

VARIABLE shown

OnPage == UNION {ToSet(shown[l]) : l \in Lists}

Add(l, at, w) ==
    /\ w \notin OnPage
    /\ shown' = [shown EXCEPT ![l] = InsertAt(@, at, w)]

TakeOff(l, at) == shown' = [shown EXCEPT ![l] = RemoveAt(@, at)]

Change(l, at, w) ==
    /\ w \notin OnPage
    /\ shown' = [shown EXCEPT ![l] = ReplaceAt(@, at, w)]

\* In front of the widget that was at to, wherever removing the one that is
\* moved puts it.
Move(l, at, m, to) ==
    LET without == [shown EXCEPT ![l] = RemoveAt(@, at)]
        there   == IF l = m /\ to > at THEN to - 1 ELSE to
    IN  shown' = [without EXCEPT ![m] = InsertAt(@, there, shown[l][at])]
=============================================================================

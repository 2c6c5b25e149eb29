----------------------------- MODULE ConfigStore -----------------------------
(***************************************************************************)
(* What the UI editor promises about the config: an edit happens at once   *)
(* and to nothing else, or not at all.                                     *)
(***************************************************************************)
CONSTANT Parts   \* pages and widgets

VARIABLE config  \* those the config has

Add(x) == x \notin config /\ config' = config \cup {x}

Drop(x) == x \in config /\ config' = config \ {x}

Change(x, y) == x \in config /\ y \notin config /\ config' = (config \ {x}) \cup {y}

Next == \E x \in Parts : Add(x) \/ Drop(x) \/ \E y \in Parts : Change(x, y)
=============================================================================

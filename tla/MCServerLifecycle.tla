------------------------ MODULE MCServerLifecycle --------------------------
\* Two good configs that differ in their port, and a bad one.
EXTENDS ServerLifecycle, TLC

CONSTANTS good, moved, bad, p1, p2

MCContents == {good, moved, bad}
MCValid == {good, moved}
MCPortOf == (good :> p1) @@ (moved :> p2) @@ (bad :> p1)

Symmetry == Permutations(Callbacks)
=============================================================================

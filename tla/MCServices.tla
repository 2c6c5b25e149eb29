----------------------------- MODULE MCServices -----------------------------
\* Three downloads of an image, two of them of one application; the actors of
\* the other parts are the same two or three model values in each.
EXTENDS Services, TLC

CONSTANTS old, new, a1, a2, v3

MCAppOf == (a1 :> old) @@ (a2 :> old) @@ (v3 :> new)

MCSymmetry == Permutations({a1, a2})
=============================================================================

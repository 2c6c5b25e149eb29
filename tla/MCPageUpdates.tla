--------------------------- MODULE MCPageUpdates ---------------------------
\* A group with one leaf, and a leaf of its own.
EXTENDS PageUpdates, TLC

CONSTANTS g, w1, w2, Prewarm

MCMembers == g :> {w1}

MCPeriod == (w1 :> 1) @@ (w2 :> 2)

\* Retries come one and two ticks after the failure, an update three.
MCLongPeriod == w1 :> 3
=============================================================================

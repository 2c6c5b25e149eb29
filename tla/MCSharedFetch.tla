--------------------------- MODULE MCSharedFetch ---------------------------
\* An infinite age (PruneAge), the default one and an ordinary one; the last two
\* are longer than PruneAge.
EXTENDS SharedFetch

MCDurations == {-1, 0, 2}
=============================================================================

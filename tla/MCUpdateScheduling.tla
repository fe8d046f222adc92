------------------------- MODULE MCUpdateScheduling -------------------------
EXTENDS UpdateScheduling
CONSTANTS p1, p2
=============================================================================

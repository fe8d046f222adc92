----------------------- MODULE MCLifecycleTransition -----------------------
(* Operations and processes are interchangeable, and so are revisions.      *)
EXTENDS LifecycleTransition, TLC
CONSTANTS o1, o2, p1, p2, v1, v2
MCSymmetry == Permutations(Ops) \cup Permutations(Procs) \cup Permutations(Revisions)
=============================================================================

-------------------------- MODULE MCKeyedScheduler --------------------------
(* Small instance of KeyedScheduler for TLC. *)
EXTENDS KeyedScheduler
CONSTANTS r1, r2, r3, a, b
MCRequests == {r1, r2, r3}
MCKeys == {a, b}
=============================================================================

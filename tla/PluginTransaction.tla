------------------------- MODULE PluginTransaction -------------------------
(***************************************************************************)
(* What a lifecycle transition promises: at most one is open on a plugin,  *)
(* it starts from the settled value, and it ends by making its goal the    *)
(* settled value or by leaving that value as it was.                       *)
(***************************************************************************)
CONSTANTS Ops, None

VARIABLES settled, \* the value that stands when no transition is open
          open,    \* the open transition, or None
          goal,    \* [Ops -> values], fixed when a transition opens
          spent    \* transitions that were ever opened

vars == <<settled, open, goal, spent>>

Init == open = None /\ spent = {}

(* A caller computes what it wants while others run.                       *)
Plan(o) ==
    /\ o \notin spent
    /\ \A q \in Ops \ {o} : goal'[q] = goal[q]
    /\ UNCHANGED <<settled, open, spent>>

Open(o) ==
    /\ open = None /\ o \notin spent
    /\ open' = o
    /\ spent' = spent \cup {o}
    /\ UNCHANGED <<settled, goal>>

Close ==
    /\ open # None
    /\ open' = None
    /\ settled' \in {settled, goal[open]}
    /\ UNCHANGED <<goal, spent>>

Next == Close \/ \E o \in Ops : Plan(o) \/ Open(o)

Spec == Init /\ [][Next]_vars
=============================================================================

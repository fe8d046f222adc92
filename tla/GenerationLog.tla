--------------------------- MODULE GenerationLog ---------------------------
(***************************************************************************)
(* What a prepared mutation promises its caller: the documents of a scope  *)
(* change one generation at a time, each by one mutation applied to the    *)
(* documents before it, and the verdict a caller gets never hides a write. *)
(***************************************************************************)
EXTENDS Integers, Sequences

CONSTANTS Calls,      \* mutations asked for
          Effect(_, _) \* Effect(c, d): the documents d after mutation c

VARIABLES log,      \* the documents of every generation, oldest first
          verdict   \* [Calls -> Verdicts]

Verdicts == {"open", "written", "committed", "stale", "failed", "ambiguous",
             "threw", "crashed"}

Init ==
    /\ Len(log) = 1
    /\ verdict = [c \in Calls |-> "open"]

Write(c) ==
    /\ verdict[c] = "open"
    /\ log' = Append(log, Effect(c, log[Len(log)]))
    /\ verdict' = [verdict EXCEPT ![c] = "written"]

(* Some generation is the one before it with the effect of c.  A caller    *)
(* that asked for what another one wrote may be told that it is committed. *)
Shown(c) == \E g \in 2..Len(log) : log[g] = Effect(c, log[g - 1])

Settle(c, v) ==
    /\ \/ verdict[c] = "written" /\ v \in {"committed", "ambiguous"}
       \/ verdict[c] = "open" /\ v \in {"stale", "failed", "threw", "ambiguous"}
       \/ verdict[c] = "open" /\ v = "committed" /\ Shown(c)
    /\ verdict' = [verdict EXCEPT ![c] = v]
    /\ UNCHANGED log

(* The calls of a process end without a verdict.                           *)
Crash(D) ==
    /\ \A c \in D : verdict[c] \in {"open", "written"}
    /\ verdict' = [c \in Calls |-> IF c \in D THEN "crashed" ELSE verdict[c]]
    /\ UNCHANGED log

Next ==
    \/ \E c \in Calls : Write(c) \/ \E v \in Verdicts : Settle(c, v)
    \/ \E D \in SUBSET Calls : Crash(D)

Spec == Init /\ [][Next]_<<log, verdict>>
=============================================================================

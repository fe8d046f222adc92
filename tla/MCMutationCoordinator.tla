----------------------- MODULE MCMutationCoordinator -----------------------
(* Two calls of two processes that ask for the same thing, and a third one *)
(* for another plugin in the process of the first.                         *)
EXTENDS MutationCoordinator, TLC
CONSTANTS c1, c2, c3, p1, p2, a, b, old, new
MCCalls == {c1, c2, c3}
MCPlugins == {a, b}
MCValues == {old, new}
MCProcessOf == (c1 :> p1) @@ (c2 :> p2) @@ (c3 :> p1)
MCPluginOf == (c1 :> a) @@ (c2 :> a) @@ (c3 :> b)
MCValueOf == [c \in MCCalls |-> new]
MCInitial == [p \in MCPlugins |-> old]
=============================================================================

-------------------------- MODULE MCUpdateNotices ---------------------------
EXTENDS UpdateNotices, TLC
CONSTANTS r1, r2, s1, s2

(* The plugin lies in the marketplace: another snapshot, another revision. *)
MCInTree == s1 :> r1 @@ s2 :> r2

MCPolicy(override, moved) ==
    [local |-> FALSE, legacy |-> FALSE, marketplaceMoved |-> FALSE, pluginMoved |-> moved,
     pluginOverride |-> override, marketplaceOverride |-> "automatic",
     scope |-> "none", global |-> "manual"]
MCPolicies == {MCPolicy("none", FALSE), MCPolicy("manual", FALSE)}
=============================================================================

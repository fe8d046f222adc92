---------------------------- MODULE UpdatePolicy ----------------------------
(***************************************************************************)
(* Whether the updates of a plugin are applied automatically.              *)
(*   src/src/application/update-policy-resolution.ts                       *)
(* Source identities are abstracted to whether they are those on record.   *)
(***************************************************************************)
Modes == {"manual", "automatic"}
Overrides == Modes \cup {"inherit", "none"}

PolicyInputs ==
    [local : BOOLEAN,               \* the source is a directory of this host
     legacy : BOOLEAN,              \* an identity was never recorded
     marketplaceMoved : BOOLEAN,    \* not the registered marketplace source
     pluginMoved : BOOLEAN,         \* not the source the override was set for
     pluginOverride : Overrides,
     marketplaceOverride : Overrides,
     scope : Modes \cup {"none"},
     global : Modes]

(* The reason for which no setting counts.                                 *)
SourceGuard(p) ==
    IF p.local THEN "local"
    ELSE IF p.legacy THEN "legacy-source"
    ELSE IF p.marketplaceMoved THEN "marketplace-source-changed"
    ELSE IF p.pluginOverride # "none" /\ p.pluginMoved THEN "plugin-source-changed"
    ELSE "none"

(* The narrowest level that decides.                                       *)
WinningLevel(p) ==
    IF SourceGuard(p) # "none" THEN "guard"
    ELSE IF p.pluginOverride \in Modes THEN "plugin"
    ELSE IF p.marketplaceOverride \in Modes THEN "marketplace"
    ELSE IF p.scope \in Modes THEN "scope"
    ELSE "global"

Application(p) ==
    IF WinningLevel(p) = "guard" THEN "manual"
    ELSE IF WinningLevel(p) = "plugin" THEN p.pluginOverride
    ELSE IF WinningLevel(p) = "marketplace" THEN p.marketplaceOverride
    ELSE IF WinningLevel(p) = "scope" THEN p.scope
    ELSE p.global

Automatic(p) == Application(p) = "automatic"
=============================================================================

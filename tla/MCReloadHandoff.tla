-------------------------- MODULE MCReloadHandoff --------------------------
EXTENDS ReloadHandoff
CONSTANTS o1, o2
=============================================================================

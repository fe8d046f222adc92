-------------------------- MODULE MCInstallSession --------------------------
EXTENDS InstallSession, TLC
CONSTANTS c1, c2, c3
MCSymmetry == Permutations(Callers)
=============================================================================

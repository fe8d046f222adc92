------------------------ MODULE MCRevisionCollection ------------------------
(* The keys are ordered, and so not interchangeable.                        *)
EXTENDS RevisionCollection
CONSTANTS s1
=============================================================================

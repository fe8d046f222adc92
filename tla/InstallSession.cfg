\* Three calls at a time on one session, any discard may fail.  The run ends
\* when the service is closed.
SPECIFICATION Spec
CONSTANTS
    c1 = c1
    c2 = c2
    c3 = c3
    Callers = {c1, c2, c3}
SYMMETRY MCSymmetry
INVARIANTS TypeOK ReclaimedContentIsNotInstalled StagingIsSettled
CHECK_DEADLOCK FALSE

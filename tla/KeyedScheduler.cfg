\* Three calls over two keys: every key set, nesting, abort at every point.
SPECIFICATION FairSpec
CONSTANTS
    r1 = r1  r2 = r2  r3 = r3
    a = a  b = b
    None = None
    Requests <- MCRequests
    Keys <- MCKeys
INVARIANTS TypeOK MutualExclusion NoLostWakeup QueuesHoldWaiters OwnersHold
PROPERTIES ServesInArrivalOrder FlatCallsAreServed
\* All calls may be settled, and a nested call may wait forever.
CHECK_DEADLOCK FALSE

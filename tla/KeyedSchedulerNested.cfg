\* The calls of KeyedScheduler.cfg, work that calls run included.
SPECIFICATION FairSpec
CONSTANTS
    r1 = r1  r2 = r2  r3 = r3
    a = a  b = b
    None = None
    Requests <- MCRequests
    Keys <- MCKeys
PROPERTY NestedCallsAreServed
\* All calls may be settled, and a nested call may wait forever.
CHECK_DEADLOCK FALSE

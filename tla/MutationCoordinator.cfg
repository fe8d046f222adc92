\* Three calls in two processes; the lock's files are replaced at most once.
SPECIFICATION FairSpec
CONSTANTS
    c1 = c1  c2 = c2  c3 = c3
    p1 = p1  p2 = p2
    a = a  b = b
    old = old  new = new
    Calls <- MCCalls
    Plugins <- MCPlugins
    Values <- MCValues
    ProcessOf <- MCProcessOf
    PluginOf <- MCPluginOf
    ValueOf <- MCValueOf
    Initial <- MCInitial
    MaxEpoch = 1
    NoLease = NoLease
INVARIANTS TypeOK LeaseFreezesState
PROPERTIES TruthfulRegister CallsSettle
\* All calls may be settled.
CHECK_DEADLOCK FALSE

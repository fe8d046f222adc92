\* Two processes, the user of one of them asks for refreshes.
SPECIFICATION Spec
CONSTANTS
    p1 = p1
    p2 = p2
    Procs = {p1, p2}
    Users = {p1}
    LeaseTime = 2
    ClaimTime = 2
    Interval = 1
    BackoffBase = 1
    BackoffMax = 1
    Pause = 1
    MaxFaults = 1
    Dead = Dead
    None = None
INVARIANTS TypeOK
PROPERTIES SnapshotNeverRegresses LiveClaimIsKept OwnerRefreshes DueIsRefreshed

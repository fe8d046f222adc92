\* One crash is enough.
SPECIFICATION Spec
CONSTANTS
    o1 = o1  o2 = o2
    p1 = p1  p2 = p2
    v1 = v1  v2 = v2
    Ops = {o1}
    Procs = {p1, p2}
    Revisions = {v1}
    MaxFaults = 1
    None = None
INVARIANTS AbandonedRowsAreInert

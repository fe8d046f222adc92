\* Two operations of any kinds in two processes, one failing call or crash.
SPECIFICATION Spec
CONSTANTS
    o1 = o1  o2 = o2
    p1 = p1  p2 = p2
    v1 = v1  v2 = v2
    Ops = {o1, o2}
    Procs = {p1, p2}
    Revisions = {v1, v2}
    MaxFaults = 1
    None = None
SYMMETRY MCSymmetry
INVARIANTS TypeOK MarkersAreRecoverable JournalIsTrue AnswersAreTrue
PROPERTIES DeletionIsConfirmed TransitionsAreAtomic

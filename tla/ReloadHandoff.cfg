\* Two operations on two plugins and three hosts: a reload, one by the user
\* while it is under way, and the starts that follow.  The run ends when the
\* operations have ended and Pi may load no further host.
SPECIFICATION Spec
CONSTANTS
    o1 = o1
    o2 = o2
    Ops = {o1, o2}
    NoOp = NoOp
    MaxHosts = 3
INVARIANTS TypeOK AcceptedIsActive HooksAreConsistent OpenTicketsAreAwaited
PROPERTIES ClaimedReloadsAnswer
CHECK_DEADLOCK FALSE

\* Two revisions, one session, one failing call or death.
SPECIFICATION Spec
CONSTANTS
    s1 = s1
    Keys = {1, 2}
    Sessions = {s1}
    Grace = 1
    MaxArtifacts = 2
    MaxFaults = 1
    None = None
INVARIANTS TypeOK
PROPERTIES ReferencedContentStays InactiveContentGoes

\* One process with its maintenance and one command, two revisions of a plugin
\* that lies in its marketplace, two policies, and one fault.
SPECIFICATION Spec
CONSTANTS
    r1 = r1
    r2 = r2
    s1 = s1
    s2 = s2
    Revisions = {r1, r2}
    Snapshots = {s1, s2}
    Catalog <- MCInTree
    Policies <- MCPolicies
    Background = {b1}
    Foreground = {f1}
    ResolvedPerPlugin = 1
    MaxFaults = 1
    None = None
INVARIANTS TypeOK
PROPERTIES NoticesSurvive AppliedIsFinal NoticesArePublished AutomaticUpdatesHappen

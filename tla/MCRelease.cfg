SPECIFICATION Spec
CONSTANTS
    p1 = p1
    p2 = p2
    d1 = d1
    d2 = d2
    None = None
    Unreadable = Unreadable
    Processes = {p1, p2}
    FirstStore <- MCFirstStore
    Changes <- MCChanges
    Held = {"f1"}
    Outputs = {d1, d2}
    ReleaseIds <- MCReleaseIds
    Work <- MCWork
SYMMETRY Symmetry
CHECK_DEADLOCK FALSE
INVARIANTS
    SupersessionIsALine
    BundlesShowTheStore
    PublicReportsAreFailClosed
PROPERTIES
    OutputsAreApproved

CONSTANTS
    Workers = {w1, w2}
    Origin = origin
    Nodes = {n1}
    MaxRevision = 2
    MaxEvents = 4
    None = None
SPECIFICATION Spec
SYMMETRY Symmetry
INVARIANTS
    HistoryFollowsLifecycle

\* Two competing sessions and two dispatchers; no symmetry, since liveness is checked.
CONSTANTS
    Sessions = {s1, s2}
    Dispatchers = {d1, d2}
    o1 = o1
    o2 = o2
    x1 = x1
    e1 = e1
    e2 = e2
    Objects = {o1, o2}
    Edges = {x1}
    Calls <- MCCalls
    EventIds = {e1, e2}
    MaxRevision = 1
    MaxTransactions = 2
    None = None
SPECIFICATION FairSpec
CHECK_DEADLOCK FALSE
INVARIANTS
    ChainVerifies
    OneWinnerPerRevision
    ChangeHasItsEvent
PROPERTIES
    ImplementsStore
    DeliveredAtLeastOnce
    TransactionsEnd

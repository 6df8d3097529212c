\* Two retriers; no symmetry, since liveness is checked.
SPECIFICATION FairSpec
CONSTANTS
    Recipients = {r1}
    Notifiers = {p1}
    Retriers = {q1, q2}
    MaxAttempts = 2
    Lifetime = 2
    MaxNotifications = 1
    MaxRevision = 2
    MaxTime = 3
    Backoff <- MCBackoff
    None = None
INVARIANTS
    DeliveredMeansArrived
    RecordsOfDeliveriesAgree
PROPERTIES
    DeliveriesAreSettledForGood

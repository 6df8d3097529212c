SPECIFICATION Spec
CONSTANTS
    Recipients = {r1, r2}
    Notifiers = {p1, p2}
    Retriers = {}
    MaxAttempts = 1
    Lifetime = 1
    MaxNotifications = 4
    MaxRevision = 4
    MaxTime = 1
    Backoff <- MCBackoff
    None = None
SYMMETRY Symmetry
INVARIANTS
    FailureStaysVisible
    SentOncePerRecipient

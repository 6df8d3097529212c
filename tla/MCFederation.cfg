SPECIFICATION Spec
CONSTANTS
    t1 = t1
    t2 = t2
    t3 = t3
    t4 = t4
    a1 = a1
    a2 = a2
    k1 = k1
    k2 = k2
    o1 = o1
    o2 = o2
    o3 = o3
    o4 = o4
    n1 = n1
    c1 = c1
    c2 = c2
    Notifications = {c1, c2}
    Notified <- MCNotified
    Adaptings <- MCAdaptings
    None = None
    Actors = {a1, a2}
    Transfers = {t1, t2, t3, t4}
    Contract <- MCContract
    Manifests <- MCManifests
    Items = {o1, o2, o3, o4}
    Identifiable = {o4}
    Adaptations = {o3}
    Derivations <- MCDerivations
    Keys = {k1, k2}
    KeyWindow <- MCKeyWindow
    FirstKey = k1
    Work <- MCWork
SYMMETRY Symmetry
CHECK_DEADLOCK FALSE
INVARIANTS
    AnswersHaveTheirEffects
    ObligationsReachDownstream
    CorrectionsAreAnswered
PROPERTIES
    TrustIsSettled

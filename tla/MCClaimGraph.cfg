SPECIFICATION Spec
CONSTANTS
    o1 = o1
    k1 = k1
    Workers = {w1, w2}
    Claims = {c1, c2}
    Causal = {c1, c2}
    Others = {o1}
    Rulings <- MCRulings
    Decisions = {k1, d1}
    KillBranch = {k1}
    Reviewers = {alice, proposer, executor}
    Proposer = proposer
    Executor = executor
    Seeds = {o1}
    Workloads <- MCWorkloads
    None = None
SYMMETRY Symmetry
INVARIANTS
    StatusIsEarned
    DecidedByMeansKilled
    DrivenIsNotSupported
    ReviewReachesDownstream
    ImpactIsKnown

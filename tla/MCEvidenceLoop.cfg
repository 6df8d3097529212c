SPECIFICATION Spec
CONSTANTS
    l1 = l1
    l2 = l2
    None = None
    Loops = {l1, l2}
    Operators = {op}
    Actors = {l1, l2, op}
    Lookers = {reader}
    Node = node
    Objects <- MCObjects
    Touched <- MCTouched
    Workloads <- MCWorkloads
    Attempts = {1, 2}
CHECK_DEADLOCK FALSE
INVARIANTS
    RunsAreBacked
    WorkIsAuthorized
PROPERTIES
    RunsEndWithOneAnswer

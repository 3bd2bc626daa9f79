SPECIFICATION Spec
CHECK_DEADLOCK FALSE
SYMMETRY HandlerSymmetry
CONSTANTS
    Experiments = {e1}
    Handlers = {h1, h2}
    Types = {"AB", "META"}
    Capacity = 1
    MaxRequests = 3
    MaxFaults = 1
    MaxAlerts = 1
    MaxRestarts = 1
    MaxConnects = 2
    NoExperiment = NoExperiment
INVARIANTS
    TypeOK
    ServedIsTrue
PROPERTY OnlyLegalTransitions

SPECIFICATION Spec
CHECK_DEADLOCK FALSE
CONSTANTS
    Experiments = {e1}
    Handlers = {h1, h2}
    Types = {"AB", "META"}
    Capacity = 1
    MaxRequests = 1
    MaxFaults = 0
    MaxAlerts = 1
    MaxRestarts = 0
    MaxConnects = 2
    NoExperiment = NoExperiment
INVARIANT EveryPauseIsBroadcast

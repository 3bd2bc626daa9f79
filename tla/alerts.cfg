SPECIFICATION FairSpec
CONSTANTS
    Exps = {e1}
    AutoExps = {e1}
    MaxAlerts = 2
    Failures = {"db", "crash"}
    MaxFaults = 1
    None = None
INVARIANTS
    CommittedWereProcessed
    HandledTookEffect
PROPERTY AlertsAreConsumed

SPECIFICATION FairSpec
CONSTANTS
    Exps = {e1}
    Clients = {c1}
    BufferSize = 1
    Window = 1
    MaxPending = 1
    MaxChannel = 2
    MaxPauses = 1
    InitialBackoff = 1
    MaxBackoff = 3
    Failures = {"publish", "listener", "read", "stream", "m1", "m5"}
    MaxFaults = 2
    None = None
INVARIANT NothingMissed
PROPERTY RunningReachesM1

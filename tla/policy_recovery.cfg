SPECIFICATION Spec
CONSTANTS
    LinUcb = {}
    Thompson = {ts}
    TopicLen = 2
    Kinds = {"good"}
    RewardDepth = 1
    SnapshotInterval = 1
    MaxSnapshots = 1
    CommitBatch = 1
    MaxClock = 1
    MaxFaults = 1
    None = None
CHECK_DEADLOCK FALSE
PROPERTY RestartLosesNothing

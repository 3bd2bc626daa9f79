SPECIFICATION FairSpec
CONSTANTS
    LinUcb = {cs}
    Thompson = {ts}
    TopicLen = 2
    Kinds = {"good", "bad", "nan", "junk"}
    RewardDepth = 1
    SnapshotInterval = 2
    MaxSnapshots = 1
    CommitBatch = 2
    MaxClock = 1
    MaxFaults = 1
    None = None
CHECK_DEADLOCK FALSE
INVARIANTS
    SnapshotsAreTrue
    RewardsAreDelivered
PROPERTIES
    RestartLossIsBounded
    EveryRequestAnswered
    TopicIsConsumed

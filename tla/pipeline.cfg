SPECIFICATION FairSpec
CONSTANTS
    Events <- MCEvents
    Slots = {s1, s2}
    Batches <- MCBatches
    MaxRecords = 2
    MaxRequests = 3
    MaxFaults = 2
    Torn = Torn
CHECK_DEADLOCK FALSE
INVARIANTS
    TypeOK
    NoSilentLoss
    DeduplicationIsExact
PROPERTY ServiceProgresses

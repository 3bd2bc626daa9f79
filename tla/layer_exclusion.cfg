INIT AssignmentInit
NEXT AssignmentNext
CHECK_DEADLOCK FALSE
CONSTANTS
    NumberOf <- NoOperands
    Substrings <- NoOperands
    NotANumber = NotANumber
    Configs <- LayerConfigs
    Users = {"u"}
    Sessions = {"", "s1"}
    Buckets = 4
    Salts = {1, 2}
    PolicyArms = {"x"}
    PolicySlates = {}
    Whole = 4
    MaxUpdates = 0
    MaxVariants = 1
    MaxRange = 1
    MaxCandidates = 0
    None = None
INVARIANT LayerIsExclusive

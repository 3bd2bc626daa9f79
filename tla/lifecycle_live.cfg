SPECIFICATION FairSpec
CONSTANTS
    Exps = {e1, e2}
    Layers = {l1}
    Reqs = {r1, r2}
    TotalBuckets = 3
    Cooldown = 1
    Percentages = {67}
    MaxTime = 0
    Failures = {}
    None = None
PROPERTIES
    StartSettles
    ConcludeSettles

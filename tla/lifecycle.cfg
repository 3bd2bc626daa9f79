SPECIFICATION Spec
CONSTANTS
    Exps = {e1, e2}
    Layers = {l1}
    Reqs = {r1, r2}
    TotalBuckets = 3
    Cooldown = 1
    Percentages = {34, 67}
    MaxTime = 1
    Failures = {"db", "cancel", "crash"}
    None = None
SYMMETRY MCSymmetry
INVARIANTS
    NoOverlap
    ReuseAfterCooldown
    LiveExperimentsHoldBuckets
    SingleDriver
PROPERTY ImplementsContract

SPECIFICATION FairSpec
CONSTANTS
    Keys = {k1}
    Native = {}
    Outcomes = {"success", "failed"}
    TokenTtl = 1
    Attempts = 2
    None = None
    MaxTime = 1
    MaxAsks = 2
    MaxBoots = 2
    MaxStores = 2
    MaxRestarts = 1
    MaxLosses = 1
INVARIANTS Adoptable KnownIsTrue
PROPERTIES ImplementsAtMostOnce OutcomesArrive
CHECK_DEADLOCK FALSE

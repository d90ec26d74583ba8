SPECIFICATION FairSpec
CONSTANTS
    p1 = p1
    p2 = p2
    Procs = {p1, p2}
    Requests = {1, 2}
    Entries <- BothChainsThenOne
    NoRequest = NoRequest
    MaxTime = 1
    MaxFaults = 2
    MaxCheckpoints = 1
    MaxStarts = 3
INVARIANTS Restartable MemoryIsDurable OneWriter
PROPERTIES ImplementsJournal CallersHear
CHECK_DEADLOCK FALSE

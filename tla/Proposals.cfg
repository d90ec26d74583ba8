SPECIFICATION FairSpec
CONSTANTS
    MaxSessions = 2
    MaxLoops = 2
    MaxFirst = 1
    MaxRuns = 3
    MaxPreparations = 2
    MaxChanges = 2
    MaxIssues = 1
INVARIANTS OneContinuation RecordsInOrder
PROPERTIES CommitsWhatWasPrepared OverdueEnds
CHECK_DEADLOCK FALSE

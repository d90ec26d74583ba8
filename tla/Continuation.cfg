SPECIFICATION Spec
CONSTANTS
    MaxSessions = 2
    MaxLoops = 1
    MaxFirst = 1
    MaxRuns = 2
    MaxPreparations = 1
    MaxChanges = 1
    MaxIssues = 1
INVARIANTS VerifiedIsExecutable
CHECK_DEADLOCK FALSE

SPECIFICATION FairSpec
CONSTANTS
    Lanes = {A, B}
    Kinds = {"plain", "message", "proposal"}
    MaxSessions = 1
    MaxTurns = 2
    MaxHeld = 1
    MaxEvents = 4
    MaxChanges = 2
INVARIANTS RecordsAgree AnswersFollowTheirMessage IssuedIsNewest ReleasedIsRecorded
PROPERTIES WorkEnds
CHECK_DEADLOCK FALSE

SPECIFICATION Spec
CONSTANTS
    Mandates = {m1}
    Actions = {"pay", "file"}
    Proposals <- OneAction
    RulingTtl = 1
    ResponseBound = 1
    Window = 2
    EscalationCount = 3
    TimeoutCount = 1
    OverrideCount = 1
    DayLength = 9
    MaxRulings = 3
    Expiries = {2}
    LimitChoices <- OneLimit
    Policies = {1}
    Boots = {1}
    InitialPolicy = 1
    RuledGates = {"commit"}
    AmendedRecords = {"active"}
    Outcomes = {"success"}
    Evaluations = {"allow", "default", "ceiling"}
    MaxTime = 1
    LastIssue = 0
    MaxVersion = 2
    MaxSelections = 1
    MaxReloads = 0
INVARIANTS OneLiveRevision OneCommitmentPerProposal SuccessorLinks
PROPERTIES NarrowingTakesHold
CHECK_DEADLOCK FALSE

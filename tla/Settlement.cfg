SPECIFICATION Spec
CONSTANTS
    Mandates = {m1}
    Actions = {"pay", "file"}
    Proposals <- TwoActions
    RulingTtl = 1
    ResponseBound = 1
    Window = 2
    EscalationCount = 9
    TimeoutCount = 9
    OverrideCount = 9
    DayLength = 1
    MaxRulings = 2
    Expiries = {1}
    LimitChoices <- TightLimits
    Policies = {1, 2}
    Boots = {1, 2}
    InitialPolicy = 1
    RuledGates = {"commit"}
    AmendedRecords = {"active"}
    Outcomes = {"failed"}
    Evaluations = {"allow"}
    MaxTime = 1
    LastIssue = 1
    MaxVersion = 2
    MaxSelections = 1
    MaxReloads = 1
INVARIANTS IssuedIsCurrent CapacityFollowsRuling SingleUse UnknownIsRouted
PROPERTIES Lifecycles CeilingKept ImplementsBook
CHECK_DEADLOCK FALSE

SPECIFICATION FairSpec
CONSTANTS
    Mandates = {m1}
    Actions = {"pay", "file"}
    Proposals <- OnePayment
    RulingTtl = 2
    ResponseBound = 1
    Window = 2
    EscalationCount = 9
    TimeoutCount = 9
    OverrideCount = 9
    DayLength = 9
    MaxRulings = 2
    Expiries = {1, 2}
    LimitChoices <- OneLimit
    Policies = {1}
    Boots = {1}
    InitialPolicy = 1
    RuledGates = {"commit"}
    AmendedRecords = {}
    Outcomes = {}
    Evaluations = {"allow", "default"}
    MaxTime = 2
    LastIssue = 0
    MaxVersion = 2
    MaxSelections = 2
    MaxReloads = 0
INVARIANTS IssuedIsCurrent
PROPERTIES LapsesEnd
CHECK_DEADLOCK FALSE

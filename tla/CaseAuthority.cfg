SPECIFICATION FairSpec
CONSTANTS
    Scopes = {s1, s2}
    Policies = {p1, p2}
    FixtureScope = s1
    FixturePolicy = p1
    MaxVersions = 2
    MaxMandates = 2
    MaxHandoffs = 2
    MaxSessions = 2
    MaxBindings = 2
    MaxChanges = 2
INVARIANTS RecordsAgree IssuedIsHeld SessionsAreRedeemed
PROPERTIES PreparationsEnd NothingRegained
CHECK_DEADLOCK FALSE

SPECIFICATION FairSpec
CONSTANTS
    Required = {"verify"}
    Runs = {r1, r2, r3}
    MaxChanges = 2
INVARIANTS CallsInOrder AllowWasScreened
PROPERTIES EvidenceIsFinal RunsEnd
CHECK_DEADLOCK FALSE

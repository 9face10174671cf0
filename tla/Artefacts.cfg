SPECIFICATION FairSpec
CONSTANTS
    p1 = p1
    p2 = p2
    Processes = {p1, p2}
    MaxNames = 5
    MaxEdits = 1
    Settings <- MCSettings
INVARIANTS FilesKept VerdictsHold LeavesNothing
PROPERTIES Recovers

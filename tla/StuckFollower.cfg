CONSTANTS
    s1 = s1
    s2 = s2
    s3 = s3
    a = a
    b = b
    c = c
    Server = {s1, s2, s3}
    Command = {a}
    Nil = Nil
    SnapshotInterval = 1
    Garbage = {0}
    HugeIndex = 50
    Races = {}
    MaxTerm = 2
    MaxCrashes = 0
    MaxInFlight = 9
SPECIFICATION LedCompacted
CHECK_DEADLOCK FALSE
PROPERTIES FollowersCatchUp

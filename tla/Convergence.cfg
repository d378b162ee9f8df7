CONSTANTS
    s1 = s1
    s2 = s2
    s3 = s3
    a = a
    b = b
    c = c
    Server = {s1, s2, s3}
    Command = {a, b, c}
    Nil = Nil
    SnapshotInterval = 0
    Garbage = {0}
    HugeIndex = 50
    Races = {}
    MaxTerm = 3
    MaxCrashes = 2
    MaxInFlight = 9
SPECIFICATION LedHeard
CHECK_DEADLOCK FALSE
PROPERTIES LeaderConverges

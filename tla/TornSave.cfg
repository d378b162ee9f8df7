CONSTANTS
    s1 = s1
    s2 = s2
    s3 = s3
    a = a
    b = b
    c = c
    Server = {s1, s2}
    Command = {a, b}
    Nil = Nil
    SnapshotInterval = 1
    Garbage = {0}
    HugeIndex = 50
    Races = {}
    MaxTerm = 1
    MaxCrashes = 1
    MaxInFlight = 0
SPECIFICATION SpecElected
VIEW View
PROPERTIES RestartKeepsLog
CHECK_DEADLOCK FALSE

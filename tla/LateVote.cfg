CONSTANTS
    s1 = s1
    s2 = s2
    s3 = s3
    a = a
    b = b
    c = c
    Server = {s1, s2, s3}
    Command = {}
    Nil = Nil
    SnapshotInterval = 0
    Garbage = {0}
    HugeIndex = 50
    Races = {"late_reply"}
    MaxTerm = 2
    MaxCrashes = 0
    MaxInFlight = 0
SPECIFICATION Spec
INVARIANTS ElectionSafety
CHECK_DEADLOCK FALSE

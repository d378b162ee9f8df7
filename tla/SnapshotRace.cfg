CONSTANTS
    s1 = s1
    s2 = s2
    s3 = s3
    a = a
    b = b
    c = c
    Server = {s1, s2}
    Command = {a, b}
    Nil = Nil
    SnapshotInterval = 1
    Garbage = {0}
    HugeIndex = 50
    Races = {"snapshot"}
    MaxTerm = 1
    MaxCrashes = 0
    MaxInFlight = 0
SPECIFICATION SpecElected
INVARIANTS StateMachineSafety
CHECK_DEADLOCK FALSE

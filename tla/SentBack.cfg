CONSTANTS
    s1 = s1
    s2 = s2
    s3 = s3
    a = a
    b = b
    c = c
    Server = {s1, s2, s3}
    Command = {a, b}
    Nil = Nil
    SnapshotInterval = 1
    Garbage = {0}
    HugeIndex = 50
    Races = {}
    MaxTerm = 1
    MaxCrashes = 0
    MaxInFlight = 0
SPECIFICATION SpecElected
SYMMETRY SymmetryElected
VIEW View
INVARIANTS AppliedInOrder
CHECK_DEADLOCK FALSE

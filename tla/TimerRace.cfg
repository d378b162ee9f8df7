CONSTANTS
    s1 = s1
    s2 = s2
    s3 = s3
    a = a
    b = b
    c = c
    Server = {s1, s2, s3}
    Command = {a, b, c, d}
    Nil = Nil
    SnapshotInterval = 0
    Garbage = {0}
    HugeIndex = 50
    Races = {"timer"}
    MaxTerm = 2
    MaxCrashes = 0
    MaxInFlight = 4
SPECIFICATION SpecElected
SYMMETRY SymmetryElected
VIEW View
CONSTRAINT FewInFlight
INVARIANTS LogMatching
CHECK_DEADLOCK FALSE

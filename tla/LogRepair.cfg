CONSTANTS
    s1 = s1
    s2 = s2
    s3 = s3
    a = a
    b = b
    c = c
    Server = {s1, s2, s3}
    Command = {a, b, c}
    Nil = Nil
    SnapshotInterval = 2
    Garbage = {0}
    HugeIndex = 50
    Races = {"timer"}
    MaxTerm = 3
    MaxCrashes = 1
    MaxInFlight = 9
SPECIFICATION SpecDiverged
VIEW View
CONSTRAINT FewInFlight
INVARIANTS TypeOK LogMatching StateMachineSafety NextIndexInLog
CHECK_DEADLOCK FALSE

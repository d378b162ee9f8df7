CONSTANTS
    s1 = s1
    s2 = s2
    s3 = s3
    a = a
    b = b
    c = c
    Server = {s1, s2, s3}
    Command = {a, b, c}
    Nil = Nil
    SnapshotInterval = 0
    Garbage = {0}
    HugeIndex = 50
    Races = {}
    MaxTerm = 4
    MaxCrashes = 0
    MaxInFlight = 7
SPECIFICATION RecordedDiverged
VIEW RecordedView
CONSTRAINT FewInFlight
INVARIANTS LeaderCompleteness LogInv
PROPERTIES StepsImplementLog LeaderAppendOnly
CHECK_DEADLOCK FALSE

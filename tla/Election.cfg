CONSTANTS
    s1 = s1
    s2 = s2
    s3 = s3
    a = a
    b = b
    c = c
    Server = {s1, s2, s3}
    Command = {}
    Nil = Nil
    SnapshotInterval = 0
    Garbage = {0}
    HugeIndex = 50
    Races = {}
    MaxTerm = 2
    MaxCrashes = 1
    MaxInFlight = 0
SPECIFICATION Spec
SYMMETRY Symmetry
INVARIANTS HonestCount ElectionSafety Durable
PROPERTIES TermMonotonic VoteOnce
CHECK_DEADLOCK FALSE

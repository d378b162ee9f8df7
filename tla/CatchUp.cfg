CONSTANTS
    s1 = s1
    s2 = s2
    s3 = s3
    a = a
    b = b
    c = c
    Server = {s1, s2, s3}
    Command = {a, b}
    Nil = Nil
    SnapshotInterval = 1
    Garbage = {0}
    HugeIndex = 50
    Races = {}
    MaxTerm = 3
    MaxCrashes = 1
    MaxInFlight = 9
SPECIFICATION RecordedCompacted
VIEW RecordedView
CONSTRAINT FewInFlight
INVARIANTS InBounds AppliedInOrder MatchTruthful CommittedOnMajority LeaderCompleteness
PROPERTIES StepsImplementLog CommitMonotonic
CHECK_DEADLOCK FALSE

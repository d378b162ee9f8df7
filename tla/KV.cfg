\* Two servers, two clerks with three operations between them, a crash.
SPECIFICATION Spec
CONSTANTS
    nums = 2
    Server = {0, 1}
    Client = {c1, c2}
    Key = {k}
    Nil = Nil
    Operation = {"Get", "Append"}
    MaxOps = 3
    MaxStarts = 3
    MaxCrashes = 1
VIEW View
SYMMETRY Symmetry
INVARIANTS TypeOK StoreIsReplay
PROPERTIES Linearizable
CHECK_DEADLOCK FALSE

CONSTANTS
    Call = {c1, c2}
    Nobody = Nobody
    MaxStarts = 2
SPECIFICATION Spec
INVARIANTS AckedIsSaved OnlyOwnCommands
PROPERTIES OnlyOwnSaves ApplierAnswers
CHECK_DEADLOCK FALSE

SPECIFICATION Spec
CONSTANTS
    Ids = {1, 2, 3, 4}
    Created <- MCCreated
    Values = {1, 2}
    Limits = {1, 2}
    Columns = {"created", "changing", "nullable"}
    MaxChanges = 1
    MaxBacks = 2
INVARIANTS
    TypeOK
    NoRowTwice
    NothingSkipped
    BackReverses
CHECK_DEADLOCK FALSE

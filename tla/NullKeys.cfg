SPECIFICATION Spec
CONSTANTS
    Ids = {1, 2, 3}
    Created <- MCCreated3
    Values = {1, 2}
    Limits = {1}
    Columns = {"nullable"}
    MaxChanges = 0
    MaxBacks = 0
INVARIANTS
    StablePagination
CHECK_DEADLOCK FALSE

SPECIFICATION ExportsSpec
CONSTANTS
    Payments = {1, 2}
    Workers = {w1, w2}
    MonthLength = 1
    MaxTime = 2
    Lag = 0
    Ended <- MCEnded
    MaxExports = 2
    MaxTouches = 4
SYMMETRY MCSymmetry
INVARIANTS
    ExportsTypeOK
    ArchivedFilesExist
    ArchivesAgree
PROPERTIES
    ExportIsComplete
CHECK_DEADLOCK FALSE

SPECIFICATION Spec
CONSTANTS
    Payments = {1, 2}
    Workers = {w1, w2}
    MonthLength = 1
    MaxTime = 2
    Lag = 1
SYMMETRY Symmetry
INVARIANTS
    TypeOK
    NumberedOnce
PROPERTIES
    NumberIsFinal
    RefinesReceiptBook
CHECK_DEADLOCK FALSE

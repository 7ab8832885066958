SPECIFICATION Spec
CONSTANTS
    Drivers = {d1}
    Rides = {r1}
    Payments = {p1, p2}
    Transactions = {t1}
    Workers = {w1, w2}
    Amounts = {1, 2}
    StartStatuses = {"DRAFT", "ONGOING", "COMPLETED", "CANCELLED"}
    Routes = {"start", "end", "cash", "webhook", "receipt", "adminCreate", "adminUpdate", "adminDelete"}
    Serial = FALSE
    MaxFails = 1
    None = None
SYMMETRY Symmetry
INVARIANTS
    TypeOK
    PaidIsCaptured
    ReceiptBacked
    ProcessedEventSettled
    CardTransactionOnItsOrder
PROPERTIES
    CaptureIsKept
CHECK_DEADLOCK FALSE

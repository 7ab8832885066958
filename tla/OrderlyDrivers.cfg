SPECIFICATION Spec
CONSTANTS
    Drivers = {d1, d2}
    Rides = {r1, r2}
    Payments = {p1, p2}
    Transactions = {t1}
    Workers = {w1, w2}
    Amounts = {1, 2}
    StartStatuses = {"DRAFT", "ONGOING"}
    Routes = {"start", "end", "cash", "webhook", "receipt"}
    Serial = TRUE
    MaxFails = 1
    None = None
SYMMETRY Symmetry
INVARIANTS
    SettledAmount
    ReceiptShowsFare
PROPERTIES
    RefinesLifecycle
CHECK_DEADLOCK FALSE

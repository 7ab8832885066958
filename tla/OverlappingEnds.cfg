SPECIFICATION Spec
CONSTANTS
    Drivers = {d1}
    Rides = {r1}
    Payments = {p1}
    Transactions = {t1}
    Workers = {w1, w2}
    Amounts = {1, 2}
    StartStatuses = {"DRAFT", "ONGOING"}
    Routes = {"start", "end", "cash"}
    Serial = FALSE
    MaxFails = 0
    None = None
PROPERTY PaidIsFinal
CHECK_DEADLOCK FALSE

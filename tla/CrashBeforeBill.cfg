SPECIFICATION FairSpec
CONSTANTS
    Drivers = {d1}
    Rides = {r1}
    Payments = {p1}
    Transactions = {t1}
    Workers = {w1, w2}
    Amounts = {1, 2}
    StartStatuses = {"DRAFT", "ONGOING"}
    Routes = {"start", "end"}
    Serial = TRUE
    MaxFails = 1
    None = None
PROPERTY CompletedRideIsBilled
CHECK_DEADLOCK FALSE

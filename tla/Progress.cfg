SPECIFICATION FairSpec
CONSTANTS
    Drivers = {d1}
    Rides = {r1}
    Payments = {p1}
    Transactions = {t1}
    Workers = {w1, w2}
    Amounts = {1, 2}
    StartStatuses = {"DRAFT", "ONGOING", "COMPLETED", "CANCELLED"}
    Routes = {"start", "end", "cash", "webhook", "confirm"}
    Serial = FALSE
    MaxFails = 1
    None = None
PROPERTIES
    ChargeIsSettled
    BilledUnlessRequestDies
    MarkedUnlessRequestDies
CHECK_DEADLOCK FALSE

CONSTANTS
    TaxPercent = 14
    MaxMoney = 1200
    DayLength = 7
    Drivers = {d1, d2}
    AskingDriver = d1
    Rides = {r1, r2}
    Amounts <- MCAmounts
    AdminAmounts = {500}
    MaxTime = 2
    MaxWrites = 5
    MaxMeanwhile = 1
    MaxBetween = 3
    None = None
SYMMETRY MCSymmetry
SPECIFICATION Spec
INVARIANTS
    TypeOK
    
    ScreensAgree
    FaresHold
CHECK_DEADLOCK FALSE

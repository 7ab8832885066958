SPECIFICATION SessionsSpec
CONSTANTS
    Emails = {ann, bob, new}
    Tenants = {h, t, n}
    Invitations = {i1, i2}
    Requests = {r1, r2}
    Admin = ann
    Driver = bob
    Helsinki = h
    Tampere = t
    InvitationTTL = 3
    MaxTime = 5
    MaxCalls = 4
    MaxDeaths = 1
    TicksPerSecond = 2
    AccessTTL = 2
    TicketTTL = 1
    RevocationTTL = 4
    MaxTokens = 2
    MaxTickets = 1
SYMMETRY MCSymmetry
INVARIANTS
    SessionsTypeOK
    LogoutAllHolds
    DeactivationHolds
    TokensAreBacked
    
    DuplicatesAreExplained
CHECK_DEADLOCK FALSE

SPECIFICATION FairSpec
CONSTANTS
    Policies = {p1, p2}
    Workers = {w1, w2, w3}
    None = None
INVARIANTS
    TypeOK
    ExactlyOneActive
PROPERTIES
    EveryRequestEnds

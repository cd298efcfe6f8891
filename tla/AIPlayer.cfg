SPECIFICATION Spec
CONSTANTS
    NP = 2
    Me = 1
    Dealt = {"assassinate", "tax"}
    Purse = {1, 3, 7}
    Order <- TwoOrders
    MaxTurns = 2
CHECK_DEADLOCK FALSE
INVARIANTS
    TypeOK
    DrawAllowed
    RateIsFlat
    HeldIsRaised
PROPERTIES
    NobodyPeeks

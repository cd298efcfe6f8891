SPECIFICATION DrawnSpec
CONSTANTS
    o1 = o1  o2 = o2  t1 = t1  t2 = t2
    Card <- FourCards
    NoDialog = NoDialog
    MaxRepeats = 2
    Swipes = TRUE
CHECK_DEADLOCK FALSE
INVARIANTS
    TypeOK
    KeptUnlessRepeated
    ClosedBeforeReturn
PROPERTIES
    RevealedStays
    EndsUnlessLost
    FollowsExchange

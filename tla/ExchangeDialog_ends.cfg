SPECIFICATION DrawnSpec
CONSTANTS
    o1 = o1  o2 = o2  t1 = t1  t2 = t2
    Card <- FourCards
    NoDialog = NoDialog
    MaxRepeats = 0
    Swipes = FALSE
CHECK_DEADLOCK FALSE
PROPERTY ExchangeEnds

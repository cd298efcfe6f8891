SPECIFICATION LiveSpec
CONSTANTS
    ed = ed  sel = sel
    AIName <- Names
    UserName = me
    MaxSeats = 3
    MaxGames = 2
    NoPlayer = none
CHECK_DEADLOCK FALSE
PROPERTIES
    EndedStops
    VerdictTold

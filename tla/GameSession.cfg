SPECIFICATION Spec
CONSTANTS
    ed = ed  sel = sel
    AIName <- Names
    UserName = me
    MaxSeats = 3
    MaxGames = 2
    NoPlayer = none
SYMMETRY NameSymmetry
CHECK_DEADLOCK FALSE
INVARIANTS
    TypeOK
    OneMoveMore
    OwnPlayersOnly
    CrashOnlyIfAbandoned
    VerdictIsOwn
    StatusTrue
    LogEndsWithMove
PROPERTIES
    PlaysRounds

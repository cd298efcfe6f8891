SPECIFICATION Spec
CONSTANTS
    NP = 3
    MaxMoves = 3
    MaxQueued = 2
CHECK_DEADLOCK FALSE
INVARIANTS
    TypeOK
    FlagIsTheUsers
    CrashOnlyIfRaced
PROPERTIES
    PromptAnswered
    FollowsAsking

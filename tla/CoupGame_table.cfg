SPECIFICATION TableSpec
CONSTANTS
    NP = 3
    a1 = a1  a2 = a2  a3 = a3  c1 = c1  c2 = c2  c3 = c3
    d1 = d1  d2 = d2  m1 = m1  m2 = m2  m3 = m3
    NoCard = NoCard
    Card <- TableCards
    RoleOf <- TableRole
    MaxCoins = 4
    MaxDebt = 1
    Moves <- FewMoves
CHECK_DEADLOCK FALSE
INVARIANTS
    PlayOnlyUndecided
    VerdictSound
    ClaimNeverDropped
PROPERTIES
    DebtOnlyByUserTheft
    FollowsRules

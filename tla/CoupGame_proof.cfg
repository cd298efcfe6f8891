SPECIFICATION Spec
CONSTANTS
    NP = 2
    a1 = a1  a2 = a2  a3 = a3  c1 = c1  c2 = c2  c3 = c3
    d1 = d1  d2 = d2  m1 = m1  m2 = m2  m3 = m3
    NoCard = NoCard
    Card <- PairCards
    RoleOf <- PairRole
    MaxCoins = 4
    MaxDebt = 0
    Moves <- MoveName
SYMMETRY PairSymmetry
CHECK_DEADLOCK FALSE
PROPERTIES
    ProofWasHidden

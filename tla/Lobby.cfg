SPECIFICATION LobbySpec
CONSTANTS
    charlie = charlie  ed = ed  justin = justin  selena = selena  taylor = taylor
    AIName <- Names
    Roster <- FiveNames
    UserName = me
    MaxSeats = 6
INVARIANTS
    RosterShared
    CountTellsTheTable

-------------------------------- MODULE Lobby --------------------------------
(***************************************************************************)
(* The screen on which a game is put together (OfflineViewController): the *)
(* user in the first row, AIs added from a list of names and deleted by a  *)
(* swipe.  AI players are recognised by their names all over the game, so  *)
(* that no name may ever be at the table twice.                            *)
(***************************************************************************)
EXTENDS CoupTable

CONSTANT
    Roster      \* aiArray of a new lobby: the five names

\* The names in the list differ, and none is the user's: theirs have a space,
\* the user's is the local part of an e-mail address.  There is a name for
\* every seat.
ASSUME LobbyAssumption ==
    /\ Roster \in Seq(AIName)
    /\ \A i, j \in DOMAIN Roster : Roster[i] = Roster[j] => i = j
    /\ UserName \notin AIName
    /\ MaxSeats \in 2 .. Len(Roster) + 1

VARIABLES
    aiArray,        \* the names not at the table
    playerArray,    \* the names at the table, the user's first
    playerCount

lobbyVars == <<aiArray, playerArray, playerCount>>

LobbyInit ==
    /\ aiArray = Roster
    /\ playerArray = <<UserName>>
    /\ playerCount = 1

\* The screen is made anew whenever it is entered.
OpenLobby ==
    /\ aiArray' = Roster
    /\ playerArray' = <<UserName>>
    /\ playerCount' = 1

\* addAIButtonPressed takes aiArray[0], whether there is one or not.
AddAI ==
    /\ playerCount < MaxSeats
    /\ playerArray' = Append(playerArray, Head(aiArray))
    /\ aiArray' = Tail(aiArray)
    /\ playerCount' = playerCount + 1

Without(s, i) == SubSeq(s, 1, i - 1) \o SubSeq(s, i + 1, Len(s))

\* Seeded defect: the name of the row below goes back.
DeleteRow_WrongName(i) ==
    /\ i \in 2 .. Len(playerArray)
    /\ aiArray' = Append(aiArray, playerArray[IF i = Len(playerArray) THEN i ELSE i + 1])
    /\ playerArray' = Without(playerArray, i)
    /\ playerCount' = playerCount - 1

\* Seeded defect: the counter is forgotten.
DeleteRow_CountKept(i) ==
    /\ i \in 2 .. Len(playerArray)
    /\ aiArray' = Append(aiArray, playerArray[i])
    /\ playerArray' = Without(playerArray, i)
    /\ UNCHANGED playerCount

\* tableView(_:commit:forRowAt:): the first row, the user's, cannot be deleted.
DeleteRow(i) ==
    /\ i \in 2 .. Len(playerArray)
    /\ aiArray' = Append(aiArray, playerArray[i])
    /\ playerArray' = Without(playerArray, i)
    /\ playerCount' = playerCount - 1

\* gameStartButtonPressed.
CanStart == playerCount > 1

LobbyNext == OpenLobby \/ AddAI \/ \E i \in 2 .. Len(playerArray) : DeleteRow(i)
LobbySpec == LobbyInit /\ [][LobbyNext]_lobbyVars

-----------------------------------------------------------------------------
\* However AIs are added and deleted, every name of the list is in one place,
\* at the table or in the list, and once: the table never seats a name twice.
RosterShared ==
    /\ Len(aiArray) + Len(playerArray) = Len(Roster) + 1
    /\ playerArray[1] = UserName
    /\ \A i, j \in DOMAIN playerArray : playerArray[i] = playerArray[j] => i = j
    /\ \A i, j \in DOMAIN aiArray : aiArray[i] = aiArray[j] => i = j
    /\ \A i \in DOMAIN aiArray, j \in DOMAIN playerArray : aiArray[i] # playerArray[j]

\* The counter that decides whether an AI may be added and the game started is
\* the number of rows, so that the game starts exactly at the tables GameSession
\* takes for granted; and whenever an AI may be added there is a name for it.
CountTellsTheTable ==
    /\ playerCount = Len(playerArray)
    /\ CanStart <=> playerArray \in Table
    /\ playerCount < MaxSeats => aiArray # <<>>
=============================================================================

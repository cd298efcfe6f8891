----------------------------- MODULE LobbyProofs -----------------------------
(***************************************************************************)
(* Theorems about the lobby, for every list of names and every number of   *)
(* seats there are names for.                                              *)
(***************************************************************************)
EXTENDS Lobby, SequenceTheorems, TLAPS

Name == AIName \cup {UserName}

\* RosterShared says that the rows and the list have as many names together as
\* the lobby began with; that a row can be added needs that the counter, by which
\* the code decides it, is the number of rows.
LobbyInv ==
    /\ aiArray \in Seq(AIName) /\ playerArray \in Seq(Name)
    /\ playerCount = Len(playerArray) /\ playerCount \in 1 .. MaxSeats
    /\ RosterShared

-----------------------------------------------------------------------------
(***************************************************************************)
(* The two lists.                                                          *)
(***************************************************************************)

LEMMA WithoutFacts ==
    ASSUME NEW S, NEW s \in Seq(S), NEW i \in 1 .. Len(s)
    PROVE  /\ Without(s, i) \in Seq(S)
           /\ Len(Without(s, i)) = Len(s) - 1
           /\ \A k \in 1 .. Len(s) - 1 :
                 Without(s, i)[k] = s[IF k < i THEN k ELSE k + 1]
<1> DEFINE before == SubSeq(s, 1, i - 1)
           behind == SubSeq(s, i + 1, Len(s))
<1>1. Len(s) \in Nat /\ \A k \in 1 .. Len(s) : s[k] \in S
  BY LenProperties, ElementOfSeq
<1>2. /\ before \in Seq(S) /\ Len(before) = i - 1
      /\ \A k \in 1 .. i - 1 : before[k] = s[k]
  <2>1. \A k \in 1 .. i - 1 : s[k] \in S
    BY <1>1
  <2>2. /\ before \in Seq(S)
        /\ Len(before) = IF 1 <= i - 1 THEN (i - 1) - 1 + 1 ELSE 0
        /\ \A k \in 1 .. (i - 1) - 1 + 1 : before[k] = s[1 + k - 1]
    BY <1>1, <2>1, SubSeqProperties
  <2> HIDE DEF before
  <2> QED
    BY <1>1, <2>2
<1>3. /\ behind \in Seq(S) /\ Len(behind) = Len(s) - i
      /\ \A k \in 1 .. Len(s) - i : behind[k] = s[i + k]
  <2>1. \A k \in i + 1 .. Len(s) : s[k] \in S
    BY <1>1
  <2>2. /\ behind \in Seq(S)
        /\ Len(behind) = IF i + 1 <= Len(s) THEN Len(s) - (i + 1) + 1 ELSE 0
        /\ \A k \in 1 .. Len(s) - (i + 1) + 1 : behind[k] = s[(i + 1) + k - 1]
    BY <1>1, <2>1, SubSeqProperties
  <2> HIDE DEF behind
  <2>3. \A k \in 1 .. Len(s) - i : k \in 1 .. Len(s) - (i + 1) + 1 /\ (i + 1) + k - 1 = i + k
    BY <1>1
  <2> QED
    BY <1>1, <2>2, <2>3
<1>4. Without(s, i) = before \o behind
  BY DEF Without
<1> HIDE DEF before, behind
<1>5. /\ before \o behind \in Seq(S)
      /\ Len(before \o behind) = Len(before) + Len(behind)
      /\ \A k \in 1 .. Len(before) + Len(behind) :
            (before \o behind)[k] =
               IF k <= Len(before) THEN before[k] ELSE behind[k - Len(before)]
  BY <1>2, <1>3, ConcatProperties
<1>6. ASSUME NEW k \in 1 .. Len(s) - 1
      PROVE  Without(s, i)[k] = s[IF k < i THEN k ELSE k + 1]
  <2>1. k \in 1 .. Len(before) + Len(behind)
    BY <1>1, <1>2, <1>3
  <2>2. CASE k < i
    <3>1. k <= Len(before) /\ k \in 1 .. i - 1
      BY <1>1, <1>2, <2>2
    <3> QED
      BY <1>2, <1>4, <1>5, <2>1, <2>2, <3>1
  <2>3. CASE ~(k < i)
    <3>1. ~(k <= Len(before)) /\ k - Len(before) = k - i + 1
      BY <1>1, <1>2, <2>3
    <3>2. k - i + 1 \in 1 .. Len(s) - i /\ i + (k - i + 1) = k + 1
      BY <1>1, <2>3
    <3>3. behind[k - i + 1] = s[k + 1]
      BY <1>3, <3>2
    <3> QED
      BY <1>4, <1>5, <2>1, <2>3, <3>1, <3>3
  <2> QED
    BY <2>2, <2>3
<1> QED
  BY <1>1, <1>2, <1>3, <1>4, <1>5, <1>6

LEMMA AppendFacts ==
    ASSUME NEW S, NEW s \in Seq(S), NEW e \in S
    PROVE  /\ Append(s, e) \in Seq(S) /\ Len(Append(s, e)) = Len(s) + 1
           /\ Append(s, e)[Len(s) + 1] = e
           /\ \A k \in 1 .. Len(s) : Append(s, e)[k] = s[k]
           /\ DOMAIN Append(s, e) = 1 .. Len(s) + 1
<1>1. Append(s, e) \in Seq(S) /\ Len(Append(s, e)) = Len(s) + 1
  BY AppendProperties
<1> QED
  BY <1>1, AppendProperties, LenProperties

-----------------------------------------------------------------------------
(***************************************************************************)
(* The handlers.                                                           *)
(***************************************************************************)

\* A lobby just opened.
LEMMA FreshLobby == /\ LobbyInit => LobbyInv
                    /\ OpenLobby => LobbyInv'
<1>1. /\ <<UserName>> \in Seq(Name) /\ Len(<<UserName>>) = 1 /\ <<UserName>>[1] = UserName
      /\ DOMAIN <<UserName>> = {1}
  BY DEF Name
<1>2. Len(Roster) \in Nat /\ DOMAIN Roster = 1 .. Len(Roster)
      /\ \A i \in DOMAIN Roster : Roster[i] \in AIName
  BY LobbyAssumption, LenProperties, ElementOfSeq
<1>3. 1 \in 1 .. MaxSeats
  BY <1>2, LobbyAssumption
<1>4. LobbyInit => LobbyInv
  BY <1>1, <1>2, <1>3, LobbyAssumption DEF LobbyInit, LobbyInv, RosterShared
<1>5. OpenLobby => LobbyInv'
  BY <1>1, <1>2, <1>3, LobbyAssumption DEF OpenLobby, LobbyInv, RosterShared
<1> QED
  BY <1>4, <1>5

\* Whenever a row may be added there is a name for it.
LEMMA NameLeft ==
    ASSUME LobbyInv, playerCount < MaxSeats
    PROVE  aiArray # <<>>
<1>1. Len(aiArray) \in Nat /\ Len(playerArray) \in Nat /\ Len(Roster) \in Nat
  BY LobbyAssumption, LenProperties DEF LobbyInv
<1>2. Len(aiArray) >= 1
  BY <1>1, LobbyAssumption DEF LobbyInv, RosterShared
<1> QED
  BY <1>2

LEMMA AddAIKeeps ==
    ASSUME LobbyInv, AddAI
    PROVE  LobbyInv'
<1>1. aiArray # <<>> /\ aiArray \in Seq(AIName) /\ playerArray \in Seq(Name)
  BY NameLeft DEF AddAI, LobbyInv
<1>2. /\ Head(aiArray) = aiArray[1]
      /\ aiArray' \in Seq(AIName) /\ Len(aiArray') = Len(aiArray) - 1
      /\ \A k \in 1 .. Len(aiArray') : aiArray'[k] = aiArray[k + 1]
  BY <1>1, HeadTailProperties DEF AddAI
<1>3. /\ Len(aiArray) \in Nat /\ DOMAIN aiArray = 1 .. Len(aiArray)
      /\ DOMAIN aiArray' = 1 .. Len(aiArray')
      /\ Len(playerArray) \in Nat /\ DOMAIN playerArray = 1 .. Len(playerArray)
  BY <1>1, <1>2, LenProperties
<1>4. Len(aiArray) >= 1 /\ 1 \in DOMAIN aiArray /\ Head(aiArray) \in Name
  <2>1. Head(aiArray) \in AIName
    BY <1>1, HeadTailProperties
  <2> QED
    BY <1>1, <1>3, <2>1, EmptySeq DEF Name
<1>5. /\ playerArray' \in Seq(Name) /\ Len(playerArray') = Len(playerArray) + 1
      /\ playerArray'[Len(playerArray) + 1] = aiArray[1]
      /\ \A k \in 1 .. Len(playerArray) : playerArray'[k] = playerArray[k]
      /\ DOMAIN playerArray' = 1 .. Len(playerArray) + 1
  BY <1>1, <1>2, <1>4, AppendFacts DEF AddAI
<1>6. playerCount' = Len(playerArray') /\ playerCount' \in 1 .. MaxSeats
  BY <1>3, <1>5, LobbyAssumption DEF AddAI, LobbyInv
<1>7. RosterShared'
  <2>1. Len(aiArray') + Len(playerArray') = Len(Roster) + 1
    <3>1. Len(aiArray) + Len(playerArray) = Len(Roster) + 1
      BY DEF LobbyInv, RosterShared
    <3>2. Len(aiArray') + Len(playerArray') = Len(aiArray) + Len(playerArray)
      BY <1>2, <1>3, <1>5
    <3> QED
      BY <3>1, <3>2
  <2>2. playerArray'[1] = UserName
    BY <1>3, <1>5 DEF LobbyInv, RosterShared
  <2>3. ASSUME NEW i \in DOMAIN playerArray', NEW j \in DOMAIN playerArray',
               playerArray'[i] = playerArray'[j]
        PROVE  i = j
    <3> HIDE DEF LobbyInv
    <3>1. \A k, l \in DOMAIN playerArray : playerArray[k] = playerArray[l] => k = l
      BY DEF LobbyInv, RosterShared
    <3>2. \A k, l \in DOMAIN aiArray, m \in DOMAIN playerArray : aiArray[k] # playerArray[m]
      BY DEF LobbyInv, RosterShared
    <3> QED
      BY <1>3, <1>4, <1>5, <2>3, <3>1, <3>2
  <2>4. ASSUME NEW i \in DOMAIN aiArray'
        PROVE  i + 1 \in DOMAIN aiArray /\ aiArray'[i] = aiArray[i + 1]
    BY <1>2, <1>3
  <2>5. ASSUME NEW i \in DOMAIN aiArray', NEW j \in DOMAIN aiArray',
               aiArray'[i] = aiArray'[j]
        PROVE  i = j
    <3>1. /\ i + 1 \in DOMAIN aiArray /\ j + 1 \in DOMAIN aiArray
          /\ aiArray[i + 1] = aiArray[j + 1]
      BY <2>4, <2>5
    <3>2. i + 1 = j + 1
      BY <3>1 DEF LobbyInv, RosterShared
    <3> QED
      BY <1>3, <3>2
  <2>6. ASSUME NEW i \in DOMAIN aiArray', NEW j \in DOMAIN playerArray'
        PROVE  aiArray'[i] # playerArray'[j]
    <3>1. CASE j \in DOMAIN playerArray
      BY <1>3, <1>5, <2>4, <3>1 DEF LobbyInv, RosterShared
    <3>2. CASE j = Len(playerArray) + 1
      <4>1. i + 1 # 1 /\ i + 1 \in DOMAIN aiArray /\ 1 \in DOMAIN aiArray
        BY <1>2, <1>3, <2>4
      <4>2. aiArray[i + 1] # aiArray[1]
        BY <4>1 DEF LobbyInv, RosterShared
      <4>3. playerArray'[j] = aiArray[1]
        BY <1>5, <3>2
      <4> QED
        BY <2>4, <4>2, <4>3
    <3> QED
      BY <1>3, <1>5, <3>1, <3>2
  <2> QED
    BY <2>1, <2>2, <2>3, <2>5, <2>6 DEF RosterShared
<1> QED
  BY <1>2, <1>5, <1>6, <1>7 DEF LobbyInv

LEMMA DeleteRowKeeps ==
    ASSUME LobbyInv, NEW i \in 2 .. Len(playerArray), DeleteRow(i)
    PROVE  LobbyInv'
<1>1. aiArray \in Seq(AIName) /\ playerArray \in Seq(Name)
  BY DEF LobbyInv
<1>2. /\ Len(aiArray) \in Nat /\ DOMAIN aiArray = 1 .. Len(aiArray)
      /\ Len(playerArray) \in Nat /\ DOMAIN playerArray = 1 .. Len(playerArray)
      /\ i \in 1 .. Len(playerArray) /\ i \in Nat
  BY <1>1, LenProperties
\* The row is not the user's, who is in the first.
<1>3. playerArray[i] \in AIName
  <2> HIDE DEF LobbyInv, DeleteRow
  <2>1. playerArray[i] \in Name
    <3>1. \A k \in 1 .. Len(playerArray) : playerArray[k] \in Name
      BY <1>1, ElementOfSeq
    <3> QED
      BY <1>2, <3>1
  <2>2. /\ playerArray[1] = UserName
        /\ \A k, l \in DOMAIN playerArray : playerArray[k] = playerArray[l] => k = l
    BY DEF LobbyInv, RosterShared
  <2>3. 1 \in DOMAIN playerArray /\ i \in DOMAIN playerArray /\ i # 1
    BY <1>2
  <2>4. playerArray[i] # UserName
    BY <2>2, <2>3
  <2> QED
    BY <2>1, <2>4 DEF Name
<1>4. /\ aiArray' \in Seq(AIName) /\ Len(aiArray') = Len(aiArray) + 1
      /\ aiArray'[Len(aiArray) + 1] = playerArray[i]
      /\ \A k \in 1 .. Len(aiArray) : aiArray'[k] = aiArray[k]
      /\ DOMAIN aiArray' = 1 .. Len(aiArray) + 1
  BY <1>1, <1>3, AppendFacts DEF DeleteRow
<1> DEFINE row(k) == IF k < i THEN k ELSE k + 1
<1>5. /\ playerArray' \in Seq(Name) /\ Len(playerArray') = Len(playerArray) - 1
      /\ \A k \in 1 .. Len(playerArray) - 1 : playerArray'[k] = playerArray[row(k)]
  <2>1. playerArray' = Without(playerArray, i)
    BY DEF DeleteRow
  <2> HIDE DEF LobbyInv, DeleteRow
  <2>2. /\ Without(playerArray, i) \in Seq(Name)
        /\ Len(Without(playerArray, i)) = Len(playerArray) - 1
        /\ \A k \in 1 .. Len(playerArray) - 1 : Without(playerArray, i)[k] = playerArray[row(k)]
    BY <1>1, <1>2, WithoutFacts, Zenon
  <2> QED
    BY <2>1, <2>2
<1>6. DOMAIN playerArray' = 1 .. Len(playerArray) - 1
  BY <1>5, LenProperties
<1>7. ASSUME NEW k \in DOMAIN playerArray'
      PROVE  /\ row(k) \in DOMAIN playerArray /\ row(k) # i
             /\ playerArray'[k] = playerArray[row(k)]
  BY <1>2, <1>5, <1>6
<1>8. playerCount' = Len(playerArray') /\ playerCount' \in 1 .. MaxSeats
  BY <1>2, <1>5, LobbyAssumption DEF DeleteRow, LobbyInv
<1>9. RosterShared'
  <2>1. Len(aiArray') + Len(playerArray') = Len(Roster) + 1
    <3>1. Len(aiArray) + Len(playerArray) = Len(Roster) + 1
      BY DEF LobbyInv, RosterShared
    <3>2. Len(aiArray') + Len(playerArray') = Len(aiArray) + Len(playerArray)
      BY <1>2, <1>4, <1>5
    <3> QED
      BY <3>1, <3>2
  <2>2. playerArray'[1] = UserName
    <3>1. 1 \in DOMAIN playerArray' /\ row(1) = 1
      BY <1>2, <1>6
    <3> QED
      BY <1>7, <3>1 DEF LobbyInv, RosterShared
  <2>3. ASSUME NEW j \in DOMAIN playerArray', NEW k \in DOMAIN playerArray',
               playerArray'[j] = playerArray'[k]
        PROVE  j = k
    <3>1. row(j) = row(k)
      BY <1>7, <2>3 DEF LobbyInv, RosterShared
    <3> QED
      BY <1>2, <1>6, <3>1
  <2>4. ASSUME NEW j \in DOMAIN aiArray', NEW k \in DOMAIN aiArray',
               aiArray'[j] = aiArray'[k]
        PROVE  j = k
    <3>1. /\ \A l, m \in DOMAIN aiArray : aiArray[l] = aiArray[m] => l = m
          /\ \A l \in DOMAIN aiArray, m \in DOMAIN playerArray : aiArray[l] # playerArray[m]
      BY DEF LobbyInv, RosterShared
    <3>2. i \in DOMAIN playerArray
      BY <1>2
    <3> HIDE DEF LobbyInv, DeleteRow
    <3> QED
      BY <1>2, <1>4, <2>4, <3>1, <3>2
  <2>5. ASSUME NEW j \in DOMAIN aiArray', NEW k \in DOMAIN playerArray'
        PROVE  aiArray'[j] # playerArray'[k]
    <3>1. CASE j \in DOMAIN aiArray
      BY <1>2, <1>4, <1>7, <3>1 DEF LobbyInv, RosterShared
    <3>2. CASE j = Len(aiArray) + 1
      BY <1>2, <1>4, <1>7, <3>2 DEF LobbyInv, RosterShared
    <3> QED
      BY <1>2, <1>4, <3>1, <3>2
  <2> QED
    BY <2>1, <2>2, <2>3, <2>4, <2>5 DEF RosterShared
<1> QED
  BY <1>4, <1>5, <1>8, <1>9 DEF LobbyInv

LEMMA LobbyInvHolds == LobbySpec => []LobbyInv
<1>1. LobbyInit => LobbyInv
  BY FreshLobby
<1>2. LobbyInv /\ [LobbyNext]_lobbyVars => LobbyInv'
  <2> SUFFICES ASSUME LobbyInv, [LobbyNext]_lobbyVars
               PROVE  LobbyInv'
    OBVIOUS
  <2>1. CASE OpenLobby
    BY <2>1, FreshLobby
  <2>2. CASE AddAI
    BY <2>2, AddAIKeeps
  <2>3. ASSUME NEW i \in 2 .. Len(playerArray), DeleteRow(i) PROVE LobbyInv'
    BY <2>3, DeleteRowKeeps
  <2>4. CASE UNCHANGED lobbyVars
    BY <2>4 DEF lobbyVars, LobbyInv, RosterShared
  <2> QED
    BY <2>1, <2>2, <2>3, <2>4 DEF LobbyNext
<1> QED
  BY <1>1, <1>2, PTL DEF LobbySpec

-----------------------------------------------------------------------------
\* However AIs are added and deleted (addAIButtonPressed, tableView(_:commit:)),
\* each name is at the table or in the list, and once.
THEOREM RosterAlwaysShared == LobbySpec => []RosterShared
<1>1. LobbyInv => RosterShared
  BY DEF LobbyInv
<1> QED
  BY <1>1, LobbyInvHolds, PTL

\* gameStartButtonPressed starts a game at the tables of GameSession and at no
\* others, and addAIButtonPressed never takes a name from an empty list.
THEOREM CountAlwaysTells == LobbySpec => []CountTellsTheTable
<1>1. LobbyInv => CountTellsTheTable
  <2> SUFFICES ASSUME LobbyInv
               PROVE  CountTellsTheTable
    OBVIOUS
  <2>1. /\ Len(playerArray) \in Nat /\ DOMAIN playerArray = 1 .. Len(playerArray)
        /\ playerArray \in [1 .. Len(playerArray) -> Name]
    BY LenProperties DEF LobbyInv
  <2>2. ASSUME CanStart PROVE playerArray \in Table
    <3>1. Len(playerArray) \in 2 .. MaxSeats
      BY <2>1, <2>2, LobbyAssumption DEF LobbyInv, CanStart
    <3> QED
      BY <2>1, <3>1 DEF LobbyInv, RosterShared, Table, Name
  <2>3. ASSUME playerArray \in Table PROVE CanStart
    <3>1. PICK n \in 2 .. MaxSeats : playerArray \in [1 .. n -> Name]
      BY <2>3 DEF Table, Name
    <3>2. 2 \in 1 .. Len(playerArray)
      <4>1. DOMAIN playerArray = 1 .. n /\ 2 \in 1 .. n
        BY <3>1
      <4> QED
        BY <2>1, <4>1
    <3> QED
      BY <2>1, <3>2 DEF LobbyInv, CanStart
  <2> QED
    BY <2>2, <2>3, NameLeft DEF LobbyInv, CountTellsTheTable
<1> QED
  BY <1>1, LobbyInvHolds, PTL
=============================================================================

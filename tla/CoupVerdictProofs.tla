-------------------------- MODULE CoupVerdictProofs --------------------------
(***************************************************************************)
(* The end of a game of CoupGame: it goes on while it is undecided, the    *)
(* verdict is true, an announced claim is answered, and who has lost all   *)
(* influence stays out; its purses; and that no step of a turn puts off    *)
(* its end.  For every number of seats and every deck.                     *)
(***************************************************************************)
EXTENDS CoupGameProofs

\* The game is undecided: the user and some AI are in it.
Contest == ~Eliminated(User) /\ \E p \in Player \ {User} : ~Eliminated(p)

\* It is undecided wherever a move is chosen or asked about - also when the
\* user has pressed "End Game" meanwhile, which PlayOnlyUndecided does not say.
ContestInv ==
    pc \in {"idle", "target", "ask"} \/ (pc = "top" /\ gameOn) => Contest

\* As long as nobody has answered, there was nobody to ask.
AskInv ==
    /\ pc \in {"top", "idle", "target"} => objection = "none"
    /\ pc = "ask" => objection \in {"none", "allow"}
    /\ pc = "ask" /\ objection = "none" =>
          \A p \in Player : p < challengeTurnInd => Skipped(p)

\* A verdict is spoken at the end of the last turn, and is the truth then.
StatusInv ==
    /\ status # "You Lost" => pc \in {"top", "over"} /\ ~gameOn
    /\ status = "You Won" =>
          ~Eliminated(User) /\ \A p \in Player \ {User} : Eliminated(p)
    /\ status = "You Lose" => Eliminated(User)

VerdictInv == TypeInv /\ ContestInv /\ AskInv /\ StatusInv

-----------------------------------------------------------------------------
\* Who is out depends on the hands and the revealed cards alone.
LEMMA SameTable ==
  ASSUME UNCHANGED <<hand, revealed>>
  PROVE  (\A p : Eliminated(p)' <=> Eliminated(p)) /\ (Contest' <=> Contest) /\ Out' = Out
<1>1. \A p : Eliminated(p)' <=> Eliminated(p)
  BY DEF Eliminated
<1>2. Contest' <=> Contest
  BY DEF Contest, Eliminated
<1>3. Out' = Out
  BY DEF Out, Eliminated
<1> QED BY <1>1, <1>2, <1>3

\* All the AIs are one player less than everybody.
LEMMA AllAIs ==
    IsFiniteSet(Player \ {User}) /\ Cardinality(Player \ {User}) = NP - 1
<1>1. Player \ {User} = 1 .. NP - 1
  BY NPAssumption DEF Player, User
<1>2. IsFiniteSet(1 .. NP - 1) /\ Cardinality(1 .. NP - 1) = NP - 1
  BY FS_Interval, NPAssumption
<1> QED BY <1>1, <1>2

\* isGameOver counts right: undecided means that the user and some AI are in
\* the game, and a user in a decided game is the only one left.
LEMMA CountIsRight ==
    /\ ~Decided => Contest
    /\ Decided /\ ~Eliminated(User) => \A p \in Player \ {User} : Eliminated(p)
<1>1. ASSUME ~Decided PROVE Contest
  <2>1. ~Eliminated(User) /\ Cardinality(Out) # NP - 1
    BY <1>1 DEF Decided
  <2>2. ASSUME \A p \in Player \ {User} : Eliminated(p) PROVE FALSE
    <3>1. Out = Player \ {User}
      BY <2>1, <2>2, Constants DEF Out
    <3> QED BY <2>1, <3>1, AllAIs
  <2> QED BY <2>1, <2>2 DEF Contest
<1>2. ASSUME Decided, ~Eliminated(User)
      PROVE  \A p \in Player \ {User} : Eliminated(p)
  <2>1. Out \subseteq Player \ {User} /\ Cardinality(Out) = NP - 1
    BY <1>2 DEF Decided, Out
  <2>2. Out = Player \ {User}
    BY <2>1, AllAIs, FS_Subset
  <2> QED BY <2>2 DEF Out
<1> QED BY <1>1, <1>2

-----------------------------------------------------------------------------
LEMMA VerdictInit == Init => VerdictInv
<1> SUFFICES ASSUME Init PROVE VerdictInv
  OBVIOUS
<1>1. TypeInv
  BY TypeInit
<1>2. /\ revealed = [c \in Card |-> FALSE] /\ status = "You Lost"
      /\ pc = "top" /\ objection = "none"
  BY DEF Init
<1>3. \A p \in Player : ~Eliminated(p)
  <2>1. \A p \in Player : hand[p][0] \in Card
    BY <1>1 DEF TypeInv, TypeOK, Slot
  <2> QED BY <1>2, <2>1 DEF Eliminated, Slot
<1>4. Contest
  <2>1. 1 \in Player \ {User}
    BY NPAssumption DEF Player, User
  <2> QED BY <1>3, <2>1, Constants DEF Contest
<1> QED BY <1>1, <1>2, <1>4 DEF VerdictInv, ContestInv, AskInv, StatusInv

LEMMA VerdictStep == VerdictInv /\ [Next]_vars => VerdictInv'
<1> SUFFICES ASSUME VerdictInv, [Next]_vars PROVE VerdictInv'
  OBVIOUS
<1>0. TypeInv /\ TypeInv'
  BY TypeStep DEF VerdictInv
<1>i. ContestInv /\ AskInv /\ StatusInv
  BY DEF VerdictInv
\* Within the carrying out of a move there is nothing to show.
<1>1. ASSUME pc \in {"prove", "act", "dialog0", "dialog1", "return", "replace"},
             pc' \notin {"top", "idle", "target", "ask"}, status' = status
      PROVE  VerdictInv'
  <2>1. status' = "You Lost"
    BY <1>1, <1>i DEF StatusInv
  <2> QED BY <1>0, <1>1, <2>1 DEF VerdictInv, ContestInv, AskInv, StatusInv
<1>2. CASE SkipEliminated
  BY <1>0, <1>2, <1>i, SameTable
  DEF SkipEliminated, VerdictInv, ContestInv, AskInv, StatusInv, cardVars, turnVars
<1>3. CASE AwaitUser
  BY <1>0, <1>3, <1>i, SameTable
  DEF AwaitUser, VerdictInv, ContestInv, AskInv, StatusInv, cardVars, turnVars
\* The announcement of a move.
<1>4. ASSUME NEW m, Announce(m), pc \in {"top", "target"}, gameOn \/ pc = "target",
             UNCHANGED <<hand, revealed, objection, status, gameOn>>
      PROVE  VerdictInv'
  <2>1. Contest' /\ objection' = "none" /\ status' = "You Lost"
    BY <1>4, <1>i, SameTable DEF ContestInv, AskInv, StatusInv
  <2>2. pc' \in {"ask", "act"} /\ challengeTurnInd' = 0
    BY <1>4 DEF Announce
  <2>3. \A p \in Player : ~(p < 0)
    BY NPAssumption DEF Player
  <2> QED BY <1>0, <2>1, <2>2, <2>3 DEF VerdictInv, ContestInv, AskInv, StatusInv
<1>5. CASE TakeUserMove
  BY <1>4, <1>5 DEF TakeUserMove, cardVars
<1>6. ASSUME NEW n \in MoveName, AIChooses(n) PROVE VerdictInv'
  <2>1. CASE Announce([name |-> n, target |-> turnInd])
    BY <1>4, <1>6, <2>1 DEF AIChooses, cardVars
  <2>2. CASE pc' = "target"
    <3>1. Contest' /\ objection' = "none" /\ status' = "You Lost"
      BY <1>6, <1>i, SameTable DEF AIChooses, ContestInv, AskInv, StatusInv, cardVars
    <3> QED BY <1>0, <2>2, <3>1 DEF VerdictInv, ContestInv, AskInv, StatusInv
  <2> QED BY <1>6, <2>1, <2>2 DEF AIChooses
<1>7. ASSUME NEW t \in Player, AIPicksTarget(t) PROVE VerdictInv'
  <2>1. gameOn' = gameOn
    BY <1>7 DEF AIPicksTarget
  <2> QED BY <1>4, <1>7, <2>1 DEF AIPicksTarget, cardVars
<1>8. CASE SkipAsked
  <2>1. Contest' /\ status' = "You Lost" /\ pc' = "ask" /\ objection' \in {"none", "allow"}
    BY <1>8, <1>i, SameTable DEF SkipAsked, ContestInv, AskInv, StatusInv, cardVars
  <2>2. \A p \in Player : Skipped(p)' <=> Skipped(p)
    BY <1>8, SameTable DEF SkipAsked, Skipped, cardVars
  <2>3. ASSUME objection' = "none", NEW p \in Player, p < challengeTurnInd'
        PROVE  Skipped(p)'
    <3>1. p < challengeTurnInd \/ p = challengeTurnInd
      <4>1. challengeTurnInd' = challengeTurnInd + 1 /\ challengeTurnInd \in 0 .. NP
        BY <1>0, <1>8 DEF SkipAsked, TypeInv, TypeOK
      <4>2. p \in Int
        BY NPAssumption DEF Player
      <4> QED BY <2>3, <4>1, <4>2, NPAssumption
    <3> QED BY <1>8, <1>i, <2>2, <2>3, <3>1 DEF SkipAsked, AskInv
  <2> QED BY <1>0, <2>1, <2>3 DEF VerdictInv, ContestInv, AskInv, StatusInv
<1>9. ASSUME NEW p \in Player, Allows(p) PROVE VerdictInv'
  <2>1. Contest' /\ status' = "You Lost" /\ pc' = "ask" /\ objection' = "allow"
    BY <1>9, <1>i, SameTable DEF Allows, ContestInv, StatusInv, cardVars
  <2> QED BY <1>0, <2>1 DEF VerdictInv, ContestInv, AskInv, StatusInv
<1>10. ASSUME NEW p \in Player, Challenges(p) PROVE VerdictInv'
  BY <1>0, <1>10, <1>i DEF Challenges, VerdictInv, ContestInv, AskInv, StatusInv
<1>11. CASE AskingDone
  BY <1>0, <1>11, <1>i DEF AskingDone, VerdictInv, ContestInv, AskInv, StatusInv
<1>12. CASE ClaimProved \/ BluffCalled
  BY <1>1, <1>12 DEF ClaimProved, BluffCalled
<1>13. CASE ActCoins \/ ActSteal \/ ActKill \/ AIExchange
  BY <1>1, <1>13 DEF ActCoins, ActSteal, ActKill, AIExchange, AfterAct
<1>14. CASE UserDraws \/ UserReturns \/ ReplaceProof
  BY <1>1, <1>14 DEF UserDraws, UserReturns, ReplaceProof, AfterAct
<1>15. ASSUME NEW k \in Slot \cup {NoSlot}, FirstDialog(k) \/ SecondDialog(k)
       PROVE  VerdictInv'
  BY <1>1, <1>15 DEF FirstDialog, SecondDialog, AnswerDialog
<1>16. CASE CheckGameOver
  <2>1. /\ UNCHANGED <<hand, revealed>> /\ pc' = "top" /\ objection' = "none"
        /\ gameOn' = (gameOn /\ ~Decided)
        /\ status' = IF ~Decided THEN status
                     ELSE IF Eliminated(User) THEN "You Lose" ELSE "You Won"
    BY <1>16 DEF CheckGameOver, cardVars
  <2>2. status = "You Lost"
    BY <1>16, <1>i DEF CheckGameOver, StatusInv
  <2>3. ContestInv' /\ AskInv'
    BY <2>1, CountIsRight, SameTable DEF ContestInv, AskInv
  <2>4. StatusInv'
    BY <2>1, <2>2, CountIsRight, SameTable DEF StatusInv
  <2> QED BY <1>0, <2>3, <2>4 DEF VerdictInv
<1>17. CASE LeaveLoop
  BY <1>0, <1>17, <1>i, SameTable
  DEF LeaveLoop, VerdictInv, ContestInv, AskInv, StatusInv, cardVars
<1>18. CASE EndGame
  <2>1. \A p \in Player : Skipped(p)' <=> Skipped(p)
    BY <1>18, SameTable DEF EndGame, Skipped, cardVars
  <2>2. ContestInv' /\ StatusInv'
    BY <1>18, <1>i, SameTable DEF EndGame, ContestInv, StatusInv, cardVars
  <2>3. AskInv'
    BY <1>18, <1>i, <2>1 DEF EndGame, AskInv, turnVars
  <2> QED BY <1>0, <2>2, <2>3 DEF VerdictInv
<1>19. ASSUME NEW n \in MoveName, NEW t \in Player,
              UserMoves([name |-> n, target |-> t]) PROVE VerdictInv'
  BY <1>0, <1>19, <1>i, SameTable
  DEF UserMoves, VerdictInv, ContestInv, AskInv, StatusInv, cardVars, turnVars
<1>20. CASE UNCHANGED vars
  <2>1. \A p \in Player : Skipped(p)' <=> Skipped(p)
    BY <1>20, SameTable DEF vars, Skipped
  <2>2. ContestInv' /\ StatusInv'
    BY <1>20, <1>i, SameTable DEF vars, ContestInv, StatusInv
  <2>3. AskInv'
    BY <1>20, <1>i, <2>1 DEF vars, AskInv
  <2> QED BY <1>0, <2>2, <2>3 DEF VerdictInv
<1> QED
  BY <1>2, <1>3, <1>5, <1>6, <1>7, <1>8, <1>9, <1>10, <1>11, <1>12, <1>13, <1>14,
     <1>15, <1>16, <1>17, <1>18, <1>19, <1>20, Constants
  DEF Next, GameThread, UserTurn, UserAnswers

-----------------------------------------------------------------------------
\* Between two turns influence is what is face down.
LEMMA HiddenInfluence ==
  ASSUME TypeInv, pc \in {"top", "idle", "target", "ask", "over"}, NEW p \in Player
  PROVE  Influence(p) # {} <=> ~Eliminated(p)
<1>1. Shown(p) \cap Slot = {}
  BY Constants DEF Shown, TypeInv, CardsInFlight
<1> QED BY <1>1 DEF Influence, Eliminated

\* Every announced claim that nobody challenges is carried out: after asking
\* everybody, anyChallenges never returns the empty Move, which runGame drops.
THEOREM ClaimsAnswered == Spec => []ClaimNeverDropped
<1>1. VerdictInv => ClaimNeverDropped
  <2> SUFFICES ASSUME VerdictInv, pc = "ask", challengeTurnInd = NP
               PROVE  objection = "allow"
    BY DEF ClaimNeverDropped
  <2>1. Contest /\ objection \in {"none", "allow"}
    BY DEF VerdictInv, ContestInv, AskInv
  <2>2. ASSUME objection = "none" PROVE FALSE
    <3>1. \A p \in Player : p < challengeTurnInd
      BY NPAssumption DEF Player
    <3>2. \A p \in Player : p # turnInd => Eliminated(p)
      BY <2>2, <3>1 DEF VerdictInv, AskInv, Skipped
    <3> QED BY <2>1, <3>2, Constants DEF Contest
  <2> QED BY <2>1, <2>2
<1>2. Spec => []VerdictInv
  BY VerdictInit, VerdictStep, PTL DEF Spec
<1> QED BY <1>1, <1>2, PTL

\* No turn begins in a game that is decided: isGameOver stops it in time.
THEOREM NoPlayAfterTheEnd == Spec => []PlayOnlyUndecided
<1>1. VerdictInv => PlayOnlyUndecided
  BY HiddenInfluence, Constants
  DEF VerdictInv, ContestInv, Contest, PlayOnlyUndecided
<1>2. Spec => []VerdictInv
  BY VerdictInit, VerdictStep, PTL DEF Spec
<1> QED BY <1>1, <1>2, PTL

\* youWon and youLose speak the truth about the table.
THEOREM VerdictTrue == Spec => []VerdictSound
<1>1. VerdictInv => VerdictSound
  <2> SUFFICES ASSUME VerdictInv, status # "You Lost" PROVE VerdictSound
    BY DEF VerdictSound
  <2>1. TypeInv /\ StatusInv /\ pc \in {"top", "over"}
    BY DEF VerdictInv, StatusInv
  <2> QED BY <2>1, HiddenInfluence, Constants DEF StatusInv, VerdictSound
<1>2. Spec => []VerdictInv
  BY VerdictInit, VerdictStep, PTL DEF Spec
<1> QED BY <1>1, <1>2, PTL

-----------------------------------------------------------------------------
(***************************************************************************)
(* The draw of a target.                                                   *)
(***************************************************************************)

\* Whom getPlayerMove accepts.
Accepts(t) == t # turnInd /\ ~Eliminated(t) /\ (move.name = "steal" => coins[t] >= 2)

\* The loop of getPlayerMove has somebody to hit on, except where an AI steals
\* and all who have two coins are out of the game.
DrawEndsOrNoVictim ==
    pc = "target" /\ ~(\E t \in Player : Accepts(t)) =>
        /\ move.name = "steal"
        /\ \E p \in Player \ {turnInd} : coins[p] >= 2
        /\ \A p \in Player \ {turnInd} : coins[p] >= 2 => Eliminated(p)

\* A theft has a weight only if somebody has two coins.
LootInv ==
    pc = "target" /\ move.name = "steal" => \E p \in Player \ {turnInd} : coins[p] >= 2

LEMMA LootStep ==
    ASSUME LootInv, [Next]_vars
    PROVE  LootInv'
<1>1. ASSUME NEW n \in MoveName, AIChooses(n) PROVE LootInv'
  <2>1. CASE pc' = "target"
    <3>1. n = "steal" => \E p \in Player \ {turnInd} : coins[p] >= 2
      BY <1>1 DEF AIChooses, AICan, Weighted
    <3>2. move'.name = n
      BY <1>1, <2>1 DEF AIChooses, Announce
    <3>3. turnInd' = turnInd /\ coins' = coins
      BY <1>1 DEF AIChooses
    <3> QED
      BY <3>1, <3>2, <3>3 DEF LootInv
  <2> QED
    BY <2>1 DEF LootInv
<1>2. CASE EndGame \/ UNCHANGED vars
  BY <1>2 DEF EndGame, vars, turnVars, LootInv
<1>3. \/ \E n \in MoveName : AIChooses(n)
      \/ EndGame \/ UNCHANGED vars
      \/ pc' # "target"
  BY DEF Announce, AfterAct, Dialog, Next, GameThread, UserTurn, UserAnswers, FirstDialog,
     SecondDialog, SkipEliminated, AwaitUser, TakeUserMove, AIPicksTarget, SkipAsked, Allows,
     Challenges, AskingDone, ClaimProved, BluffCalled, ActCoins, ActSteal, ActKill,
     AIExchange, UserDraws, UserReturns, ReplaceProof, CheckGameOver, LeaveLoop, UserMoves
<1> QED
  BY <1>1, <1>2, <1>3 DEF LootInv

\* getPlayerMove always finds a target for a coup or an assassination; for a
\* theft it draws for ever exactly when every purse worth it is of a player who
\* is out.
THEOREM DrawEnds == Spec => []DrawEndsOrNoVictim
<1>1. VerdictInv /\ LootInv => DrawEndsOrNoVictim
  <2> SUFFICES ASSUME VerdictInv, LootInv, pc = "target", ~(\E t \in Player : Accepts(t))
               PROVE  /\ move.name = "steal"
                      /\ \E p \in Player \ {turnInd} : coins[p] >= 2
                      /\ \A p \in Player \ {turnInd} : coins[p] >= 2 => Eliminated(p)
    BY DEF DrawEndsOrNoVictim
  <2>1. \E t \in Player : t # turnInd /\ ~Eliminated(t)
    BY Constants DEF VerdictInv, ContestInv, Contest
  <2>2. move.name = "steal"
    BY <2>1 DEF Accepts
  <2> QED
    BY <2>2 DEF Accepts, LootInv
<1>2. Spec => []VerdictInv
  BY VerdictInit, VerdictStep, PTL DEF Spec
<1>3. Init => LootInv
  BY DEF Init, LootInv
<1>4. LootInv /\ [Next]_vars => LootInv'
  BY LootStep
<1> QED
  BY <1>1, <1>2, <1>3, <1>4, PTL DEF Spec

-----------------------------------------------------------------------------
(***************************************************************************)
(* Elimination.                                                            *)
(***************************************************************************)

\* A player is out when both cards are revealed and neither is a proof on its
\* way back to the deck.
LEMMA OutOfInfluence ==
    /\ \A p : Influence(p) = {} <=>
          \A s \in Slot : revealed[hand[p][s]] /\ s \notin Shown(p)
    /\ \A p : Influence(p)' = {} <=>
          \A s \in Slot : revealed'[hand'[p][s]] /\ s \notin Shown(p)'
  BY DEF Influence

\* The step property of EliminationIsPermanent.
StaysOut == \A p \in Player : Influence(p) = {} => Influence(p)' = {}

\* It is kept by a step that turns cards up, or none, and shows no new proof.
LEMMA OutKept ==
  ASSUME hand \in [Player -> [Slot -> Card]], hand' = hand,
         \A c \in Card : revealed[c] => revealed'[c],
         \A p \in Player : Shown(p)' \cap Slot \subseteq Shown(p)
  PROVE  StaysOut
<1>1. \A p \in Player, s \in Slot : hand[p][s] \in Card
  OBVIOUS
<1> QED BY <1>1, OutOfInfluence DEF StaysOut

\* revealCard turns no card down.
LEMMA RevealKeeps == \A p : \A c \in Card : revealed[c] => RevealFirst(p)[c]
  BY DEF RevealFirst

LEMMA EliminationStep == CardInv /\ [Next]_vars => StaysOut
<1> SUFFICES ASSUME CardInv, [Next]_vars PROVE StaysOut
  OBVIOUS
<1>t. /\ TypeInv /\ hand \in [Player -> [Slot -> Card]] /\ turnInd \in Player
      /\ revealed \in [Card -> BOOLEAN] /\ User \in Player /\ NoSlot \notin Slot
  BY Constants DEF CardInv, TypeInv, TypeOK
<1>c. \A p \in Player, s \in Slot : hand[p][s] \in Card
  BY <1>t
<1>d. \A p, q \in Player : \A s, u \in Slot :
         hand[p][s] = hand[q][u] => p = q /\ s = u
  BY DEF CardInv, CardsConserved
\* Nothing but the place of the game thread changes, and no proof is shown.
<1>1. ASSUME UNCHANGED <<hand, revealed>>, theCard' \notin Slot \/ pc' = "top"
      PROVE  StaysOut
  <2>1. \A p \in Player : Shown(p)' \cap Slot \subseteq Shown(p)
    BY <1>1, <1>t DEF Shown
  <2> QED BY <1>1, <1>t, <2>1, OutKept
\* A step within the carrying out of a move.
<1>2. ASSUME hand' = hand, UNCHANGED <<turnInd, theCard>>,
             \A c \in Card : revealed[c] => revealed'[c],
             pc \in Place \ {"top", "check", "over"}
      PROVE  StaysOut
  <2>1. \A p \in Player : Shown(p)' \cap Slot \subseteq Shown(p)
    BY <1>2 DEF Shown
  <2> QED BY <1>2, <1>t, <2>1, OutKept
<1>3. CASE SkipEliminated
  BY <1>1, <1>3, <1>t DEF SkipEliminated, TypeInv, CardsInFlight, cardVars, turnVars
<1>4. CASE AwaitUser \/ TakeUserMove
  BY <1>1, <1>4, <1>t DEF AwaitUser, TakeUserMove, TypeInv, CardsInFlight, cardVars, turnVars
<1>5. ASSUME NEW n \in MoveName, AIChooses(n) PROVE StaysOut
  BY <1>1, <1>5, <1>t DEF AIChooses, TypeInv, CardsInFlight, cardVars
<1>6. ASSUME NEW t \in Player, AIPicksTarget(t) PROVE StaysOut
  BY <1>2, <1>6 DEF AIPicksTarget, cardVars, Place
<1>7. CASE SkipAsked \/ AskingDone
  BY <1>2, <1>7 DEF SkipAsked, AskingDone, cardVars, turnVars, Place
<1>8. ASSUME NEW p \in Player, Allows(p) \/ Challenges(p) PROVE StaysOut
  BY <1>2, <1>8 DEF Allows, Challenges, cardVars, Place
\* A claimant with a proof is not out; nobody else's cards are turned down.
<1>9. CASE ClaimProved
  <2>1. hand' = hand /\ turnInd' = turnInd /\ HasCard(turnInd, move.name) /\ theCard' \in Slot
    BY <1>9, ProofSlotType DEF ClaimProved
  <2>2. \A c \in Card : revealed[c] => revealed'[c]
    <3>1. revealed' = [RevealFirst(challengeTurnInd) EXCEPT ![hand[turnInd][theCard']] = TRUE]
      BY <1>9 DEF ClaimProved
    <3> QED BY <3>1, RevealKeeps, RevealType
  <2>3. Influence(turnInd) # {}
    BY <2>1 DEF HasCard, Influence
  <2>4. ASSUME NEW p \in Player, p # turnInd, Influence(p) = {} PROVE Influence(p)' = {}
    <3>1. Shown(p) = {} /\ Shown(p)' = {}
      BY <2>1, <2>4 DEF Shown
    <3> QED BY <1>c, <2>1, <2>2, <2>4, <3>1, OutOfInfluence
  <2> QED BY <2>3, <2>4 DEF StaysOut
<1>10. CASE BluffCalled
  BY <1>2, <1>10, RevealKeeps DEF BluffCalled, turnVars, Place
<1>11. CASE ActCoins \/ ActSteal
  BY <1>2, <1>11 DEF ActCoins, ActSteal, cardVars, turnVars, Place
<1>12. CASE ActKill
  BY <1>2, <1>12, RevealKeeps DEF ActKill, turnVars, Place
<1>13. CASE UserDraws \/ UserReturns
  BY <1>2, <1>13 DEF UserDraws, UserReturns, turnVars, Place
\* Revealed cards are not exchanged.
<1>14. CASE AIExchange
  <2>1. PICK drawn \in [Slot -> deck] :
          hand' = [hand EXCEPT ![turnInd] =
             [s \in Slot |-> IF s \in {u \in Slot : revealed[hand[turnInd][u]]}
                             THEN hand[turnInd][s] ELSE drawn[s]]]
    BY <1>14 DEF AIExchange
  <2>2. revealed' = revealed /\ turnInd' = turnInd /\ theCard' = theCard /\ pc = "act"
    BY <1>14 DEF AIExchange, turnVars
  <2>3. \A p \in Player : Shown(p)' \cap Slot \subseteq Shown(p)
    BY <2>2 DEF Shown, Place
  <2>4. ASSUME NEW p \in Player, NEW s \in Slot, revealed[hand[p][s]]
        PROVE  hand'[p][s] = hand[p][s]
    BY <1>t, <2>1, <2>4
  <2> QED BY <2>2, <2>3, <2>4, OutOfInfluence DEF StaysOut
\* A dialog asks only a user who has a face-down card.
<1>15. ASSUME NEW k \in Slot \cup {NoSlot}, FirstDialog(k) \/ SecondDialog(k)
       PROVE  StaysOut
  <2>1. ~revealed[hand[User][0]] \/ ~revealed[hand[User][1]]
    BY <1>15 DEF FirstDialog, SecondDialog, CardInv, DialogFaceDown
  <2>2. Influence(User) # {}
    BY <2>1 DEF Influence, Slot
  <2>3. /\ UNCHANGED <<turnInd, theCard, revealed>>
        /\ pc \in {"dialog0", "dialog1"} /\ pc' \in {"dialog1", "return"}
    BY <1>15 DEF FirstDialog, SecondDialog, AnswerDialog, turnVars
  <2>4. \A p \in Player : Shown(p)' \cap Slot \subseteq Shown(p)
    BY <2>3 DEF Shown, Place
  <2>5. ASSUME NEW p \in Player, p # User PROVE hand'[p] = hand[p]
    BY <1>15, <1>t, <2>5 DEF FirstDialog, SecondDialog, AnswerDialog, Swap
  <2>6. ASSUME NEW p \in Player, p # User, Influence(p) = {} PROVE Influence(p)' = {}
    BY <2>3, <2>4, <2>5, <2>6, OutOfInfluence
  <2> QED BY <2>2, <2>6 DEF StaysOut
\* The proof that is replaced is the influence of its owner; no other card is
\* turned down.
<1>16. CASE ReplaceProof
  <2>1. theCard \in Slot /\ pc = "replace" /\ pc' = "check" /\ turnInd' = turnInd
    BY <1>16, <1>t DEF ReplaceProof, TypeInv, CardsInFlight
  <2>2. Influence(turnInd) # {}
    BY <2>1 DEF Influence, Shown, Place
  <2>3. ASSUME NEW p \in Player, p # turnInd, Influence(p) = {} PROVE Influence(p)' = {}
    <3>1. Shown(p)' = {}
      BY <2>1 DEF Shown
    <3>2. ASSUME NEW s \in Slot PROVE revealed'[hand'[p][s]]
      <4>1. hand'[p] = hand[p]
        BY <1>16, <1>t, <2>3 DEF ReplaceProof
      <4>2. hand[p][s] # hand[turnInd][theCard]
        BY <1>d, <1>t, <2>1, <2>3
      <4>3. revealed[hand[p][s]] /\ hand[p][s] \in Card
        BY <1>c, <2>3, OutOfInfluence
      <4> QED BY <1>16, <1>t, <4>1, <4>2, <4>3 DEF ReplaceProof
    <3> QED BY <3>1, <3>2, OutOfInfluence
  <2> QED BY <2>2, <2>3 DEF StaysOut
<1>17. CASE CheckGameOver
  BY <1>1, <1>17 DEF CheckGameOver, cardVars
<1>18. CASE LeaveLoop
  BY <1>1, <1>18, <1>t DEF LeaveLoop, TypeInv, CardsInFlight, cardVars, turnVars
<1>19. CASE EndGame \/ UNCHANGED vars
  <2>1. UNCHANGED <<hand, revealed, turnInd, theCard, pc>>
    BY <1>19 DEF EndGame, cardVars, turnVars, vars
  <2>2. \A p \in Player : Shown(p)' \cap Slot \subseteq Shown(p)
    BY <2>1 DEF Shown
  <2> QED BY <1>t, <2>1, <2>2, OutKept
<1>20. ASSUME NEW n \in MoveName, NEW t \in Player,
              UserMoves([name |-> n, target |-> t]) PROVE StaysOut
  BY <1>1, <1>20 DEF UserMoves, cardVars
<1> QED
  BY <1>t, <1>3, <1>4, <1>5, <1>6, <1>7, <1>8, <1>9, <1>10, <1>11, <1>12, <1>13,
     <1>14, <1>15, <1>16, <1>17, <1>18, <1>19, <1>20
  DEF Next, GameThread, UserTurn, UserAnswers

\* Who has lost all influence never has any again: no draw, exchange, replaced
\* proof or dialog gives a player who is out a face-down card.
THEOREM EliminationLasts == Spec => EliminationIsPermanent
<1>1. CardInv /\ [Next]_vars => [StaysOut]_vars
  BY EliminationStep
<1>2. Spec => []CardInv
  BY CardInit, CardStep, PTL DEF Spec
<1>3. Spec => [][StaysOut]_vars
  BY <1>1, <1>2, PTL DEF Spec
<1> QED BY <1>3 DEF EliminationIsPermanent, StaysOut

-----------------------------------------------------------------------------
(***************************************************************************)
(* The purses: what the choice of a move looked at still holds when the    *)
(* move is carried out.                                                    *)
(***************************************************************************)

\* A move its caller can pay for, and a theft from somebody else.
Payable(m, p) ==
    /\ m.name = "coup" => coins[p] >= 7
    /\ m.name = "assassinate" => coins[p] >= 3
    /\ m.name = "steal" => m.target # p

\* The user's choice stays good until the game thread takes it.
ChosenInv ==
    /\ pc = "idle" => turnInd = User
    /\ playerMove # NoMove =>
          pc \in {"top", "over"} /\ turnInd = User /\ Payable(playerMove, User)

\* The announced move stays good until it is carried out; an AI had no seven
\* coins unless it calls a coup, and its victim can pay a theft.
AnnouncedInv ==
    pc \in {"target", "ask", "prove", "act"} =>
        /\ pc # "target" => Payable(move, turnInd)
        /\ move.name = "coup" => coins[turnInd] >= 7
        /\ move.name = "assassinate" => coins[turnInd] >= 3
        /\ turnInd # User /\ move.name # "coup" => coins[turnInd] =< 6
        /\ turnInd # User /\ move.name = "steal" /\ pc # "target" =>
              coins[move.target] >= 2

PurseInv == VerdictInv /\ AIPurseBounded /\ ChosenInv /\ AnnouncedInv

-----------------------------------------------------------------------------
\* What each move pays.
LEMMA GainValue ==
    /\ \A n \in {"income", "foreignAid", "tax"} : Gain(n) \in 1 .. 3
    /\ Gain("assassinate") = -3 /\ Gain("coup") = -7
  BY DEF Gain

\* Paying changes one purse ...
LEMMA PayValue ==
  ASSUME NEW g \in Int, coins \in [Player -> Int], turnInd \in Player,
         coins' = [coins EXCEPT ![turnInd] = @ + g]
  PROVE  \A p \in Player : coins'[p] = IF p = turnInd THEN coins[p] + g ELSE coins[p]
  OBVIOUS

\* ... and a theft two.
LEMMA RobValue ==
  ASSUME NEW t \in Player, coins \in [Player -> Int], turnInd \in Player, t # turnInd,
         coins' = [coins EXCEPT ![t] = @ - 2, ![turnInd] = @ + 2]
  PROVE  \A p \in Player : coins'[p] = IF p = turnInd THEN coins[p] + 2
                                       ELSE IF p = t THEN coins[p] - 2 ELSE coins[p]
  OBVIOUS

LEMMA PurseInit == Init => PurseInv
<1> SUFFICES ASSUME Init PROVE PurseInv
  OBVIOUS
<1>1. VerdictInv
  BY VerdictInit
<1>2. coins = [p \in Player |-> 2] /\ playerMove = NoMove /\ pc = "top"
  BY DEF Init
<1> QED BY <1>1, <1>2 DEF PurseInv, AIPurseBounded, ChosenInv, AnnouncedInv

-----------------------------------------------------------------------------
LEMMA PurseStep == PurseInv /\ [Next]_vars => PurseInv'
<1> SUFFICES ASSUME PurseInv, [Next]_vars PROVE PurseInv'
  OBVIOUS
<1>0. VerdictInv /\ VerdictInv' /\ TypeInv
  BY VerdictStep DEF PurseInv, VerdictInv
<1>t. /\ coins \in [Player -> Int] /\ turnInd \in Player /\ User \in Player
  BY <1>0, Constants DEF TypeInv, TypeOK
<1>i. AIPurseBounded /\ ChosenInv /\ AnnouncedInv
  BY DEF PurseInv
\* Between two moves only the user's choice matters.
<1>1. ASSUME UNCHANGED <<coins, playerMove>>, pc' \notin {"idle", "target", "ask", "prove", "act"},
             \/ playerMove = NoMove
             \/ pc' \in {"top", "over"} /\ turnInd' = turnInd
      PROVE  PurseInv'
  BY <1>0, <1>1, <1>i
  DEF PurseInv, AIPurseBounded, ChosenInv, AnnouncedInv, Payable
\* While a move is asked about it stays what it is.
<1>2. ASSUME UNCHANGED <<coins, playerMove, turnInd, move>>,
             pc \in {"ask", "prove"}, pc' \in {"ask", "prove", "act", "check"}
      PROVE  PurseInv'
  BY <1>0, <1>2, <1>i
  DEF PurseInv, AIPurseBounded, ChosenInv, AnnouncedInv, Payable
\* An announced move has to be good.
<1>3. ASSUME NEW m, Announce(m), UNCHANGED <<coins, turnInd>>, playerMove' = NoMove,
             Payable(m, turnInd),
             turnInd # User => /\ m.name # "coup" => coins[turnInd] =< 6
                               /\ m.name = "steal" => coins[m.target] >= 2
      PROVE  PurseInv'
  BY <1>0, <1>3, <1>i
  DEF Announce, PurseInv, AIPurseBounded, ChosenInv, AnnouncedInv, Payable
\* A move that is carried out leaves the choices of the next turn open.
<1>4. ASSUME pc \in {"act", "dialog0", "dialog1", "return", "replace"},
             pc' \in {"dialog0", "dialog1", "return", "replace", "check"},
             UNCHANGED <<playerMove, turnInd>>, AIPurseBounded'
      PROVE  PurseInv'
  BY <1>0, <1>4, <1>i DEF PurseInv, ChosenInv, AnnouncedInv
<1>5. ASSUME UNCHANGED coins PROVE AIPurseBounded'
  BY <1>5, <1>i DEF AIPurseBounded
<1>6. CASE SkipEliminated
  <2>1. turnInd # User
    BY <1>0, <1>6, <1>t DEF SkipEliminated, VerdictInv, ContestInv, Contest
  <2>2. playerMove = NoMove
    BY <1>i, <2>1 DEF ChosenInv
  <2> QED BY <1>1, <1>6, <2>2 DEF SkipEliminated, turnVars
<1>7. CASE AwaitUser
  BY <1>0, <1>7, <1>i
  DEF AwaitUser, turnVars, PurseInv, AIPurseBounded, ChosenInv, AnnouncedInv
<1>8. CASE TakeUserMove
  BY <1>3, <1>8, <1>i DEF TakeUserMove, ChosenInv
<1>9. ASSUME NEW n \in MoveName, AIChooses(n) PROVE PurseInv'
  <2>1. /\ UNCHANGED <<coins, turnInd, playerMove>> /\ pc = "top" /\ turnInd # User
        /\ (coins[turnInd] >= 7) = (n = "coup")
        /\ n = "assassinate" => coins[turnInd] >= 3
    BY <1>9 DEF AIChooses, AICan, Weighted
  <2>2. n # "coup" => coins[turnInd] =< 6
    <3>1. coins[turnInd] \in Int
      BY <1>t
    <3> QED BY <2>1, <3>1
  <2>3. playerMove = NoMove
    BY <1>i, <2>1 DEF ChosenInv
  <2>4. CASE n \notin Targeted /\ Announce([name |-> n, target |-> turnInd])
    <3> DEFINE m == [name |-> n, target |-> turnInd]
    <3>1. Payable(m, turnInd) /\ m.name \notin {"steal", "coup"} /\ m.name = n
      BY <2>4 DEF Payable, Targeted
    <3>2. Announce(m)
      BY <2>4
    <3> HIDE DEF m
    <3> QED BY <1>3, <2>1, <2>2, <2>3, <3>1, <3>2
  <2>5. CASE move' = [name |-> n, target |-> turnInd] /\ pc' = "target"
    BY <1>0, <1>i, <2>1, <2>2, <2>3, <2>5
    DEF PurseInv, AIPurseBounded, ChosenInv, AnnouncedInv, Payable
  <2> QED BY <1>9, <2>4, <2>5 DEF AIChooses
<1>10. ASSUME NEW t \in Player, AIPicksTarget(t) PROVE PurseInv'
  <2> DEFINE m == [move EXCEPT !.target = t]
  <2>1. m.name = move.name /\ m.target = t
    BY <1>0, <1>10 DEF AIPicksTarget, VerdictInv, TypeInv, MoveChosen
  <2>2. /\ pc = "target" /\ t # turnInd /\ (move.name = "steal" => coins[t] >= 2)
        /\ UNCHANGED <<coins, turnInd>> /\ playerMove' = playerMove /\ Announce(m)
    BY <1>10 DEF AIPicksTarget
  <2>3. playerMove = NoMove
    BY <1>i, <2>2 DEF ChosenInv
  <2>4. Payable(m, turnInd)
    BY <1>i, <2>1, <2>2 DEF Payable, AnnouncedInv
  <2>5. turnInd # User /\ m.name # "coup" => coins[turnInd] =< 6
    BY <1>i, <2>1, <2>2 DEF AnnouncedInv
  <2> HIDE DEF m
  <2> QED BY <1>3, <2>1, <2>2, <2>3, <2>4, <2>5
<1>11. CASE SkipAsked
  BY <1>2, <1>11 DEF SkipAsked
<1>12. ASSUME NEW p \in Player, Allows(p) \/ Challenges(p) PROVE PurseInv'
  BY <1>2, <1>12 DEF Allows, Challenges
<1>13. CASE AskingDone
  BY <1>2, <1>13 DEF AskingDone, turnVars
<1>14. CASE ClaimProved \/ BluffCalled
  BY <1>2, <1>14 DEF ClaimProved, BluffCalled, turnVars
<1>15. CASE ActCoins
  <2> DEFINE g == Gain(move.name)
  <2>1. g \in 1 .. 3 /\ coins' = [coins EXCEPT ![turnInd] = @ + g]
    BY <1>15, GainValue DEF ActCoins
  <2>2. turnInd # User => coins[turnInd] =< 6
    BY <1>15, <1>i DEF ActCoins, AnnouncedInv
  <2> HIDE DEF g
  <2>3. \A p \in Player : coins'[p] = IF p = turnInd THEN coins[p] + g ELSE coins[p]
    BY <1>t, <2>1, PayValue
  <2>4. AIPurseBounded'
    BY <1>t, <1>i, <2>1, <2>2, <2>3 DEF AIPurseBounded
  <2> QED BY <1>4, <1>15, <2>4 DEF ActCoins, AfterAct, turnVars
<1>16. CASE ActSteal
  <2>1. move.target \in Player
    BY <1>0, <1>16 DEF ActSteal, TypeInv, MoveChosen
  <2>2. move.target # turnInd /\ (turnInd # User => coins[turnInd] =< 6)
    BY <1>16, <1>i DEF ActSteal, AnnouncedInv, Payable
  <2>3. \A p \in Player : coins'[p] = IF p = turnInd THEN coins[p] + 2
                          ELSE IF p = move.target THEN coins[p] - 2 ELSE coins[p]
    BY <1>16, <1>t, <2>1, <2>2, RobValue DEF ActSteal
  <2>4. AIPurseBounded'
    BY <1>t, <1>i, <2>2, <2>3 DEF AIPurseBounded
  <2> QED BY <1>4, <1>16, <2>4 DEF ActSteal, AfterAct, turnVars
<1>17. CASE ActKill
  <2> DEFINE g == Gain(move.name)
  <2>1. g \in {-3, -7} /\ coins' = [coins EXCEPT ![turnInd] = @ + g]
    BY <1>17, GainValue DEF ActKill
  <2> HIDE DEF g
  <2>2. \A p \in Player : coins'[p] = IF p = turnInd THEN coins[p] + g ELSE coins[p]
    BY <1>t, <2>1, PayValue
  <2>3. AIPurseBounded'
    BY <1>t, <1>i, <2>1, <2>2 DEF AIPurseBounded
  <2> QED BY <1>4, <1>17, <2>3 DEF ActKill, AfterAct, turnVars
<1>18. CASE AIExchange \/ UserDraws
  BY <1>4, <1>5, <1>18 DEF AIExchange, UserDraws, AfterAct, turnVars
<1>19. CASE UserReturns \/ ReplaceProof
  BY <1>4, <1>5, <1>19 DEF UserReturns, ReplaceProof, AfterAct, turnVars
<1>20. ASSUME NEW k \in Slot \cup {NoSlot}, FirstDialog(k) \/ SecondDialog(k)
       PROVE  PurseInv'
  BY <1>4, <1>5, <1>20 DEF FirstDialog, SecondDialog, AnswerDialog
<1>21. CASE CheckGameOver
  <2>1. playerMove = NoMove
    BY <1>21, <1>i DEF CheckGameOver, ChosenInv
  <2> QED BY <1>1, <1>21, <2>1 DEF CheckGameOver
<1>22. CASE LeaveLoop
  BY <1>1, <1>22 DEF LeaveLoop
<1>23. CASE EndGame \/ UNCHANGED vars
  <2>1. UNCHANGED <<coins, playerMove, turnInd, move, pc>>
    BY <1>23 DEF EndGame, turnVars, vars
  <2> QED BY <1>0, <1>i, <2>1
          DEF PurseInv, AIPurseBounded, ChosenInv, AnnouncedInv, Payable
<1>24. ASSUME NEW n \in MoveName, NEW t \in Player,
              UserMoves([name |-> n, target |-> t]) PROVE PurseInv'
  <2> DEFINE m == [name |-> n, target |-> t]
  <2>1. /\ UNCHANGED <<coins, turnInd>> /\ pc = "idle" /\ pc' = "top"
        /\ playerMove' = m /\ UserCan(m)
    BY <1>24 DEF UserMoves, turnVars
  <2>2. Payable(m, User)
    BY <2>1 DEF UserCan, Payable, Targeted
  <2> HIDE DEF m
  <2> QED BY <1>0, <1>i, <2>1, <2>2
          DEF PurseInv, AIPurseBounded, ChosenInv, AnnouncedInv, Payable
<1> QED
  BY <1>t, <1>6, <1>7, <1>8, <1>9, <1>10, <1>11, <1>12, <1>13, <1>14, <1>15, <1>16,
     <1>17, <1>18, <1>19, <1>20, <1>21, <1>22, <1>23, <1>24
  DEF Next, GameThread, UserTurn, UserAnswers

-----------------------------------------------------------------------------
\* No AI holds more than nine coins: it is forced to a coup by seven, however
\* long its last move was asked about and whoever stole meanwhile.
THEOREM AIPursesBounded == Spec => []AIPurseBounded
<1>1. Spec => []PurseInv
  BY PurseInit, PurseStep, PTL DEF Spec
<1> QED BY <1>1, PTL DEF PurseInv

\* The step property of DebtOnlyByUserTheft.
Debt == \A p \in Player : coins[p] >= 0 /\ coins'[p] < 0 =>
          /\ turnInd = User /\ move.name = "steal" /\ p = move.target

\* Only a theft by the user drives a purse below zero, and only the victim's.
THEOREM NoOtherDebt == Spec => DebtOnlyByUserTheft
<1>1. ASSUME PurseInv, [Next]_vars PROVE Debt
  <2>t. coins \in [Player -> Int] /\ turnInd \in Player /\ AnnouncedInv /\ TypeInv
    BY <1>1 DEF PurseInv, VerdictInv, TypeInv, TypeOK
  <2>1. ASSUME coins' = coins PROVE Debt
    <3>1. \A p \in Player : coins[p] \in Int
      BY <2>t
    <3> QED BY <2>1, <3>1 DEF Debt
  <2>2. CASE ActCoins
    <3> DEFINE g == Gain(move.name)
    <3>1. g \in 1 .. 3 /\ coins' = [coins EXCEPT ![turnInd] = @ + g]
      BY <2>2, GainValue DEF ActCoins
    <3> HIDE DEF g
    <3>2. \A p \in Player : coins'[p] = IF p = turnInd THEN coins[p] + g ELSE coins[p]
      BY <2>t, <3>1, PayValue
    <3>3. \A p \in Player : coins[p] \in Int
      BY <2>t
    <3> QED BY <3>1, <3>2, <3>3 DEF Debt
  <2>3. CASE ActSteal
    <3>1. move.target \in Player /\ move.target # turnInd
      BY <2>3, <2>t DEF ActSteal, AnnouncedInv, Payable, TypeInv, MoveChosen
    <3>2. \A p \in Player : coins'[p] = IF p = turnInd THEN coins[p] + 2
                          ELSE IF p = move.target THEN coins[p] - 2 ELSE coins[p]
      BY <2>3, <2>t, <3>1, RobValue DEF ActSteal
    <3>3. turnInd # User => coins[move.target] >= 2
      BY <2>3, <2>t DEF ActSteal, AnnouncedInv
    <3>4. \A p \in Player : coins[p] \in Int
      BY <2>t
    <3>5. move.name = "steal"
      BY <2>3 DEF ActSteal
    <3> QED BY <3>1, <3>2, <3>3, <3>4, <3>5 DEF Debt
  <2>4. CASE ActKill
    <3>1. \/ Gain(move.name) = -3 /\ coins[turnInd] >= 3
          \/ Gain(move.name) = -7 /\ coins[turnInd] >= 7
      BY <2>4, <2>t, GainValue DEF ActKill, AnnouncedInv
    <3>2. coins' = [coins EXCEPT ![turnInd] = @ + Gain(move.name)]
      BY <2>4 DEF ActKill
    <3>3. \A p \in Player :
             coins'[p] = IF p = turnInd THEN coins[p] + Gain(move.name) ELSE coins[p]
      BY <2>t, <3>1, <3>2, PayValue
    <3>4. \A p \in Player : coins[p] \in Int
      BY <2>t
    <3> QED BY <3>1, <3>3, <3>4 DEF Debt
  <2>5. coins' = coins \/ ActCoins \/ ActSteal \/ ActKill
    BY <1>1 DEF Next, GameThread, UserTurn, UserAnswers, SkipEliminated, AwaitUser,
       TakeUserMove, AIChooses, AIPicksTarget, SkipAsked, Allows, Challenges,
       AskingDone, ClaimProved, BluffCalled, AIExchange, UserDraws, UserReturns,
       ReplaceProof, CheckGameOver, LeaveLoop, EndGame, UserMoves, FirstDialog,
       SecondDialog, AnswerDialog, vars
  <2> QED BY <2>1, <2>2, <2>3, <2>4, <2>5
<1>2. Spec => []PurseInv
  BY PurseInit, PurseStep, PTL DEF Spec
<1>3. Spec => [][Debt]_vars
  BY <1>1, <1>2, PTL DEF Spec
<1> QED BY <1>3 DEF Debt, DebtOnlyByUserTheft

-----------------------------------------------------------------------------
(***************************************************************************)
(* The steps of a turn.                                                    *)
(***************************************************************************)

\* An upper bound of the steps a turn still takes: the places of the game
\* thread in the order of runGame, and a step for everybody still to be asked.
StepsLeft ==
    CASE pc = "top" /\ playerMove = NoMove -> NP + 12
      [] pc = "idle"                       -> NP + 11
      [] pc = "top" /\ playerMove # NoMove -> NP + 10
      [] pc = "target"                     -> NP + 9
      [] pc = "ask"                        -> 8 + (NP - challengeTurnInd)
      [] pc = "prove"                      -> 7
      [] pc = "act"                        -> 6
      [] pc = "dialog0"                    -> 5
      [] pc = "dialog1"                    -> 4
      [] pc = "return"                     -> 3
      [] pc = "replace"                    -> 2
      [] pc = "check"                      -> 1
      [] OTHER                             -> 0

\* One more turn is played, or stepped over.
TurnEnds == pc \in {"top", "check"} /\ pc' = "top" /\ turnInd' = NextPlayer(turnInd)

\* A step of the turn: it stays the same player's, and is nearer to its end.
TurnRunsDown == turnInd' = turnInd /\ StepsLeft' < StepsLeft

\* "End Game", at most once in a game, as no step sets gameOn again.
Abandoned == gameOn /\ ~gameOn' /\ turnInd' = turnInd /\ StepsLeft' = StepsLeft

\* Every step of the game is one of these, and an ended game stays ended.
Progress == (TurnEnds \/ TurnRunsDown \/ Abandoned) /\ (gameOn' => gameOn)
TurnsNeverDrag == [][Progress]_vars

\* StepsLeft at each place.
LEMMA StepsAt ==
  ASSUME TypeOK
  PROVE  /\ StepsLeft \in 0 .. NP + 12
         /\ pc = "top" => StepsLeft = IF playerMove = NoMove THEN NP + 12 ELSE NP + 10
         /\ pc = "idle" => StepsLeft = NP + 11
         /\ pc = "target" => StepsLeft = NP + 9
         /\ pc = "ask" => StepsLeft = 8 + (NP - challengeTurnInd)
         /\ pc = "prove" => StepsLeft = 7
         /\ pc = "act" => StepsLeft = 6
         /\ pc = "dialog0" => StepsLeft = 5
         /\ pc = "dialog1" => StepsLeft = 4
         /\ pc = "return" => StepsLeft = 3
         /\ pc = "replace" => StepsLeft = 2
         /\ pc = "check" => StepsLeft = 1
         /\ pc = "over" => StepsLeft = 0
  BY NPAssumption DEF TypeOK, StepsLeft, Place, Dialog

\* The same, one step later.
LEMMA StepsAtNext ==
  ASSUME TypeOK'
  PROVE  /\ StepsLeft' \in 0 .. NP + 12
         /\ pc' = "top" => StepsLeft' = IF playerMove' = NoMove THEN NP + 12 ELSE NP + 10
         /\ pc' = "idle" => StepsLeft' = NP + 11
         /\ pc' = "target" => StepsLeft' = NP + 9
         /\ pc' = "ask" => StepsLeft' = 8 + (NP - challengeTurnInd')
         /\ pc' = "prove" => StepsLeft' = 7
         /\ pc' = "act" => StepsLeft' = 6
         /\ pc' = "dialog0" => StepsLeft' = 5
         /\ pc' = "dialog1" => StepsLeft' = 4
         /\ pc' = "return" => StepsLeft' = 3
         /\ pc' = "replace" => StepsLeft' = 2
         /\ pc' = "check" => StepsLeft' = 1
         /\ pc' = "over" => StepsLeft' = 0
  BY NPAssumption DEF TypeOK, StepsLeft, Place, Dialog

\* Announcing leads from a choice to the asking, or to the carrying out.
LEMMA AnnounceRunsDown ==
  ASSUME TypeOK, TypeOK', NEW m, Announce(m), pc \in {"top", "target"}, turnInd' = turnInd
  PROVE  TurnRunsDown
<1>1. StepsLeft \in {NP + 9, NP + 10, NP + 12} /\ NP \in 2 .. 6
  BY StepsAt, NPAssumption
<1>2. StepsLeft' \in {6, NP + 8}
  <2>1. CASE pc' = "act"
    BY <2>1, StepsAtNext
  <2>2. CASE pc' = "ask"
    <3>1. StepsLeft' = 8 + (NP - challengeTurnInd') /\ challengeTurnInd' = 0
      BY <2>2, StepsAtNext DEF Announce
    <3> QED BY <1>1, <3>1
  <2> QED BY <2>1, <2>2 DEF Announce
<1> QED BY <1>1, <1>2 DEF TurnRunsDown

\* Each step of the carrying out leads on in the order of the places.
LEMMA ActRunsDown ==
  ASSUME TypeOK, TypeOK', turnInd' = turnInd,
         \/ pc = "act" /\ pc' \in {"check", "replace", "dialog0", "dialog1", "return"}
         \/ pc = "dialog0" /\ pc' \in {"dialog1", "return"}
         \/ pc = "dialog1" /\ pc' = "return"
         \/ pc = "return" /\ pc' \in {"check", "replace"}
         \/ pc = "replace" /\ pc' = "check"
         \/ pc = "prove" /\ pc' \in {"act", "check"}
  PROVE  TurnRunsDown
<1>1. \/ StepsLeft = 6 /\ StepsLeft' \in 1 .. 5
      \/ StepsLeft = 5 /\ StepsLeft' \in 3 .. 4
      \/ StepsLeft = 4 /\ StepsLeft' = 3
      \/ StepsLeft = 3 /\ StepsLeft' \in 1 .. 2
      \/ StepsLeft = 2 /\ StepsLeft' = 1
      \/ StepsLeft = 7 /\ StepsLeft' \in {1, 6}
  BY StepsAt, StepsAtNext
<1> QED BY <1>1 DEF TurnRunsDown

\* Nothing makes a turn go on for ever: each step of it brings its end nearer,
\* so it has at most NP + 12 of them, whoever is skipped, asked, challenged or
\* shown a dialog; only the end of a turn begins another; and only "End Game"
\* is a step that does neither.  That a step is taken at all is fairness, and
\* TurnsGoRound.
THEOREM TurnsRunDown == Spec => TurnsNeverDrag
<1>1. ASSUME TypeInv, [Next]_vars, vars' # vars
      PROVE  TurnEnds \/ TurnRunsDown \/ Abandoned
  <2>t. TypeOK /\ TypeOK' /\ NP \in 2 .. 6 /\ challengeTurnInd \in 0 .. NP
    BY <1>1, TypeStep, NPAssumption DEF TypeInv, TypeOK
  <2>1. CASE SkipEliminated \/ CheckGameOver
    BY <2>1 DEF SkipEliminated, CheckGameOver, TurnEnds
  <2>2. CASE AwaitUser
    <3>1. StepsLeft = NP + 12 /\ StepsLeft' = NP + 11
      BY <2>2, <2>t, StepsAt, StepsAtNext DEF AwaitUser
    <3> QED BY <2>2, <2>t, <3>1 DEF AwaitUser, TurnRunsDown
  <2>3. CASE TakeUserMove
    BY <2>3, <2>t, AnnounceRunsDown DEF TakeUserMove
  <2>4. ASSUME NEW n \in MoveName, AIChooses(n) PROVE TurnRunsDown
    <3>1. pc = "top" /\ turnInd' = turnInd
      BY <2>4 DEF AIChooses
    <3>2. CASE pc' = "target"
      <4>1. StepsLeft \in {NP + 10, NP + 12} /\ StepsLeft' = NP + 9
        BY <2>t, <3>1, <3>2, StepsAt, StepsAtNext
      <4> QED BY <2>t, <3>1, <4>1 DEF TurnRunsDown
    <3>3. CASE Announce([name |-> n, target |-> turnInd])
      BY <2>t, <3>1, <3>3, AnnounceRunsDown
    <3> QED BY <2>4, <3>2, <3>3 DEF AIChooses
  <2>5. ASSUME NEW p \in Player, AIPicksTarget(p) PROVE TurnRunsDown
    BY <2>5, <2>t, AnnounceRunsDown DEF AIPicksTarget
  <2>6. ASSUME pc = "ask", pc' = "ask", challengeTurnInd' = challengeTurnInd + 1,
               turnInd' = turnInd
        PROVE  TurnRunsDown
    <3>1. /\ StepsLeft = 8 + (NP - challengeTurnInd)
          /\ StepsLeft' = 8 + (NP - (challengeTurnInd + 1))
      BY <2>6, <2>t, StepsAt, StepsAtNext
    <3> QED BY <2>6, <2>t, <3>1 DEF TurnRunsDown
  <2>7. CASE SkipAsked
    BY <2>6, <2>7 DEF SkipAsked
  <2>8. ASSUME NEW p \in Player, Allows(p) PROVE TurnRunsDown
    BY <2>6, <2>8 DEF Allows
  <2>9. ASSUME pc = "ask", pc' \in {"prove", "act", "check"}, turnInd' = turnInd
        PROVE  TurnRunsDown
    <3>1. StepsLeft >= 8 /\ StepsLeft' \in 1 .. 7
      BY <2>9, <2>t, StepsAt, StepsAtNext
    <3>2. StepsLeft \in Int /\ StepsLeft' < StepsLeft
      BY <2>t, <3>1, StepsAt
    <3> QED BY <2>9, <3>2 DEF TurnRunsDown
  <2>10. ASSUME NEW p \in Player, Challenges(p) PROVE TurnRunsDown
    BY <2>9, <2>10 DEF Challenges
  <2>11. CASE AskingDone
    BY <2>9, <2>11 DEF AskingDone
  <2>12. CASE ClaimProved \/ BluffCalled \/ ReplaceProof
    BY <2>12, <2>t, ActRunsDown DEF ClaimProved, BluffCalled, ReplaceProof
  <2>13. CASE ActCoins \/ ActSteal \/ ActKill \/ AIExchange
    BY <2>13, <2>t, ActRunsDown DEF ActCoins, ActSteal, ActKill, AIExchange, AfterAct
  <2>14. CASE UserDraws \/ UserReturns
    BY <2>14, <2>t, ActRunsDown DEF UserDraws, UserReturns, AfterAct
  <2>15. ASSUME NEW k \in Slot \cup {NoSlot}, FirstDialog(k) \/ SecondDialog(k)
         PROVE  TurnRunsDown
    BY <2>15, <2>t, ActRunsDown DEF FirstDialog, SecondDialog, AnswerDialog
  <2>16. CASE LeaveLoop
    <3>1. StepsLeft \in {NP + 10, NP + 12} /\ StepsLeft' = 0
      BY <2>16, <2>t, StepsAt, StepsAtNext DEF LeaveLoop
    <3> QED BY <2>16, <2>t, <3>1 DEF LeaveLoop, TurnRunsDown
  <2>17. ASSUME NEW n \in MoveName, NEW p \in Player,
                UserMoves([name |-> n, target |-> p])
         PROVE  TurnRunsDown
    <3>1. /\ pc = "idle" /\ pc' = "top" /\ turnInd' = turnInd
          /\ playerMove'.name = n /\ n \in Moves
      BY <2>17 DEF UserMoves, UserCan
    <3>2. playerMove' # NoMove
      BY <3>1, BoundAssumption DEF NoMove, MoveName
    <3>3. StepsLeft = NP + 11 /\ StepsLeft' = NP + 10
      BY <2>t, <3>1, <3>2, StepsAt, StepsAtNext
    <3> QED BY <2>t, <3>1, <3>3 DEF TurnRunsDown
  <2>18. CASE EndGame
    <3>1. UNCHANGED <<pc, playerMove, challengeTurnInd>>
      BY <2>18 DEF EndGame, turnVars
    <3>2. StepsLeft' = StepsLeft
      BY <3>1 DEF StepsLeft
    <3> QED BY <2>18, <3>2 DEF EndGame, Abandoned
  <2> QED
    BY <1>1, <2>1, <2>2, <2>3, <2>4, <2>5, <2>7, <2>8, <2>10, <2>11, <2>12, <2>13,
       <2>14, <2>15, <2>16, <2>17, <2>18, Constants
    DEF Next, GameThread, UserTurn, UserAnswers
<1>2. ASSUME [Next]_vars, gameOn' PROVE gameOn
  BY <1>2 DEF Next, GameThread, UserTurn, UserAnswers, SkipEliminated, AwaitUser,
     TakeUserMove, AIChooses, AIPicksTarget, SkipAsked, Allows, Challenges,
     AskingDone, ClaimProved, BluffCalled, ActCoins, ActSteal, ActKill, AIExchange,
     UserDraws, UserReturns, ReplaceProof, CheckGameOver, LeaveLoop, EndGame,
     UserMoves, FirstDialog, SecondDialog, AnswerDialog, vars
<1>3. ASSUME TypeInv, [Next]_vars PROVE [Progress]_vars
  BY <1>1, <1>2, <1>3 DEF Progress
<1>4. Spec => []TypeInv
  BY TypeInit, TypeStep, PTL DEF Spec
<1> QED BY <1>3, <1>4, PTL DEF Spec, TurnsNeverDrag
=============================================================================

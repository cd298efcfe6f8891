--------------------------- MODULE CoupRulesProofs ---------------------------
(***************************************************************************)
(* CoupGame implements CoupRules under the mapping of CoupGameRules, for   *)
(* every number of seats and every deck: the initial states map to the     *)
(* initial state, and every step maps to a step of the rules or a stutter. *)
(***************************************************************************)
EXTENDS CoupVerdictProofs, CoupGameRules

\* Whom the moves are aimed at, until they are carried out; who challenges; and
\* that the places of an exchange are only reached by one.
TargetInv ==
    /\ playerMove # NoMove =>
          /\ (playerMove.name \in Targeted) = (playerMove.target # User)
          /\ playerMove.name \in {"coup", "assassinate"} => ~Eliminated(playerMove.target)
    /\ pc \in {"ask", "prove", "act"} /\ move.name \in Targeted => move.target # turnInd
    /\ pc = "prove" => challengeTurnInd \in Player /\ ~Skipped(challengeTurnInd)
    /\ pc \in {"dialog0", "dialog1", "return"} => move.name = "exchange"

RulesInv == CardInv /\ PurseInv /\ TargetInv

\* The vocabulary of the instance is that of the game.
LEMMA SameWords ==
    /\ Rules!Player = Player /\ Rules!User = User /\ Rules!Slot = Slot
    /\ Rules!MoveName = MoveName /\ Rules!Targeted = Targeted
    /\ Rules!Unchallengeable = Unchallengeable
    /\ Rules!NoClaim = NoMove
    /\ \A n : Rules!Gain(n) = Gain(n)
    /\ \A p : Rules!After(p) = NextPlayer(p)
<1>1. Rules!Player = Player /\ Rules!User = User /\ Rules!Slot = Slot
  BY DEF Rules!Player, Player, Rules!User, User, Rules!Slot, Slot
<1>2. /\ Rules!MoveName = MoveName /\ Rules!Targeted = Targeted
      /\ Rules!Unchallengeable = Unchallengeable
  BY DEF Rules!MoveName, MoveName, Rules!Targeted, Targeted,
         Rules!Unchallengeable, Unchallengeable
<1>3. Rules!NoClaim = NoMove
  BY <1>1 DEF Rules!NoClaim, NoMove
<1>4. \A n : Rules!Gain(n) = Gain(n)
  BY DEF Rules!Gain, Gain
<1>5. \A p : Rules!After(p) = NextPlayer(p)
  BY DEF Rules!After, NextPlayer
<1> QED BY <1>1, <1>2, <1>3, <1>4, <1>5

-----------------------------------------------------------------------------
(***************************************************************************)
(* The invariant.                                                          *)
(***************************************************************************)

LEMMA RulesInvInit == Init => RulesInv
<1> SUFFICES ASSUME Init PROVE RulesInv
  OBVIOUS
<1>1. playerMove = NoMove /\ pc = "top"
  BY DEF Init
<1> QED BY <1>1, CardInit, PurseInit DEF RulesInv, TargetInv

LEMMA TargetStep == RulesInv /\ [Next]_vars => TargetInv'
<1> SUFFICES ASSUME RulesInv, [Next]_vars PROVE TargetInv'
  OBVIOUS
<1>0. TypeInv /\ TypeInv' /\ TargetInv /\ ChosenInv
  BY TypeStep DEF RulesInv, CardInv, PurseInv
<1>t. turnInd \in Player /\ User \in Player
  BY <1>0, Constants DEF TypeInv, TypeOK
\* The table is as it was, and no new move, challenge or exchange begins.
<1>1. ASSUME UNCHANGED <<hand, revealed, playerMove, turnInd, move>>,
             pc' \in {"ask", "prove", "act"} => pc \in {"ask", "prove", "act"},
             pc' # "prove" \/ UNCHANGED <<pc, challengeTurnInd>>,
             pc' \notin {"dialog0", "dialog1", "return"} \/ pc' = pc
      PROVE  TargetInv'
  BY <1>0, <1>1, SameTable DEF TargetInv, Skipped
\* The user has no move in store, and none is announced.
<1>2. ASSUME playerMove' = NoMove, pc' \notin {"ask", "prove", "act"},
             pc' \in {"dialog0", "dialog1", "return"} => move'.name = "exchange"
      PROVE  TargetInv'
  BY <1>2 DEF TargetInv
<1>3. ASSUME NEW m, Announce(m), playerMove' = NoMove, turnInd' = turnInd,
             m.name \in Targeted => m.target # turnInd
      PROVE  TargetInv'
  BY <1>3 DEF Announce, TargetInv
<1>4. CASE SkipEliminated
  <2>1. turnInd # User
    BY <1>4, <1>t DEF RulesInv, PurseInv, SkipEliminated, VerdictInv, ContestInv, Contest
  <2>2. playerMove' = NoMove
    BY <1>0, <1>4, <2>1 DEF SkipEliminated, ChosenInv
  <2> QED BY <1>2, <1>4, <2>2 DEF SkipEliminated
<1>5. CASE AwaitUser \/ LeaveLoop \/ SkipAsked \/ EndGame \/ UNCHANGED vars
  BY <1>1, <1>5 DEF AwaitUser, LeaveLoop, SkipAsked, EndGame, cardVars, turnVars, vars
<1>6. CASE TakeUserMove
  BY <1>0, <1>3, <1>6 DEF TakeUserMove, TargetInv
<1>7. ASSUME NEW n \in MoveName, AIChooses(n) PROVE TargetInv'
  <2>1. playerMove' = NoMove /\ turnInd' = turnInd
    BY <1>0, <1>7 DEF AIChooses, ChosenInv
  <2>2. CASE n \notin Targeted /\ Announce([name |-> n, target |-> turnInd])
    BY <1>3, <2>1, <2>2
  <2>3. CASE pc' = "target"
    BY <1>2, <2>1, <2>3
  <2> QED BY <1>7, <2>2, <2>3 DEF AIChooses
<1>8. ASSUME NEW t \in Player, AIPicksTarget(t) PROVE TargetInv'
  <2> DEFINE m == [move EXCEPT !.target = t]
  <2>1. m.target = t
    BY <1>0, <1>8 DEF AIPicksTarget, TypeInv, MoveChosen
  <2>2. playerMove' = NoMove /\ turnInd' = turnInd /\ t # turnInd /\ Announce(m)
    BY <1>0, <1>8 DEF AIPicksTarget, ChosenInv
  <2> HIDE DEF m
  <2> QED BY <1>3, <2>1, <2>2
<1>9. ASSUME NEW p \in Player, Allows(p) PROVE TargetInv'
  BY <1>1, <1>9 DEF Allows, cardVars
<1>10. ASSUME NEW p \in Player, Challenges(p) PROVE TargetInv'
  <2>1. challengeTurnInd' = p /\ ~Skipped(p)
    BY <1>10 DEF Challenges, CanAnswer
  <2>2. ~Skipped(p)'
    BY <1>10, <2>1, SameTable DEF Challenges, Skipped, cardVars
  <2>3. playerMove' = NoMove
    BY <1>0, <1>10 DEF Challenges, ChosenInv
  <2>4. Skipped(challengeTurnInd)' <=> Skipped(p)'
    BY <2>1 DEF Skipped, Eliminated
  <2> QED BY <1>0, <1>10, <2>1, <2>2, <2>3, <2>4 DEF Challenges, TargetInv
<1>11. CASE AskingDone
  BY <1>1, <1>11 DEF AskingDone, cardVars, turnVars
<1>12. CASE ClaimProved
  <2>1. playerMove' = NoMove
    BY <1>0, <1>12 DEF ClaimProved, ChosenInv
  <2> QED BY <1>0, <1>12, <2>1 DEF ClaimProved, TargetInv
<1>13. CASE BluffCalled
  BY <1>0, <1>2, <1>13 DEF BluffCalled, ChosenInv
<1>14. CASE ActCoins \/ ActSteal \/ ActKill \/ AIExchange \/ UserReturns \/ ReplaceProof
  BY <1>0, <1>2, <1>14
  DEF ActCoins, ActSteal, ActKill, AIExchange, UserReturns, ReplaceProof, AfterAct, ChosenInv
<1>15. CASE UserDraws
  BY <1>0, <1>2, <1>15 DEF UserDraws, turnVars, ChosenInv
<1>16. ASSUME NEW k \in Slot \cup {NoSlot}, FirstDialog(k) \/ SecondDialog(k)
       PROVE  TargetInv'
  BY <1>0, <1>2, <1>16
  DEF FirstDialog, SecondDialog, AnswerDialog, turnVars, ChosenInv, TargetInv
<1>17. CASE CheckGameOver
  BY <1>0, <1>2, <1>17 DEF CheckGameOver, ChosenInv
<1>18. ASSUME NEW n \in MoveName, NEW t \in Player,
              UserMoves([name |-> n, target |-> t]) PROVE TargetInv'
  <2> DEFINE m == [name |-> n, target |-> t]
  <2>1. /\ playerMove' = m /\ UserCan(m) /\ pc' = "top"
        /\ UNCHANGED <<hand, revealed>>
    BY <1>18 DEF UserMoves, cardVars
  <2>2. /\ (m.name \in Targeted) = (m.target # User)
        /\ m.name \in {"coup", "assassinate"} => ~Eliminated(m.target)
    BY <2>1 DEF UserCan
  <2>3. Eliminated(m.target)' <=> Eliminated(m.target)
    BY <2>1, SameTable
  <2>4. Eliminated(playerMove.target)' <=> Eliminated(m.target)'
    BY <2>1 DEF Eliminated
  <2> HIDE DEF m
  <2> QED BY <2>1, <2>2, <2>3, <2>4 DEF TargetInv
<1> QED
  BY <1>t, <1>4, <1>5, <1>6, <1>7, <1>8, <1>9, <1>10, <1>11, <1>12, <1>13, <1>14,
     <1>15, <1>16, <1>17, <1>18
  DEF Next, GameThread, UserTurn, UserAnswers

LEMMA RulesInvStep == RulesInv /\ [Next]_vars => RulesInv'
  BY CardStep, PurseStep, TargetStep DEF RulesInv

-----------------------------------------------------------------------------
(***************************************************************************)
(* The abstract state.                                                     *)
(***************************************************************************)

\* The abstract influence, read off the cards.
LEMMA InfluenceIff ==
    /\ InfluenceNow \in [Player -> SUBSET Slot]
    /\ InfluenceNow' \in [Player -> SUBSET Slot]
    /\ \A p \in Player : InfluenceNow[p] = Influence(p)
    /\ \A p \in Player : InfluenceNow'[p] = Influence(p)'
    /\ \A p \in Player, s \in Slot :
          s \in Influence(p) <=> ~revealed[hand[p][s]] \/ s \in Shown(p)
    /\ \A p \in Player, s \in Slot :
          s \in Influence(p)' <=> ~revealed'[hand'[p][s]] \/ s \in Shown(p)'
  BY DEF InfluenceNow, Influence

\* Two states agree in the influence of everybody if they agree slot by slot.
LEMMA SameInfluence ==
  ASSUME \A p \in Player, s \in Slot : s \in Influence(p)' <=> s \in Influence(p)
  PROVE  InfluenceNow' = InfluenceNow
<1>1. \A p \in Player : Influence(p) \subseteq Slot /\ Influence(p)' \subseteq Slot
  BY DEF Influence
<1>2. \A p \in Player : Influence(p)' = Influence(p)
  BY <1>1
<1> QED BY <1>2 DEF InfluenceNow

\* So it is when no card moves or is turned, and no proof is shown or replaced.
LEMMA SameCards ==
  ASSUME UNCHANGED <<hand, revealed>>,
         \A p \in Player : Shown(p)' \cap Slot = Shown(p) \cap Slot
  PROVE  InfluenceNow' = InfluenceNow
<1>1. \A p \in Player, s \in Slot : s \in Shown(p)' <=> s \in Shown(p)
  OBVIOUS
<1> QED BY <1>1, SameInfluence, InfluenceIff

\* Outside a proof nothing is shown.
LEMMA NothingShown ==
  ASSUME theCard \notin Slot \/ pc \in {"top", "check", "over"}
  PROVE  \A p : Shown(p) \cap Slot = {}
  BY DEF Shown

\* Every stage of a turn is one of the places the game thread may be in.
LEMMA StageValue ==
    /\ pc \in {"top", "idle"} => StageNow = "choose"
    /\ pc = "target" => StageNow = "aim"
    /\ pc \in {"ask", "prove"} => StageNow = "claimed"
    /\ pc \in {"act", "dialog0", "dialog1", "return"} => StageNow = "effect"
    /\ pc \in {"replace", "check"} => StageNow = "end"
    /\ pc = "over" => StageNow = "over"
    /\ pc' \in {"top", "idle"} => StageNow' = "choose"
    /\ pc' = "target" => StageNow' = "aim"
    /\ pc' \in {"ask", "prove"} => StageNow' = "claimed"
    /\ pc' \in {"act", "dialog0", "dialog1", "return"} => StageNow' = "effect"
    /\ pc' \in {"replace", "check"} => StageNow' = "end"
    /\ pc' = "over" => StageNow' = "over"
  BY DEF StageNow

\* A new deal is the start of a game by the rules.
LEMMA RulesInit == Init => Rules!Init
<1> SUFFICES ASSUME Init PROVE Rules!Init
  OBVIOUS
<1>1. TypeInv /\ revealed = [c \in Card |-> FALSE] /\ coins = [p \in Player |-> 2]
  BY TypeInit DEF Init
<1>2. /\ turnInd = 0 /\ pc = "top" /\ move = NoMove /\ gameOn = TRUE
      /\ status = "You Lost"
  BY DEF Init
<1>3. \A p \in Player, s \in Slot : hand[p][s] \in Card
  BY <1>1 DEF TypeInv, TypeOK
<1>4. \A p \in Player : Influence(p) = Slot
  BY <1>1, <1>3, InfluenceIff DEF Influence
<1>5. InfluenceNow = [p \in Player |-> Slot]
  BY <1>4 DEF InfluenceNow
<1>6. StageNow = "choose"
  BY <1>2, StageValue
<1> QED BY <1>1, <1>2, <1>5, <1>6, SameWords DEF Rules!Init, User

-----------------------------------------------------------------------------
(***************************************************************************)
(* Lost influence.                                                         *)
(***************************************************************************)

\* Every card is in one slot, and is a card.
LEMMA OneSlot ==
  ASSUME CardInv
  PROVE  /\ hand \in [Player -> [Slot -> Card]] /\ revealed \in [Card -> BOOLEAN]
         /\ \A p \in Player, s \in Slot : hand[p][s] \in Card
         /\ \A p, q \in Player : \A s, t \in Slot :
               hand[p][s] = hand[q][t] => p = q /\ s = t
<1>1. hand \in [Player -> [Slot -> Card]] /\ revealed \in [Card -> BOOLEAN]
  BY DEF CardInv, TypeInv, TypeOK
<1> QED BY <1>1 DEF CardInv, CardsConserved

\* revealCard turns up the card of one slot of its player, which the player
\* loses; of a player who is out it turns up nothing new.
LEMMA RevealLoses ==
  ASSUME CardInv, NEW q \in Player, Shown(q) \cap Slot = {}
  PROVE  \E lost \in Rules!Losable(q) :
            \A p \in Player, s \in Slot :
               RevealFirst(q)[hand[p][s]] <=> revealed[hand[p][s]] \/ (p = q /\ s = lost)
<1> DEFINE lost == IF revealed[hand[q][0]] THEN 1 ELSE 0
<1>1. lost \in Slot
  BY DEF Slot
<1>2. RevealFirst(q) = [c \in Card |-> revealed[c] \/ c = hand[q][lost]]
  BY DEF RevealFirst
<1>3. lost \in Rules!Losable(q)
  <2>1. CASE Influence(q) = {}
    BY <1>1, <2>1, SameWords, InfluenceIff DEF Rules!Losable, Rules!InGame
  <2>2. CASE Influence(q) # {}
    <3>1. PICK s \in Slot : ~revealed[hand[q][s]]
      BY <2>2 DEF Influence
    <3>2. ~revealed[hand[q][lost]]
      BY <3>1 DEF Slot
    <3>3. lost \in Influence(q)
      BY <1>1, <3>2, InfluenceIff
    <3> HIDE DEF lost
    <3> QED BY <2>2, <3>3, InfluenceIff DEF Rules!Losable, Rules!InGame
  <2> QED BY <2>1, <2>2
<1> HIDE DEF lost
<1>4. \A p \in Player, s \in Slot :
         RevealFirst(q)[hand[p][s]] <=> revealed[hand[p][s]] \/ (p = q /\ s = lost)
  <2> SUFFICES ASSUME NEW p \in Player, NEW s \in Slot
               PROVE  RevealFirst(q)[hand[p][s]] <=>
                         revealed[hand[p][s]] \/ (p = q /\ s = lost)
    OBVIOUS
  <2>1. hand[p][s] \in Card
    BY OneSlot
  <2>2. hand[p][s] = hand[q][lost] <=> p = q /\ s = lost
    BY <1>1, OneSlot
  <2>3. RevealFirst(q)[hand[p][s]] <=> revealed[hand[p][s]] \/ hand[p][s] = hand[q][lost]
    BY <1>2, <2>1
  <2> QED BY <2>2, <2>3
<1> QED BY <1>3, <1>4

\* The influence after q has lost a slot ...
LEMMA InfluenceLost ==
  ASSUME NEW q \in Player, NEW lost \in Slot,
         \A p \in Player, s \in Slot :
            s \in Influence(p)' <=> s \in Influence(p) /\ ~(p = q /\ s = lost)
  PROVE  InfluenceNow' = [InfluenceNow EXCEPT ![q] = @ \ {lost}]
<1> DEFINE f == InfluenceNow
           g == [f EXCEPT ![q] = @ \ {lost}]
<1>1. f \in [Player -> SUBSET Slot] /\ f' \in [Player -> SUBSET Slot]
  BY InfluenceIff
<1>2. g \in [Player -> SUBSET Slot]
  BY <1>1
<1>3. \A p \in Player, s \in Slot : s \in f'[p] <=> s \in f[p] /\ ~(p = q /\ s = lost)
  BY InfluenceIff
<1>4. \A p \in Player, s \in Slot : s \in g[p] <=> s \in f[p] /\ ~(p = q /\ s = lost)
  <2> HIDE DEF f
  <2>1. g[q] = f[q] \ {lost} /\ \A p \in Player \ {q} : g[p] = f[p]
    BY <1>1
  <2> HIDE DEF g
  <2> QED BY <2>1
<1> HIDE DEF f, g
<1>5. ASSUME NEW p \in Player PROVE f'[p] = g[p]
  <2>1. f'[p] \subseteq Slot /\ g[p] \subseteq Slot
    BY <1>1, <1>2
  <2> QED BY <1>3, <1>4, <2>1
<1>6. f' = g
  BY <1>1, <1>2, <1>5
<1> QED BY <1>6 DEF f, g

\* ... and the player on turn, another one, shows the card of a slot.
LEMMA InfluenceShown ==
  ASSUME NEW q \in Player, NEW lost \in Slot, NEW shown \in Slot,
         turnInd \in Player, q # turnInd,
         \A p \in Player, s \in Slot : s \in Influence(p)' <=>
            (s \in Influence(p) /\ ~(p = q /\ s = lost)) \/ (p = turnInd /\ s = shown)
  PROVE  InfluenceNow' =
            [InfluenceNow EXCEPT ![q] = @ \ {lost}, ![turnInd] = @ \cup {shown}]
<1> DEFINE f == InfluenceNow
           i == turnInd
           g == [f EXCEPT ![q] = @ \ {lost}, ![i] = @ \cup {shown}]
<1>1. f \in [Player -> SUBSET Slot] /\ f' \in [Player -> SUBSET Slot]
  BY InfluenceIff
<1>2. g \in [Player -> SUBSET Slot]
  BY <1>1
<1>3. \A p \in Player, s \in Slot : s \in f'[p] <=>
         (s \in f[p] /\ ~(p = q /\ s = lost)) \/ (p = i /\ s = shown)
  BY InfluenceIff
<1>4. \A p \in Player, s \in Slot : s \in g[p] <=>
         (s \in f[p] /\ ~(p = q /\ s = lost)) \/ (p = i /\ s = shown)
  <2> HIDE DEF f, i
  <2>0. i \in Player /\ q # i
    BY DEF i
  <2>1. /\ g[q] = f[q] \ {lost} /\ g[i] = f[i] \cup {shown}
        /\ \A p \in Player \ {q, i} : g[p] = f[p]
    BY <1>1, <2>0
  <2> HIDE DEF g
  <2> QED BY <2>0, <2>1
<1> HIDE DEF f, g
<1>5. ASSUME NEW p \in Player PROVE f'[p] = g[p]
  <2>1. f'[p] \subseteq Slot /\ g[p] \subseteq Slot
    BY <1>1, <1>2
  <2> QED BY <1>3, <1>4, <2>1
<1>6. f' = g
  BY <1>1, <1>2, <1>5
<1> QED BY <1>6 DEF f, g, i

-----------------------------------------------------------------------------
(***************************************************************************)
(* The simulation.                                                         *)
(***************************************************************************)

\* Where no proof is being replaced, influence is what is face down.
LEMMA InGameIff ==
  ASSUME RulesInv, pc \in {"top", "idle", "target", "ask", "prove", "check"}
  PROVE  \A p \in Player : Rules!InGame(p) <=> ~Eliminated(p)
<1>1. \A p : Shown(p) \cap Slot = {}
  BY Constants, NothingShown DEF RulesInv, CardInv, TypeInv, CardsInFlight
<1> QED BY <1>1, InfluenceIff DEF Rules!InGame, Influence, Eliminated

\* isGameOver decides as the rules do.
LEMMA SameDecision ==
  ASSUME RulesInv, pc = "check"
  PROVE  Rules!Decided <=> Decided
<1>1. \A p \in Player : Rules!InGame(p) <=> ~Eliminated(p)
  BY InGameIff
<1>2. Decided <=> Eliminated(User) \/ \A p \in Player \ {User} : Eliminated(p)
  BY CountIsRight DEF Decided, Contest
<1> QED BY <1>1, <1>2, SameWords, Constants DEF Rules!Decided

\* The choice of a move.
LEMMA ChoiceStep ==
  ASSUME RulesInv, TakeUserMove \/ (\E n \in MoveName : AIChooses(n))
                      \/ (\E t \in Player : AIPicksTarget(t))
  PROVE  Rules!Next
<1>t. /\ TypeInv /\ TargetInv /\ ChosenInv /\ User \in Player /\ turnInd \in Player
      /\ coins \in [Player -> Int]
  BY Constants DEF RulesInv, CardInv, TypeInv, TypeOK, PurseInv
<1>p. \A p \in Player : coins[p] \in Int
  BY <1>t
<1>s. \A p : Shown(p) \cap Slot = {} /\ Shown(p)' \cap Slot = {}
  BY <1>t, Constants
  DEF Shown, TypeInv, CardsInFlight, TakeUserMove, AIChooses, AIPicksTarget
<1>i. InfluenceNow' = InfluenceNow
  BY <1>s, SameCards DEF TakeUserMove, AIChooses, AIPicksTarget, cardVars
<1>1. ASSUME NEW m, Announce(m) PROVE StageNow' = Rules!Announced(m.name)
  BY <1>1, StageValue, SameWords DEF Announce, Rules!Announced
<1>2. CASE TakeUserMove
  <2>1. /\ pc = "top" /\ gameOn /\ ~Eliminated(turnInd) /\ turnInd = User
        /\ playerMove # NoMove /\ Announce(playerMove)
        /\ UNCHANGED <<coins, turnInd, gameOn, status>>
    BY <1>2 DEF TakeUserMove
  <2> DEFINE n == playerMove.name
             t == playerMove.target
  <2>2. n \in MoveName /\ t \in Player /\ playerMove = [name |-> n, target |-> t]
    BY <1>t, <2>1 DEF TypeInv, TypeOK
  <2>3. StageNow = "choose" /\ StageNow' = Rules!Announced(n) /\ Rules!InGame(turnInd)
    BY <1>1, <1>t, <2>1, StageValue, InGameIff
  <2>4. move' = [name |-> n, target |-> t]
    BY <2>1, <2>2 DEF Announce
  <2>5. Rules!Affordable(n)
    BY <1>t, <2>1, SameWords DEF Rules!Affordable, ChosenInv, Payable
  <2>6. IF n \in Rules!Targeted THEN Rules!Aimable(n, t) ELSE t = turnInd
    BY <1>t, <2>1, <2>2, SameWords, InGameIff DEF TargetInv, Rules!Aimable
  <2> HIDE DEF n, t
  <2>7. Rules!Choose(n, t)
    BY <1>i, <2>1, <2>3, <2>4, <2>5, <2>6 DEF Rules!Choose
  <2> QED BY <2>2, <2>7, SameWords DEF Rules!Next
<1>3. ASSUME NEW n \in MoveName, AIChooses(n) PROVE Rules!Next
  <2>1. /\ pc = "top" /\ gameOn /\ ~Eliminated(turnInd) /\ turnInd # User
        /\ (coins[turnInd] >= 7) = (n = "coup")
        /\ n = "assassinate" => coins[turnInd] >= 3
        /\ UNCHANGED <<coins, turnInd, gameOn, status>>
    BY <1>3 DEF AIChooses, AICan, Weighted
  <2>2. StageNow = "choose" /\ Rules!InGame(turnInd)
    BY <1>t, <2>1, StageValue, InGameIff
  <2>3. Rules!Affordable(n)
    BY <2>1, SameWords DEF Rules!Affordable
  <2>4. CASE n \notin Targeted /\ Announce([name |-> n, target |-> turnInd])
    <3> DEFINE m == [name |-> n, target |-> turnInd]
    <3>1. m.name = n /\ move' = m /\ Announce(m)
      BY <2>4 DEF Announce
    <3>2. StageNow' = Rules!Announced(n)
      BY <1>1, <3>1
    <3>3. Rules!Choose(n, turnInd)
      BY <1>i, <2>1, <2>2, <2>3, <2>4, <3>1, <3>2, SameWords DEF Rules!Choose
    <3> QED BY <1>t, <3>3, SameWords DEF Rules!Next
  <2>5. CASE /\ n \in Targeted /\ move' = [name |-> n, target |-> turnInd]
             /\ pc' = "target"
    <3>1. Rules!Declare(n)
      BY <1>i, <2>1, <2>2, <2>3, <2>5, StageValue, SameWords DEF Rules!Declare
    <3> QED BY <3>1, SameWords DEF Rules!Next
  <2> QED BY <1>3, <2>4, <2>5 DEF AIChooses
<1>4. ASSUME NEW t \in Player, AIPicksTarget(t) PROVE Rules!Next
  <2> DEFINE m == [move EXCEPT !.target = t]
  <2>1. /\ pc = "target" /\ t # turnInd /\ ~Eliminated(t) /\ Announce(m) /\ move' = m
        /\ move.name = "steal" => coins[t] >= 2
        /\ UNCHANGED <<coins, turnInd, gameOn, status>>
    BY <1>4 DEF AIPicksTarget, Announce
  <2>2. m.name = move.name
    BY <1>t, <2>1 DEF TypeInv, MoveChosen
  <2>3. StageNow = "aim" /\ StageNow' = Rules!Announced(move.name)
    BY <1>1, <2>1, <2>2, StageValue
  <2>4. Rules!Aimable(move.name, t)
    BY <1>t, <2>1, InGameIff DEF Rules!Aimable
  <2>5. Rules!Aim(t)
    BY <1>i, <2>1, <2>3, <2>4 DEF Rules!Aim
  <2> QED BY <2>5, SameWords DEF Rules!Next
<1> QED BY <1>2, <1>3, <1>4

\* A challenge: its loser loses one influence.
LEMMA ChallengeStep ==
  ASSUME RulesInv, ClaimProved \/ BluffCalled
  PROVE  Rules!Next
<1>t. /\ CardInv /\ TypeInv /\ TargetInv /\ turnInd \in Player /\ pc = "prove"
      /\ theCard = NoSlot
  BY DEF RulesInv, CardInv, TypeInv, TypeOK, CardsInFlight, ClaimProved, BluffCalled
<1>c. /\ challengeTurnInd \in Player /\ challengeTurnInd # turnInd
      /\ Rules!InGame(challengeTurnInd)
  BY <1>t, InGameIff DEF TargetInv, Skipped
<1>s. \A p : Shown(p) \cap Slot = {}
  BY <1>t, Constants, NothingShown
<1>1. CASE ClaimProved
  <2> DEFINE q == challengeTurnInd
             s == theCard'
  <2>1. /\ s \in Slot /\ pc' = "act" /\ HasCard(turnInd, move.name)
        /\ revealed' = [RevealFirst(q) EXCEPT ![hand[turnInd][s]] = TRUE]
        /\ UNCHANGED <<hand, coins, turnInd, move, gameOn, status>>
    BY <1>1, ProofSlotType DEF ClaimProved
  <2>2. PICK lost \in Rules!Losable(q) :
           \A p \in Player, u \in Slot :
              RevealFirst(q)[hand[p][u]] <=> revealed[hand[p][u]] \/ (p = q /\ u = lost)
    BY <1>t, <1>c, <1>s, RevealLoses
  <2>3. lost \in Slot
    BY <1>c, InfluenceIff, SameWords DEF Rules!Losable, Influence
  <2>4. \A p \in Player : Shown(p)' = IF p = turnInd THEN {s} ELSE {}
    BY <2>1 DEF Shown, Place
  <2> HIDE DEF s
  <2>5. ASSUME NEW p \in Player, NEW u \in Slot
        PROVE  u \in Influence(p)' <=>
                  (u \in Influence(p) /\ ~(p = q /\ u = lost)) \/ (p = turnInd /\ u = s)
    <3>1. u \in Influence(p) <=> ~revealed[hand[p][u]]
      BY <1>s, InfluenceIff
    <3>2. hand[p][u] = hand[turnInd][s] <=> p = turnInd /\ u = s
      BY <1>t, <2>1, OneSlot
    <3>3. hand[p][u] \in Card /\ RevealFirst(q) \in [Card -> BOOLEAN]
      BY <1>t, OneSlot, RevealType
    <3>4. revealed'[hand[p][u]] <=>
             hand[p][u] = hand[turnInd][s] \/ RevealFirst(q)[hand[p][u]]
      BY <2>1, <3>3
    <3>5. u \in Influence(p)' <=> ~revealed'[hand[p][u]] \/ u \in Shown(p)'
      BY <2>1, InfluenceIff
    <3>6. u \in Shown(p)' <=> p = turnInd /\ u = s
      BY <2>4
    <3> QED BY <2>2, <3>1, <3>2, <3>4, <3>5, <3>6
  <2>6. InfluenceNow' = [InfluenceNow EXCEPT ![q] = @ \ {lost}, ![turnInd] = @ \cup {s}]
    BY <1>t, <1>c, <2>1, <2>3, <2>5, InfluenceShown
  <2>7. Rules!InGame(turnInd)
    BY <1>t, <2>1, InGameIff DEF HasCard, Eliminated
  <2> HIDE DEF q
  <2>8. q \in Player /\ q # turnInd /\ Rules!InGame(q)
    BY <1>c DEF q
  <2>9. Rules!Uphold(q, s)
    BY <1>t, <2>1, <2>2, <2>6, <2>7, <2>8, StageValue DEF Rules!Uphold
  <2> QED BY <2>1, <2>8, <2>9, SameWords DEF Rules!Next
<1>2. CASE BluffCalled
  <2>1. /\ pc' = "check" /\ revealed' = RevealFirst(turnInd)
        /\ UNCHANGED <<hand, coins, turnInd, move, gameOn, status>>
    BY <1>2 DEF BluffCalled, turnVars
  <2>2. PICK lost \in Rules!Losable(turnInd) :
           \A p \in Player, u \in Slot :
              RevealFirst(turnInd)[hand[p][u]] <=>
                 revealed[hand[p][u]] \/ (p = turnInd /\ u = lost)
    BY <1>t, <1>s, RevealLoses
  <2>3. lost \in Slot
    BY <1>t, InfluenceIff, SameWords DEF Rules!Losable, Influence
  <2>4. \A p : Shown(p)' = {}
    BY <2>1 DEF Shown
  <2>5. \A p \in Player, u \in Slot :
           u \in Influence(p)' <=> u \in Influence(p) /\ ~(p = turnInd /\ u = lost)
    BY <1>s, <2>1, <2>2, <2>4, InfluenceIff
  <2>6. InfluenceNow' = [InfluenceNow EXCEPT ![turnInd] = @ \ {lost}]
    BY <1>t, <2>3, <2>5, InfluenceLost
  <2>7. Rules!Loses(turnInd)
    BY <2>2, <2>6 DEF Rules!Loses
  <2>8. Rules!Refute(challengeTurnInd)
    BY <1>t, <1>c, <2>1, <2>7, StageValue DEF Rules!Refute
  <2> QED BY <1>c, <2>8, SameWords DEF Rules!Next
<1> QED BY <1>1, <1>2

\* What a move does: the purses change as the rules say, and a coup or an
\* assassination costs its target one influence.
LEMMA EffectStep ==
  ASSUME RulesInv, ActCoins \/ ActSteal \/ ActKill \/ AIExchange \/ UserReturns
  PROVE  Rules!Next
<1>t. /\ CardInv /\ TypeInv /\ TargetInv /\ turnInd \in Player
      /\ coins \in [Player -> Int] /\ move \in [name : MoveName, target : Player]
      /\ theCard \in Slot \cup {NoSlot} /\ theCard # NoSlot => theCard \in Slot
  BY DEF RulesInv, CardInv, TypeInv, TypeOK, MoveChosen, CardsInFlight,
     ActCoins, ActSteal, ActKill, AIExchange, UserReturns
<1>1. /\ pc \in {"act", "return"} /\ pc' = AfterAct /\ pc' \in {"check", "replace"}
      /\ StageNow = "effect" /\ StageNow' = "end"
      /\ UNCHANGED <<turnInd, move, gameOn, status, theCard>>
  <2>1. /\ pc \in {"act", "return"} /\ pc' = AfterAct
        /\ UNCHANGED <<turnInd, move, gameOn, status, theCard>>
    BY DEF ActCoins, ActSteal, ActKill, AIExchange, UserReturns, turnVars
  <2>2. pc' \in {"check", "replace"}
    BY <2>1 DEF AfterAct
  <2> QED BY <2>1, <2>2, StageValue
\* The proof stays shown until it is replaced.
<1>s. \A p : Shown(p)' \cap Slot = Shown(p) \cap Slot
  BY <1>t, <1>1, Constants DEF Shown, AfterAct, Place
<1>2. CASE ActCoins
  <2>1. /\ move.name \in {"income", "foreignAid", "tax"} /\ UNCHANGED <<hand, revealed>>
        /\ coins' = [coins EXCEPT ![turnInd] = @ + Gain(move.name)]
    BY <1>2 DEF ActCoins, cardVars
  <2>2. InfluenceNow' = InfluenceNow
    BY <1>s, <2>1, SameCards
  <2>3. Rules!Effect
    BY <1>1, <2>1, <2>2, SameWords DEF Rules!Effect, Rules!Paid
  <2> QED BY <2>3 DEF Rules!Next
<1>3. CASE ActSteal
  <2>1. /\ move.name = "steal" /\ UNCHANGED <<hand, revealed>>
        /\ coins' = [coins EXCEPT ![move.target] = @ - 2, ![turnInd] = @ + 2]
    BY <1>3 DEF ActSteal, cardVars
  <2>2. InfluenceNow' = InfluenceNow
    BY <1>s, <2>1, SameCards
  <2>3. Rules!Effect
    BY <1>1, <2>1, <2>2, SameWords DEF Rules!Effect
  <2> QED BY <2>3 DEF Rules!Next
<1>4. CASE ActKill
  <2> DEFINE q == move.target
  <2>1. /\ pc = "act" /\ move.name \in {"coup", "assassinate"} /\ hand' = hand
        /\ coins' = [coins EXCEPT ![turnInd] = @ + Gain(move.name)]
        /\ revealed' = RevealFirst(q)
    BY <1>4 DEF ActKill
  <2>2. q \in Player /\ q # turnInd
    BY <1>t, <2>1 DEF TargetInv, Targeted
  <2>3. Shown(q) \cap Slot = {}
    BY <2>2 DEF Shown
  <2> HIDE DEF q
  <2>4. PICK lost \in Rules!Losable(q) :
           \A p \in Player, u \in Slot :
              RevealFirst(q)[hand[p][u]] <=> revealed[hand[p][u]] \/ (p = q /\ u = lost)
    BY <1>t, <2>2, <2>3, RevealLoses
  <2>5. lost \in Slot
    BY <2>2, InfluenceIff, SameWords DEF Rules!Losable, Influence
  <2>6. ASSUME NEW p \in Player, NEW u \in Slot
        PROVE  u \in Influence(p)' <=> u \in Influence(p) /\ ~(p = q /\ u = lost)
    <3>1. u \in Shown(p)' <=> u \in Shown(p)
      BY <1>s
    <3>2. p = q => u \notin Shown(p)
      BY <2>3
    <3> QED BY <2>1, <2>4, <3>1, <3>2, InfluenceIff
  <2>7. InfluenceNow' = [InfluenceNow EXCEPT ![q] = @ \ {lost}]
    BY <2>2, <2>5, <2>6, InfluenceLost
  <2>8. Rules!Loses(q)
    BY <2>4, <2>7 DEF Rules!Loses
  <2>9. Rules!Effect
    BY <1>1, <2>1, <2>8, SameWords DEF Rules!Effect, Rules!Paid, q
  <2> QED BY <2>9 DEF Rules!Next
\* An exchange changes neither purses nor influence: revealed cards stay where
\* they are, and what comes for a hidden one is face down.
<1>5. ASSUME move.name = "exchange", UNCHANGED coins, InfluenceNow' = InfluenceNow
      PROVE  Rules!Next
  <2>1. Rules!Effect
    BY <1>1, <1>5, SameWords DEF Rules!Effect
  <2> QED BY <2>1 DEF Rules!Next
<1>6. CASE AIExchange
  <2>1. PICK drawn \in [Slot -> deck] :
          hand' = [hand EXCEPT ![turnInd] =
             [s \in Slot |-> IF s \in {u \in Slot : revealed[hand[turnInd][u]]}
                             THEN hand[turnInd][s] ELSE drawn[s]]]
    BY <1>6 DEF AIExchange
  <2>2. move.name = "exchange" /\ revealed' = revealed /\ coins' = coins
    BY <1>6 DEF AIExchange
  <2>3. \A s \in Slot : ~revealed[drawn[s]]
    BY <1>t DEF CardInv, DeckFaceDown
  <2>4. ASSUME NEW p \in Player, NEW s \in Slot
        PROVE  revealed[hand'[p][s]] <=> revealed[hand[p][s]]
    BY <1>t, <2>1, <2>3, OneSlot
  <2>5. InfluenceNow' = InfluenceNow
    <3>1. \A p \in Player, s \in Slot : s \in Shown(p)' <=> s \in Shown(p)
      BY <1>s
    <3> QED BY <2>2, <2>4, <3>1, SameInfluence, InfluenceIff
  <2> QED BY <1>5, <2>2, <2>5
<1>7. CASE UserReturns
  <2>1. move.name = "exchange" /\ UNCHANGED <<hand, revealed, coins>>
    BY <1>t, <1>7 DEF UserReturns, TargetInv
  <2> QED BY <1>5, <1>s, <2>1, SameCards
<1> QED BY <1>2, <1>3, <1>4, <1>6, <1>7

\* The beginning and the end of turns and games, and a claim nobody objects to.
LEMMA TurnStep ==
  ASSUME RulesInv, SkipEliminated \/ AskingDone \/ CheckGameOver \/ LeaveLoop \/ EndGame
  PROVE  Rules!Next
<1>t. /\ TypeInv /\ turnInd \in Player /\ User \in Player /\ NoSlot \notin Slot
      /\ ContestInv /\ AskInv
  BY Constants DEF RulesInv, CardInv, TypeInv, TypeOK, PurseInv, VerdictInv
<1>1. CASE SkipEliminated
  <2>1. InfluenceNow' = InfluenceNow
    <3>1. \A p : Shown(p) \cap Slot = {} /\ Shown(p)' \cap Slot = {}
      BY <1>1 DEF SkipEliminated, Shown
    <3> QED BY <1>1, <3>1, SameCards DEF SkipEliminated, cardVars
  <2>2. ~Rules!InGame(turnInd)
    BY <1>1, <1>t, InGameIff DEF SkipEliminated
  <2>3. StageNow = "choose" /\ StageNow' = "choose"
    BY <1>1, StageValue DEF SkipEliminated
  <2>4. Rules!Pass
    BY <1>1, <2>1, <2>2, <2>3, SameWords DEF SkipEliminated, turnVars, Rules!Pass
  <2> QED BY <2>4 DEF Rules!Next
<1>2. CASE AskingDone
  <2>1. \E q \in Player \ {turnInd} : ~Eliminated(q)
    BY <1>2, <1>t DEF AskingDone, ContestInv, Contest
  <2>2. objection = "allow"
    <3>1. \A p \in Player : p < challengeTurnInd
      BY <1>2, NPAssumption DEF AskingDone, Player
    <3> QED BY <1>2, <1>t, <2>1, <3>1 DEF AskingDone, AskInv, Skipped
  <2>3. pc = "ask" /\ pc' = "act" /\ UNCHANGED <<cardVars, turnVars, coins, turnInd, gameOn, status>>
    BY <1>2, <2>2 DEF AskingDone
  <2>4. InfluenceNow' = InfluenceNow
    <3>1. \A p : Shown(p)' = Shown(p)
      BY <2>3 DEF Shown, Place, turnVars
    <3> QED BY <2>3, <3>1, SameCards DEF cardVars
  <2>5. \E q \in Player \ {turnInd} : Rules!InGame(q)
    BY <2>1, <2>3, InGameIff
  <2>6. Rules!Stand
    BY <2>3, <2>4, <2>5, StageValue, SameWords DEF turnVars, Rules!Stand
  <2> QED BY <2>6 DEF Rules!Next
<1>3. CASE CheckGameOver
  <2>1. /\ pc = "check" /\ pc' = "top" /\ UNCHANGED <<hand, revealed, coins>>
        /\ turnInd' = NextPlayer(turnInd) /\ move' = NoMove
        /\ gameOn' = (gameOn /\ ~Decided)
        /\ status' = IF ~Decided THEN status
                     ELSE IF Eliminated(User) THEN "You Lose" ELSE "You Won"
    BY <1>3 DEF CheckGameOver, cardVars
  <2>2. InfluenceNow' = InfluenceNow
    <3>1. \A p : Shown(p) \cap Slot = {} /\ Shown(p)' \cap Slot = {}
      BY <2>1 DEF Shown
    <3> QED BY <2>1, <3>1, SameCards
  <2>3. (Rules!Decided <=> Decided) /\ (Rules!InGame(User) <=> ~Eliminated(User))
    BY <1>t, <2>1, SameDecision, InGameIff
  <2>4. Rules!EndTurn
    BY <2>1, <2>2, <2>3, StageValue, SameWords DEF Rules!EndTurn
  <2> QED BY <2>4 DEF Rules!Next
<1>4. CASE LeaveLoop
  <2>1. InfluenceNow' = InfluenceNow
    <3>1. \A p : Shown(p) \cap Slot = {} /\ Shown(p)' \cap Slot = {}
      BY <1>4 DEF LeaveLoop, Shown
    <3> QED BY <1>4, <3>1, SameCards DEF LeaveLoop, cardVars
  <2>2. Rules!Leave
    BY <1>4, <2>1, StageValue DEF LeaveLoop, turnVars, Rules!Leave
  <2> QED BY <2>2 DEF Rules!Next
<1>5. CASE EndGame
  <2>1. InfluenceNow' = InfluenceNow /\ StageNow' = StageNow
    <3>1. \A p : Shown(p)' = Shown(p)
      BY <1>5 DEF EndGame, Shown, turnVars
    <3> QED BY <1>5, <3>1, SameCards DEF EndGame, cardVars, StageNow
  <2>2. Rules!Close
    BY <1>5, <2>1 DEF EndGame, turnVars, Rules!Close
  <2> QED BY <2>2 DEF Rules!Next
<1> QED BY <1>1, <1>2, <1>3, <1>4, <1>5

\* Waiting, asking, drawing and the dialogs cannot be seen by the rules.
LEMMA QuietStep ==
  ASSUME RulesInv,
         \/ AwaitUser \/ SkipAsked \/ UserDraws \/ ReplaceProof
         \/ \E p \in Player : Allows(p) \/ Challenges(p)
         \/ \E n \in MoveName, t \in Player : UserMoves([name |-> n, target |-> t])
         \/ \E k \in Slot \cup {NoSlot} : FirstDialog(k) \/ SecondDialog(k)
  PROVE  UNCHANGED Rules!vars
<1>t. /\ CardInv /\ TypeInv /\ turnInd \in Player /\ User \in Player
      /\ NoSlot \notin Slot
  BY Constants DEF RulesInv, CardInv, TypeInv, TypeOK
<1>1. ASSUME InfluenceNow' = InfluenceNow, StageNow' = StageNow,
             UNCHANGED <<coins, turnInd, move, gameOn, status>>
      PROVE  UNCHANGED Rules!vars
  BY <1>1 DEF Rules!vars
<1>2. ASSUME UNCHANGED <<hand, revealed, turnInd, theCard>>,
             pc \in {"idle", "ask", "act"}, pc' \in Place \ {"top", "check", "over"}
      PROVE  InfluenceNow' = InfluenceNow
  <2>1. \A p : Shown(p)' = Shown(p)
    BY <1>2 DEF Shown, Place
  <2> QED BY <1>2, <2>1, SameCards
<1>3. CASE AwaitUser
  <2>1. \A p : Shown(p) \cap Slot = {} /\ Shown(p)' \cap Slot = {}
    BY <1>3, <1>t DEF AwaitUser, Shown, TypeInv, CardsInFlight, turnVars
  <2>2. InfluenceNow' = InfluenceNow
    BY <1>3, <2>1, SameCards DEF AwaitUser, cardVars
  <2> QED BY <1>1, <1>3, <2>2, StageValue DEF AwaitUser, turnVars
<1>4. ASSUME NEW n \in MoveName, NEW t \in Player,
             UserMoves([name |-> n, target |-> t]) PROVE UNCHANGED Rules!vars
  <2>1. \A p : Shown(p) \cap Slot = {} /\ Shown(p)' \cap Slot = {}
    BY <1>4, <1>t DEF UserMoves, Shown, TypeInv, CardsInFlight, turnVars
  <2>2. InfluenceNow' = InfluenceNow
    BY <1>4, <2>1, SameCards DEF UserMoves, cardVars
  <2> QED BY <1>1, <1>4, <2>2, StageValue DEF UserMoves, turnVars
<1>5. CASE SkipAsked
  BY <1>1, <1>2, <1>5, StageValue DEF SkipAsked, cardVars, Place
<1>6. ASSUME NEW p \in Player, Allows(p) \/ Challenges(p) PROVE UNCHANGED Rules!vars
  BY <1>1, <1>2, <1>6, StageValue DEF Allows, Challenges, cardVars, Place
<1>7. CASE UserDraws
  BY <1>1, <1>2, <1>7, StageValue DEF UserDraws, turnVars, Place
\* A card comes for a hidden one that is hidden itself.
<1>8. ASSUME NEW k \in Slot \cup {NoSlot}, NEW s \in Slot, ~revealed[hand[User][s]],
             pc \in Dialog, AnswerDialog(s, k), pc' \in {"dialog1", "return"}
      PROVE  UNCHANGED Rules!vars
  <2>1. /\ UNCHANGED <<revealed, turnVars, coins, turnInd, gameOn, status>>
        /\ hand' # hand => k \in Slot /\ hand' = [hand EXCEPT ![User][s] = twoCards[k]]
    BY <1>8 DEF AnswerDialog, Swap
  <2>2. \A p : Shown(p)' = Shown(p)
    BY <1>8, <2>1 DEF Shown, Place, Dialog, turnVars
  <2>3. ASSUME k \in Slot PROVE ~revealed[twoCards[k]]
    <3>1. twoCards[k] \in Card
      BY <1>8, <1>t, <2>3 DEF TypeInv, CardsInFlight, Dialog
    <3>2. twoCards[k] \in Drawn
      BY <2>3, <3>1, NoCardAssumption DEF Drawn, Slot
    <3> QED BY <1>t, <3>2 DEF CardInv, DeckFaceDown
  <2>4. ASSUME NEW p \in Player, NEW u \in Slot
        PROVE  revealed'[hand'[p][u]] <=> revealed[hand[p][u]]
    <3>1. CASE hand' = hand
      BY <2>1, <3>1
    <3>2. CASE hand' # hand
      <4>1. hand'[p][u] = IF p = User /\ u = s THEN twoCards[k] ELSE hand[p][u]
        BY <1>t, <2>1, <3>2, OneSlot
      <4> QED BY <1>8, <2>1, <2>3, <3>2, <4>1
    <3> QED BY <3>1, <3>2
  <2>5. InfluenceNow' = InfluenceNow
    BY <2>2, <2>4, SameInfluence, InfluenceIff
  <2>6. StageNow' = StageNow
    BY <1>8, StageValue DEF Dialog
  <2> QED BY <1>1, <2>1, <2>5, <2>6 DEF turnVars
<1>9. ASSUME NEW k \in Slot \cup {NoSlot}, FirstDialog(k) \/ SecondDialog(k)
      PROVE  UNCHANGED Rules!vars
  <2>1. CASE FirstDialog(k)
    BY <1>8, <1>t, <2>1 DEF FirstDialog, CardInv, DialogFaceDown, Dialog, Slot
  <2>2. CASE SecondDialog(k)
    BY <1>8, <1>t, <2>2 DEF SecondDialog, CardInv, DialogFaceDown, Dialog, Slot
  <2> QED BY <1>9, <2>1, <2>2
\* The proof is influence while it is shown, and the card for it afterwards.
<1>10. CASE ReplaceProof
  <2>1. /\ pc = "replace" /\ pc' = "check" /\ theCard \in Slot /\ newCard \in Card
        /\ hand' = [hand EXCEPT ![turnInd][theCard] = newCard]
        /\ revealed' = [revealed EXCEPT ![hand[turnInd][theCard]] = FALSE]
        /\ UNCHANGED <<coins, turnInd, move, gameOn, status>>
    BY <1>10, <1>t DEF ReplaceProof, TypeInv, CardsInFlight, turnVars
  <2>2. \A p : Shown(p) = (IF p = turnInd THEN {theCard} ELSE {}) /\ Shown(p)' = {}
    BY <2>1 DEF Shown, Place
  <2>3. newCard \in Drawn
    BY <2>1, NoCardAssumption DEF Drawn
  <2>4. ~revealed[newCard]
    BY <1>t, <2>3 DEF CardInv, DeckFaceDown
  <2>5. ASSUME NEW p \in Player, NEW u \in Slot
        PROVE  u \in Influence(p)' <=> u \in Influence(p)
    <3>1. CASE p = turnInd /\ u = theCard
      <4>1. hand'[p][u] = newCard
        BY <1>t, <2>1, <3>1, OneSlot
      <4>2. ~revealed'[newCard]
        BY <1>t, <2>1, <2>4, OneSlot
      <4>3. u \in Influence(p)'
        BY <4>1, <4>2, InfluenceIff
      <4>4. u \in Influence(p)
        BY <2>2, <3>1, InfluenceIff
      <4> QED BY <4>3, <4>4
    <3>2. CASE ~(p = turnInd /\ u = theCard)
      <4>1. hand'[p][u] = hand[p][u]
        BY <1>t, <2>1, <3>2, OneSlot
      <4>2. hand[p][u] # hand[turnInd][theCard]
        BY <1>t, <2>1, <3>2, OneSlot
      <4>3. revealed'[hand[p][u]] = revealed[hand[p][u]]
        BY <1>t, <2>1, <4>2, OneSlot
      <4>4. u \notin Shown(p) /\ u \notin Shown(p)'
        BY <2>2, <3>2
      <4> QED BY <4>1, <4>3, <4>4, InfluenceIff
    <3> QED BY <3>1, <3>2
  <2>6. InfluenceNow' = InfluenceNow
    BY <2>5, SameInfluence
  <2> QED BY <1>1, <2>1, <2>6, StageValue
<1> QED BY <1>3, <1>4, <1>5, <1>6, <1>7, <1>9, <1>10

\* Nothing the rules see changes where nothing changes.
LEMMA StutterStep == UNCHANGED vars => UNCHANGED Rules!vars
<1> SUFFICES ASSUME UNCHANGED vars PROVE UNCHANGED Rules!vars
  OBVIOUS
<1>1. InfluenceNow' = InfluenceNow
  BY DEF vars, InfluenceNow, Influence, Shown
<1>2. StageNow' = StageNow
  BY DEF vars, StageNow
<1> QED BY <1>1, <1>2 DEF vars, Rules!vars

LEMMA RulesStep == RulesInv /\ [Next]_vars => [Rules!Next]_(Rules!vars)
<1> SUFFICES ASSUME RulesInv, [Next]_vars PROVE Rules!Next \/ UNCHANGED Rules!vars
  OBVIOUS
<1>1. CASE TakeUserMove \/ (\E n \in MoveName : AIChooses(n))
              \/ (\E t \in Player : AIPicksTarget(t))
  BY <1>1, ChoiceStep
<1>2. CASE ClaimProved \/ BluffCalled
  BY <1>2, ChallengeStep
<1>3. CASE ActCoins \/ ActSteal \/ ActKill \/ AIExchange \/ UserReturns
  BY <1>3, EffectStep
<1>4. CASE SkipEliminated \/ AskingDone \/ CheckGameOver \/ LeaveLoop \/ EndGame
  BY <1>4, TurnStep
<1>5. CASE \/ AwaitUser \/ SkipAsked \/ UserDraws \/ ReplaceProof
           \/ \E p \in Player : Allows(p) \/ Challenges(p)
           \/ \E n \in MoveName, t \in Player : UserMoves([name |-> n, target |-> t])
           \/ \E k \in Slot \cup {NoSlot} : FirstDialog(k) \/ SecondDialog(k)
  BY <1>5, QuietStep
<1>6. CASE UNCHANGED vars
  BY <1>6, StutterStep
<1> QED BY <1>1, <1>2, <1>3, <1>4, <1>5, <1>6, Constants
        DEF Next, GameThread, UserTurn, UserAnswers

\* runGame plays by the rules of CoupRules: a turn is one claim that is paid
\* for, at most one challenge that costs its loser one influence, and the
\* effect of the claim, once and only if it stands.
THEOREM RulesFollowed == Spec => FollowsRules
<1>1. Spec => []RulesInv
  BY RulesInvInit, RulesInvStep, PTL DEF Spec
<1>2. Spec => [][Rules!Next]_(Rules!vars)
  BY <1>1, RulesStep, PTL DEF Spec
<1>3. Spec => Rules!Init
  BY RulesInit DEF Spec
<1> QED BY <1>2, <1>3, PTL DEF FollowsRules, Rules!Spec

-----------------------------------------------------------------------------
(***************************************************************************)
(* The turns of the rules are those of module Rounds.                      *)
(***************************************************************************)

\* Who is out, as Rounds sees it.
Fallen == {p \in Player : InfluenceNow[p] = {}}

LEMMA RoundWords ==
    /\ Turns!Seats = Player
    /\ StageNow # "over" => Turns!After = NextPlayer(turnInd)
    /\ \A p \in Player : Rules!InGame(p) <=> p \notin Fallen
BY DEF Turns!Seats, Turns!After, Player, NextPlayer, Rules!InGame, Fallen

\* A player who loses a slot may be out then; nobody else is, nor comes back.
LEMMA LoserMayFall ==
    ASSUME NEW q \in Player, Rules!Loses(q)
    PROVE  Fallen' \in {Fallen, Fallen \cup {q}}
<1>1. PICK s : InfluenceNow' = [InfluenceNow EXCEPT ![q] = @ \ {s}]
  BY DEF Rules!Loses
<1>2. /\ InfluenceNow'[q] = InfluenceNow[q] \ {s}
      /\ \A p \in Player \ {q} : InfluenceNow'[p] = InfluenceNow[p]
  BY <1>1, InfluenceIff
<1>3. \A p \in Player : p \in Fallen' <=> InfluenceNow'[p] = {}
  BY DEF Fallen
<1>4. \A p \in Player \ {q} : p \in Fallen' <=> p \in Fallen
  BY <1>2, <1>3 DEF Fallen
<1>5. q \in Fallen => q \in Fallen'
  BY <1>2, <1>3 DEF Fallen
<1> QED
  BY <1>4, <1>5 DEF Fallen

LEMMA RoundInit == Rules!Init => Turns!Init
<1> SUFFICES ASSUME Rules!Init PROVE Turns!Init
  OBVIOUS
<1>1. /\ InfluenceNow = [p \in Player |-> Slot] /\ turnInd = 0 /\ StageNow = "choose"
      /\ gameOn = TRUE /\ status = "You Lost"
  BY SameWords DEF Rules!Init, User
<1>2. {p \in Player : InfluenceNow[p] = {}} = {}
  BY <1>1 DEF Slot
<1>3. NP \in Nat \ {0, 1}
  BY NPAssumption
<1> QED
  BY <1>1, <1>2, <1>3 DEF Turns!Init

LEMMA RoundStep == RulesInv /\ [Next]_vars => [Turns!Next]_(Turns!vars)
<1> SUFFICES ASSUME RulesInv, [Next]_vars PROVE Turns!Next \/ UNCHANGED Turns!vars
  OBVIOUS
<1>0. turnInd \in Player /\ \A p \in Player : Rules!InGame(p) <=> p \notin Fallen
  BY RoundWords DEF RulesInv, CardInv, TypeInv, TypeOK
<1>s. UNCHANGED InfluenceNow => UNCHANGED Fallen
  BY DEF Fallen
\* Another player in the game is an opponent.
<1>o. \A q \in Player \ {turnInd} :
         StageNow # "over" /\ Rules!InGame(q) => q \in Turns!Seats /\ Turns!Opponent(q)
  BY <1>0, RoundWords DEF Turns!Opponent, Fallen
<1>1. CASE Rules!Pass
  <2>1. /\ StageNow = "choose" /\ gameOn /\ ~Rules!InGame(turnInd)
        /\ turnInd' = NextPlayer(turnInd)
        /\ UNCHANGED <<InfluenceNow, StageNow, gameOn, status>>
    BY <1>1, SameWords DEF Rules!Pass
  <2>2. turnInd \in Fallen
    BY <1>0, <2>1
  <2> QED
    BY <2>1, <2>2, RoundWords DEF Turns!Next, Turns!Pass, Fallen
<1>2. ASSUME NEW name \in MoveName, NEW t \in Player, Rules!Choose(name, t) \/ Rules!Declare(name)
      PROVE  Turns!Begin
  <2>1. /\ StageNow = "choose" /\ gameOn /\ Rules!InGame(turnInd)
        /\ StageNow' \in {"aim", "claimed", "effect"}
        /\ UNCHANGED <<InfluenceNow, turnInd, gameOn, status>>
    BY <1>2 DEF Rules!Choose, Rules!Declare, Rules!Announced
  <2>2. turnInd \notin Fallen
    BY <1>0, <2>1
  <2> QED
    BY <2>1, <2>2 DEF Turns!Begin, Fallen
<1>3. ASSUME NEW t \in Player, Rules!Aim(t) PROVE Turns!Say
  <2>1. /\ StageNow = "aim" /\ StageNow' \in {"claimed", "effect"}
        /\ UNCHANGED <<InfluenceNow, turnInd, gameOn, status>>
    BY <1>3 DEF Rules!Aim, Rules!Announced
  <2> QED
    BY <2>1 DEF Turns!Say
<1>4. CASE Rules!Stand
  <2>1. /\ StageNow = "claimed" /\ StageNow' = "effect"
        /\ \E q \in Player \ {turnInd} : Rules!InGame(q)
        /\ UNCHANGED <<InfluenceNow, turnInd, gameOn, status>>
    BY <1>4, SameWords DEF Rules!Stand
  <2>2. \E q \in Turns!Seats : Turns!Opponent(q)
    BY <1>o, <2>1
  <2> QED
    BY <2>1, <2>2 DEF Turns!Next, Turns!Stand
<1>5. ASSUME NEW q \in Player, Rules!Refute(q) PROVE Turns!Refute
  <2>1. /\ StageNow = "claimed" /\ q # turnInd /\ Rules!InGame(q) /\ StageNow' = "end"
        /\ Rules!Loses(turnInd)
        /\ UNCHANGED <<turnInd, gameOn, status>>
    BY <1>5 DEF Rules!Refute
  <2>2. \E p \in Turns!Seats : Turns!Opponent(p)
    BY <1>o, <2>1
  <2>3. Fallen' \in {Fallen, Fallen \cup {turnInd}}
    BY <1>0, <2>1, LoserMayFall
  <2> QED
    BY <2>1, <2>2, <2>3 DEF Turns!Refute, Turns!MayFall, Fallen
<1>6. ASSUME NEW q \in Player, NEW s \in Slot, Rules!Uphold(q, s) PROVE Turns!Next
  <2>1. /\ StageNow = "claimed" /\ q # turnInd /\ Rules!InGame(q) /\ Rules!InGame(turnInd)
        /\ StageNow' = "effect"
        /\ UNCHANGED <<turnInd, gameOn, status>>
    BY <1>6 DEF Rules!Uphold
  <2>2. q \in Turns!Seats /\ Turns!Opponent(q) /\ turnInd \notin Fallen
    BY <1>0, <1>o, <2>1
  <2>3. PICK lost : InfluenceNow' = [InfluenceNow EXCEPT ![q] = @ \ {lost}, ![turnInd] = @ \cup {s}]
    BY <1>6 DEF Rules!Uphold
  <2>4. /\ InfluenceNow'[q] = InfluenceNow[q] \ {lost}
        /\ InfluenceNow'[turnInd] # {}
        /\ \A p \in Player \ {q, turnInd} : InfluenceNow'[p] = InfluenceNow[p]
    BY <1>0, <2>1, <2>3, InfluenceIff
  <2>5. \A p \in Player : p \in Fallen' <=> InfluenceNow'[p] = {}
    BY DEF Fallen
  <2>6. q \notin Fallen
    BY <1>0, <2>1
  <2>7. \A p \in Player \ {q} : p \in Fallen' <=> p \in Fallen
    BY <2>2, <2>4, <2>5 DEF Fallen
  <2>8. Fallen' \in {Fallen, Fallen \cup {q}}
    BY <2>6, <2>7 DEF Fallen
  <2>9. Turns!Uphold(q)
    BY <2>1, <2>2, <2>8 DEF Turns!Uphold, Turns!MayFall, Fallen
  <2> QED
    BY <2>2, <2>9 DEF Turns!Next
<1>7. CASE Rules!Effect
  <2>1. /\ StageNow = "effect" /\ StageNow' = "end"
        /\ UNCHANGED <<turnInd, gameOn, status>>
        /\ \/ UNCHANGED InfluenceNow
           \/ move.name \in {"coup", "assassinate"} /\ Rules!Loses(move.target)
    BY <1>7 DEF Rules!Effect
  <2>2. PICK p \in Player \ {turnInd} : Fallen' \in {Fallen, Fallen \cup {p}}
    <3>1. \E p \in Player : p # turnInd
      BY Constants, NPAssumption DEF Player
    <3>2. CASE UNCHANGED InfluenceNow
      BY <1>s, <3>1, <3>2
    <3>3. CASE move.name \in {"coup", "assassinate"} /\ Rules!Loses(move.target)
      <4>1. pc \in {"act", "dialog0", "dialog1", "return"}
        BY <2>1 DEF RulesInv, CardInv, TypeInv, TypeOK, Place, StageNow
      <4>2. pc = "act" /\ move.name \in Targeted
        BY <3>3, <4>1 DEF RulesInv, TargetInv, Targeted
      <4>3. move.target \in Player /\ move.target # turnInd
        BY <4>2 DEF RulesInv, TargetInv, CardInv, TypeInv, MoveChosen
      <4> QED
        BY <3>3, <4>3, LoserMayFall
    <3> QED
      BY <2>1, <3>2, <3>3
  <2>3. p \in Turns!Seats \ {turnInd}
    BY RoundWords
  <2>4. Turns!Effect
    BY <2>1, <2>2, <2>3 DEF Turns!Effect, Turns!MayFall, Fallen
  <2> QED
    BY <2>4 DEF Turns!Next
<1>8. CASE Rules!EndTurn
  <2>1. /\ StageNow = "end" /\ StageNow' = "choose"
        /\ turnInd' = NextPlayer(turnInd)
        /\ gameOn' = (gameOn /\ ~Rules!Decided)
        /\ status' = IF ~Rules!Decided THEN status
                     ELSE IF Rules!InGame(User) THEN "You Won" ELSE "You Lose"
        /\ UNCHANGED InfluenceNow
    BY <1>8, SameWords DEF Rules!EndTurn
  <2>2. 0 \in Player /\ (Rules!InGame(User) <=> 0 \notin Fallen)
    BY <1>0, Constants DEF User
  <2>3. Rules!Decided <=> 0 \in Fallen \/ Turns!Seats \ {0} \subseteq Fallen
    BY <1>0, <2>2, RoundWords, SameWords DEF Rules!Decided, User
  <2>4. Turns!Decided <=> Rules!Decided
    BY <2>3 DEF Turns!Decided, Fallen
  <2>5. (0 \in {p \in Player : InfluenceNow[p] = {}}) <=> ~Rules!InGame(User)
    BY <2>2 DEF Fallen
  <2>6. Turns!After = NextPlayer(turnInd)
    BY <2>1, RoundWords
  <2> HIDE DEF Fallen
  <2>7. status' = IF ~Turns!Decided THEN status
                  ELSE IF 0 \in {p \in Player : InfluenceNow[p] = {}} THEN "You Lose"
                  ELSE "You Won"
    BY <2>1, <2>4, <2>5
  <2>8. /\ StageNow # "over" /\ StageNow' # "over"
        /\ (IF StageNow = "over" THEN 0 ELSE turnInd)' = Turns!After
    BY <2>1, <2>6
  <2>9. Turns!EndTurn
    BY <2>1, <2>4, <2>7, <2>8 DEF Turns!EndTurn
  <2> QED
    BY <2>9 DEF Turns!Next
<1>9. CASE Rules!Close
  <2>1. gameOn /\ gameOn' = FALSE /\ UNCHANGED <<InfluenceNow, turnInd, StageNow, status>>
    BY <1>9 DEF Rules!Close
  <2> QED
    BY <2>1 DEF Turns!Next, Turns!Close
<1>10. CASE Rules!Leave
  <2>1. /\ StageNow = "choose" /\ ~gameOn /\ StageNow' = "over"
        /\ UNCHANGED <<InfluenceNow, gameOn, status>>
    BY <1>10 DEF Rules!Leave
  <2> QED
    BY <2>1 DEF Turns!Next, Turns!Leave
<1>11. CASE UNCHANGED Rules!vars
  BY <1>11 DEF Rules!vars, Turns!vars
<1>12. Rules!Next \/ UNCHANGED Rules!vars
  BY RulesStep
<1>13. Rules!MoveName = MoveName /\ Rules!Player = Player /\ Rules!Slot = Slot
  BY SameWords
<1>14. Turns!Begin \/ Turns!Say \/ Turns!Refute => Turns!Next
  BY DEF Turns!Next
<1>15. Rules!Next => \/ Rules!Pass \/ Rules!Stand \/ Rules!Effect
                     \/ Rules!EndTurn \/ Rules!Close \/ Rules!Leave
                     \/ \E name \in MoveName, t \in Player :
                           Rules!Choose(name, t) \/ Rules!Declare(name)
                     \/ \E t \in Player : Rules!Aim(t) \/ Rules!Refute(t)
                     \/ \E q \in Player, s \in Slot : Rules!Uphold(q, s)
  BY <1>0, <1>13, Zenon DEF Rules!Next
<1> QED
  BY <1>1, <1>2, <1>3, <1>4, <1>5, <1>6, <1>7, <1>8, <1>9, <1>10, <1>11, <1>12,
     <1>14, <1>15

\* runGame is a sequence of turns as Rounds has it: whoever is out has none, each
\* hurts the objector or the claimant first and then at most the victim of the
\* move, and the game ends with the turn that decides it.
THEOREM RoundsFollowed == Spec => FollowsRounds
<1>1. Spec => []RulesInv
  BY RulesInvInit, RulesInvStep, PTL DEF Spec
<1>2. Spec => [][Turns!Next]_(Turns!vars)
  BY <1>1, RoundStep, PTL DEF Spec
<1>3. Spec => Turns!Init
  BY RulesInit, RoundInit DEF Spec
<1> QED BY <1>2, <1>3, PTL DEF FollowsRounds, Turns!Spec

-----------------------------------------------------------------------------
(***************************************************************************)
(* The user's exchange is the one of module Exchange.                      *)
(***************************************************************************)

\* The vocabulary of the exchange is that of the game.
LEMMA ExchangeWords ==
    /\ Exch!Slot = Slot
    /\ Exch!Second = IF revealed[hand[User][1]] THEN "return" ELSE "dialog1"
    /\ Exch!First  = IF revealed[hand[User][0]] THEN Exch!Second ELSE "dialog0"
    /\ Exch!Second' = IF revealed'[hand'[User][1]] THEN "return" ELSE "dialog1"
    /\ Exch!First'  = IF revealed'[hand'[User][0]] THEN Exch!Second' ELSE "dialog0"
BY DEF Exch!Slot, Exch!First, Exch!Second, Slot

\* The user's hand and what was drawn for it are four cards, none in the deck.
Apart ==
    /\ hand[User] \in [Slot -> Card] /\ twoCards \in [Slot -> Card]
    /\ hand[User][0] # hand[User][1] /\ twoCards[0] # twoCards[1]
    /\ \A s, k \in Slot : hand[User][s] # twoCards[k]
    /\ \A s \in Slot : hand[User][s] \notin deck /\ twoCards[s] \notin deck
    /\ \A s \in Slot : ~revealed[twoCards[s]]
    /\ deck \subseteq Card

LEMMA FourApart == CardInv /\ pc \in Asking => Apart
<1> SUFFICES ASSUME CardInv, pc \in Asking PROVE Apart
  OBVIOUS
<1>1. hand[User] \in [Slot -> Card] /\ twoCards \in [Slot -> Card] /\ deck \subseteq Card
  BY Constants DEF CardInv, TypeInv, TypeOK, CardsInFlight, Asking, Dialog
<1>2. \A s \in Slot : hand[User][s] \in Held
  BY Constants, HeldIff
<1>3. \A s \in Slot : twoCards[s] \in Drawn
  BY <1>1, DrawnIff, Constants DEF Slot
<1>4. hand[User][0] # hand[User][1] /\ twoCards[0] # twoCards[1]
  BY <1>1, Constants DEF CardInv, CardsConserved, Slot
<1> QED
  BY <1>1, <1>2, <1>3, <1>4 DEF Apart, CardInv, CardsConserved, DeckFaceDown

\* Drawing two cards begins an exchange.
LEMMA ExchangeBegins == CardInv /\ CardInv' /\ UserDraws => pc \notin Asking /\ Exch!Init'
<1> SUFFICES ASSUME CardInv, CardInv', UserDraws PROVE pc \notin Asking /\ Exch!Init'
  OBVIOUS
<1>1. /\ pc = "act" /\ UNCHANGED <<hand, revealed>>
      /\ pc' = IF ~revealed[hand[User][0]] THEN "dialog0"
               ELSE IF ~revealed[hand[User][1]] THEN "dialog1" ELSE "return"
  BY DEF UserDraws
<1>2. pc' \in Asking
  BY <1>1 DEF Asking, Dialog
<1>3. Apart'
  <2>1. CardInv' /\ (pc \in Asking)' => Apart'
    BY FourApart, PTL
  <2> QED
    BY <1>2, <2>1 DEF Asking
<1>4. (IF pc \in Asking THEN pc ELSE "over")' = Exch!First'
  BY <1>1, <1>2, ExchangeWords DEF Asking
<1> QED
  BY <1>1, <1>3, <1>4, ExchangeWords DEF Exch!Init, Apart, Asking, Dialog

\* An answer keeps the card asked about or takes one of the two for it, and
\* turns none of the four: what it can take is face down.
LEMMA AnswerTakes ==
    ASSUME CardInv, NEW s \in Slot, NEW k \in Slot \cup {NoSlot}, pc \in Dialog,
           AnswerDialog(s, k), ~revealed[hand[User][s]]
    PROVE  /\ Exch!Keep \/ \E j \in Slot : Exch!Take(s, j)
           /\ {t \in Slot : revealed[hand[User][t]]}' = {t \in Slot : revealed[hand[User][t]]}
           /\ deck' = deck
           /\ \A t \in Slot \ {s} : hand'[User][t] = hand[User][t]
<1>1. Apart /\ revealed' = revealed /\ deck' = deck
  BY FourApart DEF AnswerDialog, Asking
<1>2. hand \in [Player -> [Slot -> Card]] /\ User \in Player
  BY Constants DEF CardInv, TypeInv, TypeOK
<1>3. CASE UNCHANGED <<hand, twoCards>>
  BY <1>1, <1>3 DEF Exch!Keep
<1>4. CASE k \in Slot /\ Swap(s, k)
  <2>1. hand'[User] = [hand[User] EXCEPT ![s] = twoCards[k]]
    BY <1>2, <1>4 DEF Swap
  <2>2. Exch!Take(s, k)
    BY <1>4, <2>1 DEF Swap, Exch!Take
  <2>3. \A t \in Slot : revealed'[hand'[User][t]] <=> revealed[hand[User][t]]
    BY <1>1, <1>2, <1>4, <2>1 DEF Apart
  <2> QED
    BY <1>1, <1>2, <1>4, <2>1, <2>2, <2>3
<1> QED
  BY <1>3, <1>4 DEF AnswerDialog

\* While the user is asked, every step is a step of the exchange, or the end of
\* the game that does not touch it.
LEMMA ExchangeGoesOn ==
    ASSUME CardInv, [Next]_vars, pc \in Asking
    PROVE  Exch!Next \/ UNCHANGED Exch!vars
<1>1. ASSUME NEW k \in Slot \cup {NoSlot}, FirstDialog(k) PROVE Exch!Next
  <2>1. pc = "dialog0" /\ ~revealed[hand[User][0]] /\ AnswerDialog(0, k)
        /\ pc' = (IF ~revealed[hand[User][1]] THEN "dialog1" ELSE "return")
    BY <1>1 DEF FirstDialog, CardInv, DialogFaceDown
  <2>2. /\ Exch!Keep \/ \E j \in Slot : Exch!Take(0, j)
        /\ {t \in Slot : revealed[hand[User][t]]}' = {t \in Slot : revealed[hand[User][t]]}
        /\ deck' = deck
    BY <2>1, AnswerTakes DEF Slot, Dialog
  <2>3. (IF pc \in Asking THEN pc ELSE "over") = "dialog0"
        /\ (IF pc \in Asking THEN pc ELSE "over")' = Exch!Second
    BY <2>1, ExchangeWords DEF Asking, Dialog
  <2>4. Exch!AnswerFirst
    BY <2>2, <2>3, ExchangeWords DEF Exch!AnswerFirst
  <2> QED
    BY <2>4 DEF Exch!Next
<1>2. ASSUME NEW k \in Slot \cup {NoSlot}, SecondDialog(k) PROVE Exch!Next
  <2>1. pc = "dialog1" /\ ~revealed[hand[User][1]] /\ AnswerDialog(1, k) /\ pc' = "return"
    BY <1>2 DEF SecondDialog, CardInv, DialogFaceDown
  <2>2. /\ Exch!Keep \/ \E j \in Slot : Exch!Take(1, j)
        /\ {t \in Slot : revealed[hand[User][t]]}' = {t \in Slot : revealed[hand[User][t]]}
        /\ deck' = deck
    BY <2>1, AnswerTakes DEF Slot, Dialog
  <2>3. (IF pc \in Asking THEN pc ELSE "over") = "dialog1"
        /\ (IF pc \in Asking THEN pc ELSE "over")' = "return"
    BY <2>1 DEF Asking, Dialog
  <2>4. Exch!AnswerSecond
    BY <2>2, <2>3, ExchangeWords DEF Exch!AnswerSecond
  <2> QED
    BY <2>4 DEF Exch!Next
<1>3. CASE UserReturns
  <2>1. /\ pc = "return" /\ pc' \notin Asking /\ UNCHANGED <<hand, revealed>>
        /\ deck' = deck \cup {twoCards[0], twoCards[1]} /\ twoCards' = NoPair
    BY <1>3 DEF UserReturns, AfterAct, Asking, Dialog
  <2>2. Exch!Return
    BY <2>1 DEF Exch!Return, Asking
  <2> QED
    BY <2>2 DEF Exch!Next
<1>4. CASE EndGame \/ UNCHANGED vars
  BY <1>4 DEF EndGame, vars, cardVars, Exch!vars, Asking
<1>5. \/ \E k \in Slot \cup {NoSlot} : FirstDialog(k) \/ SecondDialog(k)
      \/ UserReturns \/ EndGame \/ UNCHANGED vars
  BY DEF Asking, Dialog, Next, GameThread, UserTurn, UserAnswers, SkipEliminated, AwaitUser,
     TakeUserMove, AIChooses, AIPicksTarget, SkipAsked, Allows, Challenges, AskingDone,
     ClaimProved, BluffCalled, ActCoins, ActSteal, ActKill, AIExchange, UserDraws,
     ReplaceProof, CheckGameOver, LeaveLoop, UserMoves
<1> QED
  BY <1>1, <1>2, <1>3, <1>4, <1>5

\* An exchange begins only with a draw.
LEMMA OnlyDrawBegins ==
    ASSUME [Next]_vars, pc \notin Asking, pc' \in Asking
    PROVE  UserDraws
<1>1. UNCHANGED pc \/ pc' \notin Asking \/ UserDraws
  BY DEF Asking, Dialog, Announce, AfterAct, FirstDialog, SecondDialog, EndGame, vars, Next,
     GameThread, UserTurn, UserAnswers, SkipEliminated, AwaitUser, TakeUserMove, AIChooses,
     AIPicksTarget, SkipAsked, Allows, Challenges, AskingDone, ClaimProved, BluffCalled,
     ActCoins, ActSteal, ActKill, AIExchange, UserReturns, ReplaceProof, CheckGameOver,
     LeaveLoop, UserMoves
<1> QED
  BY <1>1 DEF Asking

\* The user's exchange in runGame is that of module Exchange, for every deck and
\* every table: begun with two cards that nobody else holds, each face-down card
\* of the user asked about once, two cards back, and nothing in between.
THEOREM ExchangesByTheBook == Spec => ExchangeByTheBook
<1>1. Spec => []CardInv
  BY CardInit, CardStep, PTL DEF Spec
<1>2. CardInv /\ CardInv' /\ [Next]_vars =>
        [ /\ pc \notin Asking /\ pc' \in Asking => Exch!Init'
          /\ pc \in Asking => Exch!Next \/ UNCHANGED Exch!vars ]_vars
  BY ExchangeBegins, ExchangeGoesOn, OnlyDrawBegins
<1> QED
  BY <1>1, <1>2, PTL DEF Spec, ExchangeByTheBook
-----------------------------------------------------------------------------
(***************************************************************************)
(* A claim is put to the table as in module Objections.                    *)
(***************************************************************************)

InGameNow == {p \in Player : ~Eliminated(p)}

\* Who draws a target is in the game.
MoverInv == pc = "target" => ~Eliminated(turnInd)

LEMMA MoverStep ==
    ASSUME MoverInv, [Next]_vars
    PROVE  MoverInv'
<1>1. ASSUME NEW n \in MoveName, AIChooses(n) PROVE MoverInv'
  <2>1. ~Eliminated(turnInd) /\ turnInd' = turnInd /\ UNCHANGED <<hand, revealed>>
    BY <1>1 DEF AIChooses, cardVars
  <2> QED
    BY <2>1 DEF MoverInv, Eliminated
<1>2. CASE EndGame \/ UNCHANGED vars
  BY <1>2 DEF EndGame, vars, cardVars, MoverInv, Eliminated
<1>3. \/ \E n \in MoveName : AIChooses(n)
      \/ EndGame \/ UNCHANGED vars
      \/ pc' # "target"
  BY DEF Announce, AfterAct, Dialog, Next, GameThread, UserTurn, UserAnswers, FirstDialog,
     SecondDialog, SkipEliminated, AwaitUser, TakeUserMove, AIPicksTarget, SkipAsked, Allows,
     Challenges, AskingDone, ClaimProved, BluffCalled, ActCoins, ActSteal, ActKill,
     AIExchange, UserDraws, UserReturns, ReplaceProof, CheckGameOver, LeaveLoop, UserMoves
<1> QED
  BY <1>1, <1>2, <1>3 DEF MoverInv

\* Whose move is announced is in the game, and nobody has answered it.
LEMMA AskingOpens ==
    ASSUME VerdictInv, MoverInv, [Next]_vars, pc # "ask", pc' = "ask"
    PROVE  Asked!Open'
<1>1. /\ TakeUserMove \/ (\E n \in MoveName : AIChooses(n)) \/ (\E t \in Player : AIPicksTarget(t))
      /\ challengeTurnInd' = 0 /\ UNCHANGED <<hand, revealed, turnInd, objection>>
  <2>1. \/ TakeUserMove \/ (\E n \in MoveName : AIChooses(n))
        \/ (\E t \in Player : AIPicksTarget(t)) \/ pc' # "ask" \/ UNCHANGED pc
    BY DEF Next, GameThread, UserTurn, UserAnswers, FirstDialog, SecondDialog, SkipEliminated,
       AwaitUser, SkipAsked, Allows, Challenges, AskingDone, ClaimProved, BluffCalled,
       ActCoins, ActSteal, ActKill, AIExchange, UserDraws, UserReturns, ReplaceProof,
       CheckGameOver, LeaveLoop, UserMoves, EndGame, AfterAct, vars
  <2>2. TakeUserMove \/ (\E n \in MoveName : AIChooses(n)) \/ (\E t \in Player : AIPicksTarget(t))
    BY <2>1
  <2> QED
    BY <2>2 DEF TakeUserMove, AIChooses, AIPicksTarget, Announce, cardVars
<1>2. ~Eliminated(turnInd) /\ pc \in {"top", "target"}
  BY <1>1 DEF TakeUserMove, AIChooses, AIPicksTarget, MoverInv
<1>3. turnInd \in Player /\ objection = "none"
  BY <1>2 DEF VerdictInv, TypeInv, TypeOK, AskInv
<1>4. InGameNow' = InGameNow /\ turnInd' \in InGameNow'
  BY <1>1, <1>2, <1>3 DEF InGameNow, Eliminated
<1>5. InGameNow' \subseteq Asked!Player
  BY DEF InGameNow, Asked!Player, Player
<1> QED
  BY <1>1, <1>3, <1>4, <1>5 DEF Asked!Open, InGameNow

\* Until the asking ends, every step is a step of it, or the end of the game
\* that does not touch it.
LEMMA AskingGoesOn ==
    ASSUME VerdictInv, [Next]_vars, pc = "ask"
    PROVE  Asked!Next \/ UNCHANGED Asked!vars
<1>1. objection \in {"none", "allow"}
  BY DEF VerdictInv, AskInv
<1>2. ASSUME UNCHANGED <<hand, revealed>> PROVE InGameNow' = InGameNow
  BY <1>2 DEF InGameNow, Eliminated
<1>3. challengeTurnInd \in Player /\ ~Skipped(challengeTurnInd)
        => challengeTurnInd \in InGameNow \ {turnInd}
  BY DEF Skipped, InGameNow
<1>4. CASE SkipAsked
  <2>1. challengeTurnInd \in Asked!Player \ (InGameNow \ {turnInd})
    <3>1. challengeTurnInd \in 0 .. NP /\ challengeTurnInd < NP
      BY <1>4 DEF SkipAsked, VerdictInv, TypeInv, TypeOK
    <3>2. challengeTurnInd \in Asked!Player
      BY <3>1, NPAssumption DEF Asked!Player
    <3>3. challengeTurnInd \notin InGameNow \ {turnInd}
      BY <1>4 DEF SkipAsked, Skipped, InGameNow
    <3> QED
      BY <3>2, <3>3
  <2>2. /\ UNCHANGED <<hand, revealed, turnInd, objection, pc>>
        /\ challengeTurnInd' = challengeTurnInd + 1
    BY <1>4 DEF SkipAsked, cardVars
  <2>3. Asked!Skip
    BY <1>1, <1>2, <2>1, <2>2 DEF Asked!Skip, InGameNow
  <2> QED
    BY <2>3 DEF Asked!Next
<1>5. ASSUME NEW p \in Player, Allows(p) PROVE Asked!Next
  <2>1. challengeTurnInd \in InGameNow \ {turnInd}
    BY <1>3, <1>5 DEF Allows, CanAnswer
  <2>2. Asked!Allow
    BY <1>1, <1>2, <1>5, <2>1 DEF Allows, cardVars, Asked!Allow, InGameNow
  <2> QED
    BY <2>2 DEF Asked!Next
<1>6. ASSUME NEW p \in Player, Challenges(p) PROVE Asked!Next
  <2>1. challengeTurnInd \in InGameNow \ {turnInd}
    BY <1>3, <1>6 DEF Challenges, CanAnswer
  <2>2. Asked!Challenge
    BY <1>2, <1>6, <2>1 DEF Challenges, cardVars, Asked!Challenge, InGameNow
  <2> QED
    BY <2>2 DEF Asked!Next
<1>7. CASE AskingDone
  <2>1. pc' # "ask"
    BY <1>7 DEF AskingDone
  <2>2. Asked!Close
    BY <1>2, <1>7, <2>1 DEF AskingDone, cardVars, turnVars, Asked!Close, InGameNow
  <2> QED
    BY <2>2 DEF Asked!Next
<1>8. CASE EndGame \/ UNCHANGED vars
  <2>1. UNCHANGED <<hand, revealed, turnInd, challengeTurnInd, objection, pc>>
    BY <1>8 DEF EndGame, vars, cardVars, turnVars
  <2> QED
    BY <1>2, <2>1 DEF Asked!vars, InGameNow
<1>9. \/ SkipAsked \/ AskingDone \/ EndGame \/ UNCHANGED vars
      \/ \E p \in Player : Allows(p) \/ Challenges(p)
  BY Constants DEF Dialog, Next, GameThread, UserTurn, UserAnswers, FirstDialog, SecondDialog,
     SkipEliminated, AwaitUser, TakeUserMove, AIChooses, AIPicksTarget, ClaimProved,
     BluffCalled, ActCoins, ActSteal, ActKill, AIExchange, UserDraws, UserReturns,
     ReplaceProof, CheckGameOver, LeaveLoop, UserMoves
<1> QED
  BY <1>4, <1>5, <1>6, <1>7, <1>8, <1>9

\* anyChallenges, as CoupGame has it in single steps, is the asking of module
\* Objections, which ChallengePrompt implements with two threads: begun by a
\* player in the game, everybody else in it asked once, in the order of the seats.
THEOREM AsksByTheBook == Spec => AskingByTheBook
<1>1. Spec => []VerdictInv
  BY VerdictInit, VerdictStep, PTL DEF Spec
<1>2. Init => MoverInv
  BY DEF Init, MoverInv
<1>3. MoverInv /\ [Next]_vars => MoverInv'
  BY MoverStep
<1>4. VerdictInv /\ MoverInv /\ [Next]_vars =>
        [ /\ pc # "ask" /\ pc' = "ask" => Asked!Open'
          /\ pc = "ask" => Asked!Next \/ UNCHANGED Asked!vars ]_vars
  BY AskingOpens, AskingGoesOn
<1> QED
  BY <1>1, <1>2, <1>3, <1>4, PTL DEF Spec, AskingByTheBook
=============================================================================

--------------------------- MODULE CoupGameProofs ---------------------------
(***************************************************************************)
(* Theorems about the turn engine of CoupGame, for every number of seats   *)
(* and every deck that satisfies the assumptions of CoupCards: the types,  *)
(* and where the cards are.                                                *)
(***************************************************************************)
EXTENDS CoupGame, FiniteSetTheorems, TLAPS

\* What each place of the game thread knows of the cards that are on their way
\* between the deck and a hand.  TypeOK is not inductive without it: the
\* replacement is put into a hand on the strength of it.
CardsInFlight ==
    /\ pc \in {"dialog0", "dialog1", "return"} => twoCards \in [Slot -> Card]
    /\ pc \notin {"dialog0", "dialog1", "return"} => twoCards = NoPair
    /\ pc \in {"act", "dialog0", "dialog1", "return"} =>
          (newCard \in Card /\ theCard \in Slot) \/ (newCard = NoCard /\ theCard = NoSlot)
    /\ pc = "replace" => newCard \in Card /\ theCard \in Slot
    /\ pc \notin {"act", "dialog0", "dialog1", "return", "replace"} => newCard = NoCard
    /\ pc \in {"top", "idle", "target", "ask", "prove", "over"} => theCard = NoSlot

\* From the choice of a move to the end of the turn there is a move, and only
\* its target may still be open.
MoveChosen ==
    pc \notin {"top", "idle", "over"} => move \in [name : MoveName, target : Player]

TypeInv == TypeOK /\ CardsInFlight /\ MoveChosen

-----------------------------------------------------------------------------
(***************************************************************************)
(* The constants and the small operators.                                  *)
(***************************************************************************)

LEMMA Constants ==
    /\ User \in Player
    /\ NoSlot \notin Slot
    /\ NoPair \in [Slot -> Card \cup {NoCard}]
    /\ NoMove.target \in Player
    /\ NoCard \notin Card
    /\ NP \in 2..6
  BY NPAssumption, NoCardAssumption DEF User, Player, NoSlot, Slot, NoPair, NoMove

\* Every move has an integer gain, so purses stay integers.
LEMMA GainType == \A n \in MoveName : Gain(n) \in Int
  BY DEF MoveName, Gain

\* incrementInd stays within the table.
LEMMA NextPlayerType == \A p \in Player : NextPlayer(p) \in Player
  BY NPAssumption DEF NextPlayer, Player

\* Payments keep the purses integers.
LEMMA PayType ==
  \A f \in [Player -> Int], p \in Player, x \in Int :
     [f EXCEPT ![p] = @ + x] \in [Player -> Int]
  OBVIOUS

LEMMA RobType ==
  \A f \in [Player -> Int], p, q \in Player :
     [f EXCEPT ![p] = @ - 2, ![q] = @ + 2] \in [Player -> Int]
  OBVIOUS

\* The asking goes from seat to seat and one beyond the last.
LEMMA StartType == 0 \in 0 .. NP
  BY NPAssumption

LEMMA AskType == \A i \in 0 .. NP : i < NP => i + 1 \in 0 .. NP
  BY NPAssumption

\* A seat is a legal value of challengeTurnInd, and so is the one after it.
LEMMA SeatType == \A p \in Player : p + 1 \in 0 .. NP
  BY NPAssumption DEF Player

\* Announcing a move of the right shape is all the choice of a move does.
LEMMA AnnounceType ==
  ASSUME NEW m \in [name : MoveName, target : Player], Announce(m)
  PROVE  /\ move' \in [name : MoveName, target : Player]
         /\ pc' \in {"act", "ask"}
         /\ challengeTurnInd' \in 0 .. NP
  BY NPAssumption DEF Announce

\* Turning cards keeps the type of the revealed flags.
LEMMA RevealType == \A p : RevealFirst(p) \in [Card -> BOOLEAN]
  BY DEF RevealFirst

\* The slot of a proof is one of the two.
LEMMA ProofSlotType == \A p, n : ProofSlot(p, n) \in Slot
  BY DEF ProofSlot, Slot

-----------------------------------------------------------------------------
(***************************************************************************)
(* Type correctness.                                                       *)
(***************************************************************************)

\* A dialog swaps a card of the user for one of the two drawn, or nothing.
LEMMA DialogType ==
  ASSUME TypeInv, pc \in Dialog, NEW s \in Slot, NEW k, AnswerDialog(s, k)
  PROVE  hand' \in [Player -> [Slot -> Card]] /\ twoCards' \in [Slot -> Card]
<1> USE DEF TypeInv, TypeOK, CardsInFlight
<1>1. twoCards \in [Slot -> Card] /\ hand[User] \in [Slot -> Card]
  BY Constants DEF Dialog
<1>2. CASE k \in Slot /\ Swap(s, k)
  <2>1. twoCards[k] \in Card /\ hand[User][s] \in Card
    BY <1>1, <1>2
  <2> QED BY <1>1, <1>2, <2>1 DEF Swap
<1>3. CASE UNCHANGED <<hand, twoCards>>
  BY <1>1, <1>3
<1> QED BY <1>2, <1>3 DEF AnswerDialog

\* What the acting moves do to the purses, typed.
LEMMA ActType ==
  ASSUME TypeOK
  PROVE  ActCoins \/ ActKill \/ ActSteal => coins' \in [Player -> Int]
<1>1. /\ coins \in [Player -> Int] /\ turnInd \in Player
      /\ move \in [name : MoveName, target : Player] \cup {NoMove}
  BY DEF TypeOK
<1>2. move.target \in Player
  BY <1>1, Constants
<1>3. ASSUME ActCoins \/ ActKill PROVE coins' \in [Player -> Int]
  <2>1. coins' = [coins EXCEPT ![turnInd] = @ + Gain(move.name)]
    BY <1>3 DEF ActCoins, ActKill
  <2>2. Gain(move.name) \in Int
    BY <1>3, GainType DEF ActCoins, ActKill, MoveName
  <2> QED BY <1>1, <2>1, <2>2, PayType
<1>4. ASSUME ActSteal PROVE coins' \in [Player -> Int]
  <2>1. coins' = [coins EXCEPT ![move.target] = @ - 2, ![turnInd] = @ + 2]
    BY <1>4 DEF ActSteal
  <2> QED BY <1>1, <1>2, <2>1, RobType
<1> QED BY <1>3, <1>4

\* An AI's exchange leaves cards in its hand and cards in the deck.
LEMMA AIExchangeType ==
  ASSUME TypeOK, AIExchange
  PROVE  hand' \in [Player -> [Slot -> Card]] /\ deck' \subseteq Card
<1> DEFINE old == hand[turnInd]
           kept == {s \in Slot : revealed[old[s]]}
           new(drawn)  == [s \in Slot |-> IF s \in kept THEN old[s] ELSE drawn[s]]
           back(drawn) == [s \in Slot |-> IF s \in kept THEN drawn[s] ELSE old[s]]
<1>1. PICK drawn \in [Slot -> deck] :
         /\ hand' = [hand EXCEPT ![turnInd] = new(drawn)]
         /\ deck' = (deck \ {drawn[0], drawn[1]}) \cup {back(drawn)[0], back(drawn)[1]}
  BY DEF AIExchange
<1>2. old \in [Slot -> Card] /\ deck \subseteq Card /\ hand \in [Player -> [Slot -> Card]]
  BY DEF TypeOK
<1>3. new(drawn) \in [Slot -> Card] /\ back(drawn) \in [Slot -> Card]
  BY <1>2
<1>4. back(drawn)[0] \in Card /\ back(drawn)[1] \in Card
  BY <1>3 DEF Slot
<1> HIDE DEF new, back
<1> QED BY <1>1, <1>2, <1>3, <1>4

LEMMA TypeInit == Init => TypeInv
<1> SUFFICES ASSUME Init PROVE TypeInv
  OBVIOUS
<1>1. coins = [p \in Player |-> 2] /\ revealed = [c \in Card |-> FALSE]
  BY DEF Init
<1>2. coins \in [Player -> Int] /\ revealed \in [Card -> BOOLEAN]
  BY <1>1
<1>3. deck \subseteq Card /\ hand \in [Player -> [Slot -> Card]]
  <2>1. hand \in [Player -> [Slot -> Card]]
    BY DEF Init
  <2>2. deck = Card \ Held
    BY DEF Init
  <2> QED BY <2>1, <2>2
<1>4. turnInd = 0 /\ challengeTurnInd = 0
  BY DEF Init
<1>5. turnInd \in Player /\ challengeTurnInd \in 0 .. NP
  BY <1>4, NPAssumption DEF Player
<1>6. /\ gameOn = TRUE /\ pc = "top" /\ playerMove = NoMove /\ move = NoMove
      /\ objection = "none" /\ theCard = NoSlot /\ newCard = NoCard
      /\ twoCards = NoPair /\ status = "You Lost"
  BY DEF Init
<1>7. TypeOK
  <2>1. deck \in SUBSET Card /\ status \in Verdict
    BY <1>3, <1>6 DEF Verdict
  <2>2. theCard \in Slot \cup {NoSlot} /\ newCard \in Card \cup {NoCard}
    BY <1>6
  <2>3. twoCards \in [Slot -> Card \cup {NoCard}]
    BY <1>6, Constants
  <2> QED BY <1>2, <1>3, <1>5, <1>6, <2>1, <2>2, <2>3 DEF TypeOK, Place
<1>8. CardsInFlight /\ MoveChosen
  BY <1>6 DEF CardsInFlight, MoveChosen
<1> QED BY <1>7, <1>8 DEF TypeInv

LEMMA TypeStep == TypeInv /\ [Next]_vars => TypeInv'
<1> SUFFICES ASSUME TypeInv, [Next]_vars PROVE TypeInv'
  OBVIOUS
<1> USE Constants DEF TypeInv, TypeOK, CardsInFlight, MoveChosen, cardVars, turnVars
<1>1. CASE SkipEliminated
  BY <1>1, NextPlayerType DEF SkipEliminated
<1>2. CASE AwaitUser
  BY <1>2 DEF AwaitUser, Place
<1>3. CASE TakeUserMove
  <2>1. playerMove \in [name : MoveName, target : Player]
    BY <1>3 DEF TakeUserMove
  <2> QED BY <1>3, <2>1, AnnounceType DEF TakeUserMove, Place
<1>4. ASSUME NEW n \in MoveName, AIChooses(n) PROVE TypeInv'
  <2> DEFINE m == [name |-> n, target |-> turnInd]
  <2>1. m \in [name : MoveName, target : Player]
    OBVIOUS
  <2> HIDE DEF m
  <2>2. CASE Announce(m)
    BY <1>4, <2>1, <2>2, AnnounceType DEF AIChooses, Place
  <2>3. CASE move' = m /\ pc' = "target" /\ UNCHANGED challengeTurnInd
    BY <1>4, <2>1, <2>3 DEF AIChooses, Place
  <2> QED BY <1>4, <2>2, <2>3 DEF AIChooses, m
<1>5. ASSUME NEW t \in Player, AIPicksTarget(t) PROVE TypeInv'
  <2> DEFINE m == [move EXCEPT !.target = t]
  <2>1. m \in [name : MoveName, target : Player]
    BY <1>5 DEF AIPicksTarget
  <2> HIDE DEF m
  <2> QED BY <1>5, <2>1, AnnounceType DEF AIPicksTarget, Place, m
<1>6. CASE SkipAsked
  <2>1. challengeTurnInd' \in 0 .. NP
    BY <1>6, AskType DEF SkipAsked
  <2> QED BY <1>6, <2>1 DEF SkipAsked
<1>7. ASSUME NEW p \in Player, Allows(p) PROVE TypeInv'
  <2>1. challengeTurnInd' \in 0 .. NP
    BY <1>7, SeatType DEF Allows, CanAnswer
  <2> QED BY <1>7, <2>1 DEF Allows
<1>8. ASSUME NEW p \in Player, Challenges(p) PROVE TypeInv'
  BY <1>8 DEF Challenges, Place
<1>9. CASE AskingDone
  BY <1>9 DEF AskingDone, Place
<1>10. CASE ClaimProved
  BY <1>10, RevealType, ProofSlotType DEF ClaimProved, Place
<1>11. CASE BluffCalled
  BY <1>11, RevealType DEF BluffCalled, Place
<1>12. CASE ActCoins
  BY <1>12, ActType DEF ActCoins, AfterAct, Place
<1>13. CASE ActSteal
  BY <1>13, ActType DEF ActSteal, AfterAct, Place
<1>14. CASE ActKill
  BY <1>14, ActType, RevealType DEF ActKill, AfterAct, Place
<1>15. CASE AIExchange
  BY <1>15, AIExchangeType DEF AIExchange, AfterAct, Place
<1>16. CASE UserDraws
  <2>1. twoCards' \in [Slot -> Card] /\ deck' \subseteq Card
    BY <1>16 DEF UserDraws
  <2>2. pc' \in {"dialog0", "dialog1", "return"}
    BY <1>16 DEF UserDraws
  <2> QED BY <1>16, <2>1, <2>2 DEF UserDraws, Place
<1>17. CASE UserReturns
  BY <1>17 DEF UserReturns, AfterAct, Place, Slot
<1>18. CASE ReplaceProof
  <2>1. newCard \in Card /\ theCard \in Slot
    BY <1>18 DEF ReplaceProof
  <2>2. hand[turnInd] \in [Slot -> Card]
    OBVIOUS
  <2>3. hand[turnInd][theCard] \in Card
    BY <2>1, <2>2
  <2>4. hand' \in [Player -> [Slot -> Card]]
    BY <1>18, <2>1 DEF ReplaceProof
  <2>5. revealed' \in [Card -> BOOLEAN] /\ deck' \in SUBSET Card
    BY <1>18, <2>3 DEF ReplaceProof
  <2> QED BY <1>18, <2>1, <2>4, <2>5 DEF ReplaceProof, Place
<1>19. CASE CheckGameOver
  <2>1. turnInd' \in Player /\ gameOn' \in BOOLEAN
    BY <1>19, NextPlayerType DEF CheckGameOver
  <2>2. status' \in Verdict
    BY <1>19 DEF CheckGameOver, Verdict
  <2>3. challengeTurnInd' \in 0 .. NP
    BY <1>19, StartType DEF CheckGameOver
  <2> QED BY <1>19, <2>1, <2>2, <2>3 DEF CheckGameOver, Place
<1>20. CASE LeaveLoop
  BY <1>20 DEF LeaveLoop, Place
<1>21. CASE EndGame
  BY <1>21 DEF EndGame
<1>22. ASSUME NEW n \in MoveName, NEW t \in Player,
              UserMoves([name |-> n, target |-> t]) PROVE TypeInv'
  BY <1>22 DEF UserMoves, Place
<1>23. ASSUME NEW k \in Slot \cup {NoSlot}, FirstDialog(k) PROVE TypeInv'
  <2>1. hand' \in [Player -> [Slot -> Card]] /\ twoCards' \in [Slot -> Card]
    BY <1>23, DialogType DEF FirstDialog, Dialog, Slot
  <2>2. pc' \in {"dialog1", "return"}
    BY <1>23 DEF FirstDialog
  <2> QED BY <1>23, <2>1, <2>2 DEF FirstDialog, AnswerDialog, Place
<1>24. ASSUME NEW k \in Slot \cup {NoSlot}, SecondDialog(k) PROVE TypeInv'
  <2>1. hand' \in [Player -> [Slot -> Card]] /\ twoCards' \in [Slot -> Card]
    BY <1>24, DialogType DEF SecondDialog, Dialog, Slot
  <2> QED BY <1>24, <2>1 DEF SecondDialog, AnswerDialog, Place
<1>25. CASE UNCHANGED vars
  BY <1>25 DEF vars
<1> QED
  BY <1>1, <1>2, <1>3, <1>4, <1>5, <1>6, <1>7, <1>8, <1>9, <1>10, <1>11, <1>12,
     <1>13, <1>14, <1>15, <1>16, <1>17, <1>18, <1>19, <1>20, <1>21, <1>22, <1>23,
     <1>24, <1>25 DEF Next, GameThread, UserTurn, UserAnswers

\* Type correctness of the turn engine: whatever is drawn and answered, every
\* variable keeps its type, and cards are in flight only where the code of
\* runGame and actOnMove holds them in a local.
THEOREM TypeCorrect == Spec => []TypeOK
<1>1. Spec => []TypeInv
  BY TypeInit, TypeStep, PTL DEF Spec
<1> QED BY <1>1, PTL DEF TypeInv

-----------------------------------------------------------------------------
(***************************************************************************)
(* Where the cards are: no card is lost or doubled, only cards in hands    *)
(* are face up, and the deck is never drawn from when it is too short.     *)
(***************************************************************************)

\* Before a dialog asks about a card, the card is face down.
DialogFaceDown ==
    /\ pc = "dialog0" => ~revealed[hand[User][0]]
    /\ pc = "dialog1" => ~revealed[hand[User][1]]

\* A challenge has a challenger.
ChallengerSeated == pc = "prove" => challengeTurnInd \in Player

CardInv == /\ TypeInv /\ CardsConserved /\ DeckFaceDown
           /\ DialogFaceDown /\ ChallengerSeated

\* A card is on the table if it is in some slot of some player.
LEMMA HeldIff ==
    /\ \A c : c \in Held  <=> \E p \in Player, s \in Slot : c = hand[p][s]
    /\ \A c : c \in Held' <=> \E p \in Player, s \in Slot : c = hand'[p][s]
  BY DEF Held

\* A card is on its way if it is the replacement or one of the two exchanged.
LEMMA DrawnIff ==
    /\ \A c : c \in Drawn  <=>
          c # NoCard /\ (c = newCard \/ c = twoCards[0] \/ c = twoCards[1])
    /\ \A c : c \in Drawn' <=>
          c # NoCard /\ (c = newCard' \/ c = twoCards'[0] \/ c = twoCards'[1])
  BY DEF Drawn

\* revealCard turns only cards on the table.
LEMMA RevealTable ==
  ASSUME NEW p \in Player
  PROVE  \A c \in Card \ Held : ~revealed[c] => ~RevealFirst(p)[c]
<1>1. hand[p][0] \in Held /\ hand[p][1] \in Held
  BY HeldIff DEF Slot
<1>2. ASSUME NEW c \in Card \ Held, ~revealed[c] PROVE ~RevealFirst(p)[c]
  <2>1. c # hand[p][IF revealed[hand[p][0]] THEN 1 ELSE 0]
    BY <1>1
  <2> QED BY <1>2, <2>1 DEF RevealFirst
<1> QED BY <1>2

-----------------------------------------------------------------------------
\* A new deal puts every card in the deck or on the table, face down.
LEMMA CardInit == Init => CardInv
<1> SUFFICES ASSUME Init PROVE CardInv
  OBVIOUS
<1>1. TypeInv
  BY TypeInit
<1>2. newCard = NoCard /\ twoCards = NoPair /\ deck = Card \ Held /\ pc = "top"
  BY DEF Init
<1>3. Drawn = {}
  BY <1>2, DrawnIff DEF NoPair, Slot
<1>4. Held \subseteq Card
  <2>1. hand \in [Player -> [Slot -> Card]]
    BY <1>1 DEF TypeInv, TypeOK
  <2>2. \A p \in Player, s \in Slot : hand[p][s] \in Card
    BY <2>1
  <2> QED BY <2>2, HeldIff
<1>5. \A p, q \in Player : \A s, t \in Slot :
          hand[p][s] = hand[q][t] => p = q /\ s = t
  BY DEF Init
<1>6. twoCards[0] \notin Card
  BY <1>2, NoCardAssumption DEF NoPair, Slot
<1>7. CardsConserved
  BY <1>2, <1>3, <1>4, <1>5, <1>6 DEF CardsConserved
<1>8. revealed = [c \in Card |-> FALSE]
  BY DEF Init
<1>9. DeckFaceDown
  BY <1>2, <1>3, <1>8 DEF DeckFaceDown
<1> QED BY <1>1, <1>2, <1>7, <1>9 DEF CardInv, DialogFaceDown, ChallengerSeated

\* Every step moves cards between places and never makes or loses one.
LEMMA CardStep == CardInv /\ [Next]_vars => CardInv'
<1> SUFFICES ASSUME CardInv, [Next]_vars PROVE CardInv'
  OBVIOUS
<1>0. TypeInv /\ TypeInv'
  BY TypeStep DEF CardInv
<1>t. /\ hand \in [Player -> [Slot -> Card]] /\ turnInd \in Player
      /\ deck \subseteq Card /\ NoCard \notin Card /\ User \in Player
      /\ revealed \in [Card -> BOOLEAN] /\ move.target \in Player
      /\ challengeTurnInd \in 0 .. NP
  BY <1>0, Constants DEF TypeInv, TypeOK
<1>c. /\ Card = deck \cup Held \cup Drawn
      /\ deck \cap Held = {} /\ deck \cap Drawn = {} /\ Held \cap Drawn = {}
      /\ \A p, q \in Player : \A s, t \in Slot :
            hand[p][s] = hand[q][t] => p = q /\ s = t
      /\ twoCards[0] \in Card =>
            twoCards[0] # twoCards[1] /\ newCard \notin {twoCards[0], twoCards[1]}
  BY DEF CardInv, CardsConserved
<1>f. \A c \in deck \cup Drawn : ~revealed[c]
  BY DEF CardInv, DeckFaceDown
\* Actions that leave every card where and as it is.
<1>1. ASSUME UNCHANGED cardVars, pc' \notin Dialog, ChallengerSeated' PROVE CardInv'
  <2>1. CardsConserved'
    BY <1>1, <1>c DEF cardVars, CardsConserved, Held, Drawn
  <2>2. DeckFaceDown'
    BY <1>1, <1>f DEF cardVars, DeckFaceDown, Drawn
  <2> QED BY <1>0, <1>1, <2>1, <2>2 DEF CardInv, DialogFaceDown, Dialog
\* Actions that only turn cards on the table.
<1>2. ASSUME UNCHANGED <<deck, hand, newCard, twoCards>>, pc' \notin Dialog \cup {"prove"},
             \A c \in Card \ Held : ~revealed[c] => ~revealed'[c]
      PROVE  CardInv'
  <2>1. CardsConserved'
    BY <1>2, <1>c DEF CardsConserved, Held, Drawn
  <2>2. Drawn' = Drawn
    BY <1>2 DEF Drawn
  <2>3. DeckFaceDown'
    BY <1>2, <1>c, <1>f, <2>2 DEF DeckFaceDown
  <2> QED BY <1>0, <1>2, <2>1, <2>3 DEF CardInv, DialogFaceDown, ChallengerSeated, Dialog
<1>3. CASE ClaimProved
  <2> DEFINE proof == hand[turnInd][theCard']
  <2>1. PICK c \in deck : newCard' = c /\ deck' = deck \ {c}
    BY <1>3 DEF ClaimProved
  <2>2. newCard = NoCard /\ twoCards = NoPair /\ twoCards' = NoPair /\ hand' = hand
    BY <1>0, <1>3 DEF ClaimProved, TypeInv, CardsInFlight
  <2>3. Drawn = {} /\ Drawn' = {c}
    BY <1>t, <2>1, <2>2, DrawnIff DEF NoPair, Slot
  <2>4. Held' = Held
    BY <2>2 DEF Held
  <2>5. CardsConserved'
    BY <1>c, <1>t, <2>1, <2>2, <2>3, <2>4 DEF CardsConserved, NoPair, Slot
  <2>6. challengeTurnInd \in Player /\ theCard' \in Slot
    BY <1>3, ProofSlotType DEF CardInv, ChallengerSeated, ClaimProved
  <2>7. proof \in Held
    BY <1>t, <2>6, HeldIff
  <2>8. \A x \in Card \ Held : ~revealed[x] => ~revealed'[x]
    BY <1>3, <2>6, <2>7, RevealTable, RevealType DEF ClaimProved
  <2>9. DeckFaceDown'
    BY <1>c, <1>f, <2>1, <2>3, <2>8 DEF DeckFaceDown
  <2> QED BY <1>0, <1>3, <2>5, <2>9 DEF CardInv, DialogFaceDown, ChallengerSeated, ClaimProved
<1>4. CASE BluffCalled
  <2>1. \A x \in Card \ Held : ~revealed[x] => ~revealed'[x]
    BY <1>t, <1>4, RevealTable DEF BluffCalled
  <2> QED BY <1>2, <1>4, <2>1 DEF BluffCalled, Dialog
<1>5. CASE ActKill
  <2>1. \A x \in Card \ Held : ~revealed[x] => ~revealed'[x]
    BY <1>t, <1>5, RevealTable DEF ActKill
  <2> QED BY <1>2, <1>5, <2>1 DEF ActKill, AfterAct, Dialog
<1>6. CASE ReplaceProof
  <2> DEFINE proof == hand[turnInd][theCard]
  <2>1. newCard \in Card /\ theCard \in Slot /\ twoCards = NoPair
    BY <1>0, <1>6 DEF ReplaceProof, TypeInv, CardsInFlight
  <2>2. proof \in Held /\ proof \in Card
    BY <1>c, <2>1, <1>t, HeldIff
  <2>3. /\ deck' = deck \cup {proof} /\ newCard' = NoCard /\ twoCards' = NoPair
        /\ revealed' = [revealed EXCEPT ![proof] = FALSE]
    BY <1>6, <2>1 DEF ReplaceProof
  <2>4. Drawn = {newCard} /\ Drawn' = {}
    BY <1>t, <2>1, <2>3, DrawnIff DEF NoPair, Slot
  <2>5. /\ \A p \in Player, s \in Slot :
             hand'[p][s] = IF p = turnInd /\ s = theCard THEN newCard ELSE hand[p][s]
    BY <1>6, <1>t, <2>1 DEF ReplaceProof
  <2>6. Held' = (Held \ {proof}) \cup {newCard}
    <3>1. ASSUME NEW c \in Held' PROVE c \in (Held \ {proof}) \cup {newCard}
      <4>1. PICK p \in Player, s \in Slot : c = hand'[p][s]
        BY HeldIff
      <4>2. CASE p = turnInd /\ s = theCard
        BY <2>5, <4>1, <4>2
      <4>3. CASE ~(p = turnInd /\ s = theCard)
        <5>1. c = hand[p][s] /\ c \in Held
          BY <2>5, <4>1, <4>3, HeldIff
        <5>2. c # proof
          BY <1>c, <1>t, <2>1, <4>3, <5>1
        <5> QED
          BY <5>1, <5>2
      <4> QED
        BY <4>2, <4>3
    <3>2. newCard \in Held'
      <4>1. hand'[turnInd][theCard] = newCard
        BY <1>t, <2>1, <2>5
      <4> QED
        BY <1>t, <2>1, <4>1, HeldIff
    <3>3. ASSUME NEW c \in Held \ {proof} PROVE c \in Held'
      <4>1. PICK p \in Player, s \in Slot : c = hand[p][s]
        BY HeldIff
      <4>2. hand'[p][s] = c
        BY <2>5, <4>1
      <4> QED
        BY <4>2, HeldIff
    <3> QED BY <3>1, <3>2, <3>3
  <2>7. newCard \notin Held /\ newCard \notin deck
    BY <1>c, <2>4
  <2>8. \A p, q \in Player : \A s, t \in Slot :
            hand'[p][s] = hand'[q][t] => p = q /\ s = t
    BY <1>c, <2>5, <2>7, HeldIff
  <2>9. CardsConserved'
    <3>1. Card = deck' \cup Held' \cup Drawn'
      BY <1>c, <2>2, <2>3, <2>4, <2>6
    <3>2. deck' \cap Held' = {} /\ deck' \cap Drawn' = {} /\ Held' \cap Drawn' = {}
      BY <1>c, <2>2, <2>3, <2>4, <2>6, <2>7
    <3>3. twoCards'[0] \notin Card
      BY <1>t, <2>3 DEF NoPair, Slot
    <3> QED BY <2>8, <3>1, <3>2, <3>3 DEF CardsConserved
  <2>10. DeckFaceDown'
    BY <1>c, <1>f, <1>t, <2>2, <2>3, <2>4 DEF DeckFaceDown
  <2> QED BY <1>0, <1>6, <2>9, <2>10
          DEF CardInv, DialogFaceDown, ChallengerSeated, ReplaceProof
<1>7. CASE AIExchange
  <2> DEFINE old == hand[turnInd]
             kept == {s \in Slot : revealed[old[s]]}
             new(drawn)  == [s \in Slot |-> IF s \in kept THEN old[s] ELSE drawn[s]]
             back(drawn) == [s \in Slot |-> IF s \in kept THEN drawn[s] ELSE old[s]]
  <2>1. PICK drawn \in [Slot -> deck] :
           /\ drawn[0] # drawn[1]
           /\ hand' = [hand EXCEPT ![turnInd] = new(drawn)]
           /\ deck' = (deck \ {drawn[0], drawn[1]}) \cup {back(drawn)[0], back(drawn)[1]}
    BY <1>7 DEF AIExchange
  <2>2. \A p \in Player, s \in Slot :
           hand'[p][s] = IF p = turnInd /\ ~revealed[hand[p][s]] THEN drawn[s] ELSE hand[p][s]
    BY <1>t, <2>1
  <2>3. deck' = (deck \ {drawn[0], drawn[1]})
                  \cup {IF revealed[old[0]] THEN drawn[0] ELSE old[0],
                        IF revealed[old[1]] THEN drawn[1] ELSE old[1]}
    BY <2>1 DEF Slot
  <2>4. drawn[0] \in deck /\ drawn[1] \in deck /\ drawn[0] # drawn[1]
    BY <2>1 DEF Slot
  <2> HIDE DEF new, back, kept
  <2>5. old[0] \in Held /\ old[1] \in Held /\ old[0] # old[1]
    BY <1>c, <1>t, HeldIff DEF Slot
  <2>6. UNCHANGED <<revealed, newCard, twoCards>>
    BY <1>7 DEF AIExchange
  <2>7. Drawn' = Drawn
    BY <2>6 DEF Drawn
  <2>8. \A p, q \in Player : \A s, t \in Slot :
            hand'[p][s] = hand'[q][t] => p = q /\ s = t
    BY <1>c, <2>2, <2>4, HeldIff DEF Slot
  <2> DEFINE k(s) == revealed[old[s]]
  <2>9. ASSUME NEW c \in Held' \ Held
        PROVE  (~k(0) /\ c = drawn[0]) \/ (~k(1) /\ c = drawn[1])
    <3>1. PICK p \in Player, s \in Slot : c = hand'[p][s]
      BY HeldIff
    <3>2. hand[p][s] \in Held
      BY HeldIff
    <3>3. p = turnInd /\ ~k(s) /\ c = drawn[s]
      BY <2>2, <3>1, <3>2
    <3> QED BY <3>3 DEF Slot
  <2>10. \A c \in Held : c \in Held' \/ (~k(0) /\ c = old[0]) \/ (~k(1) /\ c = old[1])
    BY <2>2, HeldIff DEF Slot
  <2>11. \A s \in Slot : ~k(s) => drawn[s] \in Held' /\ old[s] \notin Held'
    <3>1. ASSUME NEW s \in Slot, ~k(s) PROVE drawn[s] \in Held'
      BY <1>t, <2>2, <3>1, HeldIff
    <3>2. ASSUME NEW s \in Slot, ~k(s), old[s] \in Held' PROVE FALSE
      <4>1. PICK q \in Player, t \in Slot : hand'[q][t] = hand[turnInd][s]
        BY <3>2, HeldIff
      <4>2. old[s] \in Held /\ drawn[s] \in deck /\ drawn[t] \in deck
        BY <1>t, <2>1, HeldIff
      <4>3. hand'[q][t] # drawn[t] /\ hand'[q][t] # drawn[s]
        BY <1>c, <4>1, <4>2
      <4>4. hand'[q][t] = hand[q][t]
        BY <2>2, <4>3
      <4>5. q = turnInd /\ t = s
        <5>1. hand[q][t] = hand[turnInd][s]
          BY <4>1, <4>4
        <5> QED BY <1>c, <1>t, <5>1
      <4>6. hand'[turnInd][s] = drawn[s]
        BY <1>t, <2>2, <3>2
      <4> QED BY <4>3, <4>5, <4>6
    <3> QED BY <3>1, <3>2
  <2>12. /\ ~k(0) => drawn[0] \in Held' /\ old[0] \notin Held'
         /\ ~k(1) => drawn[1] \in Held' /\ old[1] \notin Held'
    BY <2>11 DEF Slot
  <2>13. drawn[0] \notin Held /\ drawn[1] \notin Held
    BY <1>c, <2>4
  <2>14. /\ k(0) => drawn[0] \notin Held'
         /\ k(1) => drawn[1] \notin Held'
    BY <2>4, <2>9, <2>13
  <2> HIDE DEF k
  <2>15. deck' = (deck \ {drawn[0], drawn[1]})
                  \cup {IF k(0) THEN drawn[0] ELSE old[0], IF k(1) THEN drawn[1] ELSE old[1]}
    BY <2>3 DEF k
  <2>16. Card = deck' \cup Held' \cup Drawn'
    <3>1. Card \subseteq deck' \cup Held' \cup Drawn'
      BY <1>c, <2>7, <2>10, <2>12, <2>15
    <3>2. deck' \cup Held' \cup Drawn' \subseteq Card
      BY <1>c, <2>4, <2>5, <2>7, <2>9, <2>15
    <3> QED BY <3>1, <3>2
  <2>17. deck' \cap Held' = {}
    BY <1>c, <2>4, <2>5, <2>9, <2>12, <2>14, <2>15
  <2>18. deck' \cap Drawn' = {} /\ Held' \cap Drawn' = {}
    BY <1>c, <2>4, <2>5, <2>7, <2>9, <2>15
  <2>19. CardsConserved'
    BY <1>c, <2>6, <2>8, <2>16, <2>17, <2>18 DEF CardsConserved
  <2>20. DeckFaceDown'
    BY <1>f, <2>4, <2>6, <2>7, <2>15 DEF DeckFaceDown, k
  <2> QED BY <1>0, <1>7, <2>19, <2>20
          DEF CardInv, DialogFaceDown, ChallengerSeated, AIExchange, AfterAct
<1>8. CASE UserDraws
  <2>1. PICK drawn \in [Slot -> deck] :
           drawn[0] # drawn[1] /\ twoCards' = drawn /\ deck' = deck \ {drawn[0], drawn[1]}
    BY <1>8 DEF UserDraws
  <2>2. UNCHANGED <<hand, revealed, newCard>> /\ twoCards = NoPair
    BY <1>0, <1>8 DEF UserDraws, TypeInv, CardsInFlight
  <2>3. drawn[0] \in deck /\ drawn[1] \in deck
    BY <2>1 DEF Slot
  <2>4. Held' = Held
    BY <2>2 DEF Held
  <2>5. Drawn' = Drawn \cup {drawn[0], drawn[1]}
    BY <1>t, <2>1, <2>2, <2>3, DrawnIff DEF NoPair, Slot
  <2>6. newCard \notin deck
    BY <1>c, <1>t, DrawnIff
  <2>7. CardsConserved'
    BY <1>c, <2>1, <2>2, <2>3, <2>4, <2>5, <2>6 DEF CardsConserved
  <2>8. DeckFaceDown'
    BY <1>f, <2>1, <2>2, <2>3, <2>5 DEF DeckFaceDown
  <2>9. DialogFaceDown'
    BY <1>8 DEF UserDraws, DialogFaceDown
  <2>10. pc' # "prove"
    BY <1>8 DEF UserDraws
  <2> QED BY <1>0, <2>7, <2>8, <2>9, <2>10 DEF CardInv, ChallengerSeated
<1>9. CASE UserReturns
  <2>1. /\ UNCHANGED <<hand, revealed, newCard>> /\ twoCards \in [Slot -> Card]
        /\ deck' = deck \cup {twoCards[0], twoCards[1]} /\ twoCards' = NoPair
    BY <1>0, <1>9 DEF UserReturns, TypeInv, CardsInFlight
  <2>2. twoCards[0] \in Card /\ twoCards[1] \in Card
    BY <2>1 DEF Slot
  <2>3. Held' = Held
    BY <2>1 DEF Held
  <2>4. Drawn' = Drawn \ {twoCards[0], twoCards[1]}
    BY <1>c, <1>t, <2>1, <2>2, DrawnIff DEF NoPair, Slot
  <2>5. twoCards[0] \in Drawn /\ twoCards[1] \in Drawn
    BY <1>t, <2>2, DrawnIff
  <2>6. twoCards'[0] \notin Card
    BY <1>t, <2>1 DEF NoPair, Slot
  <2>7. CardsConserved'
    BY <1>c, <2>1, <2>3, <2>4, <2>5, <2>6 DEF CardsConserved
  <2>8. DeckFaceDown'
    BY <1>f, <2>1, <2>4, <2>5 DEF DeckFaceDown
  <2> QED BY <1>0, <1>9, <2>7, <2>8
          DEF CardInv, DialogFaceDown, ChallengerSeated, UserReturns, AfterAct
\* A dialog about slot s, whose card is face down.
<1>10. ASSUME NEW s \in Slot, NEW k \in Slot, pc \in Dialog, Swap(s, k),
              ~revealed[hand[User][s]],
              UNCHANGED <<deck, revealed, newCard>>
       PROVE  CardsConserved' /\ DeckFaceDown'
  <2> DEFINE mine == hand[User][s]
             theirs == twoCards[k]
  <2>1. twoCards \in [Slot -> Card]
    BY <1>0, <1>10 DEF TypeInv, CardsInFlight, Dialog
  <2>2. theirs \in Card /\ theirs \in Drawn /\ twoCards[0] \in Card /\ twoCards[1] \in Card
    BY <1>t, <2>1, DrawnIff DEF Slot
  <2>3. mine \in Held /\ mine \in Card
    BY <1>t, HeldIff
  <2>4. \A p \in Player, t \in Slot :
           hand'[p][t] = IF p = User /\ t = s THEN theirs ELSE hand[p][t]
    BY <1>10, <1>t DEF Swap
  <2>5. \A t \in Slot : twoCards'[t] = IF t = k THEN mine ELSE twoCards[t]
    BY <1>10, <2>1 DEF Swap
  <2>6. theirs \notin Held /\ mine \notin Drawn
    BY <1>c, <2>2, <2>3
  <2>7. Held' = (Held \ {mine}) \cup {theirs}
    <3>1. ASSUME NEW c \in Held' PROVE c \in (Held \ {mine}) \cup {theirs}
      <4>1. PICK p \in Player, t \in Slot : c = hand'[p][t]
        BY HeldIff
      <4>2. CASE p = User /\ t = s
        BY <2>4, <4>1, <4>2
      <4>3. CASE ~(p = User /\ t = s)
        <5>1. c = hand[p][t] /\ c \in Held
          BY <2>4, <4>1, <4>3, HeldIff
        <5>2. c # mine
          BY <1>c, <1>t, <4>3, <5>1
        <5> QED
          BY <5>1, <5>2
      <4> QED
        BY <4>2, <4>3
    <3>2. theirs \in Held'
      <4>1. hand'[User][s] = theirs
        BY <1>t, <2>4
      <4> QED
        BY <1>t, <4>1, HeldIff
    <3>3. \A c : c \in Held \ {mine} => c \in Held'
      BY <2>4, HeldIff
    <3> QED BY <3>1, <3>2, <3>3
  <2>8. Drawn' = (Drawn \ {theirs}) \cup {mine}
    <3>1. CASE k = 0
      BY <1>10, <1>c, <1>t, <2>2, <2>3, <2>5, <3>1, DrawnIff DEF Slot
    <3>2. CASE k = 1
      BY <1>10, <1>c, <1>t, <2>2, <2>3, <2>5, <3>2, DrawnIff DEF Slot
    <3> QED BY <3>1, <3>2 DEF Slot
  <2>9. \A p, q \in Player : \A t, u \in Slot :
            hand'[p][t] = hand'[q][u] => p = q /\ t = u
    BY <1>c, <2>4, <2>6, HeldIff
  <2>10. twoCards'[0] # twoCards'[1] /\ newCard' \notin {twoCards'[0], twoCards'[1]}
    <3>1. mine # newCard /\ mine # twoCards[0] /\ mine # twoCards[1]
      BY <1>t, <2>3, <2>6, DrawnIff
    <3> QED BY <1>10, <1>c, <2>2, <2>5, <3>1 DEF Slot
  <2> HIDE DEF mine, theirs
  <2>11. CardsConserved'
    BY <1>10, <1>c, <2>2, <2>3, <2>6, <2>7, <2>8, <2>9, <2>10 DEF CardsConserved
  <2>12. DeckFaceDown'
    BY <1>10, <1>f, <2>8 DEF DeckFaceDown, mine
  <2> QED BY <2>11, <2>12
<1>11. ASSUME NEW k \in Slot \cup {NoSlot}, FirstDialog(k) PROVE CardInv'
  <2>1. pc = "dialog0" /\ ~revealed[hand[User][0]]
    BY <1>11 DEF FirstDialog, CardInv, DialogFaceDown
  <2>2. UNCHANGED <<deck, revealed, newCard>>
    BY <1>11 DEF FirstDialog, AnswerDialog
  <2>3. CardsConserved' /\ DeckFaceDown'
    <3>1. CASE k \in Slot /\ Swap(0, k)
      BY <1>10, <2>1, <2>2, <3>1 DEF Slot, Dialog
    <3>2. CASE UNCHANGED <<hand, twoCards>>
      <4>1. UNCHANGED <<deck, hand, revealed, newCard, twoCards>>
        BY <2>2, <3>2
      <4> QED BY <1>c, <1>f, <4>1 DEF CardsConserved, DeckFaceDown, Held, Drawn
    <3> QED BY <1>11, <3>1, <3>2 DEF FirstDialog, AnswerDialog
  <2>4. hand'[User][1] = hand[User][1]
    BY <1>11, <1>t DEF FirstDialog, AnswerDialog, Swap, Slot
  <2>5. pc' = "return" \/ (pc' = "dialog1" /\ ~revealed'[hand'[User][1]])
    BY <1>11, <2>2, <2>4 DEF FirstDialog
  <2> QED BY <1>0, <2>3, <2>5 DEF CardInv, DialogFaceDown, ChallengerSeated
<1>12. ASSUME NEW k \in Slot \cup {NoSlot}, SecondDialog(k) PROVE CardInv'
  <2>1. pc = "dialog1" /\ ~revealed[hand[User][1]]
    BY <1>12 DEF SecondDialog, CardInv, DialogFaceDown
  <2>2. UNCHANGED <<deck, revealed, newCard>> /\ pc' = "return"
    BY <1>12 DEF SecondDialog, AnswerDialog
  <2>3. CardsConserved' /\ DeckFaceDown'
    <3>1. CASE k \in Slot /\ Swap(1, k)
      BY <1>10, <2>1, <2>2, <3>1 DEF Slot, Dialog
    <3>2. CASE UNCHANGED <<hand, twoCards>>
      <4>1. UNCHANGED <<deck, hand, revealed, newCard, twoCards>>
        BY <2>2, <3>2
      <4> QED BY <1>c, <1>f, <4>1 DEF CardsConserved, DeckFaceDown, Held, Drawn
    <3> QED BY <1>12, <3>1, <3>2 DEF SecondDialog, AnswerDialog
  <2> QED BY <1>0, <2>2, <2>3 DEF CardInv, DialogFaceDown, ChallengerSeated
<1>13. ASSUME NEW p \in Player, Challenges(p) PROVE CardInv'
  <2>1. challengeTurnInd' \in Player
    BY <1>13 DEF Challenges, CanAnswer
  <2> QED BY <1>1, <1>13, <2>1 DEF Challenges, ChallengerSeated, Dialog
\* The same, where no challenge begins.
<1>14. ASSUME UNCHANGED cardVars, pc' \notin Dialog \cup {"prove"} PROVE CardInv'
  BY <1>1, <1>14 DEF ChallengerSeated
<1>15. CASE EndGame \/ UNCHANGED vars
  <2>1. UNCHANGED <<pc, hand, revealed, challengeTurnInd, deck, newCard, twoCards>>
    BY <1>15 DEF EndGame, vars, cardVars, turnVars
  <2>2. CardsConserved' /\ DeckFaceDown'
    BY <1>c, <1>f, <2>1 DEF CardsConserved, DeckFaceDown, Held, Drawn
  <2> QED BY <1>0, <2>1, <2>2 DEF CardInv, DialogFaceDown, ChallengerSeated
<1>16. CASE SkipEliminated \/ AwaitUser \/ TakeUserMove \/ SkipAsked \/ AskingDone
  BY <1>14, <1>16 DEF SkipEliminated, AwaitUser, TakeUserMove, SkipAsked, AskingDone,
                      Announce, Dialog
<1>17. ASSUME NEW n \in MoveName, AIChooses(n) PROVE CardInv'
  BY <1>14, <1>17 DEF AIChooses, Announce, Dialog
<1>18. ASSUME NEW t \in Player, AIPicksTarget(t) PROVE CardInv'
  BY <1>14, <1>18 DEF AIPicksTarget, Announce, Dialog
<1>19. ASSUME NEW p \in Player, Allows(p) PROVE CardInv'
  BY <1>14, <1>19 DEF Allows, Dialog
<1>20. CASE ActCoins \/ ActSteal \/ CheckGameOver \/ LeaveLoop
  BY <1>14, <1>20 DEF ActCoins, ActSteal, CheckGameOver, LeaveLoop, AfterAct, Dialog
<1>21. ASSUME NEW n \in MoveName, NEW t \in Player,
              UserMoves([name |-> n, target |-> t]) PROVE CardInv'
  BY <1>14, <1>21 DEF UserMoves, Dialog
<1> QED
  BY <1>t, <1>3, <1>4, <1>5, <1>6, <1>7, <1>8, <1>9, <1>11, <1>12, <1>13, <1>15, <1>16,
     <1>17, <1>18, <1>19, <1>20, <1>21 DEF Next, GameThread, UserTurn, UserAnswers

-----------------------------------------------------------------------------
\* No exchange, challenge or replaced proof loses or doubles a card: the deck,
\* the hands and the cards on their way always add up to the cards of makeDeck,
\* each in one place.
THEOREM CardsAlwaysConserved == Spec => []CardsConserved
<1>1. Spec => []CardInv
  BY CardInit, CardStep, PTL DEF Spec
<1> QED BY <1>1, PTL DEF CardInv

\* Whoever draws from the deck draws a face-down card: a shown card is turned
\* before it is shuffled back, and a dialog never gives away a revealed one.
THEOREM DeckAlwaysFaceDown == Spec => []DeckFaceDown
<1>1. Spec => []CardInv
  BY CardInit, CardStep, PTL DEF Spec
<1> QED BY <1>1, PTL DEF CardInv

-----------------------------------------------------------------------------
\* A union is no larger than its parts together.
LEMMA UnionBound ==
  ASSUME NEW S, NEW T, IsFiniteSet(S), IsFiniteSet(T)
  PROVE  IsFiniteSet(S \cup T) /\ Cardinality(S \cup T) =< Cardinality(S) + Cardinality(T)
<1>1. /\ IsFiniteSet(S \cup T)
      /\ Cardinality(S \cup T) = Cardinality(S) + Cardinality(T) - Cardinality(S \cap T)
  BY FS_Union
<1>2. IsFiniteSet(S \cap T) 
  BY FS_Intersection
<1> QED BY <1>1, <1>2, FS_CardinalityType

\* One more element is at most one more.
LEMMA OneMore ==
  ASSUME NEW S, NEW x, IsFiniteSet(S)
  PROVE  /\ IsFiniteSet(S \cup {x}) /\ Cardinality(S \cup {x}) \in Nat
         /\ Cardinality(S \cup {x}) =< Cardinality(S) + 1
<1>1. Cardinality(S) \in Nat
  BY FS_CardinalityType
<1>2. /\ IsFiniteSet(S \cup {x})
      /\ Cardinality(S \cup {x}) = IF x \in S THEN Cardinality(S) ELSE Cardinality(S) + 1
  BY FS_AddElement
<1>3. \/ Cardinality(S \cup {x}) = Cardinality(S)
      \/ Cardinality(S \cup {x}) = Cardinality(S) + 1
  BY <1>2
<1> QED BY <1>1, <1>2, <1>3

\* The cards in one slot of all players are as many as the players.
LEMMA ColumnSize ==
  ASSUME NEW s
  PROVE  LET L == {hand[p][s] : p \in Player}
         IN  IsFiniteSet(L) /\ Cardinality(L) \in Nat /\ Cardinality(L) =< NP
<1> DEFINE L == {hand[p][s] : p \in Player}
           f == [p \in Player |-> hand[p][s]]
<1>1. f \in Surjection(Player, L)
  BY DEF Surjection
<1>2. IsFiniteSet(Player) /\ Cardinality(Player) = NP
  <2>1. NP \in Int /\ 0 \in Int /\ NP - 1 \in Int /\ ~(0 > NP - 1) /\ (NP - 1) - 0 + 1 = NP
    BY NPAssumption
  <2> QED BY <2>1, FS_Interval DEF Player
<1> HIDE DEF L, f
<1>3. IsFiniteSet(L) /\ Cardinality(L) =< NP
  BY <1>1, <1>2, FS_Surjection
<1>4. Cardinality(L) \in Nat
  BY <1>3, FS_CardinalityType
<1> QED BY <1>3, <1>4 DEF L

\* Outside an exchange the deck holds at least two cards: counting the rest.
LEMMA DeckLarge ==
  ASSUME CardInv, twoCards = NoPair, NEW a, deck \subseteq {a}
  PROVE  FALSE
<1> DEFINE L0 == {hand[p][0] : p \in Player}
           L1 == {hand[p][1] : p \in Player}
           U  == ((L0 \cup L1) \cup {a}) \cup {newCard}
<1>1. Card \subseteq U
  <2>1. Held \subseteq L0 \cup L1
    BY HeldIff DEF Slot
  <2>2. \A c \in Drawn : c = newCard
    BY DrawnIff DEF NoPair, Slot
  <2> QED BY <2>1, <2>2 DEF CardInv, CardsConserved
<1>2. /\ IsFiniteSet(L0) /\ Cardinality(L0) \in Nat /\ Cardinality(L0) =< NP
      /\ IsFiniteSet(L1) /\ Cardinality(L1) \in Nat /\ Cardinality(L1) =< NP
  BY ColumnSize
<1> HIDE DEF L0, L1
<1> DEFINE L == L0 \cup L1
           M == L \cup {a}
<1>3. /\ IsFiniteSet(L) /\ Cardinality(L) \in Nat
      /\ Cardinality(L) =< Cardinality(L0) + Cardinality(L1)
  <2>1. IsFiniteSet(L) /\ Cardinality(L) =< Cardinality(L0) + Cardinality(L1)
    BY <1>2, UnionBound
  <2> QED BY <2>1, FS_CardinalityType
<1> HIDE DEF L
<1>4. /\ IsFiniteSet(M) /\ Cardinality(M) \in Nat
      /\ Cardinality(M) =< Cardinality(L) + 1
  BY <1>3, OneMore
<1>5. U = M \cup {newCard}
  BY DEF L
<1> HIDE DEF M
<1>6. /\ IsFiniteSet(M \cup {newCard}) /\ Cardinality(M \cup {newCard}) \in Nat
      /\ Cardinality(M \cup {newCard}) =< Cardinality(M) + 1
  BY <1>4, OneMore
<1> HIDE DEF U
<1>7. IsFiniteSet(U) /\ Cardinality(U) \in Nat /\ Cardinality(U) =< Cardinality(M) + 1
  BY <1>5, <1>6
<1>8. Cardinality(Card) =< Cardinality(U) /\ Cardinality(Card) \in Nat
  BY <1>1, <1>7, FS_Subset, FS_CardinalityType, CardAssumption
<1> DEFINE l0 == Cardinality(L0)
           l1 == Cardinality(L1)
           l  == Cardinality(L)
           m  == Cardinality(M)
           u  == Cardinality(U)
           c  == Cardinality(Card)
<1>9. /\ l0 \in Nat /\ l1 \in Nat /\ l \in Nat /\ m \in Nat /\ u \in Nat /\ c \in Nat
      /\ l0 =< NP /\ l1 =< NP /\ l =< l0 + l1 /\ m =< l + 1 /\ u =< m + 1 /\ c =< u
  BY <1>2, <1>3, <1>4, <1>7, <1>8
<1>10. NP \in Nat /\ c >= 2 * NP + 3
  BY CardAssumption, NPAssumption
<1> HIDE DEF l0, l1, l, m, u, c
<1> QED BY <1>9, <1>10

\* giveACard and give2Cards never index an empty deck: with two cards for every
\* seat and three more, a challenged exchange finds its three cards.
THEOREM DeckNeverShort == Spec => []DeckNeverRunsShort
<1>1. CardInv => DeckNeverRunsShort
  <2>1. ASSUME CardInv, pc = "prove" PROVE deck # {}
    BY <2>1, DeckLarge DEF CardInv, TypeInv, CardsInFlight
  <2>2. ASSUME CardInv, pc = "act" PROVE \E a, b \in deck : a # b
    <3>1. twoCards = NoPair
      BY <2>2 DEF CardInv, TypeInv, CardsInFlight
    <3>2. deck # {} /\ \A a : ~(deck \subseteq {a})
      BY <2>2, <3>1, DeckLarge
    <3> QED BY <3>2
  <2> QED BY <2>1, <2>2 DEF DeckNeverRunsShort
<1>2. Spec => []CardInv
  BY CardInit, CardStep, PTL DEF Spec
<1> QED BY <1>1, <1>2, PTL
=============================================================================

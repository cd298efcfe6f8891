------------------------------ MODULE CoupGame ------------------------------
(***************************************************************************)
(* The turn engine: GameViewController.runGame on its dispatch queue, with *)
(* the deck it deals from (Deck.swift), the hands and purses of the        *)
(* players (Player.swift) and the buttons and dialogs of the user.         *)
(*                                                                         *)
(* The game thread is a program counter, pc: one value for each place of   *)
(* runGame, anyChallenges and actOnMove where it draws a random number,    *)
(* waits for the user, or where an invariant is worth reading.  Between    *)
(* two of them only this thread touches the cards and the coins, so one    *)
(* action stands for the code between two places.                          *)
(*                                                                         *)
(* The deck is a set of card objects: every draw picks a random index of a *)
(* shuffled array, so the order of the array cannot be observed.           *)
(*                                                                         *)
(* The user answers a prompt or a dialog in one step here.  How the two    *)
(* threads of the program hand that answer over is in ChallengePrompt and  *)
(* ExchangeDialog.                                                         *)
(***************************************************************************)
EXTENDS CoupCards

CONSTANTS
    NoCard,     \* the absence of a card in newCard and twoCards
    MaxCoins,   \* BOUND: a move that would make its caller richer is not chosen
    MaxDebt,    \* BOUND: nor a theft that would put its target further in debt
    Moves       \* BOUND: the moves that are ever chosen; all of them, or fewer
                \* where an instance would be too large

ASSUME NoCardAssumption == NoCard \notin Card
ASSUME BoundAssumption  == MaxCoins \in Nat /\ MaxDebt \in Nat /\ Moves \subseteq MoveName

VARIABLES
    deck,       \* deck.cardDeck: the objects still in the deck
    hand,       \* players[p].cards: the object in each slot of each player
    revealed,   \* Card.revealed of every object
    coins,      \* players[p].coins
    turnInd,
    gameOn,
    pc,         \* where the game thread is
    playerMove, \* the user's move while didPlayerMove, else NoMove
    move,       \* curMove of runGame; its caller is players[turnInd]
    challengeTurnInd,
    objection,  \* the name of the last answer anyChallenges collected
    theCard,    \* the slot of the card a claimant proved the claim with
    newCard,    \* the replacement drawn for it
    twoCards,   \* the two cards of a running exchange
    status      \* the verdict the last screen shows

cardVars == <<deck, hand, revealed, newCard, twoCards>>
turnVars == <<move, challengeTurnInd, objection, theCard>>
vars == <<deck, hand, revealed, coins, turnInd, gameOn, pc, playerMove,
          move, challengeTurnInd, objection, theCard, newCard, twoCards, status>>

NoMove == [name |-> "none", target |-> User]
NoSlot == -1
NoPair == [s \in Slot |-> NoCard]

Place == {"top", "idle", "target", "ask", "prove", "act",
          "dialog0", "dialog1", "return", "replace", "check", "over"}
Dialog == {"dialog0", "dialog1"}

-----------------------------------------------------------------------------
(***************************************************************************)
(* What the code asks of the players.                                      *)
(***************************************************************************)

Eliminated(p) == \A s \in Slot : revealed[hand[p][s]]

\* The cards on the table.
Held == {hand[p][s] : p \in Player, s \in Slot}

\* runGame steps over an eliminated player; anyChallenges also over the caller.
Skipped(p) == p = turnInd \/ Eliminated(p)

\* checkhaveCard: a face-down card of the right role backs the claim ...
HasCard(p, name) ==
    \E s \in Slot : ~revealed[hand[p][s]] /\ Ability(RoleOf[hand[p][s]]) = name

\* ... but the slot it answers is the first card of that role, revealed or not.
ProofSlot(p, name) == IF Ability(RoleOf[hand[p][0]]) = name THEN 0 ELSE 1

\* revealCard: the first face-down card, if there is one.
RevealFirst(p) ==
    [c \in Card |-> revealed[c] \/ c = hand[p][IF revealed[hand[p][0]] THEN 1 ELSE 0]]

\* A living opponent an AI can take two coins from.
CanRob(p) == p # turnInd /\ ~Eliminated(p) /\ coins[p] >= 2

-----------------------------------------------------------------------------
(***************************************************************************)
(* viewDidLoad: a new deck, two cards to everybody, and the work item that *)
(* runs runGame is queued.  Every player starts with two coins.            *)
(***************************************************************************)
Init ==
    /\ hand \in [Player -> [Slot -> Card]]
    /\ \A p, q \in Player : \A s, t \in Slot :
          hand[p][s] = hand[q][t] => p = q /\ s = t
    /\ deck = Card \ Held
    /\ revealed = [c \in Card |-> FALSE]
    /\ coins = [p \in Player |-> 2]
    /\ turnInd = 0
    /\ gameOn = TRUE
    /\ pc = "top"
    /\ playerMove = NoMove
    /\ move = NoMove
    /\ challengeTurnInd = 0
    /\ objection = "none"
    /\ theCard = NoSlot
    /\ newCard = NoCard
    /\ twoCards = NoPair
    /\ status = "You Lost"

\* Seeded defect: incrementInd without the wrap to 0.
NextPlayer_NoWrap(p) == p + 1

NextPlayer(p) == IF p + 1 >= NP THEN 0 ELSE p + 1     \* incrementInd

\* moveLog.append, and on to anyChallenges or straight to actOnMove.
Announce(m) ==
    /\ move' = m
    /\ pc' = IF m.name \in Unchallengeable THEN "act" ELSE "ask"
    /\ challengeTurnInd' = 0

-----------------------------------------------------------------------------
(***************************************************************************)
(* The head of the loop and the choice of a move.                          *)
(***************************************************************************)

\* Seeded defect: "continue" without the increment.
SkipEliminated_NoIncrement ==
    /\ pc = "top" /\ gameOn /\ Eliminated(turnInd)
    /\ UNCHANGED vars

SkipEliminated ==
    /\ pc = "top" /\ gameOn /\ Eliminated(turnInd)
    /\ turnInd' = NextPlayer(turnInd)
    /\ UNCHANGED <<cardVars, turnVars, coins, gameOn, pc, playerMove, status>>

\* The user has not moved: enable the buttons and leave the work item.
AwaitUser ==
    /\ pc = "top" /\ gameOn /\ ~Eliminated(turnInd)
    /\ turnInd = User /\ playerMove = NoMove
    /\ pc' = "idle"
    /\ UNCHANGED <<cardVars, turnVars, coins, turnInd, gameOn, playerMove, status>>

\* What the buttons and their target lists let the user choose.  The list for
\* a theft leaves out an opponent only if it is eliminated AND has two coins.
UserCan(m) ==
    /\ m.name \in Moves /\ coins[User] + Gain(m.name) =< MaxCoins
    /\ m.name \notin Targeted => m.target = User
    /\ m.name \in Targeted    => m.target # User
    /\ m.name = "coup"        => coins[User] >= 7 /\ ~Eliminated(m.target)
    /\ m.name = "assassinate" => coins[User] >= 3 /\ ~Eliminated(m.target)
    /\ m.name = "steal"       =>
          /\ \E p \in Player : CanRob(p)                        \* isStealPossible
          /\ ~(Eliminated(m.target) /\ coins[m.target] >= 2)
          /\ coins[m.target] - 2 >= -MaxDebt

\* A button, or the choice of a target (didSet of target): remember the move
\* and queue the work item again.
UserMoves(m) ==
    /\ pc = "idle" /\ gameOn
    /\ UserCan(m)
    /\ playerMove' = m
    /\ pc' = "top"
    /\ UNCHANGED <<cardVars, turnVars, coins, turnInd, gameOn, status>>

TakeUserMove ==
    /\ pc = "top" /\ gameOn /\ ~Eliminated(turnInd)
    /\ turnInd = User /\ playerMove # NoMove
    /\ Announce(playerMove)
    /\ playerMove' = NoMove
    /\ UNCHANGED <<cardVars, coins, turnInd, gameOn, objection, theCard, status>>

\* Whether changeMoveRate leaves a move a weight: none for an assassination
\* without three coins, none for a theft when no other player, eliminated or
\* not, has two.  How large the other weights are says only how often.
Weighted(name) ==
    /\ name = "assassinate" => coins[turnInd] >= 3
    /\ name = "steal" => \E p \in Player \ {turnInd} : coins[p] >= 2

\* Seeded defects: no forced coup; no look at the weights.
AICan_Hoards(name) ==
    /\ name \in Moves \ {"coup"} /\ Weighted(name)
    /\ coins[turnInd] + Gain(name) =< MaxCoins
AICan_OnCredit(name) ==
    /\ name \in Moves
    /\ (coins[turnInd] >= 7) = (name = "coup")
    /\ coins[turnInd] + Gain(name) =< MaxCoins

\* The moves getAIMoveName may answer: seven coins always mean a coup.
AICan(name) ==
    /\ name \in Moves /\ Weighted(name)
    /\ (coins[turnInd] >= 7) = (name = "coup")
    /\ coins[turnInd] + Gain(name) =< MaxCoins

AIChooses(name) ==
    /\ pc = "top" /\ gameOn /\ ~Eliminated(turnInd)
    /\ turnInd # User
    /\ AICan(name)
    /\ \/ /\ name \notin Targeted
          /\ Announce([name |-> name, target |-> turnInd])
       \/ /\ name \in Targeted
          /\ move' = [name |-> name, target |-> turnInd]
          /\ pc' = "target"
          /\ UNCHANGED challengeTurnInd
    /\ UNCHANGED <<cardVars, coins, turnInd, gameOn, playerMove, objection,
                   theCard, status>>

\* getPlayerMove draws players until one fits; a draw that does not fit
\* changes nothing.
AIPicksTarget(t) ==
    /\ pc = "target"
    /\ t # turnInd /\ ~Eliminated(t)
    /\ move.name = "steal" => coins[t] >= 2
    /\ Announce([move EXCEPT !.target = t])
    /\ UNCHANGED <<cardVars, coins, turnInd, gameOn, playerMove, objection,
                   theCard, status>>

-----------------------------------------------------------------------------
(***************************************************************************)
(* anyChallenges: the others answer in the order of their seats.           *)
(***************************************************************************)

SkipAsked ==
    /\ pc = "ask" /\ challengeTurnInd < NP /\ Skipped(challengeTurnInd)
    /\ challengeTurnInd' = challengeTurnInd + 1
    /\ UNCHANGED <<cardVars, coins, turnInd, gameOn, pc, playerMove, move,
                   objection, theCard, status>>

\* An AI answers at random; the user only while the game is on the screen.
CanAnswer(p) == p = challengeTurnInd /\ ~Skipped(p) /\ (p = User => gameOn)

Allows(p) ==
    /\ pc = "ask" /\ CanAnswer(p)
    /\ objection' = "allow"
    /\ challengeTurnInd' = challengeTurnInd + 1
    /\ UNCHANGED <<cardVars, coins, turnInd, gameOn, pc, playerMove, move,
                   theCard, status>>

Challenges(p) ==
    /\ pc = "ask" /\ CanAnswer(p)
    /\ objection' = "challenge"
    /\ pc' = "prove"
    /\ UNCHANGED <<cardVars, coins, turnInd, gameOn, playerMove, move,
                   challengeTurnInd, theCard, status>>

\* Nobody challenged.  With no answer at all the empty Move is returned, and
\* runGame carries nothing out.
AskingDone ==
    /\ pc = "ask" /\ challengeTurnInd = NP
    /\ pc' = IF objection = "allow" THEN "act" ELSE "check"
    /\ UNCHANGED <<cardVars, turnVars, coins, turnInd, gameOn, playerMove, status>>

-----------------------------------------------------------------------------
(***************************************************************************)
(* A challenge.                                                            *)
(***************************************************************************)

\* The claim holds: the challenger reveals a card, the replacement is drawn,
\* and the claimant's card is shown.
ClaimProved ==
    /\ pc = "prove" /\ HasCard(turnInd, move.name)
    /\ theCard' = ProofSlot(turnInd, move.name)
    /\ revealed' = [RevealFirst(challengeTurnInd)
                       EXCEPT ![hand[turnInd][theCard']] = TRUE]
    /\ \E c \in deck : newCard' = c /\ deck' = deck \ {c}
    /\ pc' = "act"
    /\ UNCHANGED <<hand, twoCards, coins, turnInd, gameOn, playerMove, move,
                   challengeTurnInd, objection, status>>

\* Seeded defect: a bluff that was called is carried out all the same.
BluffCalled_CarriedOut ==
    /\ pc = "prove" /\ ~HasCard(turnInd, move.name)
    /\ revealed' = RevealFirst(turnInd)
    /\ pc' = "act"
    /\ UNCHANGED <<deck, hand, newCard, twoCards, turnVars, coins, turnInd,
                   gameOn, playerMove, status>>

\* It does not: the claimant reveals a card and the move is not carried out.
BluffCalled ==
    /\ pc = "prove" /\ ~HasCard(turnInd, move.name)
    /\ revealed' = RevealFirst(turnInd)
    /\ pc' = "check"
    /\ UNCHANGED <<deck, hand, newCard, twoCards, turnVars, coins, turnInd,
                   gameOn, playerMove, status>>

\* Seeded defects: get1CardBackNShuffle forgets to turn the card, or to append
\* it, or the new card is put in the hand of the challenger.
ReplaceProof_FaceUp ==
    /\ pc = "replace"
    /\ hand' = [hand EXCEPT ![turnInd][theCard] = newCard]
    /\ deck' = deck \cup {hand[turnInd][theCard]}
    /\ newCard' = NoCard
    /\ pc' = "check"
    /\ UNCHANGED <<revealed, twoCards, turnVars, coins, turnInd, gameOn,
                   playerMove, status>>
ReplaceProof_NotReturned ==
    /\ pc = "replace"
    /\ hand' = [hand EXCEPT ![turnInd][theCard] = newCard]
    /\ newCard' = NoCard
    /\ pc' = "check"
    /\ UNCHANGED <<deck, revealed, twoCards, turnVars, coins, turnInd, gameOn,
                   playerMove, status>>
ReplaceProof_WrongHand ==
    /\ pc = "replace"
    /\ hand' = [hand EXCEPT ![challengeTurnInd][theCard] = newCard]
    /\ revealed' = [revealed EXCEPT ![hand[challengeTurnInd][theCard]] = FALSE]
    /\ deck' = deck \cup {hand[challengeTurnInd][theCard]}
    /\ newCard' = NoCard
    /\ pc' = "check"
    /\ UNCHANGED <<twoCards, turnVars, coins, turnInd, gameOn, playerMove, status>>

\* The shown card goes back to the deck, face down, and the new one takes its
\* slot.
ReplaceProof ==
    /\ pc = "replace"
    /\ hand' = [hand EXCEPT ![turnInd][theCard] = newCard]
    /\ revealed' = [revealed EXCEPT ![hand[turnInd][theCard]] = FALSE]
    /\ deck' = deck \cup {hand[turnInd][theCard]}
    /\ newCard' = NoCard
    /\ pc' = "check"
    /\ UNCHANGED <<twoCards, turnVars, coins, turnInd, gameOn, playerMove, status>>

-----------------------------------------------------------------------------
(***************************************************************************)
(* actOnMove.                                                              *)
(***************************************************************************)

AfterAct == IF theCard = NoSlot THEN "check" ELSE "replace"

ActCoins ==
    /\ pc = "act" /\ move.name \in {"income", "foreignAid", "tax"}
    /\ coins' = [coins EXCEPT ![turnInd] = @ + Gain(move.name)]
    /\ pc' = AfterAct
    /\ UNCHANGED <<cardVars, turnVars, turnInd, gameOn, playerMove, status>>

\* No look at what the target has: that was the business of the choice.
ActSteal ==
    /\ pc = "act" /\ move.name = "steal"
    /\ coins' = [coins EXCEPT ![move.target] = @ - 2, ![turnInd] = @ + 2]
    /\ pc' = AfterAct
    /\ UNCHANGED <<cardVars, turnVars, turnInd, gameOn, playerMove, status>>

ActKill ==
    /\ pc = "act" /\ move.name \in {"coup", "assassinate"}
    /\ coins' = [coins EXCEPT ![turnInd] = @ + Gain(move.name)]
    /\ revealed' = RevealFirst(move.target)
    /\ pc' = AfterAct
    /\ UNCHANGED <<deck, hand, newCard, twoCards, turnVars, turnInd, gameOn,
                   playerMove, status>>

\* An AI swaps every card it still holds face down for one of the two it drew.
AIExchange ==
    /\ pc = "act" /\ move.name = "exchange" /\ turnInd # User
    /\ \E drawn \in [Slot -> deck] :
          /\ drawn[0] # drawn[1]
          /\ LET old  == hand[turnInd]
                 kept == {s \in Slot : revealed[old[s]]}
                 new  == [s \in Slot |-> IF s \in kept THEN old[s] ELSE drawn[s]]
                 back == [s \in Slot |-> IF s \in kept THEN drawn[s] ELSE old[s]]
             IN /\ hand' = [hand EXCEPT ![turnInd] = new]
                /\ deck' = (deck \ {drawn[0], drawn[1]}) \cup {back[0], back[1]}
    /\ pc' = AfterAct
    /\ UNCHANGED <<revealed, newCard, twoCards, turnVars, coins, turnInd,
                   gameOn, playerMove, status>>

\* The user draws two, and is asked about every card still face down.
UserDraws ==
    /\ pc = "act" /\ move.name = "exchange" /\ turnInd = User
    /\ \E drawn \in [Slot -> deck] :
          /\ drawn[0] # drawn[1]
          /\ twoCards' = drawn
          /\ deck' = deck \ {drawn[0], drawn[1]}
    /\ pc' = IF ~revealed[hand[User][0]] THEN "dialog0"
             ELSE IF ~revealed[hand[User][1]] THEN "dialog1" ELSE "return"
    /\ UNCHANGED <<hand, revealed, newCard, turnVars, coins, turnInd, gameOn,
                   playerMove, status>>

\* Seeded defect: the card given up is not put among the two.
Swap_NotBack(s, k) ==
    /\ hand' = [hand EXCEPT ![User][s] = twoCards[k]]
    /\ UNCHANGED twoCards

\* applyExchange: the held card and the chosen one change places.  Choosing
\* neither (keepCardButtonPressed) leaves everything as it is.
Swap(s, k) ==
    /\ hand' = [hand EXCEPT ![User][s] = twoCards[k]]
    /\ twoCards' = [twoCards EXCEPT ![k] = hand[User][s]]

AnswerDialog(s, k) ==
    /\ gameOn
    /\ \/ k \in Slot /\ Swap(s, k)
       \/ k = NoSlot /\ UNCHANGED <<hand, twoCards>>
    /\ UNCHANGED <<deck, revealed, newCard, turnVars, coins, turnInd, gameOn,
                   playerMove, status>>

FirstDialog(k) ==
    /\ pc = "dialog0"
    /\ AnswerDialog(0, k)
    /\ pc' = IF ~revealed[hand[User][1]] THEN "dialog1" ELSE "return"

SecondDialog(k) ==
    /\ pc = "dialog1"
    /\ AnswerDialog(1, k)
    /\ pc' = "return"

\* get2CardsBackNShuffle.
UserReturns ==
    /\ pc = "return"
    /\ deck' = deck \cup {twoCards[0], twoCards[1]}
    /\ twoCards' = NoPair
    /\ pc' = AfterAct
    /\ UNCHANGED <<hand, revealed, newCard, turnVars, coins, turnInd, gameOn,
                   playerMove, status>>

-----------------------------------------------------------------------------
(***************************************************************************)
(* The end of a turn and of the game.                                      *)
(***************************************************************************)

Out == {p \in Player : Eliminated(p)}

\* Seeded defects: an off-by-one in the count; the user's end overlooked; a
\* single eliminated player ends the game.
Decided_OffByOne  == Cardinality(Out) = NP \/ Eliminated(User)
Decided_CountOnly == Cardinality(Out) = NP - 1
Decided_Early     == Cardinality(Out) >= 1

\* isGameOver counts the eliminated players, or looks at the user alone.
Decided == Cardinality(Out) = NP - 1 \/ Eliminated(User)

CheckGameOver ==
    /\ pc = "check"
    /\ gameOn' = (gameOn /\ ~Decided)
    /\ status' = IF ~Decided THEN status
                 ELSE IF Eliminated(User) THEN "You Lose" ELSE "You Won"
    /\ turnInd' = NextPlayer(turnInd)
    /\ pc' = "top"
    \* the locals of runGame go out of scope
    /\ move' = NoMove /\ theCard' = NoSlot
    /\ challengeTurnInd' = 0 /\ objection' = "none"
    /\ UNCHANGED <<cardVars, coins, playerMove>>

LeaveLoop ==
    /\ pc = "top" /\ ~gameOn
    /\ pc' = "over"
    /\ UNCHANGED <<cardVars, turnVars, coins, turnInd, gameOn, playerMove, status>>

\* The "End Game" button: prepare(for: gameEnds).  A dialog covers it.  The
\* game thread is not told: it finishes its turn, or waits for ever where it
\* waits for the user.
EndGame ==
    /\ gameOn /\ pc \notin Dialog
    /\ gameOn' = FALSE
    /\ UNCHANGED <<cardVars, turnVars, coins, turnInd, pc, playerMove, status>>

-----------------------------------------------------------------------------
UserTurn == \E n \in MoveName, t \in Player : UserMoves([name |-> n, target |-> t])
UserAnswers == \/ Allows(User) \/ Challenges(User)
               \/ \E k \in Slot \cup {NoSlot} : FirstDialog(k) \/ SecondDialog(k)

GameThread ==
    \/ SkipEliminated \/ AwaitUser \/ TakeUserMove
    \/ \E n \in MoveName : AIChooses(n)
    \/ \E t \in Player : AIPicksTarget(t)
    \/ SkipAsked
    \/ \E p \in Player \ {User} : Allows(p) \/ Challenges(p)
    \/ AskingDone \/ ClaimProved \/ BluffCalled
    \/ ActCoins \/ ActSteal \/ ActKill \/ AIExchange \/ UserDraws \/ UserReturns
    \/ ReplaceProof \/ CheckGameOver \/ LeaveLoop

Next == GameThread \/ UserTurn \/ UserAnswers \/ EndGame

Spec == Init /\ [][Next]_vars

\* The dispatch queue keeps running its work item, and AIPicksTarget, which
\* draws until it hits, hits.  The user owes the game nothing except an answer
\* to a question it waits for.
Fairness == WF_vars(GameThread) /\ WF_vars(UserTurn) /\ WF_vars(UserAnswers)
FairSpec == Spec /\ Fairness

-----------------------------------------------------------------------------
(***************************************************************************)
(* Properties.                                                             *)
(***************************************************************************)

\* Every variable keeps its type: the fields of GameViewController, Deck and
\* Player hold what their declarations promise.
TypeOK ==
    /\ deck \in SUBSET Card
    /\ hand \in [Player -> [Slot -> Card]]
    /\ revealed \in [Card -> BOOLEAN]
    /\ coins \in [Player -> Int]
    /\ turnInd \in Player
    /\ gameOn \in BOOLEAN
    /\ pc \in Place
    /\ playerMove \in [name : MoveName, target : Player] \cup {NoMove}
    /\ move \in [name : MoveName, target : Player] \cup {NoMove}
    /\ challengeTurnInd \in 0 .. NP
    /\ objection \in {"none", "allow", "challenge"}
    /\ theCard \in Slot \cup {NoSlot}
    /\ newCard \in Card \cup {NoCard}
    /\ twoCards \in [Slot -> Card \cup {NoCard}]
    /\ status \in Verdict

Drawn == {newCard, twoCards[0], twoCards[1]} \ {NoCard}

\* No card is lost or doubled by deals, exchanges and replaced proofs: every
\* object of the deck is in exactly one place - the deck, one slot of one
\* player, or among the cards drawn and not yet placed.
CardsConserved ==
    /\ Card = deck \cup Held \cup Drawn
    /\ deck \cap Held = {} /\ deck \cap Drawn = {} /\ Held \cap Drawn = {}
    /\ \A p, q \in Player : \A s, t \in Slot :
          hand[p][s] = hand[q][t] => p = q /\ s = t
    /\ twoCards[0] \in Card =>
          twoCards[0] # twoCards[1] /\ newCard \notin {twoCards[0], twoCards[1]}

\* Only a card in a hand is ever face up: a shown or swapped card that goes
\* back to the deck is face down before anybody can draw it.
DeckFaceDown == \A c \in deck \cup Drawn : ~revealed[c]

\* The deck never runs short of a draw: there is a card for every proof, and
\* two for every exchange, a challenged one included.
DeckNeverRunsShort ==
    /\ pc = "prove" => deck # {}
    /\ pc = "act" /\ move.name = "exchange" => \E a, b \in deck : a # b

\* The card a claimant shows is face up only until it is replaced.
Shown(p) == IF p = turnInd /\ pc \in Place \ {"top", "check", "over"}
            THEN {theCard} ELSE {}

\* The influence a player holds: face-down cards, and a proof being replaced.
Influence(p) == {s \in Slot : ~revealed[hand[p][s]] \/ s \in Shown(p)}

\* A player without influence never gets any again, whatever is drawn,
\* replaced or exchanged around it.
EliminationIsPermanent ==
    [][\A p \in Player : Influence(p) = {} => Influence(p)' = {}]_vars

\* The game goes on only while it is undecided: between two turns the user and
\* some AI are alive, so isGameOver misses no end of the game.
PlayOnlyUndecided ==
    pc \in {"top", "idle", "target", "ask"} /\ gameOn =>
        /\ Influence(User) # {}
        /\ \E p \in Player \ {User} : Influence(p) # {}

\* The verdict is the truth about the table: "You Won" means that every AI and
\* not the user has lost both cards, "You Lose" that the user has.
VerdictSound ==
    /\ status = "You Won" =>
          Influence(User) # {} /\ \A p \in Player \ {User} : Influence(p) = {}
    /\ status = "You Lose" => Influence(User) = {}

\* An announced claim is never dropped in silence: when everybody has been
\* asked, somebody has answered, so the empty Move is never returned.
ClaimNeverDropped ==
    pc = "ask" /\ challengeTurnInd = NP => objection = "allow"

\* Nobody loses the last coin to its own move, and nobody but the target of a
\* theft by the user falls below zero: what the choice of a move looked at is
\* still true when the move is carried out, however long the asking took.
DebtOnlyByUserTheft ==
    [][\A p \in Player : coins[p] >= 0 /\ coins'[p] < 0 =>
          /\ turnInd = User /\ move.name = "steal" /\ p = move.target]_vars

\* An AI couples the coup to its purse: it never holds more than nine coins.
AIPurseBounded == \A p \in Player \ {User} : coins[p] =< 9

\* A theft by an AI always has a victim: the draw of a target can succeed.
TheftHasVictim ==
    pc = "target" /\ move.name = "steal" => \E p \in Player : CanRob(p)

\* The card shown to win a challenge was face down: a revealed card is no proof.
ProofWasHidden ==
    [][pc = "prove" /\ pc' = "act" => ~revealed[hand[turnInd][theCard']]]_vars

\* getPlayerMove draws and draws: nobody in the game has two coins.
DrawsInVain == pc = "target" /\ move.name = "steal" /\ \A p \in Player : ~CanRob(p)

\* Every turn ends, and the next player's begins, whoever has to be skipped in
\* the loops of runGame and anyChallenges, unless the game is over - or an AI
\* draws the victim of a theft that has none (TheftHasVictim): nothing else
\* keeps a turn from ending.
TurnsGoRound ==
    \A p \in Player : turnInd = p ~> (turnInd = NextPlayer(p) \/ ~gameOn \/ DrawsInVain)
=============================================================================

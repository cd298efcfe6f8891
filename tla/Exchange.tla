------------------------------ MODULE Exchange ------------------------------
(***************************************************************************)
(* One exchange of the user as it is meant to go: for each card that is    *)
(* still face down the user is asked once, and keeps it or takes one of    *)
(* two cards drawn for it; then two cards go back to the deck.             *)
(*                                                                         *)
(* It stands between CoupGame, whose dialog steps are these steps, and     *)
(* ExchangeDialog, where two threads and a flag bring them about.          *)
(***************************************************************************)
CONSTANTS
    Card,       \* the card objects
    NoPair      \* twoCards when nothing is drawn

Slot == {0, 1}

VARIABLES
    cards,      \* user.cards
    faceUp,     \* the slots whose card is revealed
    twoCards,   \* the two cards drawn
    deck,       \* the cards in the deck
    place       \* what the exchange waits for

vars == <<cards, faceUp, twoCards, deck, place>>

\* What is left to ask after the first slot, and at all.
Second == IF 1 \notin faceUp THEN "dialog1" ELSE "return"
First  == IF 0 \notin faceUp THEN "dialog0" ELSE Second

\* Two cards have just been drawn.
Init ==
    /\ cards \in [Slot -> Card] /\ twoCards \in [Slot -> Card]
    /\ cards[0] # cards[1] /\ twoCards[0] # twoCards[1]
    /\ \A s, k \in Slot : cards[s] # twoCards[k]
    /\ deck \subseteq Card /\ \A s \in Slot : cards[s] \notin deck /\ twoCards[s] \notin deck
    /\ faceUp \in SUBSET Slot
    /\ place = First

Keep == UNCHANGED <<cards, twoCards>>

Take(s, k) ==
    /\ cards' = [cards EXCEPT ![s] = twoCards[k]]
    /\ twoCards' = [twoCards EXCEPT ![k] = cards[s]]

AnswerFirst ==
    /\ place = "dialog0"
    /\ Keep \/ \E k \in Slot : Take(0, k)
    /\ place' = Second
    /\ UNCHANGED <<faceUp, deck>>

AnswerSecond ==
    /\ place = "dialog1"
    /\ Keep \/ \E k \in Slot : Take(1, k)
    /\ place' = "return"
    /\ UNCHANGED <<faceUp, deck>>

Return ==
    /\ place = "return"
    /\ deck' = deck \cup {twoCards[0], twoCards[1]}
    /\ twoCards' = NoPair
    /\ place' = "over"
    /\ UNCHANGED <<cards, faceUp>>

Next == AnswerFirst \/ AnswerSecond \/ Return
Spec == Init /\ [][Next]_vars
=============================================================================

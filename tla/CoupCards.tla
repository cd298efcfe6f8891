------------------------------ MODULE CoupCards ------------------------------
(***************************************************************************)
(* The fixed vocabulary of a game of Coup: the seats, the card objects of  *)
(* the deck and the abilities printed on them (Card.swift), and the names  *)
(* of the moves (Move.swift).                                              *)
(*                                                                         *)
(* A card is an OBJECT here, as it is in the program: three Dukes are      *)
(* three elements of Card with the same RoleOf.                            *)
(***************************************************************************)
EXTENDS Integers, FiniteSets

CONSTANTS
    NP,         \* number of seats: the user and the AIs (OfflineViewController)
    Card,       \* the card objects makeDeck creates
    RoleOf      \* which subclass of Card each object belongs to

Role == {"Assassin", "Ambassador", "Captain", "Contessa", "Duke"}

\* A game starts with one to five AIs (OfflineViewController.swift:113,130).
ASSUME NPAssumption == NP \in 2..6

\* Two cards to each seat, and three more: a claimant who wins a challenge to
\* an exchange draws the replacement and then the two cards of the exchange.
\* The program has 15 cards and at most 6 seats, where this is an equality.
ASSUME CardAssumption ==
    /\ IsFiniteSet(Card)
    /\ Cardinality(Card) >= 2 * NP + 3
    /\ RoleOf \in [Card -> Role]

Player == 0 .. NP - 1
User   == 0             \* players[0]
Slot   == {0, 1}        \* cards.0 and cards.1

\* The move a card of each role backs.  "coup" is printed on every card and
\* cannot be challenged, so it takes no part in a proof.
Ability(r) ==
    CASE r = "Assassin"   -> "assassinate"
      [] r = "Ambassador" -> "exchange"
      [] r = "Captain"    -> "steal"
      [] r = "Contessa"   -> "foreignAid"
      [] r = "Duke"       -> "tax"

MoveName == {"income", "foreignAid", "coup", "exchange",
             "assassinate", "steal", "tax"}

\* The moves aimed at another player.
Targeted == {"coup", "assassinate", "steal"}

\* The moves nobody may object to (GameViewController.swift:270).
Unchallengeable == {"income", "coup"}

\* What the last screen can say; the first means that the game was broken off.
Verdict == {"You Lost", "You Lose", "You Won"}

\* What a move pays its caller when it is carried out (actOnMove).
Gain(name) ==
    CASE name = "income"      -> 1
      [] name = "foreignAid"  -> 2
      [] name = "steal"       -> 2
      [] name = "tax"         -> 3
      [] name = "assassinate" -> -3
      [] name = "coup"        -> -7
      [] name = "exchange"    -> 0
=============================================================================

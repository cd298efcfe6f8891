--------------------------- MODULE ExchangeDialog ---------------------------
(***************************************************************************)
(* One exchange of the user, step by step on its two threads.              *)
(*                                                                         *)
(* The game thread (actOnMove, GameViewController.swift:470-526) asks the  *)
(* main thread to present a dialog for each card that is still face down   *)
(* and spins on the flag switchSegue until it is answered.  The main       *)
(* thread runs the callbacks of the dialog (ExchangeViewController.swift): *)
(* a long press on one of the two cards, or the button "keep".  The page   *)
(* sheet can also be swiped away, which calls nothing.                     *)
(*                                                                         *)
(* A UILongPressGestureRecognizer sends its action when the press begins,  *)
(* for every move of the finger, and when it ends; the code does not look  *)
(* at recognizer.state, so each of them is a whole callback.               *)
(*                                                                         *)
(* The sleeps between the steps of the game thread only make some orders   *)
(* unlikely; here every order of the two threads happens.  The spinning    *)
(* thread is assumed to read the flag anew each time round.                *)
(***************************************************************************)
EXTENDS Integers, FiniteSets

CONSTANTS
    Card,       \* four card objects: the user's two and the two drawn
    NoDialog,   \* no dialog on the screen, no finger on a card
    MaxRepeats, \* BOUND: callbacks of one press after its first
    Swipes      \* BOUND: whether the user ever swipes a dialog away

ASSUME DialogAssumption ==
    /\ Cardinality(Card) = 4
    /\ MaxRepeats \in Nat
    /\ Swipes \in BOOLEAN

Slot == {0, 1}

\* A dialog: the slot it asks about, and its copy of the two cards.
Shown == [slot : Slot, two : [Slot -> Card]]

ASSUME NoDialogAssumption == NoDialog \notin Shown

VARIABLES
    cards,          \* user.cards
    faceUp,         \* the slots whose card is revealed
    twoCards,       \* GameViewController.twoCards
    returned,       \* how often each object was given back to the deck
    switchSegue,
    gpc,            \* where the game thread is
    screen,         \* the dialog shown: its slot and its copy of twoCards
    finger,         \* a press still going on: its dialog, its card, and how
                    \* many more callbacks it may send
    \* history
    repeated,       \* some press has sent a second callback
    early,          \* the second dialog was answered before the flag was reset
    swiped,         \* a dialog was swiped away
    answered        \* the slots whose dialog was answered

vars == <<cards, faceUp, twoCards, returned, switchSegue, gpc, screen, finger,
          repeated, early, swiped, answered>>
gameVars   == <<cards, faceUp, twoCards, returned>>
history    == <<repeated, early, swiped, answered>>

GamePlace == {"begin", "show0", "spin0", "show1", "sleep1", "spin1", "sleep2",
              "settle", "done"}

Init ==
    /\ cards \in [Slot -> Card] /\ twoCards \in [Slot -> Card]
    /\ Card = {cards[0], cards[1], twoCards[0], twoCards[1]}
    /\ faceUp \in SUBSET Slot
    /\ returned = [c \in Card |-> 0]
    /\ switchSegue \in BOOLEAN      \* whatever the last exchange left
    /\ gpc = "begin"
    /\ screen = NoDialog /\ finger = NoDialog
    /\ repeated = FALSE /\ early = FALSE /\ swiped = FALSE /\ answered = {}

-----------------------------------------------------------------------------
(***************************************************************************)
(* The game thread.                                                        *)
(***************************************************************************)

\* Seeded defect: the second card is asked about even when it is revealed.
AfterFirst_Always == "show1"

\* Seeded defect: the second card is not asked about.
AfterFirst_Never == "settle"

AfterFirst == IF 1 \notin faceUp THEN "show1" ELSE "settle"

Begin ==
    /\ gpc = "begin"
    /\ switchSegue' = FALSE
    /\ gpc' = IF 0 \notin faceUp THEN "show0" ELSE AfterFirst
    /\ UNCHANGED <<gameVars, screen, finger, history>>

\* Seeded defect: prepare(for:) does not hand the two cards over.
Present_Empty(s) == screen' = [slot |-> s, two |-> [k \in Slot |-> NoDialog]]

\* DispatchQueue.main.sync { performSegue }: the dialog copies twoCards.
Present(s) == screen' = [slot |-> s, two |-> twoCards]

ShowFirst ==
    /\ gpc = "show0"
    /\ Present(0)
    /\ gpc' = "spin0"
    /\ UNCHANGED <<gameVars, switchSegue, finger, history>>

WakeFirst ==
    /\ gpc = "spin0" /\ switchSegue
    /\ gpc' = AfterFirst
    /\ UNCHANGED <<gameVars, switchSegue, screen, finger, history>>

ShowSecond ==
    /\ gpc = "show1"
    /\ Present(1)
    /\ gpc' = "sleep1"
    /\ UNCHANGED <<gameVars, switchSegue, finger, history>>

\* Seeded defect: the flag is not reset between the two dialogs.
ResetSecond_Missing ==
    /\ gpc = "sleep1"
    /\ gpc' = "spin1"
    /\ UNCHANGED <<gameVars, switchSegue, screen, finger, history>>

\* After a sleep, with the dialog already up, the flag is reset.
ResetSecond ==
    /\ gpc = "sleep1"
    /\ switchSegue' = FALSE
    /\ gpc' = "spin1"
    /\ UNCHANGED <<gameVars, screen, finger, history>>

WakeSecond ==
    /\ gpc = "spin1" /\ switchSegue
    /\ gpc' = "sleep2"
    /\ UNCHANGED <<gameVars, switchSegue, screen, finger, history>>

ResetLast ==
    /\ gpc = "sleep2"
    /\ switchSegue' = FALSE
    /\ gpc' = "settle"
    /\ UNCHANGED <<gameVars, screen, finger, history>>

\* get2CardsBackNShuffle(twoCards): two appends, whatever the two are.
GiveBack ==
    /\ gpc = "settle"
    /\ returned' = [c \in Card |->
                      returned[c] + Cardinality({k \in Slot : twoCards[k] = c})]
    /\ gpc' = "done"
    /\ UNCHANGED <<cards, faceUp, twoCards, switchSegue, screen, finger, history>>

-----------------------------------------------------------------------------
(***************************************************************************)
(* The main thread.                                                        *)
(***************************************************************************)

\* Seeded defect: the card given up overwrites the other of the two.
applyExchange_WrongSlot(s, k, two) ==
    /\ twoCards' = [twoCards EXCEPT ![1 - k] = cards[s]]
    /\ cards' = [cards EXCEPT ![s] = two[k]]

\* applyExchange(chosenCard, caseNum): slot s takes card k of the dialog's copy.
applyExchange(s, k, two) ==
    /\ twoCards' = [twoCards EXCEPT ![k] = cards[s]]
    /\ cards' = [cards EXCEPT ![s] = two[k]]

\* An answer is early while the game thread has yet to reset the flag.
NoteAnswer ==
    /\ early' = (early \/ gpc = "sleep1")
    /\ answered' = answered \cup {screen.slot}

\* A long press begins: exchange, switchButton, dismiss.  The finger is still
\* on the card.
Press(k) ==
    /\ screen # NoDialog
    /\ applyExchange(screen.slot, k, screen.two)
    /\ switchSegue' = TRUE
    /\ screen' = NoDialog
    /\ finger' = [slot |-> screen.slot, two |-> screen.two, card |-> k,
                  left |-> MaxRepeats]
    /\ NoteAnswer
    /\ UNCHANGED <<faceUp, returned, gpc, repeated, swiped>>

\* The same press again: the finger moves, or lifts.
Repeat ==
    /\ finger # NoDialog /\ finger.left > 0
    /\ applyExchange(finger.slot, finger.card, finger.two)
    /\ switchSegue' = TRUE
    /\ finger' = [finger EXCEPT !.left = @ - 1]
    /\ repeated' = TRUE
    /\ UNCHANGED <<faceUp, returned, gpc, screen, early, swiped, answered>>

\* The press is over, or UIKit drops it with the dismissed view.
Release ==
    /\ finger # NoDialog
    /\ finger' = NoDialog
    /\ UNCHANGED <<gameVars, switchSegue, gpc, screen, history>>

\* Seeded defect: the button dismisses and forgets switchButton.
Keep_Silent ==
    /\ screen # NoDialog
    /\ screen' = NoDialog
    /\ NoteAnswer
    /\ UNCHANGED <<gameVars, switchSegue, gpc, finger, repeated, swiped>>

\* keepCardButtonPressed.
Keep ==
    /\ screen # NoDialog
    /\ switchSegue' = TRUE
    /\ screen' = NoDialog
    /\ NoteAnswer
    /\ UNCHANGED <<gameVars, gpc, finger, repeated, swiped>>

\* The page sheet is pulled down: no callback of the dialog runs.
Swipe ==
    /\ Swipes /\ screen # NoDialog
    /\ screen' = NoDialog
    /\ swiped' = TRUE
    /\ UNCHANGED <<gameVars, switchSegue, gpc, finger, repeated, early, answered>>

-----------------------------------------------------------------------------
GameThread == \/ Begin \/ ShowFirst \/ WakeFirst \/ ShowSecond \/ ResetSecond
              \/ WakeSecond \/ ResetLast \/ GiveBack
Answer == (\E k \in Slot : Press(k)) \/ Keep \/ Swipe

Next == GameThread \/ Answer \/ Repeat \/ Release

\* The game thread is scheduled, the user closes a dialog that is shown, and no
\* finger stays on the screen for ever.
Fairness == WF_vars(GameThread) /\ WF_vars(Answer) /\ WF_vars(Release)
Spec == Init /\ [][Next]_vars /\ Fairness

-----------------------------------------------------------------------------
(***************************************************************************)
(* Properties.                                                             *)
(***************************************************************************)

\* The shared fields and the dialog's own copies keep their types.
TypeOK ==
    /\ cards \in [Slot -> Card] /\ twoCards \in [Slot -> Card]
    /\ faceUp \in SUBSET Slot
    /\ returned \in [Card -> Nat]
    /\ switchSegue \in BOOLEAN
    /\ gpc \in GamePlace
    /\ screen = NoDialog \/ screen \in Shown
    /\ \/ finger = NoDialog
       \/ finger \in [slot : Slot, two : [Slot -> Card], card : Slot,
                      left : 0 .. MaxRepeats]
    /\ repeated \in BOOLEAN /\ early \in BOOLEAN /\ swiped \in BOOLEAN
    /\ answered \in SUBSET Slot

\* How often an object is in the user's hand, among the two, or given back.
Copies(c) == Cardinality({s \in Slot : cards[s] = c}) + returned[c]
               + IF gpc = "done" THEN 0
                 ELSE Cardinality({k \in Slot : twoCards[k] = c})

\* HowToPlayViewController.swift:39: the exchange "takes 2 cards and returns two
\* cards"; none of the four is lost or doubled.
FourCardsKept == \A c \in Card : Copies(c) = 1

\* It is kept as long as every press sends one callback, in every order of the
\* answers and of the game thread's resets and returns.
KeptUnlessRepeated == ~repeated => FourCardsKept

\* The two cards go back only when the last dialog has been closed: no answer
\* can reach cards that are already in the deck.
ClosedBeforeReturn ==
    ~repeated /\ gpc \in {"settle", "done"} => screen = NoDialog

\* A revealed card is never exchanged, not even by a late callback of another
\* dialog.
RevealedStays == [][\A s \in faceUp : cards'[s] = cards[s]]_vars

\* What the exchange waits for.  An answer counts from when it is given, and not
\* from when the game thread gets to see it.
PlaceNow ==
    IF gpc = "done" THEN "over"
    ELSE IF 0 \notin faceUp \cup answered THEN "dialog0"
    ELSE IF 1 \notin faceUp \cup answered THEN "dialog1" ELSE "return"

Meant == INSTANCE Exchange WITH
    NoPair   <- NoDialog,
    twoCards <- IF gpc = "done" THEN NoDialog ELSE twoCards,
    deck     <- {c \in Card : returned[c] > 0},
    place    <- PlaceNow

\* The two threads carry out an exchange as CoupGame has it - each face-down card
\* asked about once, the answer the user's, two cards back - up to the first
\* press that is delivered again, whatever is swiped away or answered early.
FollowsExchange == Meant!Init /\ [][Meant!Next \/ repeated']_(Meant!vars)

\* The game goes on after the exchange, whenever and whatever the user answers,
\* unless a dialog was swiped away or answered before the reset of the flag.
EndsUnlessLost == <>(gpc = "done" \/ early \/ swiped)

\* HowToPlayViewController.swift:39, "takes 2 cards and returns two cards": the
\* two cards of an exchange do come back, and the game goes on.
ExchangeEnds == <>(gpc = "done")
=============================================================================

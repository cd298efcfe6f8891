------------------------ MODULE ExchangeDialogProofs ------------------------
(***************************************************************************)
(* Theorems about ExchangeDialog, for every four cards, every set of       *)
(* revealed ones and any number of callbacks of a press.                   *)
(***************************************************************************)
EXTENDS ExchangeDialog, FiniteSetTheorems, TLAPS

\* With one callback for each press, a dialog is closed before the game thread
\* sees the flag, and nothing sets the flag before the first dialog is shown.
ClosedInv ==
    ~repeated =>
        /\ gpc = "show0" => ~switchSegue
        /\ gpc \in {"begin", "show0", "show1", "sleep2", "settle", "done"} =>
              screen = NoDialog
        /\ gpc \in {"spin0", "spin1"} /\ switchSegue => screen = NoDialog

\* Whatever is asked about, or still under a finger, is a face-down card.
HiddenInv ==
    /\ gpc = "show0" => 0 \notin faceUp
    /\ gpc = "show1" => 1 \notin faceUp
    /\ screen # NoDialog => screen.slot \notin faceUp
    /\ finger # NoDialog => finger.slot \notin faceUp

Count(f, c) == Cardinality({s \in Slot : f[s] = c})

\* With one callback for each press, the four cards are the user's two and the
\* two of the exchange, the copy of the dialog is up to date, and the deck gets
\* what twoCards holds in the end.
FourInv ==
    ~repeated =>
        /\ Card = {cards[0], cards[1], twoCards[0], twoCards[1]}
        /\ cards[0] # cards[1] /\ twoCards[0] # twoCards[1]
        /\ \A s, k \in Slot : cards[s] # twoCards[k]
        /\ screen # NoDialog => screen.two = twoCards
        /\ returned = [c \in Card |-> IF gpc = "done" THEN Count(twoCards, c) ELSE 0]

\* With one callback for each press, the game thread is no further than the
\* answers: a dialog on the screen is the one that waits, it was not answered
\* before, and the flag is set only when it was.
AnsweredInv ==
    ~repeated =>
        /\ gpc \in {"begin", "show0"} => answered = {}
        /\ gpc \in {"show0", "spin0"} => 0 \notin faceUp
        /\ gpc = "spin0" =>
              /\ 1 \notin answered
              /\ switchSegue => 0 \in answered
              /\ screen # NoDialog => screen.slot = 0 /\ 0 \notin answered
        /\ gpc \in {"show1", "sleep1", "spin1"} =>
              0 \in faceUp \cup answered /\ 1 \notin faceUp
        /\ gpc = "show1" => 1 \notin answered
        /\ gpc \in {"sleep1", "spin1"} /\ screen # NoDialog =>
              screen.slot = 1 /\ 1 \notin answered
        /\ gpc = "spin1" /\ switchSegue => 1 \in answered
        /\ gpc \in {"sleep2", "settle", "done"} => Slot \subseteq faceUp \cup answered

\* Every step is one of these.
LEMMA Steps ==
    ASSUME [Next]_vars
    PROVE  \/ Begin \/ ShowFirst \/ WakeFirst \/ ShowSecond \/ ResetSecond
           \/ WakeSecond \/ ResetLast \/ GiveBack \/ (\E k \in Slot : Press(k))
           \/ Keep \/ Swipe \/ Repeat \/ Release \/ UNCHANGED vars
BY DEF Next, GameThread, Answer

\* Counting in two slots.
LEMMA CountSlots ==
    ASSUME NEW f, NEW c
    PROVE  Count(f, c) = (IF f[0] = c THEN 1 ELSE 0) + (IF f[1] = c THEN 1 ELSE 0)
<1>1. CASE f[0] = c /\ f[1] = c
  <2>1. {s \in Slot : f[s] = c} = {0} \cup {1}
    BY <1>1 DEF Slot
  <2>2. IsFiniteSet({0}) /\ Cardinality({0}) = 1
    BY FS_Singleton
  <2>3. Cardinality({0} \cup {1}) = 2
    BY <2>2, FS_AddElement
  <2> QED
    BY <1>1, <2>1, <2>3 DEF Count
<1>2. CASE f[0] = c /\ f[1] # c
  <2>1. {s \in Slot : f[s] = c} = {0}
    BY <1>2 DEF Slot
  <2>2. Cardinality({0}) = 1
    BY FS_Singleton
  <2> QED
    BY <1>2, <2>1, <2>2 DEF Count
<1>3. CASE f[0] # c /\ f[1] = c
  <2>1. {s \in Slot : f[s] = c} = {1}
    BY <1>3 DEF Slot
  <2>2. Cardinality({1}) = 1
    BY FS_Singleton
  <2> QED
    BY <1>3, <2>1, <2>2 DEF Count
<1>4. CASE f[0] # c /\ f[1] # c
  <2>1. {s \in Slot : f[s] = c} = {}
    BY <1>4 DEF Slot
  <2> QED
    BY <1>4, <2>1, FS_EmptySet DEF Count
<1> QED
  BY <1>1, <1>2, <1>3, <1>4

\* Three names do not make four cards.
LEMMA FewerThanFour ==
    ASSUME NEW a, NEW b, NEW c
    PROVE  Cardinality({a, b, c}) =< 3
<1>1. IsFiniteSet({a}) /\ Cardinality({a}) = 1
  BY FS_Singleton
<1>2. IsFiniteSet({a} \cup {b}) /\ Cardinality({a} \cup {b}) =< 2
  BY <1>1, FS_AddElement
<1>3. Cardinality(({a} \cup {b}) \cup {c}) =< 3
  <2>1. Cardinality({a} \cup {b}) \in Nat
    BY <1>2, FS_CardinalityType
  <2>2. Cardinality(({a} \cup {b}) \cup {c})
          = IF c \in {a} \cup {b} THEN Cardinality({a} \cup {b})
            ELSE Cardinality({a} \cup {b}) + 1
    BY <1>2, FS_AddElement
  <2> QED
    BY <1>2, <2>1, <2>2
<1>4. {a, b, c} = ({a} \cup {b}) \cup {c}
  OBVIOUS
<1> QED
  BY <1>3, <1>4

-----------------------------------------------------------------------------
LEMMA TypeInit == Init => TypeOK
<1> SUFFICES ASSUME Init PROVE TypeOK
  OBVIOUS
<1>1. returned \in [Card -> Nat]
  BY DEF Init
<1> QED
  BY <1>1 DEF Init, TypeOK, GamePlace

\* The types are kept by every step.
LEMMA TypeStep ==
    ASSUME TypeOK, [Next]_vars
    PROVE  TypeOK'
<1>1. CASE Begin
  BY <1>1, DialogAssumption DEF Begin, AfterFirst, gameVars, history, TypeOK, GamePlace, Shown, Slot
<1>2. CASE ShowFirst
  BY <1>2, DialogAssumption DEF ShowFirst, Present, gameVars, history, TypeOK, GamePlace, Shown, Slot
<1>3. CASE WakeFirst
  BY <1>3, DialogAssumption DEF WakeFirst, AfterFirst, gameVars, history, TypeOK, GamePlace, Shown, Slot
<1>4. CASE ShowSecond
  BY <1>4, DialogAssumption DEF ShowSecond, Present, gameVars, history, TypeOK, GamePlace, Shown, Slot
<1>5. CASE ResetSecond
  BY <1>5, DialogAssumption DEF ResetSecond, gameVars, history, TypeOK, GamePlace, Shown, Slot
<1>6. CASE WakeSecond
  BY <1>6, DialogAssumption DEF WakeSecond, gameVars, history, TypeOK, GamePlace, Shown, Slot
<1>7. CASE ResetLast
  BY <1>7, DialogAssumption DEF ResetLast, gameVars, history, TypeOK, GamePlace, Shown, Slot
<1>8. CASE GiveBack
  <2>1. \A c \in Card : Count(twoCards, c) \in Nat
    BY CountSlots
  <2>2. returned' \in [Card -> Nat]
    BY <1>8, <2>1 DEF GiveBack, TypeOK, Count
  <2> QED
    BY <1>8, <2>2 DEF GiveBack, TypeOK, GamePlace, history
<1>9. ASSUME NEW k \in Slot, Press(k) PROVE TypeOK'
  <2>1. screen \in Shown
    BY <1>9 DEF Press, TypeOK
  <2>2. screen.slot \in Slot /\ screen.two \in [Slot -> Card]
    BY <2>1 DEF Shown
  <2>3. cards' \in [Slot -> Card] /\ twoCards' \in [Slot -> Card]
    BY <1>9, <2>2 DEF Press, applyExchange, TypeOK
  <2>4. finger' \in [slot : Slot, two : [Slot -> Card], card : Slot, left : 0 .. MaxRepeats]
    BY <1>9, <2>2, DialogAssumption DEF Press
  <2>5. answered' \in SUBSET Slot /\ early' \in BOOLEAN
    BY <1>9, <2>2 DEF Press, NoteAnswer, TypeOK
  <2> QED
    BY <1>9, <2>3, <2>4, <2>5 DEF Press, TypeOK
<1>10. CASE Keep
  BY <1>10, DialogAssumption DEF Keep, NoteAnswer, gameVars, TypeOK, GamePlace, Shown, Slot
<1>11. CASE Swipe
  BY <1>11, DialogAssumption DEF Swipe, gameVars, TypeOK, GamePlace, Shown, Slot
<1>12. CASE Repeat
  BY <1>12, DialogAssumption DEF Repeat, applyExchange, TypeOK, GamePlace, Shown, Slot
<1>13. CASE Release
  BY <1>13, DialogAssumption DEF Release, gameVars, history, TypeOK, GamePlace, Shown, Slot
<1>14. CASE UNCHANGED vars
  BY <1>14, DialogAssumption DEF vars, gameVars, history, TypeOK, GamePlace, Shown, Slot
<1> QED
  BY <1>1, <1>2, <1>3, <1>4, <1>5, <1>6, <1>7, <1>8, <1>9, <1>10, <1>11, <1>12, <1>13, <1>14, Steps

\* The shared fields and the dialog's own copies keep their types.
THEOREM TypeCorrect == Spec => []TypeOK
<1>1. TypeOK /\ [Next]_vars => TypeOK'
  BY TypeStep
<1> QED
  BY TypeInit, <1>1, PTL DEF Spec

-----------------------------------------------------------------------------
LEMMA ClosedInit == Init => ClosedInv
BY DEF Init, ClosedInv

\* A dialog is closed by the callback that sets the flag.
LEMMA ClosedStep ==
    ASSUME TypeOK, ClosedInv, [Next]_vars
    PROVE  ClosedInv'
<1>1. CASE Begin
  BY <1>1 DEF Begin, AfterFirst, gameVars, history, ClosedInv, TypeOK, GamePlace
<1>2. CASE ShowFirst
  BY <1>2 DEF ShowFirst, Present, gameVars, history, ClosedInv, TypeOK, GamePlace
<1>3. CASE WakeFirst
  BY <1>3 DEF WakeFirst, AfterFirst, gameVars, history, ClosedInv, TypeOK, GamePlace
<1>4. CASE ShowSecond
  BY <1>4 DEF ShowSecond, Present, gameVars, history, ClosedInv, TypeOK, GamePlace
<1>5. CASE ResetSecond
  BY <1>5 DEF ResetSecond, gameVars, history, ClosedInv, TypeOK, GamePlace
<1>6. CASE WakeSecond
  BY <1>6 DEF WakeSecond, gameVars, history, ClosedInv, TypeOK, GamePlace
<1>7. CASE ResetLast
  BY <1>7 DEF ResetLast, gameVars, history, ClosedInv, TypeOK, GamePlace
<1>8. CASE GiveBack
  BY <1>8 DEF GiveBack, history, ClosedInv, TypeOK, GamePlace
<1>9. CASE \E k \in Slot : Press(k)
  BY <1>9 DEF Press, applyExchange, NoteAnswer, ClosedInv, TypeOK, GamePlace
<1>10. CASE Keep
  BY <1>10 DEF Keep, NoteAnswer, gameVars, ClosedInv, TypeOK, GamePlace
<1>11. CASE Swipe
  BY <1>11 DEF Swipe, gameVars, ClosedInv, TypeOK, GamePlace
<1>12. CASE Repeat
  BY <1>12 DEF Repeat, applyExchange, ClosedInv, TypeOK, GamePlace
<1>13. CASE Release
  BY <1>13 DEF Release, gameVars, history, ClosedInv, TypeOK, GamePlace
<1>14. CASE UNCHANGED vars
  BY <1>14 DEF vars, gameVars, history, ClosedInv, TypeOK, GamePlace
<1> QED
  BY <1>1, <1>2, <1>3, <1>4, <1>5, <1>6, <1>7, <1>8, <1>9, <1>10, <1>11, <1>12, <1>13, <1>14, Steps

LEMMA ClosedAlways == Spec => []ClosedInv
<1>1. TypeOK /\ ClosedInv /\ [Next]_vars => ClosedInv'
  BY ClosedStep
<1> QED
  BY ClosedInit, <1>1, TypeCorrect, PTL DEF Spec

\* The two cards go back only when the last dialog has been closed.
THEOREM ClosedFirst == Spec => []ClosedBeforeReturn
<1>1. ClosedInv => ClosedBeforeReturn
  BY DEF ClosedInv, ClosedBeforeReturn
<1> QED
  BY ClosedAlways, <1>1, PTL

-----------------------------------------------------------------------------
LEMMA HiddenInit == Init => HiddenInv
BY DEF Init, HiddenInv

\* Only face-down cards are asked about.
LEMMA HiddenStep ==
    ASSUME TypeOK, HiddenInv, [Next]_vars
    PROVE  HiddenInv'
<1>1. CASE Begin
  BY <1>1 DEF Begin, AfterFirst, gameVars, history, HiddenInv, TypeOK, Shown
<1>2. CASE ShowFirst
  BY <1>2 DEF ShowFirst, Present, gameVars, history, HiddenInv, TypeOK, Shown
<1>3. CASE WakeFirst
  BY <1>3 DEF WakeFirst, AfterFirst, gameVars, history, HiddenInv, TypeOK, Shown
<1>4. CASE ShowSecond
  BY <1>4 DEF ShowSecond, Present, gameVars, history, HiddenInv, TypeOK, Shown
<1>5. CASE ResetSecond
  BY <1>5 DEF ResetSecond, gameVars, history, HiddenInv, TypeOK, Shown
<1>6. CASE WakeSecond
  BY <1>6 DEF WakeSecond, gameVars, history, HiddenInv, TypeOK, Shown
<1>7. CASE ResetLast
  BY <1>7 DEF ResetLast, gameVars, history, HiddenInv, TypeOK, Shown
<1>8. CASE GiveBack
  BY <1>8 DEF GiveBack, history, HiddenInv, TypeOK, Shown
<1>9. CASE \E k \in Slot : Press(k)
  BY <1>9 DEF Press, applyExchange, NoteAnswer, HiddenInv, TypeOK, Shown
<1>10. CASE Keep
  BY <1>10 DEF Keep, NoteAnswer, gameVars, HiddenInv, TypeOK, Shown
<1>11. CASE Swipe
  BY <1>11 DEF Swipe, gameVars, HiddenInv, TypeOK, Shown
<1>12. CASE Repeat
  BY <1>12 DEF Repeat, applyExchange, HiddenInv, TypeOK, Shown
<1>13. CASE Release
  BY <1>13 DEF Release, gameVars, history, HiddenInv, TypeOK, Shown
<1>14. CASE UNCHANGED vars
  BY <1>14 DEF vars, gameVars, history, HiddenInv, TypeOK, Shown
<1> QED
  BY <1>1, <1>2, <1>3, <1>4, <1>5, <1>6, <1>7, <1>8, <1>9, <1>10, <1>11, <1>12, <1>13, <1>14, Steps

LEMMA HiddenAlways == Spec => []HiddenInv
<1>1. TypeOK /\ HiddenInv /\ [Next]_vars => HiddenInv'
  BY HiddenStep
<1> QED
  BY HiddenInit, <1>1, TypeCorrect, PTL DEF Spec

\* A revealed card is never exchanged, not even by a late callback of another
\* dialog, however many of them there are.
THEOREM RevealedCardsStay == Spec => RevealedStays
<1>1. TypeOK /\ HiddenInv /\ [Next]_vars => [\A s \in faceUp : cards'[s] = cards[s]]_vars
  <2> SUFFICES ASSUME TypeOK, HiddenInv, [Next]_vars
               PROVE  \A s \in faceUp : cards'[s] = cards[s]
    OBVIOUS
  <2>1. CASE UNCHANGED cards
    BY <2>1
  <2>2. CASE \E k \in Slot : Press(k)
    BY <2>2 DEF Press, applyExchange, HiddenInv, TypeOK, Shown
  <2>3. CASE Repeat
    BY <2>3 DEF Repeat, applyExchange, HiddenInv, TypeOK
  <2> QED
    BY <2>1, <2>2, <2>3, Steps DEF Begin, ShowFirst, WakeFirst, ShowSecond, ResetSecond,
       WakeSecond, ResetLast, GiveBack, Keep, Swipe, Release, vars, gameVars
<1> QED
  BY <1>1, TypeCorrect, HiddenAlways, PTL DEF Spec, RevealedStays

-----------------------------------------------------------------------------
LEMMA FourInit == Init => FourInv
<1> SUFFICES ASSUME Init PROVE FourInv
  OBVIOUS
<1>1. Card = {cards[0], cards[1], twoCards[0], twoCards[1]}
  BY DEF Init
<1>2. ASSUME NEW a, NEW b, NEW c PROVE Card # {a, b, c}
  <2> SUFFICES ASSUME Card = {a, b, c} PROVE FALSE
    OBVIOUS
  <2>1. Cardinality({a, b, c}) =< 3
    BY FewerThanFour
  <2>2. Cardinality({a, b, c}) = 4
    BY DialogAssumption
  <2> QED
    BY <2>1, <2>2
<1>3. cards[0] # cards[1]
  <2>1. cards[0] = cards[1] => Card = {cards[0], twoCards[0], twoCards[1]}
    BY <1>1
  <2> QED
    BY <1>2, <2>1
<1>4. twoCards[0] # twoCards[1]
  <2>1. twoCards[0] = twoCards[1] => Card = {cards[0], cards[1], twoCards[0]}
    BY <1>1
  <2> QED
    BY <1>2, <2>1
<1>5. ASSUME NEW s \in Slot, NEW k \in Slot PROVE cards[s] # twoCards[k]
  <2>1. cards[s] = twoCards[k] =>
            Card = {cards[0], cards[1], twoCards[1 - k]}
    BY <1>1 DEF Slot
  <2> QED
    BY <1>2, <2>1
<1>6. screen = NoDialog /\ gpc # "done" /\ returned = [c \in Card |-> 0]
  BY DEF Init
<1> QED
  BY <1>1, <1>3, <1>4, <1>5, <1>6 DEF FourInv

\* A press that sends one callback swaps a card of the hand for one of the two.
LEMMA FourStep ==
    ASSUME TypeOK, ClosedInv, FourInv, [Next]_vars
    PROVE  FourInv'
<1>1. CASE Begin
  BY <1>1 DEF Begin, AfterFirst, gameVars, history, FourInv, Count
<1>2. CASE ShowFirst
  BY <1>2 DEF ShowFirst, Present, gameVars, history, FourInv, Count
<1>3. CASE WakeFirst
  BY <1>3 DEF WakeFirst, AfterFirst, gameVars, history, FourInv, Count
<1>4. CASE ShowSecond
  BY <1>4 DEF ShowSecond, Present, gameVars, history, FourInv, Count
<1>5. CASE ResetSecond
  BY <1>5 DEF ResetSecond, gameVars, history, FourInv, Count
<1>6. CASE WakeSecond
  BY <1>6 DEF WakeSecond, gameVars, history, FourInv, Count
<1>7. CASE ResetLast
  BY <1>7 DEF ResetLast, gameVars, history, FourInv, Count
<1>8. CASE GiveBack
  <2> SUFFICES ASSUME ~repeated PROVE FourInv'
    BY <1>8 DEF GiveBack, history, FourInv
  <2>1. \A c \in Card : returned[c] = 0
    BY <1>8 DEF GiveBack, FourInv
  <2>2. \A c \in Card : Count(twoCards, c) \in Nat
    BY CountSlots
  <2>3. returned' = [c \in Card |-> returned[c] + Count(twoCards, c)]
    BY <1>8 DEF GiveBack, Count
  <2>4. returned' = [c \in Card |-> Count(twoCards, c)]
    BY <2>1, <2>2, <2>3
  <2>5. UNCHANGED <<cards, twoCards, screen>> /\ gpc' = "done"
    BY <1>8 DEF GiveBack
  <2>6. \A c \in Card : Count(twoCards', c) = Count(twoCards, c)
    BY <2>5
  <2> QED
    BY <2>4, <2>5, <2>6 DEF FourInv
<1>9. ASSUME NEW k \in Slot, Press(k) PROVE FourInv'
  <2> SUFFICES ASSUME ~repeated PROVE FourInv'
    BY <1>9 DEF Press, FourInv
  <2>1. screen.two = twoCards /\ screen.slot \in Slot /\ gpc # "done"
    BY <1>9 DEF Press, FourInv, ClosedInv, TypeOK, Shown
  <2>2. cards' = [cards EXCEPT ![screen.slot] = twoCards[k]]
        /\ twoCards' = [twoCards EXCEPT ![k] = cards[screen.slot]]
    BY <1>9, <2>1 DEF Press, applyExchange
  <2>3. /\ Card = {cards'[0], cards'[1], twoCards'[0], twoCards'[1]}
        /\ cards'[0] # cards'[1] /\ twoCards'[0] # twoCards'[1]
        /\ \A s, j \in Slot : cards'[s] # twoCards'[j]
    BY <2>1, <2>2 DEF FourInv, TypeOK, Slot
  <2>4. screen' = NoDialog /\ returned' = returned /\ gpc' = gpc
    BY <1>9 DEF Press
  <2> QED
    BY <2>1, <2>3, <2>4 DEF FourInv
<1>10. CASE Keep
  BY <1>10 DEF Keep, NoteAnswer, gameVars, FourInv, Count
<1>11. CASE Swipe
  BY <1>11 DEF Swipe, gameVars, FourInv, Count
<1>12. CASE Repeat
  BY <1>12 DEF Repeat, applyExchange, FourInv, Count
<1>13. CASE Release
  BY <1>13 DEF Release, gameVars, history, FourInv, Count
<1>14. CASE UNCHANGED vars
  BY <1>14 DEF vars, gameVars, history, FourInv, Count
<1> QED
  BY <1>1, <1>2, <1>3, <1>4, <1>5, <1>6, <1>7, <1>8, <1>9, <1>10, <1>11, <1>12, <1>13, <1>14, Steps

LEMMA FourAlways == Spec => []FourInv
<1>1. TypeOK /\ ClosedInv /\ FourInv /\ [Next]_vars => FourInv'
  BY FourStep
<1> QED
  BY FourInit, <1>1, TypeCorrect, ClosedAlways, PTL DEF Spec

\* None of the four cards is lost or doubled, as long as every press sends one
\* callback.
THEOREM CardsKept == Spec => []KeptUnlessRepeated
<1>1. FourInv => KeptUnlessRepeated
  <2> SUFFICES ASSUME FourInv, ~repeated, NEW c \in Card PROVE Copies(c) = 1
    BY DEF KeptUnlessRepeated, FourCardsKept
  <2>1. Copies(c) = Count(cards, c) + Count(twoCards, c)
    <3>0. Count(cards, c) \in Nat /\ Count(twoCards, c) \in Nat
      BY CountSlots
    <3>1. CASE gpc = "done"
      <4>1. returned[c] = Count(twoCards, c)
        BY <3>1 DEF FourInv
      <4>2. Copies(c) = Count(cards, c) + returned[c] + 0
        BY <3>1 DEF Copies, Count
      <4> QED
        BY <3>0, <4>1, <4>2
    <3>2. CASE gpc # "done"
      <4>1. returned[c] = 0
        BY <3>2 DEF FourInv
      <4>2. Copies(c) = Count(cards, c) + returned[c] + Count(twoCards, c)
        BY <3>2 DEF Copies, Count
      <4> QED
        BY <3>0, <4>1, <4>2
    <3> QED
      BY <3>1, <3>2
  <2>2. Count(cards, c) = (IF cards[0] = c THEN 1 ELSE 0) + (IF cards[1] = c THEN 1 ELSE 0)
    BY CountSlots
  <2>3. Count(twoCards, c) = (IF twoCards[0] = c THEN 1 ELSE 0)
                               + (IF twoCards[1] = c THEN 1 ELSE 0)
    BY CountSlots
  <2> QED
    BY <2>1, <2>2, <2>3 DEF FourInv, Slot
<1> QED
  BY FourAlways, <1>1, PTL
-----------------------------------------------------------------------------
LEMMA AnsweredInit == Init => AnsweredInv
BY DEF Init, AnsweredInv

\* The game thread waits for the answer to the dialog it has shown.
LEMMA AnsweredStep ==
    ASSUME TypeOK, ClosedInv, AnsweredInv, [Next]_vars
    PROVE  AnsweredInv'
<1>1. CASE Begin
  BY <1>1 DEF Begin, AfterFirst, gameVars, history, AnsweredInv, ClosedInv, TypeOK, Slot
<1>2. CASE ShowFirst
  BY <1>2 DEF ShowFirst, Present, gameVars, history, AnsweredInv, ClosedInv, TypeOK, Slot
<1>3. CASE WakeFirst
  BY <1>3 DEF WakeFirst, AfterFirst, gameVars, history, AnsweredInv, ClosedInv, TypeOK, Slot
<1>4. CASE ShowSecond
  BY <1>4 DEF ShowSecond, Present, gameVars, history, AnsweredInv, ClosedInv, TypeOK, Slot
<1>5. CASE ResetSecond
  BY <1>5 DEF ResetSecond, gameVars, history, AnsweredInv, ClosedInv, TypeOK, Slot
<1>6. CASE WakeSecond
  BY <1>6 DEF WakeSecond, gameVars, history, AnsweredInv, ClosedInv, TypeOK, Slot
<1>7. CASE ResetLast
  BY <1>7 DEF ResetLast, gameVars, history, AnsweredInv, ClosedInv, TypeOK, Slot
<1>8. CASE GiveBack
  BY <1>8 DEF GiveBack, history, AnsweredInv, ClosedInv, TypeOK, Slot
<1>9. CASE \E k \in Slot : Press(k)
  BY <1>9 DEF Press, applyExchange, NoteAnswer, AnsweredInv, ClosedInv, TypeOK, GamePlace, Slot
<1>10. CASE Keep
  BY <1>10 DEF Keep, NoteAnswer, gameVars, AnsweredInv, ClosedInv, TypeOK, GamePlace, Slot
<1>11. CASE Swipe
  BY <1>11 DEF Swipe, gameVars, AnsweredInv, ClosedInv, TypeOK, Slot
<1>12. CASE Repeat
  BY <1>12 DEF Repeat, AnsweredInv
<1>13. CASE Release
  BY <1>13 DEF Release, gameVars, history, AnsweredInv, ClosedInv, TypeOK, Slot
<1>14. CASE UNCHANGED vars
  BY <1>14 DEF vars, gameVars, history, AnsweredInv, ClosedInv, TypeOK, Slot
<1> QED
  BY <1>1, <1>2, <1>3, <1>4, <1>5, <1>6, <1>7, <1>8, <1>9, <1>10, <1>11, <1>12, <1>13, <1>14, Steps

LEMMA AnsweredAlways == Spec => []AnsweredInv
<1>1. TypeOK /\ ClosedInv /\ AnsweredInv /\ [Next]_vars => AnsweredInv'
  BY AnsweredStep
<1> QED
  BY AnsweredInit, <1>1, TypeCorrect, ClosedAlways, PTL DEF Spec

-----------------------------------------------------------------------------
(***************************************************************************)
(* The two threads carry out the exchange of module Exchange.              *)
(***************************************************************************)

\* Two cards have been drawn, and the first face-down card is asked about.
LEMMA MeantInit == Init => Meant!Init
<1> SUFFICES ASSUME Init PROVE Meant!Init
  OBVIOUS
<1>1. FourInv /\ gpc # "done" /\ answered = {} /\ returned = [c \in Card |-> 0]
  BY FourInit DEF Init
<1>2. {c \in Card : returned[c] > 0} = {}
  BY <1>1
<1>3. /\ cards[0] # cards[1] /\ twoCards[0] # twoCards[1]
      /\ \A s, k \in Slot : cards[s] # twoCards[k]
  BY <1>1 DEF FourInv, Init
<1>4. PlaceNow = Meant!First
  BY <1>1 DEF PlaceNow, Meant!First, Meant!Second
<1> QED
  BY <1>1, <1>2, <1>3, <1>4 DEF Meant!Init, Meant!Slot, Slot, Init

\* The bookkeeping of the game thread is no step of the exchange.
LEMMA Quiet ==
    ASSUME UNCHANGED gameVars, answered' = answered, gpc # "done", gpc' # "done"
    PROVE  UNCHANGED Meant!vars
<1>1. UNCHANGED <<cards, faceUp, twoCards, returned>>
  BY DEF gameVars
<1>2. PlaceNow' = PlaceNow
  BY <1>1 DEF PlaceNow
<1> QED
  BY <1>1, <1>2 DEF Meant!vars

\* An answer to the dialog on the screen is the answer that is waited for.
LEMMA AnswerMoves ==
    ASSUME TypeOK, ClosedInv, AnsweredInv, ~repeated, screen # NoDialog,
           UNCHANGED <<faceUp, gpc>>, answered' = answered \cup {screen.slot}
    PROVE  /\ gpc # "done" /\ gpc' # "done"
           /\ screen.slot \in Slot
           /\ screen.slot = 0 => PlaceNow = "dialog0" /\ PlaceNow' = Meant!Second
           /\ screen.slot = 1 => PlaceNow = "dialog1" /\ PlaceNow' = "return"
<1>1. screen.slot \in Slot
  BY DEF TypeOK, Shown
<1>2. gpc \in {"spin0", "sleep1", "spin1"}
  BY DEF ClosedInv, TypeOK, GamePlace
<1>3. CASE gpc = "spin0"
  BY <1>1, <1>3 DEF AnsweredInv, PlaceNow, Meant!Second
<1>4. CASE gpc \in {"sleep1", "spin1"}
  BY <1>1, <1>4 DEF AnsweredInv, PlaceNow, Meant!Second
<1> QED
  BY <1>2, <1>3, <1>4

\* Every step is a step of the exchange, changes nothing of it, or delivers a
\* press again.
LEMMA MeantStep ==
    ASSUME TypeOK, ClosedInv, FourInv, AnsweredInv, [Next]_vars
    PROVE  Meant!Next \/ repeated' \/ UNCHANGED Meant!vars
<1> SUFFICES ASSUME ~repeated' PROVE Meant!Next \/ UNCHANGED Meant!vars
  OBVIOUS
<1>0. ~repeated
  BY Steps DEF Begin, ShowFirst, WakeFirst, ShowSecond, ResetSecond, WakeSecond, ResetLast,
     GiveBack, Press, Keep, Swipe, Repeat, Release, vars, history
<1>1. CASE \/ Begin \/ ShowFirst \/ WakeFirst \/ ShowSecond \/ ResetSecond
           \/ WakeSecond \/ ResetLast
  <2>1. UNCHANGED gameVars /\ answered' = answered /\ gpc # "done" /\ gpc' # "done"
    BY <1>1 DEF Begin, ShowFirst, WakeFirst, ShowSecond, ResetSecond, WakeSecond, ResetLast,
       AfterFirst, history
  <2> QED
    BY <2>1, Quiet
<1>2. CASE GiveBack
  <2>1. gpc = "settle" /\ gpc' = "done" /\ UNCHANGED <<cards, faceUp, twoCards, answered>>
    BY <1>2 DEF GiveBack, history
  <2>2. PlaceNow = "return" /\ PlaceNow' = "over"
    BY <1>0, <2>1 DEF AnsweredInv, PlaceNow, Slot
  <2>3. {c \in Card : returned[c] > 0} = {}
    <3>1. \A c \in Card : returned[c] = 0
      BY <1>0, <2>1 DEF FourInv
    <3> QED
      BY <3>1
  <2>4. {c \in Card : returned[c] > 0}' = {twoCards[0], twoCards[1]}
    <3>1. FourInv'
      BY FourStep
    <3>2. returned' = [c \in Card |-> Count(twoCards, c)]
      <4>1. returned' = [c \in Card |-> Count(twoCards', c)]
        BY <3>1, <2>1 DEF FourInv
      <4> QED
        BY <4>1, <2>1
    <3>3. \A c : Count(twoCards, c) > 0 <=> c \in {twoCards[0], twoCards[1]}
      <4> SUFFICES ASSUME NEW c
                   PROVE  Count(twoCards, c) > 0 <=> c \in {twoCards[0], twoCards[1]}
        OBVIOUS
      <4>1. Count(twoCards, c) = (IF twoCards[0] = c THEN 1 ELSE 0)
                                   + (IF twoCards[1] = c THEN 1 ELSE 0)
        BY CountSlots
      <4> QED
        BY <4>1
    <3>4. twoCards[0] \in Card /\ twoCards[1] \in Card
      BY DEF TypeOK, Slot
    <3>5. {c \in Card : returned[c] > 0}' = {c \in Card : Count(twoCards, c) > 0}
      BY <3>2
    <3> QED
      BY <3>3, <3>4, <3>5
  <2>5. Meant!Return
    BY <2>1, <2>2, <2>3, <2>4 DEF Meant!Return
  <2> QED
    BY <2>5 DEF Meant!Next
<1>3. ASSUME NEW k \in Slot, Press(k) PROVE Meant!Next
  <2>1. /\ screen # NoDialog /\ UNCHANGED <<faceUp, gpc, returned>>
        /\ answered' = answered \cup {screen.slot}
    BY <1>3 DEF Press, NoteAnswer
  <2>2. /\ gpc # "done" /\ gpc' # "done"
        /\ screen.slot \in Slot
        /\ screen.slot = 0 => PlaceNow = "dialog0" /\ PlaceNow' = Meant!Second
        /\ screen.slot = 1 => PlaceNow = "dialog1" /\ PlaceNow' = "return"
    BY <1>0, <2>1, AnswerMoves
  <2>3. screen.two = twoCards
    BY <1>0, <2>1 DEF FourInv
  <2>4. /\ cards' = [cards EXCEPT ![screen.slot] = twoCards[k]]
        /\ twoCards' = [twoCards EXCEPT ![k] = cards[screen.slot]]
    BY <1>3, <2>3 DEF Press, applyExchange
  <2>5. Meant!Take(screen.slot, k)
    BY <2>2, <2>4 DEF Meant!Take
  <2>6. CASE screen.slot = 0
    <3>1. Meant!AnswerFirst
      BY <2>1, <2>2, <2>5, <2>6 DEF Meant!AnswerFirst, Meant!Slot, Slot
    <3> QED
      BY <3>1 DEF Meant!Next
  <2>7. CASE screen.slot = 1
    <3>1. Meant!AnswerSecond
      BY <2>1, <2>2, <2>5, <2>7 DEF Meant!AnswerSecond, Meant!Slot, Slot
    <3> QED
      BY <3>1 DEF Meant!Next
  <2> QED
    BY <2>2, <2>6, <2>7 DEF Slot
<1>4. CASE Keep
  <2>1. /\ screen # NoDialog /\ UNCHANGED <<cards, twoCards, faceUp, gpc, returned>>
        /\ answered' = answered \cup {screen.slot}
    BY <1>4 DEF Keep, NoteAnswer, gameVars
  <2>2. /\ gpc # "done" /\ gpc' # "done"
        /\ screen.slot \in Slot
        /\ screen.slot = 0 => PlaceNow = "dialog0" /\ PlaceNow' = Meant!Second
        /\ screen.slot = 1 => PlaceNow = "dialog1" /\ PlaceNow' = "return"
    BY <1>0, <2>1, AnswerMoves
  <2>3. Meant!Keep
    BY <2>1, <2>2 DEF Meant!Keep
  <2>4. CASE screen.slot = 0
    <3>1. Meant!AnswerFirst
      BY <2>1, <2>2, <2>3, <2>4 DEF Meant!AnswerFirst
    <3> QED
      BY <3>1 DEF Meant!Next
  <2>5. CASE screen.slot = 1
    <3>1. Meant!AnswerSecond
      BY <2>1, <2>2, <2>3, <2>5 DEF Meant!AnswerSecond
    <3> QED
      BY <3>1 DEF Meant!Next
  <2> QED
    BY <2>2, <2>4, <2>5 DEF Slot
<1>5. CASE Swipe \/ Release \/ UNCHANGED vars
  <2>1. UNCHANGED <<cards, faceUp, twoCards, returned, gpc, answered>>
    BY <1>5 DEF Swipe, Release, vars, gameVars, history
  <2>2. PlaceNow' = PlaceNow
    BY <2>1 DEF PlaceNow
  <2> QED
    BY <2>1, <2>2 DEF Meant!vars
<1>6. CASE Repeat
  BY <1>6 DEF Repeat
<1> QED
  BY <1>1, <1>2, <1>3, <1>4, <1>5, <1>6, Steps

\* Up to the first press that is delivered again, the two threads and the flag
\* carry out an exchange of module Exchange: each face-down card asked about
\* once, the answer the user's, and the two cards that are left back in the deck.
THEOREM ExchangeFollowed == Spec => FollowsExchange
<1>1. TypeOK /\ ClosedInv /\ FourInv /\ AnsweredInv /\ [Next]_vars
        => [Meant!Next \/ repeated']_(Meant!vars)
  BY MeantStep
<1> QED
  BY MeantInit, <1>1, TypeCorrect, ClosedAlways, FourAlways, AnsweredAlways, PTL
     DEF Spec, FollowsExchange
-----------------------------------------------------------------------------
(***************************************************************************)
(* What EndsUnlessLost rests on.                                           *)
(***************************************************************************)

\* The game thread waits in vain - the flag is down and no dialog is left that
\* could raise it - only if a dialog was swiped away, or answered before the
\* flag was reset.
StuckOnlyIfLost ==
    gpc \in {"spin0", "spin1"} /\ ~switchSegue /\ screen = NoDialog => early \/ swiped

\* Nor does a dialog vanish unnoticed while the game thread sleeps before the
\* reset.
LostInv ==
    /\ StuckOnlyIfLost
    /\ gpc = "sleep1" /\ screen = NoDialog => early \/ swiped

\* What is presented is a dialog.
LEMMA PresentShows ==
    ASSUME TypeOK, NEW s \in Slot, Present(s)
    PROVE  screen' # NoDialog
<1>1. screen' \in Shown
  BY DEF Present, Shown, TypeOK
<1> QED
  BY <1>1, NoDialogAssumption

\* A dialog leaves the screen with the flag up, with a swipe, or early.
LEMMA LostStep ==
    ASSUME TypeOK, LostInv, [Next]_vars
    PROVE  LostInv'
<1>1. CASE Begin
  BY <1>1 DEF Begin, AfterFirst, LostInv, StuckOnlyIfLost
<1>2. CASE ShowFirst
  BY <1>2, PresentShows DEF ShowFirst, LostInv, StuckOnlyIfLost, Slot
<1>3. CASE WakeFirst
  BY <1>3 DEF WakeFirst, AfterFirst, LostInv, StuckOnlyIfLost
<1>4. CASE ShowSecond
  BY <1>4, PresentShows DEF ShowSecond, LostInv, StuckOnlyIfLost, Slot
<1>5. CASE ResetSecond
  BY <1>5 DEF ResetSecond, history, LostInv, StuckOnlyIfLost
<1>6. CASE WakeSecond
  BY <1>6 DEF WakeSecond, LostInv, StuckOnlyIfLost
<1>7. CASE ResetLast
  BY <1>7 DEF ResetLast, LostInv, StuckOnlyIfLost
<1>8. CASE GiveBack
  BY <1>8 DEF GiveBack, LostInv, StuckOnlyIfLost
<1>9. CASE \E k \in Slot : Press(k)
  BY <1>9 DEF Press, NoteAnswer, LostInv, StuckOnlyIfLost
<1>10. CASE Keep
  BY <1>10 DEF Keep, NoteAnswer, LostInv, StuckOnlyIfLost
<1>11. CASE Swipe
  BY <1>11 DEF Swipe, LostInv, StuckOnlyIfLost
<1>12. CASE Repeat
  BY <1>12 DEF Repeat, LostInv, StuckOnlyIfLost
<1>13. CASE Release
  BY <1>13 DEF Release, history, LostInv, StuckOnlyIfLost
<1>14. CASE UNCHANGED vars
  BY <1>14 DEF vars, LostInv, StuckOnlyIfLost
<1> QED
  BY <1>1, <1>2, <1>3, <1>4, <1>5, <1>6, <1>7, <1>8, <1>9, <1>10, <1>11, <1>12, <1>13, <1>14, Steps

\* The safety part of EndsUnlessLost: a swipe and an early answer are all that
\* can leave the game thread spinning on a flag that nobody will raise.
THEOREM StuckOnlyLost == Spec => []StuckOnlyIfLost
<1>1. Init => LostInv
  BY DEF Init, LostInv, StuckOnlyIfLost
<1>2. TypeOK /\ LostInv /\ [Next]_vars => LostInv'
  BY LostStep
<1>3. LostInv => StuckOnlyIfLost
  BY DEF LostInv
<1> QED
  BY <1>1, <1>2, <1>3, TypeCorrect, PTL DEF Spec
=============================================================================

-------------------------- MODULE MCExchangeDialog --------------------------
(***************************************************************************)
(* ExchangeDialog with four model values for the four cards.               *)
(***************************************************************************)
EXTENDS ExchangeDialog
CONSTANTS o1, o2, t1, t2
FourCards == {o1, o2, t1, t2}

\* One hand and one draw: the objects only matter by where they are.
OneDraw == /\ Init
           /\ cards = [s \in Slot |-> IF s = 0 THEN o1 ELSE o2]
           /\ twoCards = [s \in Slot |-> IF s = 0 THEN t1 ELSE t2]
DrawnSpec == OneDraw /\ [][Next]_vars /\ Fairness
=============================================================================

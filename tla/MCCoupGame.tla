----------------------------- MODULE MCCoupGame -----------------------------
(***************************************************************************)
(* Instances of CoupGame for TLC: small decks, given as model values whose *)
(* RoleOf is fixed here, and the permutations of the cards of one role.    *)
(***************************************************************************)
EXTENDS CoupGameRules, TLC

CONSTANTS a1, a2, a3, c1, c2, c3, d1, d2, m1, m2, m3

\* Two seats, seven cards (the least the deck may have), four roles: a claim
\* of foreign aid is always a bluff here, as that of a player without Contessa.
PairCards == {a1, a2, c1, d1, d2, m1, m2}
PairRole == [c \in PairCards |-> CASE c \in {a1, a2} -> "Assassin"
                                   [] c = c1         -> "Captain"
                                   [] c \in {d1, d2} -> "Duke"
                                   [] OTHER          -> "Ambassador"]
PairSymmetry == Permutations({a1, a2}) \cup Permutations({d1, d2})
                    \cup Permutations({m1, m2})

\* Three seats, nine cards: challenger, target and bystander differ.
TableCards == {a1, a2, a3, c1, c2, c3, m1, m2, m3}
TableRole == [c \in TableCards |-> CASE c \in {a1, a2, a3} -> "Assassin"
                                     [] c \in {c1, c2, c3} -> "Captain"
                                     [] OTHER              -> "Ambassador"]

\* The claims, and the coup that AIs and user are forced to: what moves cards.
PairMoves == MoveName \ {"income", "foreignAid"}

\* Without exchanges the cards move only when a proof is replaced, and one deal
\* is enough to reach every way the coins, the influence and the turn can go.
FewMoves == MoveName \ {"exchange"}
TableInit == Init /\ hand = (0 :> (0 :> a1 @@ 1 :> m1)) @@ (1 :> (0 :> c1 @@ 1 :> c2))
                        @@ (2 :> (0 :> a2 @@ 1 :> m2))
TableSpec == TableInit /\ [][Next]_vars

\* For the turn to go round: the moves that take influence or search for a target
\* and one to pay for them.  One Assassin, one Captain; any other claim is a bluff.
FairMoves == {"tax", "steal", "assassinate", "coup"}
FairRole == [c \in TableCards |-> CASE c = a1 -> "Assassin"
                                    [] c = c1 -> "Captain"
                                    [] OTHER  -> "Contessa"]
FairTableSpec == TableSpec /\ Fairness
=============================================================================

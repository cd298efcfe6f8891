--------------------------- MODULE MCGameSession ---------------------------
(***************************************************************************)
(* Two games in a row, with up to two AIs, whose names are symmetric; or,  *)
(* for the liveness properties, one game at a table of three and one more  *)
(* at a table of two, so that turnInd may lie past the second table.       *)
(***************************************************************************)
EXTENDS SessionRounds, TLC
CONSTANTS ed, sel
Names == {ed, sel}
NameSymmetry == Permutations(Names)

Big   == <<UserName, ed, sel>>
Small == <<UserName, ed>>
LiveSpec ==
    /\ Init
    /\ [][Next /\ table' \in {<<>>, <<Big>>, <<Big, Small>>}]_vars
    /\ Fairness
=============================================================================

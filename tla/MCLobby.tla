------------------------------ MODULE MCLobby ------------------------------
(***************************************************************************)
(* The lobby as it is: five names, six seats.                              *)
(***************************************************************************)
EXTENDS Lobby
CONSTANTS charlie, ed, justin, selena, taylor
Names == {charlie, ed, justin, selena, taylor}
FiveNames == <<charlie, ed, justin, selena, taylor>>
=============================================================================

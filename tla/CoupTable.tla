------------------------------ MODULE CoupTable ------------------------------
(***************************************************************************)
(* The tables at which a game can be played, as far as the names go: what  *)
(* Lobby puts together and GameSession begins with.                        *)
(***************************************************************************)
EXTENDS Integers, Sequences

CONSTANTS
    AIName,     \* names for AIs
    UserName,   \* LoginViewController.getUsername()
    MaxSeats    \* seats a lobby offers: the 6 of addAIButtonPressed

\* The user in the first seat, at least one AI, and nobody twice.
Table == {t \in UNION {[1 .. n -> AIName \cup {UserName}] : n \in 2 .. MaxSeats} :
              /\ t[1] = UserName
              /\ \A i, j \in DOMAIN t : t[i] = t[j] => i = j}
=============================================================================

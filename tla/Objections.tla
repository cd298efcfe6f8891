----------------------------- MODULE Objections -----------------------------
(***************************************************************************)
(* A claim put to the table, as it is meant to go: the others who are in   *)
(* the game are asked once each, in the order of their seats, until one    *)
(* challenges or everybody has been asked.                                 *)
(*                                                                         *)
(* It stands between CoupGame, whose asking steps are these steps, and     *)
(* ChallengePrompt, where two threads, a flag and a field bring them about.*)
(***************************************************************************)
EXTENDS Integers

CONSTANT NP     \* seats

Player == 0 .. NP - 1

VARIABLES
    mover,      \* whose claim it is
    inGame,     \* the players not eliminated
    next,       \* who is asked next
    answer,     \* the last answer
    challenge,  \* who challenges whom; empty if nobody does
    place       \* "ask", or "rest" for the rest of the game

vars == <<mover, inGame, next, answer, challenge, place>>

\* A claim has just been made.
Open ==
    /\ inGame \subseteq Player /\ mover \in inGame
    /\ next = 0 /\ answer = "none" /\ challenge = <<>>
    /\ place = "ask"

Init ==
    /\ inGame \subseteq Player /\ mover \in inGame
    /\ next = 0 /\ answer = "none" /\ challenge = <<>>
    /\ place = "rest"

Claim == place = "rest" /\ inGame' \subseteq inGame /\ Open'

Skip ==
    /\ place = "ask" /\ next \in Player \ (inGame \ {mover})
    /\ next' = next + 1
    /\ UNCHANGED <<mover, inGame, answer, challenge, place>>

Allow ==
    /\ place = "ask" /\ next \in inGame \ {mover}
    /\ answer' = "allow" /\ next' = next + 1
    /\ UNCHANGED <<mover, inGame, challenge, place>>

Challenge ==
    /\ place = "ask" /\ next \in inGame \ {mover}
    /\ answer' = "challenge" /\ challenge' = <<next, mover>>
    /\ place' = "rest"
    /\ UNCHANGED <<mover, inGame, next>>

Close ==
    /\ place = "ask" /\ next = NP
    /\ place' = "rest"
    /\ UNCHANGED <<mover, inGame, next, answer, challenge>>

Next == Claim \/ Skip \/ Allow \/ Challenge \/ Close
Spec == Init /\ [][Next]_vars
=============================================================================

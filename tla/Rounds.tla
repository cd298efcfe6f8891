-------------------------------- MODULE Rounds --------------------------------
(***************************************************************************)
(* A game as a sequence of turns, with nothing but who is out of it: the   *)
(* common ground of CoupGame, which has the cards and purses of one game,  *)
(* and GameSession, which has the threads of many.  Both implement it: see *)
(* CoupGameRules and SessionRounds.                                        *)
(*                                                                         *)
(* The user sits in the first seat.                                        *)
(***************************************************************************)
EXTENDS Integers

VARIABLES
    seats,      \* how many players the game has
    out,        \* the seats of those who are out of it
    turn,       \* the seat whose turn it is
    stage,      \* how far the turn is
    open,       \* nobody has ended the game, and nobody has won it
    verdict     \* what the user is told

vars == <<seats, out, turn, stage, open, verdict>>

Stage == {"rest", "turn", "claimed", "effect", "end", "over"}
Seats == 0 .. seats - 1

Init ==
    /\ seats \in Nat \ {0, 1}
    /\ out = {} /\ turn = 0 /\ stage = "rest"
    /\ open = TRUE /\ verdict = "You Lost"

Opponent(p) == p \in Seats \ out /\ p # turn
MayFall(p) == out' \in {out, out \cup {p}}
After == IF turn + 1 >= seats THEN 0 ELSE turn + 1

\* Whoever is out has no turn.
Pass ==
    /\ stage = "rest" /\ open /\ turn \in out
    /\ turn' = After
    /\ UNCHANGED <<seats, out, stage, open, verdict>>

\* A move is claimed, perhaps not at once; or it needs no claim.
Begin ==
    /\ stage = "rest" /\ open /\ turn \notin out
    /\ stage' \in {"turn", "claimed", "effect"}
    /\ UNCHANGED <<seats, out, turn, open, verdict>>

Say ==
    /\ stage = "turn"
    /\ stage' \in {"claimed", "effect"}
    /\ UNCHANGED <<seats, out, turn, open, verdict>>

\* Nobody objects, of those who could.
Stand ==
    /\ stage = "claimed" /\ \E p \in Seats : Opponent(p)
    /\ stage' = "effect"
    /\ UNCHANGED <<seats, out, turn, open, verdict>>

\* Somebody objects, and loses an influence ...
Uphold(p) ==
    /\ stage = "claimed" /\ Opponent(p) /\ turn \notin out
    /\ stage' = "effect"
    /\ MayFall(p)
    /\ UNCHANGED <<seats, turn, open, verdict>>

\* ... or costs the claimant one, and the turn.
Refute ==
    /\ stage = "claimed" /\ \E p \in Seats : Opponent(p)
    /\ stage' = "end"
    /\ MayFall(turn)
    /\ UNCHANGED <<seats, turn, open, verdict>>

\* The move hurts at most one player, and not its own.
Effect ==
    /\ stage = "effect" /\ stage' = "end"
    /\ \E p \in Seats \ {turn} : MayFall(p)
    /\ UNCHANGED <<seats, turn, open, verdict>>

\* The user is out, or is the last one in.
Decided == 0 \in out \/ Seats \ {0} \subseteq out

EndTurn ==
    /\ stage = "end" /\ stage' = "rest"
    /\ turn' = After
    /\ open' = (open /\ ~Decided)
    /\ verdict' = IF ~Decided THEN verdict
                  ELSE IF 0 \in out THEN "You Lose" ELSE "You Won"
    /\ UNCHANGED <<seats, out>>

\* The user ends the game: the turn is played to its end, and is the last one.
Close ==
    /\ open /\ open' = FALSE
    /\ UNCHANGED <<seats, out, turn, stage, verdict>>

\* Whose turn it would be is of no more interest.
Leave ==
    /\ stage = "rest" /\ ~open
    /\ stage' = "over" /\ turn' = 0
    /\ UNCHANGED <<seats, out, open, verdict>>

Next ==
    \/ Pass \/ Begin \/ Say \/ Stand
    \/ \E p \in Seats : Uphold(p)
    \/ Refute \/ Effect \/ EndTurn \/ Close \/ Leave

Spec == Init /\ [][Next]_vars
=============================================================================

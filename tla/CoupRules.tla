------------------------------ MODULE CoupRules ------------------------------
(***************************************************************************)
(* What a table of Coup promises its players, without cards and threads:   *)
(* a turn is one claim, at most one challenge to it, and its effect, once  *)
(* and only if the claim stands.                                           *)
(*                                                                         *)
(* Players have influence (the slots of their cards that are not lost) and *)
(* purses.  Which roles they hold, who was asked in which order, what is   *)
(* drawn and exchanged cannot be seen here; a challenge may therefore turn *)
(* out either way.  CoupGame implements this module: see CoupGameRules.    *)
(***************************************************************************)
EXTENDS CoupCards

VARIABLES
    influence,  \* the slots each player has not lost
    purse,
    turn,
    stage,      \* how far the turn is
    claim,      \* the move that is claimed in it
    open,       \* nobody has ended the game, and nobody has won it
    verdict     \* what the user is told

vars == <<influence, purse, turn, stage, claim, open, verdict>>

Stage == {"choose", "aim", "claimed", "effect", "end", "over"}
NoClaim == [name |-> "none", target |-> User]

Init ==
    /\ influence = [p \in Player |-> Slot]
    /\ purse = [p \in Player |-> 2]
    /\ turn = User
    /\ stage = "choose"
    /\ claim = NoClaim
    /\ open = TRUE
    /\ verdict = "You Lost"

InGame(p) == influence[p] # {}
After(p) == IF p + 1 >= NP THEN 0 ELSE p + 1

\* A slot q can lose: one it still has, if there is one.
Losable(q) == IF InGame(q) THEN influence[q] ELSE Slot

Loses(q) == \E s \in Losable(q) : influence' = [influence EXCEPT ![q] = @ \ {s}]

-----------------------------------------------------------------------------
Pass ==
    /\ stage = "choose" /\ open /\ ~InGame(turn)
    /\ turn' = After(turn)
    /\ UNCHANGED <<influence, purse, stage, claim, open, verdict>>

\* What a player must have to claim a move.  An AI with seven coins has to call
\* a coup.
Affordable(name) ==
    /\ name = "coup"        => purse[turn] >= 7
    /\ name = "assassinate" => purse[turn] >= 3
    /\ turn # User          => (purse[turn] >= 7) = (name = "coup")

\* Whom a move may be aimed at.  The user may rob anybody: what the victim has
\* is looked at only for an AI.
Aimable(name, t) ==
    /\ t # turn
    /\ name \in {"coup", "assassinate"} \/ turn # User => InGame(t)
    /\ name = "steal" /\ turn # User => purse[t] >= 2

Announced(name) == IF name \in Unchallengeable THEN "effect" ELSE "claimed"

Choose(name, t) ==
    /\ stage = "choose" /\ open /\ InGame(turn)
    /\ Affordable(name)
    /\ IF name \in Targeted THEN Aimable(name, t) ELSE t = turn
    /\ claim' = [name |-> name, target |-> t]
    /\ stage' = Announced(name)
    /\ UNCHANGED <<influence, purse, turn, open, verdict>>

\* An AI knows what to do before it knows to whom.
Declare(name) ==
    /\ stage = "choose" /\ open /\ InGame(turn) /\ turn # User
    /\ name \in Targeted /\ Affordable(name)
    /\ claim' = [name |-> name, target |-> turn]
    /\ stage' = "aim"
    /\ UNCHANGED <<influence, purse, turn, open, verdict>>

Aim(t) ==
    /\ stage = "aim"
    /\ Aimable(claim.name, t)
    /\ claim' = [claim EXCEPT !.target = t]
    /\ stage' = Announced(claim.name)
    /\ UNCHANGED <<influence, purse, turn, open, verdict>>

-----------------------------------------------------------------------------
\* Nobody objects, and there was somebody who could.
Stand ==
    /\ stage = "claimed"
    /\ \E q \in Player \ {turn} : InGame(q)
    /\ stage' = "effect"
    /\ UNCHANGED <<influence, purse, turn, claim, open, verdict>>

\* Somebody objects and is right: the claim costs its claimant an influence,
\* and has no effect.
Refute(q) ==
    /\ stage = "claimed" /\ q # turn /\ InGame(q)
    /\ stage' = "end"
    /\ Loses(turn)
    /\ UNCHANGED <<purse, turn, claim, open, verdict>>

\* Somebody objects and is wrong: the challenger loses an influence, and the
\* claimant has the slot of the card it showed.  It had it before, unless the
\* program takes a revealed card for a proof, and gives an influence back.
Uphold(q, s) ==
    /\ stage = "claimed" /\ q # turn /\ InGame(q) /\ InGame(turn)
    /\ stage' = "effect"
    /\ \E lost \in Losable(q) :
          influence' = [influence EXCEPT ![q] = @ \ {lost}, ![turn] = @ \cup {s}]
    /\ UNCHANGED <<purse, turn, claim, open, verdict>>

-----------------------------------------------------------------------------
\* What the move does, once.
Paid == [purse EXCEPT ![turn] = @ + Gain(claim.name)]

Effect ==
    /\ stage = "effect" /\ stage' = "end"
    /\ CASE claim.name \in {"income", "foreignAid", "tax"} ->
               purse' = Paid /\ UNCHANGED influence
         [] claim.name = "steal" ->
               /\ purse' = [purse EXCEPT ![claim.target] = @ - 2, ![turn] = @ + 2]
               /\ UNCHANGED influence
         [] claim.name \in {"coup", "assassinate"} ->
               purse' = Paid /\ Loses(claim.target)
         [] OTHER -> UNCHANGED <<purse, influence>>
    /\ UNCHANGED <<turn, claim, open, verdict>>

\* The user is out, or is the last one in.
Decided == ~InGame(User) \/ \A p \in Player \ {User} : ~InGame(p)

EndTurn ==
    /\ stage = "end"
    /\ stage' = "choose"
    /\ turn' = After(turn)
    /\ claim' = NoClaim
    /\ open' = (open /\ ~Decided)
    /\ verdict' = IF ~Decided THEN verdict
                  ELSE IF InGame(User) THEN "You Won" ELSE "You Lose"
    /\ UNCHANGED <<influence, purse>>

\* The user ends the game: the turn is played to its end, and is the last one.
Close ==
    /\ open /\ open' = FALSE
    /\ UNCHANGED <<influence, purse, turn, stage, claim, verdict>>

Leave ==
    /\ stage = "choose" /\ ~open
    /\ stage' = "over"
    /\ UNCHANGED <<influence, purse, turn, claim, open, verdict>>

Next ==
    \/ Pass
    \/ \E name \in MoveName, t \in Player : Choose(name, t)
    \/ \E name \in MoveName : Declare(name)
    \/ \E t \in Player : Aim(t)
    \/ Stand
    \/ \E q \in Player : Refute(q)
    \/ \E q \in Player, s \in Slot : Uphold(q, s)
    \/ Effect \/ EndTurn \/ Close \/ Leave

Spec == Init /\ [][Next]_vars
=============================================================================

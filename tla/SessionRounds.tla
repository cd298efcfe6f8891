---------------------------- MODULE SessionRounds ----------------------------
(***************************************************************************)
(* Every game of GameSession is one of Rounds, as long as no thread of     *)
(* another game has come to its table: the threads are those of CoupGame,  *)
(* which implements Rounds too, and what StatusTrue and VerdictTold say of *)
(* verdicts is said of games that are played turn by turn.                 *)
(***************************************************************************)
EXTENDS GameSession

StageOf(place) ==
    CASE place \in {"none", "top", "pause", "idle"} -> "rest"
      [] place \in {"choose", "draw", "say"}        -> "turn"
      [] place \in {"ask", "wait", "prove"}         -> "claimed"
      [] place \in {"act", "dialog", "stuck"}       -> "effect"
      [] place = "check"                            -> "end"
      [] place = "over"                             -> "over"

OutOf(g) == {i \in 0 .. Len(table[g]) - 1 : [game |-> g, name |-> table[g][i + 1]] \in out}

Round(g) == INSTANCE Rounds WITH
    seats   <- Len(table[g]),
    out     <- OutOf(g),
    turn    <- thread[g].turn,
    stage   <- StageOf(thread[g].place),
    open    <- gameOn[g],
    verdict <- status[g]

\* The thread of a game left behind in the middle of a turn sits at the table of
\* the next one.
Misplaced(g) == g < game /\ g \in abandoned

\* A game begins as Rounds does, and then each step of the program is a step of
\* it or none, whatever the user does and whichever thread takes it.  So every
\* turn begins undecided, with a player who is in the game and has somebody to
\* object; it hurts at most two players, in this order; the user is told a verdict
\* at the end of the turn that decides the game, and of no other; and the last
\* turn of a game the user ends is played out.
PlaysRounds ==
    [][ \A g \in Game :
          /\ game' = g /\ game # g => Round(g)!Init'
          /\ g =< game /\ crossed' = {} /\ ~Misplaced(g) =>
                Round(g)!Next \/ UNCHANGED Round(g)!vars ]_vars
=============================================================================

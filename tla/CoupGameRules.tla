---------------------------- MODULE CoupGameRules ----------------------------
(***************************************************************************)
(* CoupGame implements CoupRules: what the cards, the dialogs and the      *)
(* places of the game thread are to somebody who only sees influence,      *)
(* purses and claims.  And its exchanges of the user are those of Exchange *)
(* and its asking is that of Objections, which the two threads of          *)
(* ExchangeDialog and of ChallengePrompt bring about.                      *)
(***************************************************************************)
EXTENDS CoupGame

InfluenceNow == [p \in Player |-> Influence(p)]

StageNow ==
    CASE pc \in {"top", "idle"}                         -> "choose"
      [] pc = "target"                                  -> "aim"
      [] pc \in {"ask", "prove"}                        -> "claimed"
      [] pc \in {"act", "dialog0", "dialog1", "return"} -> "effect"
      [] pc \in {"replace", "check"}                    -> "end"
      [] pc = "over"                                    -> "over"

Rules == INSTANCE CoupRules WITH
    influence <- InfluenceNow,
    purse     <- coins,
    turn      <- turnInd,
    stage     <- StageNow,
    claim     <- move,
    open      <- gameOn,
    verdict   <- status

\* runGame plays by the rules: in every turn one claim, paid for and aimed at
\* somebody in the game when it is made; at most one challenge, which costs its
\* loser one influence; and the effect of the claim once, if it stands.
FollowsRules == Rules!Spec

-----------------------------------------------------------------------------
Asking == Dialog \cup {"return"}

Exch == INSTANCE Exchange WITH
    cards  <- hand[User],
    faceUp <- {s \in Slot : revealed[hand[User][s]]},
    place  <- IF pc \in Asking THEN pc ELSE "over"

\* The dialogs of the user's move are one exchange, begun with two cards just
\* drawn: each card still face down is asked about once, and then two cards go
\* back.  Nothing else of it changes meanwhile, not even by the end of the game.
ExchangeByTheBook ==
    [][ /\ pc \notin Asking /\ pc' \in Asking => Exch!Init'
        /\ pc \in Asking => Exch!Next \/ UNCHANGED Exch!vars ]_vars

Asked == INSTANCE Objections WITH
    mover     <- turnInd,
    inGame    <- {p \in Player : ~Eliminated(p)},
    next      <- challengeTurnInd,
    answer    <- objection,
    challenge <- IF objection = "challenge" THEN <<challengeTurnInd, turnInd>> ELSE <<>>,
    place     <- IF pc = "ask" THEN "ask" ELSE "rest"

\* A claim that can be challenged is put to the table as Objections has it, from
\* the first player to a challenge or the last answer, and nothing else happens
\* to the table meanwhile.
AskingByTheBook ==
    [][ /\ pc # "ask" /\ pc' = "ask" => Asked!Open'
        /\ pc = "ask" => Asked!Next \/ UNCHANGED Asked!vars ]_vars
-----------------------------------------------------------------------------
Turns == INSTANCE Rounds WITH
    seats   <- NP,
    out     <- {p \in Player : InfluenceNow[p] = {}},
    turn    <- IF StageNow = "over" THEN 0 ELSE turnInd,
    stage   <- IF StageNow = "choose" THEN "rest" ELSE IF StageNow = "aim" THEN "turn"
               ELSE StageNow,
    open    <- gameOn,
    verdict <- status

\* runGame is a sequence of turns, each of which hurts at most two players, and
\* which the threads of GameSession play too.
FollowsRounds == Turns!Spec
=============================================================================

----------------------- MODULE ChallengePromptProofs -----------------------
(***************************************************************************)
(* Theorems about ChallengePrompt, for every number of seats, moves and    *)
(* queued blocks: what the flag and the field of the answer mean to the    *)
(* thread that reads them, under every order of the two threads.           *)
(***************************************************************************)
EXTENDS ChallengePrompt, TLAPS

\* A player is asked who is in the game and does not move itself; polled is
\* only the user.
TypeInv ==
    /\ TypeOK
    /\ gpc \in {"poll", "sleep", "read"} => challengeTurnInd \in alive \ {turnInd}
    /\ gpc \in {"poll", "sleep"} => challengeTurnInd = User

\* Whoever reads the field when the flag is up, and no handler is between the
\* two, finds an answer of the player just asked to the move on the table.
FreshInv ==
    /\ gpc \in {"poll", "sleep", "read"} /\ didAnswer /\ mpc # "write" =>
          challengeMove.caller = challengeTurnInd /\ challengeMove.target = turnInd
    /\ gpc = "read" /\ challengeTurnInd = User => didAnswer
    /\ gpc # "between" => curMove.name # "challenge"
    /\ ChallengeIsToThisMove

\* As long as no enabling block is late, the buttons work only while the user
\* is waited for, and so a handler runs only for the answer that is waited for.
RaceInv ==
    /\ ~late /\ enabled /\ mpc = "idle" => WaitsForUser
    /\ FlagIsTheUsers
    /\ ~late /\ ~torn /\ mpc = "write" =>
          gpc \in {"poll", "sleep", "read"} /\ challengeTurnInd = User /\ didAnswer
    /\ CrashOnlyIfRaced

\* Every step is one of these.
LEMMA Steps ==
    ASSUME [Next]_vars
    PROVE  \/ LoopHead \/ Poll \/ Woken \/ PollDone \/ ReadField \/ LoopEnd
           \/ (\E name \in Answer : ReadAI(name)) \/ (\E p \in Player : NextMove(p))
           \/ RunBlock \/ WriteAnswer \/ DisableButtons
           \/ (\E name \in Answer : Press(name)) \/ UNCHANGED vars
BY DEF Next, GameThread, Asking, MainThread, UserPress

LEMMA TypeInit == Init => TypeInv
<1> SUFFICES ASSUME Init PROVE TypeInv
  OBVIOUS
<1>1. turnInd \in alive /\ alive \subseteq Player
  BY DEF Init
<1>2. challengeTurnInd \in 0 .. NP /\ moves \in 0 .. MaxMoves /\ queued \in 0 .. MaxQueued
  BY PromptAssumption DEF Init
<1> QED
  BY <1>1, <1>2 DEF Init, TypeInv, TypeOK, Move, NoAnswer, Answer

\* The types are kept by every step.
LEMMA TypeStep ==
    ASSUME TypeInv, [Next]_vars
    PROVE  TypeInv'
<1>1. CASE LoopHead
  <2>1. challengeTurnInd' \in 0 .. NP
    BY <1>1, PromptAssumption DEF LoopHead, TypeInv, TypeOK
  <2>2. UNCHANGED <<turnInd, alive, challengeMove, curMove, moves, mainVars, torn>>
    BY <1>1 DEF LoopHead
  <2>3. didAnswer' = FALSE /\ gpc' \in {"loop", "poll", "read"}
    BY <1>1 DEF LoopHead
  <2>4. gpc' \in {"poll", "read"} => challengeTurnInd' \in alive \ {turnInd}
    BY <1>1 DEF LoopHead
  <2>5. gpc' = "poll" => challengeTurnInd' = User
    BY <1>1 DEF LoopHead
  <2>6. UNCHANGED <<turnInd, alive, challengeMove, curMove, moves, queued, enabled, mpc,
                    pressed, late, torn>>
    BY <2>2 DEF mainVars
  <2>7. TypeOK'
    BY <2>1, <2>3, <2>6 DEF TypeInv, TypeOK
  <2> QED
    BY <2>3, <2>4, <2>5, <2>6, <2>7 DEF TypeInv
<1>2. CASE Poll
  BY <1>2, PromptAssumption DEF Poll, TypeInv, TypeOK, Player, User, Move, NoAnswer, Answer
<1>3. CASE Woken
  BY <1>3, PromptAssumption DEF Woken, mainVars, TypeInv, TypeOK, Player, User, Move, NoAnswer, Answer
<1>4. CASE PollDone
  BY <1>4, PromptAssumption DEF PollDone, mainVars, TypeInv, TypeOK, Player, User, Move, NoAnswer, Answer
<1>5. CASE ReadField
  BY <1>5, PromptAssumption DEF ReadField, Collect, mainVars, TypeInv, TypeOK, Player, User, Move, NoAnswer, Answer
<1>6. CASE LoopEnd
  BY <1>6, PromptAssumption DEF LoopEnd, mainVars, TypeInv, TypeOK, Player, User, Move, NoAnswer, Answer
<1>7. CASE \E name \in Answer : ReadAI(name)
  BY <1>7, PromptAssumption DEF ReadAI, Collect, By, mainVars, TypeInv, TypeOK, Player, User, Move, NoAnswer, Answer
<1>8. ASSUME NEW p \in Player, NextMove(p) PROVE TypeInv'
  <2>1. turnInd' \in alive' /\ alive' \subseteq Player
    BY <1>8 DEF NextMove, TypeInv, TypeOK
  <2>2. moves' \in 0 .. MaxMoves /\ challengeTurnInd' \in 0 .. NP
    BY <1>8, PromptAssumption DEF NextMove, TypeInv, TypeOK
  <2>3. gpc' = "loop" /\ curMove' = NoAnswer /\ enabled' \in BOOLEAN
    BY <1>8 DEF NextMove, TypeInv, TypeOK
  <2>4. UNCHANGED <<didAnswer, challengeMove, queued, mpc, pressed, late, torn>>
    BY <1>8 DEF NextMove
  <2>5. curMove' \in Move
    BY <2>3 DEF Move
  <2>6. TypeOK'
    BY <2>1, <2>2, <2>3, <2>4, <2>5 DEF TypeInv, TypeOK
  <2> QED
    BY <2>3, <2>6 DEF TypeInv
<1>9. CASE RunBlock
  BY <1>9, PromptAssumption DEF RunBlock, WaitsForUser, TypeInv, TypeOK, Player, User, Move, NoAnswer, Answer
<1>10. CASE WriteAnswer
  <2>1. challengeTurnInd < NP => By(challengeTurnInd, pressed) \in Move
    <3>1. challengeTurnInd < NP => challengeTurnInd \in Player
      BY PromptAssumption DEF TypeInv, TypeOK, Player
    <3>2. turnInd \in Player /\ pressed \in Answer
      BY DEF TypeInv, TypeOK
    <3> QED
      BY <3>1, <3>2 DEF By, Move
  <2>2. challengeMove' \in Move /\ mpc' \in {"disable", "crashed"}
    BY <1>10, <2>1 DEF WriteAnswer, TypeInv, TypeOK
  <2>3. UNCHANGED <<gpc, turnInd, alive, challengeTurnInd, didAnswer, curMove,
                    moves, queued, enabled, pressed, late, torn>>
    BY <1>10 DEF WriteAnswer
  <2>4. TypeOK'
    BY <2>2, <2>3 DEF TypeInv, TypeOK
  <2> QED
    BY <2>3, <2>4 DEF TypeInv
<1>11. CASE DisableButtons
  <2>1. /\ enabled' = FALSE /\ mpc' = "idle"
        /\ UNCHANGED <<gpc, turnInd, alive, challengeTurnInd, didAnswer,
                       challengeMove, curMove, moves, queued, pressed, late, torn>>
    BY <1>11 DEF DisableButtons
  <2>2. TypeOK'
    BY <2>1 DEF TypeInv, TypeOK
  <2> QED
    BY <2>1, <2>2 DEF TypeInv, User
<1>12. CASE \E name \in Answer : Press(name)
  <2>1. PICK name \in Answer : Press(name)
    BY <1>12
  <2>2. /\ didAnswer' = TRUE /\ pressed' = name /\ mpc' = "write"
        /\ UNCHANGED <<gpc, turnInd, alive, challengeTurnInd, challengeMove,
                       curMove, moves, queued, enabled, late, torn>>
    BY <2>1 DEF Press
  <2>3. TypeOK'
    BY <2>2 DEF TypeInv, TypeOK
  <2> QED
    BY <2>2, <2>3 DEF TypeInv, User
<1>13. CASE UNCHANGED vars
  BY <1>13, PromptAssumption DEF vars, TypeInv, TypeOK, Player, User, Move, NoAnswer, Answer
<1> QED
  BY <1>1, <1>2, <1>3, <1>4, <1>5, <1>6, <1>7, <1>8, <1>9, <1>10, <1>11, <1>12, <1>13, Steps

LEMMA TypeAlways == Spec => []TypeInv
<1>1. TypeInv /\ [Next]_vars => TypeInv'
  BY TypeStep
<1> QED
  BY TypeInit, <1>1, PTL DEF Spec

\* The fields of both threads keep their types.
THEOREM TypeCorrect == Spec => []TypeOK
<1>1. TypeInv => TypeOK
  BY DEF TypeInv
<1> QED
  BY TypeAlways, <1>1, PTL

-----------------------------------------------------------------------------
LEMMA FreshInit == Init => FreshInv
BY DEF Init, FreshInv, ChallengeIsToThisMove, NoAnswer

\* The flag is lowered before anybody is asked, and a press is followed by its answer before the players asked change, unless the read is torn.
LEMMA FreshStep ==
    ASSUME TypeInv, FreshInv, [Next]_vars
    PROVE  FreshInv'
<1>1. CASE LoopHead
  BY <1>1, PromptAssumption DEF LoopHead, mainVars, FreshInv, ChallengeIsToThisMove, TypeInv, TypeOK, Player, User, Move, NoAnswer, Answer
<1>2. CASE Poll
  BY <1>2, PromptAssumption DEF Poll, FreshInv, ChallengeIsToThisMove, TypeInv, TypeOK, Player, User, Move, NoAnswer, Answer
<1>3. CASE Woken
  BY <1>3, PromptAssumption DEF Woken, mainVars, FreshInv, ChallengeIsToThisMove, TypeInv, TypeOK, Player, User, Move, NoAnswer, Answer
<1>4. CASE PollDone
  BY <1>4, PromptAssumption DEF PollDone, mainVars, FreshInv, ChallengeIsToThisMove, TypeInv, TypeOK, Player, User, Move, NoAnswer, Answer
<1>5. CASE ReadField
  BY <1>5, PromptAssumption DEF ReadField, Collect, mainVars, FreshInv, ChallengeIsToThisMove, TypeInv, TypeOK, Player, User, Move, NoAnswer, Answer
<1>6. CASE LoopEnd
  BY <1>6, PromptAssumption DEF LoopEnd, mainVars, FreshInv, ChallengeIsToThisMove, TypeInv, TypeOK, Player, User, Move, NoAnswer, Answer
<1>7. CASE \E name \in Answer : ReadAI(name)
  BY <1>7, PromptAssumption DEF ReadAI, Collect, By, mainVars, FreshInv, ChallengeIsToThisMove, TypeInv, TypeOK, Player, User, Move, NoAnswer, Answer
<1>8. CASE \E p \in Player : NextMove(p)
  BY <1>8, PromptAssumption DEF NextMove, FreshInv, ChallengeIsToThisMove, TypeInv, TypeOK, Player, User, Move, NoAnswer, Answer
<1>9. CASE RunBlock
  BY <1>9, PromptAssumption DEF RunBlock, WaitsForUser, FreshInv, ChallengeIsToThisMove, TypeInv, TypeOK, Player, User, Move, NoAnswer, Answer
<1>10. CASE WriteAnswer
  BY <1>10, PromptAssumption DEF WriteAnswer, By, FreshInv, ChallengeIsToThisMove, TypeInv, TypeOK, Player, User, Move, NoAnswer, Answer
<1>11. CASE DisableButtons
  BY <1>11, PromptAssumption DEF DisableButtons, FreshInv, ChallengeIsToThisMove, TypeInv, TypeOK, Player, User, Move, NoAnswer, Answer
<1>12. CASE \E name \in Answer : Press(name)
  BY <1>12, PromptAssumption DEF Press, FreshInv, ChallengeIsToThisMove, TypeInv, TypeOK, Player, User, Move, NoAnswer, Answer
<1>13. CASE UNCHANGED vars
  BY <1>13, PromptAssumption DEF vars, FreshInv, ChallengeIsToThisMove, TypeInv, TypeOK, Player, User, Move, NoAnswer, Answer
<1> QED
  BY <1>1, <1>2, <1>3, <1>4, <1>5, <1>6, <1>7, <1>8, <1>9, <1>10, <1>11, <1>12, <1>13, Steps

LEMMA FreshAlways == Spec => []FreshInv
<1>1. TypeInv /\ FreshInv /\ [Next]_vars => FreshInv'
  BY FreshStep
<1> QED
  BY FreshInit, <1>1, TypeAlways, PTL DEF Spec

\* An answer taken from the user while no handler is between its two writes is to
\* the move on the table, not one left in the field by an earlier move.  (Of a read
\* torn by such a handler this says nothing.)
THEOREM AnswersFresh == Spec => []AnswerIsToThisMove
<1>1. FreshInv => AnswerIsToThisMove
  BY DEF FreshInv, AnswerIsToThisMove
<1> QED
  BY FreshAlways, <1>1, PTL

\* As long as no read has been torn, the move a challenge is upheld against is the
\* move on the table, and the challenger is another player in the game.
THEOREM ChallengesFresh == Spec => []ChallengeIsToThisMove
<1>1. FreshInv => ChallengeIsToThisMove
  BY DEF FreshInv
<1> QED
  BY FreshAlways, <1>1, PTL

-----------------------------------------------------------------------------
LEMMA RaceInit == Init => RaceInv
BY DEF Init, RaceInv, FlagIsTheUsers, FlagMeansAnswer, CrashOnlyIfRaced

\* Without a late block, buttons that work mean a user who is waited for.
LEMMA RaceStep ==
    ASSUME TypeInv, RaceInv, [Next]_vars
    PROVE  RaceInv'
<1>1. CASE LoopHead
  BY <1>1, PromptAssumption DEF LoopHead, mainVars, RaceInv, FlagIsTheUsers, FlagMeansAnswer, CrashOnlyIfRaced, WaitsForUser, TypeInv, TypeOK, Player, User, Move, NoAnswer, Answer
<1>2. CASE Poll
  BY <1>2, PromptAssumption DEF Poll, RaceInv, FlagIsTheUsers, FlagMeansAnswer, CrashOnlyIfRaced, WaitsForUser, TypeInv, TypeOK, Player, User, Move, NoAnswer, Answer
<1>3. CASE Woken
  BY <1>3, PromptAssumption DEF Woken, mainVars, RaceInv, FlagIsTheUsers, FlagMeansAnswer, CrashOnlyIfRaced, WaitsForUser, TypeInv, TypeOK, Player, User, Move, NoAnswer, Answer
<1>4. CASE PollDone
  BY <1>4, PromptAssumption DEF PollDone, mainVars, RaceInv, FlagIsTheUsers, FlagMeansAnswer, CrashOnlyIfRaced, WaitsForUser, TypeInv, TypeOK, Player, User, Move, NoAnswer, Answer
<1>5. CASE ReadField
  BY <1>5, PromptAssumption DEF ReadField, Collect, mainVars, RaceInv, FlagIsTheUsers, FlagMeansAnswer, CrashOnlyIfRaced, WaitsForUser, TypeInv, TypeOK, Player, User, Move, NoAnswer, Answer
<1>6. CASE LoopEnd
  BY <1>6, PromptAssumption DEF LoopEnd, mainVars, RaceInv, FlagIsTheUsers, FlagMeansAnswer, CrashOnlyIfRaced, WaitsForUser, TypeInv, TypeOK, Player, User, Move, NoAnswer, Answer
<1>7. CASE \E name \in Answer : ReadAI(name)
  BY <1>7, PromptAssumption DEF ReadAI, Collect, By, mainVars, RaceInv, FlagIsTheUsers, FlagMeansAnswer, CrashOnlyIfRaced, WaitsForUser, TypeInv, TypeOK, Player, User, Move, NoAnswer, Answer
<1>8. CASE \E p \in Player : NextMove(p)
  BY <1>8, PromptAssumption DEF NextMove, RaceInv, FlagIsTheUsers, FlagMeansAnswer, CrashOnlyIfRaced, WaitsForUser, TypeInv, TypeOK, Player, User, Move, NoAnswer, Answer
<1>9. CASE RunBlock
  BY <1>9, PromptAssumption DEF RunBlock, RaceInv, FlagIsTheUsers, FlagMeansAnswer, CrashOnlyIfRaced, WaitsForUser, TypeInv, TypeOK, Player, User, Move, NoAnswer, Answer
<1>10. CASE WriteAnswer
  BY <1>10, PromptAssumption DEF WriteAnswer, By, RaceInv, FlagIsTheUsers, FlagMeansAnswer, CrashOnlyIfRaced, WaitsForUser, TypeInv, TypeOK, Player, User, Move, NoAnswer, Answer
<1>11. CASE DisableButtons
  BY <1>11, PromptAssumption DEF DisableButtons, RaceInv, FlagIsTheUsers, FlagMeansAnswer, CrashOnlyIfRaced, WaitsForUser, TypeInv, TypeOK, Player, User, Move, NoAnswer, Answer
<1>12. CASE \E name \in Answer : Press(name)
  BY <1>12, PromptAssumption DEF Press, RaceInv, FlagIsTheUsers, FlagMeansAnswer, CrashOnlyIfRaced, WaitsForUser, TypeInv, TypeOK, Player, User, Move, NoAnswer, Answer
<1>13. CASE UNCHANGED vars
  BY <1>13, PromptAssumption DEF vars, RaceInv, FlagIsTheUsers, FlagMeansAnswer, CrashOnlyIfRaced, WaitsForUser, TypeInv, TypeOK, Player, User, Move, NoAnswer, Answer
<1> QED
  BY <1>1, <1>2, <1>3, <1>4, <1>5, <1>6, <1>7, <1>8, <1>9, <1>10, <1>11, <1>12, <1>13, Steps

LEMMA RaceAlways == Spec => []RaceInv
<1>1. TypeInv /\ RaceInv /\ [Next]_vars => RaceInv'
  BY RaceStep
<1> QED
  BY RaceInit, <1>1, TypeAlways, PTL DEF Spec

\* No press of the user is taken for the answer of an AI, as long as no
\* enabling block runs after the answer it was for.
THEOREM FlagTrue == Spec => []FlagIsTheUsers
<1>1. RaceInv => FlagIsTheUsers
  BY DEF RaceInv
<1> QED
  BY RaceAlways, <1>1, PTL

\* A press indexes past the last player only after a late block or a torn read.
THEOREM CrashesRaced == Spec => []CrashOnlyIfRaced
<1>1. RaceInv => CrashOnlyIfRaced
  BY DEF RaceInv
<1> QED
  BY RaceAlways, <1>1, PTL
-----------------------------------------------------------------------------
(***************************************************************************)
(* The two threads carry out the asking of module Objections.              *)
(***************************************************************************)

LEMMA MeantInit == Init => Meant!Init
<1> SUFFICES ASSUME Init PROVE Meant!Init
  OBVIOUS
<1>1. alive \subseteq Player /\ turnInd \in alive
  BY TypeInit DEF TypeInv, TypeOK
<1>2. curMove = NoAnswer /\ gpc = "between" /\ challengeTurnInd = 0
  BY DEF Init
<1> QED
  BY <1>1, <1>2 DEF Meant!Init, Meant!Player, Player, NoAnswer

\* What the table does not see: polls, blocks, handlers, and that it is somebody's
\* turn to be asked.
LEMMA Quiet ==
    ASSUME UNCHANGED <<turnInd, alive, challengeTurnInd, curMove>>,
           (gpc' = "between") <=> (gpc = "between")
    PROVE  UNCHANGED Meant!vars
BY DEF Meant!vars

\* An answer of the player who is asked, to the move on the table, is what
\* Objections has for an answer.
LEMMA CollectAnswers ==
    ASSUME TypeInv, gpc = "read", curMove.name # "challenge", NEW answer,
           answer.name \in Answer, answer.caller = challengeTurnInd,
           answer.target = turnInd,
           Collect(answer), UNCHANGED <<turnInd, alive>>
    PROVE  Meant!Next
<1>1. challengeTurnInd \in alive \ {turnInd} /\ curMove' = answer
  BY DEF TypeInv, Collect
<1>2. CASE answer.name = "challenge"
  <2>1. Meant!Challenge
    BY <1>1, <1>2 DEF Meant!Challenge, Collect
  <2> QED
    BY <2>1 DEF Meant!Next
<1>3. CASE answer.name = "allow"
  <2>1. Meant!Allow
    BY <1>1, <1>3 DEF Meant!Allow, Collect
  <2> QED
    BY <2>1 DEF Meant!Next
<1> QED
  BY <1>2, <1>3 DEF Answer

\* Every step is a step of the asking, cannot be seen by the table, or reads a
\* field that is not yet written.
LEMMA MeantStep ==
    ASSUME TypeInv, FreshInv, [Next]_vars
    PROVE  Meant!Next \/ torn' \/ UNCHANGED Meant!vars
<1>1. CASE LoopHead
  <2>1. CASE challengeTurnInd \in alive \ {turnInd}
    <3>1. UNCHANGED <<turnInd, alive, challengeTurnInd, curMove>>
      BY <1>1, <2>1 DEF LoopHead
    <3>2. gpc # "between" /\ gpc' # "between"
      BY <1>1, <2>1 DEF LoopHead
    <3> QED
      BY <3>1, <3>2, Quiet
  <2>2. CASE challengeTurnInd \notin alive \ {turnInd}
    <3>1. challengeTurnInd \in Player
      BY <1>1, PromptAssumption DEF LoopHead, TypeInv, TypeOK, Player
    <3>2. Meant!Skip
      BY <1>1, <2>2, <3>1 DEF LoopHead, Meant!Skip, Meant!Player, Player
    <3> QED
      BY <3>2 DEF Meant!Next
  <2> QED
    BY <2>1, <2>2
<1>2. CASE Poll \/ Woken \/ PollDone
  BY <1>2, Quiet DEF Poll, Woken, PollDone
<1>3. CASE ReadField
  <2> SUFFICES ASSUME ~torn' PROVE Meant!Next
    OBVIOUS
  <2>1. /\ challengeMove.caller = challengeTurnInd /\ challengeMove.target = turnInd
        /\ curMove.name # "challenge"
    BY <1>3 DEF ReadField, FreshInv
  <2>2. challengeMove.name \in Answer
    <3>1. challengeTurnInd # -1
      BY <1>3 DEF ReadField, TypeInv, TypeOK, Player
    <3> QED
      BY <2>1, <3>1 DEF TypeInv, TypeOK, Move, NoAnswer
  <2> QED
    BY <1>3, <2>1, <2>2, CollectAnswers DEF ReadField
<1>4. ASSUME NEW name \in Answer, ReadAI(name) PROVE Meant!Next
  <2>1. curMove.name # "challenge"
    BY <1>4 DEF ReadAI, FreshInv
  <2> QED
    BY <1>4, <2>1, CollectAnswers DEF ReadAI, By
<1>5. CASE LoopEnd
  <2>1. Meant!Close
    BY <1>5 DEF LoopEnd, Meant!Close
  <2> QED
    BY <2>1 DEF Meant!Next
<1>6. ASSUME NEW p \in Player, NextMove(p) PROVE Meant!Next
  <2>1. /\ alive' \subseteq alive /\ turnInd' \in alive' /\ gpc = "between" /\ gpc' = "loop"
        /\ challengeTurnInd' = 0 /\ curMove' = NoAnswer
    BY <1>6 DEF NextMove
  <2>2. alive' \subseteq Meant!Player
    BY <2>1 DEF TypeInv, TypeOK, Meant!Player, Player
  <2>3. Meant!Claim
    BY <2>1, <2>2 DEF Meant!Claim, Meant!Open, NoAnswer
  <2> QED
    BY <2>3 DEF Meant!Next
<1>7. CASE \/ RunBlock \/ WriteAnswer \/ DisableButtons
           \/ (\E name \in Answer : Press(name)) \/ UNCHANGED vars
  BY <1>7, Quiet DEF RunBlock, WriteAnswer, DisableButtons, Press, vars
<1> QED
  BY <1>1, <1>2, <1>3, <1>4, <1>5, <1>6, <1>7, Steps

\* Until a read is torn, the polling loop, the handlers and the queue put each
\* claim to the table as Objections has it, late enabling blocks included.
THEOREM AskingFollowed == Spec => FollowsAsking
<1>1. TypeInv /\ FreshInv /\ [Next]_vars => [Meant!Next \/ torn']_(Meant!vars)
  BY MeantStep
<1> QED
  BY MeantInit, <1>1, TypeAlways, FreshAlways, PTL DEF Spec, FollowsAsking
=============================================================================

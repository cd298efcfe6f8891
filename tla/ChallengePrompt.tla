-------------------------- MODULE ChallengePrompt --------------------------
(***************************************************************************)
(* How the user's "allow" or "challenge" gets from the buttons to          *)
(* anyChallenges (GameViewController.swift:554-608), step by step on the   *)
(* two threads, over several moves of the game.                            *)
(*                                                                         *)
(* The game thread asks the players in turn.  For the user it queues, once *)
(* in every round of a polling loop, a block that enables the two buttons, *)
(* and looks at the flag didPlayerChallengeOrAllow.  The main thread runs  *)
(* the queued blocks and the handlers of the buttons; a handler sets the   *)
(* flag, then writes the answer, then - "allow" after a second of sleep -  *)
(* disables the buttons.  Touches and queued blocks are two sources of the *)
(* main run loop: a touch may be handled before a block queued earlier.    *)
(*                                                                         *)
(* The sleeps only make some orders unlikely; every order happens here.    *)
(* Reads and writes of a field are atomic and seen by the other thread.    *)
(***************************************************************************)
EXTENDS Integers, FiniteSets

CONSTANTS
    NP,         \* seats; the user is players[0]
    MaxMoves,   \* BOUND: moves that are put to the table
    MaxQueued   \* BOUND: enabling blocks waiting for the main thread

ASSUME PromptAssumption ==
    NP \in 2..6 /\ MaxMoves \in Nat /\ MaxQueued \in Nat \ {0}

Player == 0 .. NP - 1
User   == 0

VARIABLES
    gpc,            \* where the game thread is
    turnInd,        \* whose move is put to the others
    alive,          \* the players not eliminated
    challengeTurnInd,
    didAnswer,      \* didPlayerChallengeOrAllow
    challengeMove,  \* the field the handlers write
    curMove,        \* what anyChallenges will return
    moves,          \* how many moves have been put to the table
    queued,         \* enabling blocks in the main queue
    enabled,        \* allowBtn.isEnabled, challengeBtn.isEnabled
    mpc,            \* where the main thread is
    pressed,        \* the button whose handler is running
    \* history
    late,           \* the buttons were enabled when nobody waited for them
    torn            \* the answer was read between the flag and the answer

vars == <<gpc, turnInd, alive, challengeTurnInd, didAnswer, challengeMove,
          curMove, moves, queued, enabled, mpc, pressed, late, torn>>
mainVars == <<queued, enabled, mpc, pressed, late>>

Answer == {"allow", "challenge"}
NoAnswer == [name |-> "none", caller |-> -1, target |-> -1]     \* Move()
By(p, name) == [name |-> name, caller |-> p, target |-> turnInd]

Init ==
    /\ gpc = "between" /\ turnInd = User
    /\ alive \in {S \in SUBSET Player : User \in S /\ Cardinality(S) >= 2}
    /\ challengeTurnInd = 0
    /\ didAnswer = FALSE
    /\ challengeMove = NoAnswer /\ curMove = NoAnswer
    /\ moves = 0
    /\ queued = 0 /\ enabled = FALSE
    /\ mpc = "idle" /\ pressed = "allow"
    /\ late = FALSE /\ torn = FALSE

-----------------------------------------------------------------------------
(***************************************************************************)
(* The game thread.                                                        *)
(***************************************************************************)

\* runGame between two moves that can be challenged: players may have been
\* eliminated, and a living player makes the next move.  The user can move
\* only when the block of enableButtons has run, which comes after all blocks
\* queued before it and disables the two buttons; so does the user's press.
NextMove(p) ==
    /\ gpc = "between" /\ moves < MaxMoves
    /\ alive' \in {S \in SUBSET alive : User \in S /\ Cardinality(S) >= 2}
    /\ p \in alive'
    /\ \/ p # User /\ UNCHANGED enabled
       \/ p = User /\ mpc = "idle" /\ queued = 0 /\ enabled' = FALSE
    /\ turnInd' = p
    /\ moves' = moves + 1
    /\ challengeTurnInd' = 0
    /\ curMove' = NoAnswer
    /\ gpc' = "loop"
    /\ UNCHANGED <<didAnswer, challengeMove, queued, mpc, pressed, late, torn>>

\* Seeded defects: "<=" in the loop; no reset of the flag for every player.
LoopHead_OffByOne ==
    /\ gpc = "loop" /\ challengeTurnInd =< NP
    /\ didAnswer' = FALSE
    /\ IF challengeTurnInd \in alive \ {turnInd}
       THEN /\ gpc' = IF challengeTurnInd = User THEN "poll" ELSE "read"
            /\ UNCHANGED challengeTurnInd
       ELSE /\ challengeTurnInd' = challengeTurnInd + 1
            /\ UNCHANGED gpc
    /\ UNCHANGED <<turnInd, alive, challengeMove, curMove, moves, mainVars, torn>>
LoopHead_NoReset ==
    /\ gpc = "loop" /\ challengeTurnInd < NP
    /\ IF challengeTurnInd \in alive \ {turnInd}
       THEN /\ gpc' = IF challengeTurnInd = User THEN "poll" ELSE "read"
            /\ UNCHANGED challengeTurnInd
       ELSE /\ challengeTurnInd' = challengeTurnInd + 1
            /\ UNCHANGED gpc
    /\ UNCHANGED <<turnInd, alive, didAnswer, challengeMove, curMove, moves,
                   mainVars, torn>>

\* The flag is reset; the caller and the eliminated are skipped; the user is
\* polled; an AI's answer is drawn where it is read.
LoopHead ==
    /\ gpc = "loop" /\ challengeTurnInd < NP
    /\ didAnswer' = FALSE
    /\ IF challengeTurnInd \in alive \ {turnInd}
       THEN /\ gpc' = IF challengeTurnInd = User THEN "poll" ELSE "read"
            /\ UNCHANGED challengeTurnInd
       ELSE /\ challengeTurnInd' = challengeTurnInd + 1
            /\ UNCHANGED gpc
    /\ UNCHANGED <<turnInd, alive, challengeMove, curMove, moves, mainVars, torn>>

\* The body of the polling loop ...
Poll ==
    /\ gpc = "poll" /\ ~didAnswer
    /\ queued < MaxQueued
    /\ queued' = queued + 1
    /\ gpc' = "sleep"
    /\ UNCHANGED <<turnInd, alive, challengeTurnInd, didAnswer, challengeMove,
                   curMove, moves, enabled, mpc, pressed, late, torn>>

\* Seeded defect: the flag is reset in the polling loop.
Woken_Resets ==
    /\ gpc = "sleep"
    /\ didAnswer' = FALSE
    /\ gpc' = "poll"
    /\ UNCHANGED <<turnInd, alive, challengeTurnInd, challengeMove, curMove,
                   moves, mainVars, torn>>

\* ... ends in a sleep of a second.
Woken ==
    /\ gpc = "sleep"
    /\ gpc' = "poll"
    /\ UNCHANGED <<turnInd, alive, challengeTurnInd, didAnswer, challengeMove,
                   curMove, moves, mainVars, torn>>

PollDone ==
    /\ gpc = "poll" /\ didAnswer
    /\ gpc' = "read"
    /\ UNCHANGED <<turnInd, alive, challengeTurnInd, didAnswer, challengeMove,
                   curMove, moves, mainVars, torn>>

\* A challenge is returned at once; after anything else the next is asked.
Collect(answer) ==
    /\ curMove' = answer
    /\ IF answer.name = "challenge"
       THEN gpc' = "between" /\ UNCHANGED challengeTurnInd
       ELSE gpc' = "loop" /\ challengeTurnInd' = challengeTurnInd + 1

\* The flag, whoever is being asked, means that the field holds the answer.
ReadField ==
    /\ gpc = "read" /\ didAnswer
    /\ Collect(challengeMove)
    /\ torn' = (torn \/ mpc = "write")
    /\ UNCHANGED <<turnInd, alive, didAnswer, challengeMove, moves, mainVars>>

\* getChallengeOrAllow of an AI.
ReadAI(name) ==
    /\ gpc = "read" /\ ~didAnswer
    /\ Collect(By(challengeTurnInd, name))
    /\ UNCHANGED <<turnInd, alive, didAnswer, challengeMove, moves, mainVars, torn>>

LoopEnd ==
    /\ gpc = "loop" /\ challengeTurnInd = NP
    /\ gpc' = "between"
    /\ UNCHANGED <<turnInd, alive, challengeTurnInd, didAnswer, challengeMove,
                   curMove, moves, mainVars, torn>>

-----------------------------------------------------------------------------
(***************************************************************************)
(* The main thread.                                                        *)
(***************************************************************************)

WaitsForUser == gpc \in {"poll", "sleep"} /\ ~didAnswer

\* enableChallengeButtons, queued by Poll.
RunBlock ==
    /\ mpc = "idle" /\ queued > 0
    /\ queued' = queued - 1
    /\ enabled' = TRUE
    /\ late' = (late \/ ~WaitsForUser)
    /\ UNCHANGED <<gpc, turnInd, alive, challengeTurnInd, didAnswer,
                   challengeMove, curMove, moves, mpc, pressed, torn>>

\* allowBtnPressed, challengeBtnPressed: first the flag ...
Press(name) ==
    /\ mpc = "idle" /\ enabled
    /\ didAnswer' = TRUE
    /\ pressed' = name
    /\ mpc' = "write"
    /\ UNCHANGED <<gpc, turnInd, alive, challengeTurnInd, challengeMove,
                   curMove, moves, queued, enabled, late, torn>>

\* Seeded defect: caller and target of the answer are swapped.
WriteAnswer_Swapped ==
    /\ mpc = "write"
    /\ IF challengeTurnInd < NP
       THEN /\ challengeMove' = [name |-> pressed, caller |-> turnInd,
                                 target |-> challengeTurnInd]
            /\ mpc' = "disable"
       ELSE mpc' = "crashed" /\ UNCHANGED challengeMove
    /\ UNCHANGED <<gpc, turnInd, alive, challengeTurnInd, didAnswer, curMove,
                   moves, queued, enabled, pressed, late, torn>>

\* ... then the answer, in the name of players[challengeTurnInd], which does
\* not exist when everybody has been asked: the index stops the program ...
WriteAnswer ==
    /\ mpc = "write"
    /\ IF challengeTurnInd < NP
       THEN challengeMove' = By(challengeTurnInd, pressed) /\ mpc' = "disable"
       ELSE mpc' = "crashed" /\ UNCHANGED challengeMove
    /\ UNCHANGED <<gpc, turnInd, alive, challengeTurnInd, didAnswer, curMove,
                   moves, queued, enabled, pressed, late, torn>>

\* Seeded defect: the handler leaves the buttons enabled.
DisableButtons_Missing ==
    /\ mpc = "disable"
    /\ mpc' = "idle"
    /\ UNCHANGED <<gpc, turnInd, alive, challengeTurnInd, didAnswer,
                   challengeMove, curMove, moves, queued, enabled, pressed,
                   late, torn>>

\* ... and the buttons last.
DisableButtons ==
    /\ mpc = "disable"
    /\ enabled' = FALSE
    /\ mpc' = "idle"
    /\ UNCHANGED <<gpc, turnInd, alive, challengeTurnInd, didAnswer,
                   challengeMove, curMove, moves, queued, pressed, late, torn>>

-----------------------------------------------------------------------------
Running == mpc # "crashed"

Asking     == \/ LoopHead \/ Poll \/ Woken \/ PollDone \/ ReadField \/ LoopEnd
              \/ \E name \in Answer : ReadAI(name)
GameThread == Running /\ (Asking \/ \E p \in Player : NextMove(p))
MainThread == RunBlock \/ WriteAnswer \/ DisableButtons
UserPress  == Running /\ \E name \in Answer : Press(name)

Next == GameThread \/ MainThread \/ UserPress

\* Both threads are scheduled, and a user who sees enabled buttons presses one
\* of them some day.
Spec == Init /\ [][Next]_vars
             /\ WF_vars(GameThread) /\ WF_vars(MainThread) /\ WF_vars(UserPress)

-----------------------------------------------------------------------------
(***************************************************************************)
(* Properties.                                                             *)
(***************************************************************************)

Move == [name : Answer, caller : Player, target : Player] \cup {NoAnswer}

\* The fields of both threads keep their types.
TypeOK ==
    /\ gpc \in {"between", "loop", "poll", "sleep", "read"}
    /\ turnInd \in alive /\ alive \subseteq Player
    /\ challengeTurnInd \in 0 .. NP
    /\ didAnswer \in BOOLEAN
    /\ challengeMove \in Move /\ curMove \in Move
    /\ moves \in 0 .. MaxMoves
    /\ queued \in 0 .. MaxQueued
    /\ enabled \in BOOLEAN
    /\ mpc \in {"idle", "write", "disable", "crashed"}
    /\ pressed \in Answer
    /\ late \in BOOLEAN /\ torn \in BOOLEAN

\* GameViewController.swift:587, "didPlayerChallenge is already set to false
\* right before this loop": when the answer of an AI is read, the flag is not
\* up, and the AI's answer is the AI's.
FlagMeansAnswer ==
    gpc = "read" /\ challengeTurnInd # User => ~didAnswer

\* It is so as long as no enabling block runs after the answer it was for.
FlagIsTheUsers == ~late => FlagMeansAnswer

\* An answer taken from the user while no handler is between its two writes is to
\* the move on the table, not one left in the field by an earlier move.  A read
\* torn by such a handler finds the earlier answer.
AnswerIsToThisMove ==
    gpc = "read" /\ challengeTurnInd = User /\ mpc # "write" =>
        challengeMove.caller = User /\ challengeMove.target = turnInd

\* As long as no read has been torn, the move a challenge is upheld against is the
\* move on the table: the losers runGame makes of objection.caller and
\* objection.target are a player who was asked and the player whose turn it is.
ChallengeIsToThisMove ==
    gpc = "between" /\ curMove.name = "challenge" /\ ~torn =>
        curMove.target = turnInd /\ curMove.caller \in alive \ {turnInd}

\* What the asking is to somebody who sees neither the flag nor the field.
Meant == INSTANCE Objections WITH
    mover     <- turnInd,
    inGame    <- alive,
    next      <- challengeTurnInd,
    answer    <- curMove.name,
    challenge <- IF curMove.name = "challenge" THEN <<curMove.caller, curMove.target>>
                 ELSE <<>>,
    place     <- IF gpc = "between" THEN "rest" ELSE "ask"

\* The two threads put a claim to the table as CoupGame has it - everybody else
\* in the game asked once and in order, and what is taken for the answer of a
\* player naming this player and this claim - until a read is torn.  That the
\* user has pressed for somebody else, FlagIsTheUsers is about.
FollowsAsking == Meant!Init /\ [][Meant!Next \/ torn']_(Meant!vars)

\* A press indexes past the last player only after one of the two races.
CrashOnlyIfRaced == mpc = "crashed" => late \/ torn

\* A prompt put to the user is answered, and the asking comes to its end.
PromptAnswered == gpc = "poll" ~> (gpc = "between" \/ mpc = "crashed")
=============================================================================

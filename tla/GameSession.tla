----------------------------- MODULE GameSession -----------------------------
(***************************************************************************)
(* One game after another: the lobby, the game screen, the last screen and *)
(* back, with a game thread for each game.                                 *)
(*                                                                         *)
(* Every game has its own view controller and its own thread, but they     *)
(* share the global players, the global moveLog and the static status of   *)
(* the last screen.  "End Game" only clears gameOn: the thread, which      *)
(* looks at it once a turn, plays its turn to the end - at the table of    *)
(* the next game, if that has begun by then.                               *)
(*                                                                         *)
(* The turn of a thread is that of CoupGame, without cards and coins: a    *)
(* player loses an influence and may be out, or not.                       *)
(*                                                                         *)
(* UIKit is modelled by what this program sees of it: a segue performed by *)
(* a view controller that is not on top calls prepare(for:) and presents   *)
(* nothing.                                                                *)
(***************************************************************************)
EXTENDS CoupTable, FiniteSets

CONSTANTS
    MaxGames,   \* BOUND: games in one session
    NoPlayer    \* the absence of a player

ASSUME SessionAssumption ==
    /\ UserName \notin AIName
    /\ MaxSeats \in Nat \ {0, 1} /\ MaxGames \in Nat \ {0}

VARIABLES
    screen,     \* what the user sees
    over,       \* what is presented over the game screen
    table,      \* the names at the table of every game, the present one last
    out,        \* the players both of whose cards are revealed
    gameOn,     \* of each game's view controller
    status,     \* the verdict of each game's view controller
    thread,     \* the thread of each game
    lastStatus, \* GameEndsViewController.status
    shown,      \* the verdict on the last screen, once it has appeared
    logger,     \* the game whose move is the last in moveLog
    crashed,
    \* history
    abandoned,  \* games ended by the user in the middle of a turn
    crossed,    \* games whose thread has changed a player of another game
    behind,     \* games whose thread has written lastStatus in a later game
    dropped,    \* games whose last screen was not presented
    extra       \* moves each game has announced after its end

uiVars      == <<screen, over, shown>>
historyVars == <<abandoned, crossed, behind, dropped, extra>>
vars == <<uiVars, table, out, gameOn, status, thread, lastStatus,
          logger, crashed, historyVars>>

Game   == 1 .. MaxGames
game   == Len(table)            \* the game being played, or played last
NP     == Len(table[game])      \* players.count

\* A Player object: who in which game.
Seat(i)  == [game |-> game, name |-> table[game][i + 1]]    \* players[i]
Me(g)    == [game |-> g, name |-> UserName]                 \* user of g's controller
IsUser(p) == p.name = UserName

Thread == [place : {"none", "top", "pause", "idle", "choose", "draw", "say", "ask",
                    "wait", "prove", "act", "dialog", "stuck", "check", "over"},
           turn : 0 .. MaxSeats - 1,      \* turnInd
           asked : 0 .. MaxSeats,         \* challengeTurnInd
           allowed : BOOLEAN,             \* somebody has answered "allow"
           mover : [game : Game, name : AIName \cup {UserName}] \cup {NoPlayer},
           victim : [game : Game, name : AIName \cup {UserName}] \cup {NoPlayer},
           objector : [game : Game, name : AIName \cup {UserName}] \cup {NoPlayer}]

NewThread == [place |-> "none", turn |-> 0, asked |-> 0, allowed |-> FALSE,
              mover |-> NoPlayer, victim |-> NoPlayer, objector |-> NoPlayer]

Init ==
    /\ screen = "main" /\ over = "nothing" /\ shown = "nothing"
    /\ table = <<>> /\ out = {}
    /\ gameOn = [g \in Game |-> TRUE]
    /\ status = [g \in Game |-> "You Lost"]
    /\ thread = [g \in Game |-> NewThread]
    /\ lastStatus = "undefined"
    /\ logger = 0
    /\ crashed = FALSE
    /\ abandoned = {} /\ crossed = {} /\ behind = {} /\ dropped = {}
    /\ extra = [g \in Game |-> 0]

-----------------------------------------------------------------------------
(***************************************************************************)
(* The way to a game.                                                      *)
(***************************************************************************)

\* From the main screen through the lobby: its prepare(for:), which makes the
\* table the global players, and viewDidLoad of the game.  The lobby starts a
\* game at the tables of Table (CountTellsTheTable of Lobby).
StartGame(t) ==
    /\ ~crashed /\ screen = "main" /\ game < MaxGames
    /\ screen' = "game"
    /\ table' = Append(table, t)
    /\ thread' = [thread EXCEPT ![game + 1].place = "top"]
    /\ UNCHANGED <<over, shown, out, gameOn, status, lastStatus, logger, crashed,
                   historyVars>>

-----------------------------------------------------------------------------
(***************************************************************************)
(* A thread.  UI leaves everything but the thread itself alone.            *)
(***************************************************************************)

At(g, place) == ~crashed /\ thread[g].place = place
GoTo(g, place) == thread' = [thread EXCEPT ![g].place = place]

\* The locals of a finished move are not read again, nor is challengeTurnInd
\* before the next one.
Rest(g, place) == [NewThread EXCEPT !.place = place, !.turn = thread[g].turn]
OnlyThread == UNCHANGED <<uiVars, table, out, gameOn, status,
                          lastStatus, logger, crashed, historyVars>>

\* players[i] with an i that is not an index.
Crash ==
    /\ crashed' = TRUE
    /\ UNCHANGED <<uiVars, table, out, gameOn, status, thread,
                   lastStatus, logger, historyVars>>

\* Seeded defect: incrementInd without the wrap to 0.
NextTurn_NoWrap(g) == IF thread[g].turn + 1 > NP THEN 0 ELSE thread[g].turn + 1

NextTurn(g) == IF thread[g].turn + 1 >= NP THEN 0 ELSE thread[g].turn + 1

\* Seeded defect: the turn begins without a look at gameOn.
BeginTurn_NoLook(g) ==
    /\ At(g, "top")
    /\ IF thread[g].turn >= NP THEN Crash
       ELSE LET p == Seat(thread[g].turn) IN
            /\ OnlyThread
            /\ \/ /\ p \in out
                  /\ thread' = [thread EXCEPT ![g].turn = NextTurn(g)]
               \/ /\ p \notin out /\ ~IsUser(p)
                  /\ thread' = [thread EXCEPT ![g].place = "choose", ![g].mover = p]
               \/ /\ p \notin out /\ IsUser(p)
                  /\ GoTo(g, IF thread[g].mover = NoPlayer THEN "pause" ELSE "say")

\* The head of the loop of runGame.
BeginTurn(g) ==
    /\ At(g, "top") /\ gameOn[g]
    /\ IF thread[g].turn >= NP THEN Crash
       ELSE LET p == Seat(thread[g].turn) IN
            /\ OnlyThread
            /\ \/ /\ p \in out
                  /\ thread' = [thread EXCEPT ![g].turn = NextTurn(g)]
               \/ /\ p \notin out /\ ~IsUser(p)
                  /\ thread' = [thread EXCEPT ![g].place = "choose", ![g].mover = p]
               \/ /\ p \notin out /\ IsUser(p)
                  /\ GoTo(g, IF thread[g].mover = NoPlayer THEN "pause" ELSE "say")

\* The thread pauses with the buttons enabled, breaks out of the loop and looks
\* at gameOn once more; the work item is queued again by a button.  A button
\* pressed in the pause is as one pressed right after it.
Break(g) ==
    /\ At(g, "pause") /\ gameOn[g]
    /\ GoTo(g, "idle")
    /\ OnlyThread

\* A target drawn from the table as it is now, or none.
Victims(p) == {p} \cup ({Seat(i) : i \in 0 .. NP - 1} \ out)

Fitting(g) ==
    {v \in Victims(thread[g].mover) : v.name # thread[g].mover.name}

\* getPlayerMove: a move without a target, one whose target is found, or a draw
\* that nobody fits: for a theft, somebody in the game with two coins.
AIChooses(g) ==
    /\ At(g, "choose")
    /\ \/ \E v \in {thread[g].mover} \cup Fitting(g) :
             thread' = [thread EXCEPT ![g].place = "say", ![g].victim = v]
       \/ GoTo(g, "draw")
    /\ OnlyThread

\* It reads players anew each time, and so may still end: at the table of a
\* later game, or when the thread of an earlier one moves coins at this one.
DrawsOn(g) ==
    /\ At(g, "draw") /\ (game > g \/ crossed # {})
    /\ \E v \in Fitting(g) :
          thread' = [thread EXCEPT ![g].place = "say", ![g].victim = v]
    /\ OnlyThread

\* The buttons work only on the screen of the game they belong to.
UserSees(g) == ~crashed /\ screen = "game" /\ over = "nothing" /\ g = game

UserMoves(g) ==
    /\ UserSees(g) /\ gameOn[g] /\ At(g, "idle")
    /\ \E v \in Victims(Me(g)) :
          thread' = [thread EXCEPT ![g].place = "top", ![g].mover = Me(g),
                                   ![g].victim = v]
    /\ OnlyThread

\* Seeded defect: the user's move is not logged.
Announce_Unlogged(g) ==
    /\ At(g, "say")
    /\ logger' = IF IsUser(thread[g].mover) THEN logger ELSE g
    /\ extra' = [extra EXCEPT ![g] = IF gameOn[g] THEN 0 ELSE @ + 1]
    /\ \E next \in {"ask", "act"} :
          thread' = [thread EXCEPT ![g].place = next, ![g].asked = 0,
                                   ![g].allowed = FALSE]
    /\ UNCHANGED <<uiVars, table, out, gameOn, status, lastStatus,
                   crashed, abandoned, crossed, behind, dropped>>

\* moveLog.append; income and coups go on at once.
Announce(g) ==
    /\ At(g, "say")
    /\ logger' = g
    /\ extra' = [extra EXCEPT ![g] = IF gameOn[g] THEN 0 ELSE @ + 1]
    /\ \E next \in {"ask", "act"} :
          thread' = [thread EXCEPT ![g].place = next, ![g].asked = 0,
                                   ![g].allowed = FALSE]
    /\ UNCHANGED <<uiVars, table, out, gameOn, status, lastStatus,
                   crashed, abandoned, crossed, behind, dropped>>

-----------------------------------------------------------------------------
(***************************************************************************)
(* anyChallenges: whoever sits at the table now.                           *)
(***************************************************************************)

Skipped(g, p) == p.name = thread[g].mover.name \/ p \in out

AskNext(g) ==
    /\ At(g, "ask") /\ thread[g].asked < NP
    /\ LET p == Seat(thread[g].asked) IN
       \/ /\ Skipped(g, p)
          /\ thread' = [thread EXCEPT ![g].asked = @ + 1]
          /\ OnlyThread
       \/ /\ ~Skipped(g, p) /\ IsUser(p)
          /\ GoTo(g, "wait")
          /\ OnlyThread
       \/ /\ ~Skipped(g, p) /\ ~IsUser(p)
          /\ thread' = [thread EXCEPT ![g].place = "prove", ![g].objector = p,
                                      ![g].asked = 0, ![g].allowed = FALSE]
          /\ OnlyThread
       \/ /\ ~Skipped(g, p) /\ ~IsUser(p)       \* "allow" reads players[turnInd]
          /\ IF thread[g].turn >= NP THEN Crash
             ELSE /\ thread' = [thread EXCEPT ![g].asked = @ + 1, ![g].allowed = TRUE]
                  /\ OnlyThread

UserAllows(g) ==
    /\ UserSees(g) /\ At(g, "wait")
    /\ thread' = [thread EXCEPT ![g].place = "ask", ![g].asked = @ + 1,
                                ![g].allowed = TRUE]
    /\ OnlyThread

UserChallenges(g) ==
    /\ UserSees(g) /\ At(g, "wait")
    /\ thread' = [thread EXCEPT ![g].place = "prove", ![g].asked = 0,
                                ![g].allowed = FALSE,
                                ![g].objector = Seat(thread[g].asked)]
    /\ OnlyThread

\* Seeded defect: the comparison is off by one.
AskingDone_OffByOne(g) ==
    /\ At(g, "ask") /\ thread[g].asked > NP
    /\ thread' = [thread EXCEPT ![g] =
                     IF @.allowed THEN [@ EXCEPT !.place = "act", !.asked = 0,
                                                 !.allowed = FALSE]
                     ELSE Rest(g, "check")]
    /\ OnlyThread

AskingDone(g) ==
    /\ At(g, "ask") /\ thread[g].asked >= NP
    /\ thread' = [thread EXCEPT ![g] =
                     IF @.allowed THEN [@ EXCEPT !.place = "act", !.asked = 0,
                                                 !.allowed = FALSE]
                     ELSE Rest(g, "check")]
    /\ OnlyThread

-----------------------------------------------------------------------------
(***************************************************************************)
(* A challenge and the move itself change players.                         *)
(***************************************************************************)

Touch(g, ps) ==
    crossed' = IF \E p \in ps : p.game # g THEN crossed \cup {g} ELSE crossed

\* revealCard: p loses an influence, perhaps the last one.
Reveal(p) == out' \in {out, out \cup {p}}

OnlyPlayers == UNCHANGED <<uiVars, table, gameOn, status, lastStatus,
                           logger, crashed, abandoned, behind, dropped, extra>>

ClaimProved(g) ==
    /\ At(g, "prove")
    /\ Reveal(thread[g].objector) /\ Touch(g, {thread[g].objector})
    /\ thread' = [thread EXCEPT ![g].place = "act", ![g].objector = NoPlayer]
    /\ OnlyPlayers

\* Seeded defect: a move that was a bluff is carried out.
BluffCalled_CarriedOut(g) ==
    /\ At(g, "prove")
    /\ Reveal(thread[g].mover) /\ Touch(g, {thread[g].mover})
    /\ thread' = [thread EXCEPT ![g].place = "act", ![g].objector = NoPlayer]
    /\ OnlyPlayers

BluffCalled(g) ==
    /\ At(g, "prove")
    /\ Reveal(thread[g].mover) /\ Touch(g, {thread[g].mover})
    /\ thread' = [thread EXCEPT ![g] = Rest(g, "check")]
    /\ OnlyPlayers

\* Coins change hands, or the victim reveals a card.
Act(g) ==
    /\ At(g, "act")
    /\ Touch(g, {thread[g].mover, thread[g].victim})
    /\ IF thread[g].victim = thread[g].mover THEN UNCHANGED out
       ELSE Reveal(thread[g].victim)
    /\ thread' = [thread EXCEPT ![g] = Rest(g, "check")]
    /\ OnlyPlayers

\* The user's exchange: the dialog is presented, or the segue falls through
\* and the thread spins for ever.
AskExchange(g) ==
    /\ At(g, "act") /\ IsUser(thread[g].mover) /\ thread[g].victim = thread[g].mover
    /\ \/ UserSees(g) /\ over' = "dialog"
          /\ thread' = [thread EXCEPT ![g] = Rest(g, "dialog")]
       \/ ~UserSees(g) /\ UNCHANGED over
          /\ thread' = [thread EXCEPT ![g] = Rest(g, "stuck")]
    /\ UNCHANGED <<screen, shown, table, out, gameOn, status,
                   lastStatus, logger, crashed, historyVars>>

\* An answer; or the dialog is swiped away, which nobody hears of.
CloseDialog(g) ==
    /\ At(g, "dialog") /\ over = "dialog"
    /\ over' = "nothing"
    /\ \E next \in {"check", "stuck"} : GoTo(g, next)
    /\ UNCHANGED <<screen, shown, table, out, gameOn, status,
                   lastStatus, logger, crashed, historyVars>>

-----------------------------------------------------------------------------
(***************************************************************************)
(* The end of a game.                                                      *)
(***************************************************************************)

\* Seeded defect: gameOn is not cleared.
LastScreen_Open(g, verdict) ==
    /\ lastStatus' = verdict
    /\ UNCHANGED gameOn
    /\ behind' = IF g < game THEN behind \cup {g} ELSE behind
    /\ IF UserSees(g) THEN screen' = "ends" ELSE UNCHANGED screen

\* Seeded defect: the status is not handed over.
LastScreen_Unsaid(g, verdict) ==
    /\ UNCHANGED lastStatus
    /\ gameOn' = [gameOn EXCEPT ![g] = FALSE]
    /\ behind' = IF g < game THEN behind \cup {g} ELSE behind
    /\ IF UserSees(g) THEN screen' = "ends" ELSE UNCHANGED screen

\* Seeded defect: the last screen is not presented.
LastScreen_NotShown(g, verdict) ==
    /\ lastStatus' = verdict
    /\ gameOn' = [gameOn EXCEPT ![g] = FALSE]
    /\ behind' = IF g < game THEN behind \cup {g} ELSE behind
    /\ UNCHANGED screen

\* prepare(for: gameEnds), with the status of the view controller, and the
\* presentation of the last screen, if the game screen is on top.
LastScreen(g, verdict) ==
    /\ lastStatus' = verdict
    /\ gameOn' = [gameOn EXCEPT ![g] = FALSE]
    /\ behind' = IF g < game THEN behind \cup {g} ELSE behind
    /\ IF UserSees(g) THEN screen' = "ends" ELSE UNCHANGED screen

\* Seeded defect: the game ends with the first player.
Decided_Early(u) == \E i \in 0 .. NP - 1 : Seat(i) \in out

\* isGameOver counts at the table as it is now.  user! is the first player of
\* game u, where the controller's setupUser last found it.
Decided(u) ==
    \/ Cardinality({i \in 0 .. NP - 1 : Seat(i) \in out}) = NP - 1
    \/ Me(u) \in out

\* The verdict is about the first player of the present table.
GameOver(g) ==
    LET verdict == IF Seat(0) \in out THEN "You Lose" ELSE "You Won" IN
    /\ status' = [status EXCEPT ![g] = verdict]
    /\ LastScreen(g, verdict)
    /\ dropped' = IF UserSees(g) THEN dropped ELSE dropped \cup {g}

\* setupUser is a queued block: it finds the user of g's own game, or that of a
\* later one if the thread has gone on until then.
EndTurn(g) ==
    /\ At(g, "check")
    /\ thread' = [thread EXCEPT ![g].place = "top", ![g].turn = NextTurn(g)]
    /\ \E u \in g .. game :
          \/ Decided(u) /\ GameOver(g)
          \/ ~Decided(u) /\ UNCHANGED <<status, lastStatus, gameOn, behind, screen, dropped>>
    /\ UNCHANGED <<over, shown, table, out, logger, crashed,
                   abandoned, crossed, extra>>

\* The loop is left, at its head or for the user to choose: the last screen
\* once more.
LeaveLoop(g) ==
    /\ At(g, "top") \/ At(g, "pause")
    /\ ~gameOn[g]
    /\ LastScreen(g, status[g])
    /\ thread' = [thread EXCEPT ![g] = [NewThread EXCEPT !.place = "over"]]
    /\ UNCHANGED <<over, shown, table, out, status, logger, crashed,
                   abandoned, crossed, dropped, extra>>

\* Between these the thread looks at gameOn before it does anything.
Resting == {"top", "pause", "idle", "over"}

\* The button "End Game".
EndGame ==
    /\ game > 0 /\ UserSees(game)
    /\ LastScreen(game, status[game])
    /\ abandoned' = IF thread[game].place \in Resting THEN abandoned
                    ELSE abandoned \cup {game}
    /\ UNCHANGED <<over, shown, table, out, status, thread, logger,
                   crashed, crossed, dropped, extra>>

\* The activity log and the cheat sheet open over the game.
OpenSheet ==
    /\ game > 0 /\ UserSees(game)
    /\ over' = "sheet"
    /\ UNCHANGED <<screen, shown, table, out, gameOn, status, thread,
                   lastStatus, logger, crashed, historyVars>>

CloseSheet ==
    /\ ~crashed /\ over = "sheet"
    /\ over' = "nothing"
    /\ UNCHANGED <<screen, shown, table, out, gameOn, status, thread,
                   lastStatus, logger, crashed, historyVars>>

\* viewDidAppear of the last screen types the status of this moment.
Appear ==
    /\ ~crashed /\ screen = "ends" /\ shown = "nothing"
    /\ shown' = lastStatus
    /\ UNCHANGED <<screen, over, table, out, gameOn, status, thread,
                   lastStatus, logger, crashed, historyVars>>

PlayAgain ==
    /\ ~crashed /\ screen = "ends" /\ shown # "nothing"
    /\ screen' = "main" /\ shown' = "nothing"
    /\ UNCHANGED <<over, table, out, gameOn, status, thread,
                   lastStatus, logger, crashed, historyVars>>

-----------------------------------------------------------------------------
Turn(g) ==
    \/ BeginTurn(g) \/ Break(g) \/ AIChooses(g) \/ Announce(g) \/ AskNext(g) \/ AskingDone(g)
    \/ ClaimProved(g) \/ BluffCalled(g) \/ Act(g) \/ AskExchange(g)
    \/ EndTurn(g) \/ LeaveLoop(g)

UserPlays(g) == UserMoves(g) \/ UserAllows(g) \/ UserChallenges(g) \/ CloseDialog(g)

Menus == (\E t \in Table : StartGame(t)) \/ EndGame \/ OpenSheet \/ CloseSheet
           \/ PlayAgain

Next == \/ \E g \in Game : Turn(g) \/ DrawsOn(g) \/ UserPlays(g)
        \/ Menus \/ Appear

\* The queues run their work items, and a presented screen appears.  Nothing is
\* asked of the user, nor of a draw without a victim, which may go on for ever.
Fairness == (\A g \in Game : WF_vars(Turn(g))) /\ WF_vars(Appear)
Spec == Init /\ [][Next]_vars /\ Fairness

-----------------------------------------------------------------------------
(***************************************************************************)
(* Properties.                                                             *)
(***************************************************************************)

Verdict == {"You Lost", "You Lose", "You Won"}

\* The globals, the fields of the view controllers and the locals of the
\* threads keep their types.
TypeOK ==
    /\ screen \in {"main", "game", "ends"}
    /\ over \in {"nothing", "sheet", "dialog"}
    /\ shown \in Verdict \cup {"nothing"}
    /\ table \in Seq(Table) /\ game =< MaxGames
    /\ \A p \in out : p.game \in 1 .. game /\ p.name \in AIName \cup {UserName}
    /\ gameOn \in [Game -> BOOLEAN]
    /\ status \in [Game -> Verdict]
    /\ thread \in [Game -> Thread]
    /\ lastStatus \in Verdict \cup {"undefined"}
    /\ logger \in 0 .. game
    /\ crashed \in BOOLEAN
    /\ abandoned \subseteq Game /\ crossed \subseteq Game
    /\ behind \subseteq Game /\ dropped \subseteq Game
    /\ extra \in [Game -> Nat]

\* A game that has ended announces at most the move its thread was about to.
OneMoveMore == \A g \in Game : extra[g] =< 1

\* A thread changes players of another game only if the user ended its own in
\* the middle of a turn.  That the loop is left when a game is decided, and
\* that gameOn is read before anything else, keeps all the others apart.
OwnPlayersOnly == crossed \subseteq abandoned

\* Nor does any other thread of this module index past the end of the global
\* players, with turnInd at the head of a turn or after an AI's "allow".  (A
\* press on challenge buttons enabled late can: CrashOnlyIfRaced.)
CrashOnlyIfAbandoned == crashed => abandoned # {}

\* The last screen shows the verdict of the game it ends, unless the thread of
\* an earlier game has written to the shared field in the meantime, or the game
\* is decided in the turn the user has ended it in.
VerdictIsOwn ==
    screen = "ends" /\ shown # "nothing" =>
        shown = status[game] \/ behind # {} \/ game \in abandoned

\* The verdict of a game that was not ended in the middle of a turn is true of its
\* players, as long as no thread has changed players of another game.
StatusTrue ==
    \A g \in 1 .. game :
        LET AIs == {[game |-> g, name |-> table[g][i]] : i \in 2 .. Len(table[g])}
        IN g \notin abandoned /\ crossed = {} =>
              /\ status[g] = "You Won"  => Me(g) \notin out /\ AIs \subseteq out
              /\ status[g] = "You Lose" => Me(g) \in out

\* Whoever is asked, and whoever reveals a card, finds the move in question at
\* the end of moveLog (adjustChallengeRate, revealCard), unless an abandoned
\* game has put one of its own there.
LogEndsWithMove ==
    \A g \in 1 .. game :
        thread[g].place \in {"ask", "wait", "prove", "act"} /\ g \notin abandoned =>
            logger = g \/ abandoned # {}

\* A thread that does nothing more: it has left its work item or, abandoned in
\* mid-turn, waits for the user, who cannot answer any more, or draws the target
\* of a theft that has none.
Rests(g) ==
    \/ thread[g].place \in {"idle", "over"}
    \/ g \in abandoned /\ thread[g].place \in {"wait", "stuck", "draw"}
    \/ crashed

\* A thread whose game has ended comes to rest and stays so: nothing else keeps
\* it going, at whichever table, and no later game wakes it.
EndedStops == \A g \in Game : (g =< game /\ ~gameOn[g]) ~> []Rests(g)

\* The verdict of a decided game reaches the user, unless a sheet was open over
\* the game at that moment, or the thread of an earlier game interferes.
VerdictTold ==
    \A g \in Game :
        (g = game /\ status[g] # "You Lost" /\ screen # "main") ~>
            shown = status[g] \/ g \in dropped \/ abandoned # {} \/ behind # {}
=============================================================================

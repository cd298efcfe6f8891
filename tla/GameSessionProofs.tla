------------------------- MODULE GameSessionProofs -------------------------
(***************************************************************************)
(* Theorems about GameSession, for any number of games in a row and of     *)
(* seats: what keeps the threads of two games apart as long as no game is  *)
(* ended in the middle of a turn.                                          *)
(***************************************************************************)
EXTENDS SessionRounds, SequenceTheorems, FiniteSetTheorems, TLAPS

Name == AIName \cup {UserName}

\* The players of the games begun so far.
Known == [game : 1 .. game, name : Name]

InMove == {"say", "ask", "wait", "prove", "act"}

\* A thread r of game g that has not begun is as new; one in a move has its
\* players at hand; the indices of the present one are good.
Fits(r, g) ==
    /\ g > game => r = NewThread
    /\ r.place = "none" => g > game
    /\ r.place \in InMove \cup {"choose", "draw"} => r.mover \in Known
    /\ r.place \in InMove => r.victim \in Known
    /\ r.place = "prove" => r.objector \in Known
    /\ r.place = "top" /\ r.mover # NoPlayer => r.mover \in Known /\ r.victim \in Known
    /\ r.place \in {"check", "dialog", "stuck"} => r.mover = NoPlayer
    /\ g = game => r.turn < NP
    /\ g = game /\ r.place = "wait" => r.asked < NP

ThreadInv == thread \in [Game -> Thread] /\ \A g \in Game : Fits(thread[g], g)

\* The types of everything but the threads.  The last screen has a verdict.
RestOK ==
    /\ screen \in {"main", "game", "ends"}
    /\ over \in {"nothing", "sheet", "dialog"}
    /\ shown \in Verdict \cup {"nothing"}
    /\ table \in Seq(Table) /\ game =< MaxGames
    /\ \A p \in out : p.game \in 1 .. game /\ p.name \in Name
    /\ gameOn \in [Game -> BOOLEAN]
    /\ status \in [Game -> Verdict]
    /\ lastStatus \in Verdict \cup {"undefined"}
    /\ screen = "ends" => lastStatus \in Verdict
    /\ logger \in 0 .. game
    /\ crashed \in BOOLEAN
    /\ abandoned \subseteq Game /\ crossed \subseteq Game
    /\ behind \subseteq Game /\ dropped \subseteq Game
    /\ extra \in [Game -> Nat]

TypeInv == RestOK /\ ThreadInv

\* The players of a thread r of game g are those of game g.
Mine(r, g) ==
    /\ r.place \in InMove \cup {"choose", "draw"} => r.mover.game = g
    /\ r.place \in InMove => r.victim.game = g
    /\ r.place = "prove" => r.objector.game = g
    /\ r.place = "top" /\ r.mover # NoPlayer => r.mover.game = g /\ r.victim.game = g

\* Unless its game was abandoned, a thread is in a turn only as long as the game
\* is on, and all its players are its own.  Only the game on the screen is on.
ApartInv(g) ==
    /\ ~gameOn[g] /\ g \notin abandoned => thread[g].place \in Resting \cup {"none"}
    /\ g < game => ~gameOn[g]
    /\ g = game /\ screen # "game" => ~gameOn[g]
    /\ g \notin abandoned => Mine(thread[g], g)

Apart == \A g \in Game : ApartInv(g)

SessionInv == TypeInv /\ Apart /\ OwnPlayersOnly /\ CrashOnlyIfAbandoned

\* An AI that chooses or goes on drawing has a move in the end, or draws on.
Chooses(g) ==
    /\ At(g, "choose") \/ At(g, "draw")
    /\ \/ \E v \in Victims(thread[g].mover) :
             thread' = [thread EXCEPT ![g].place = "say", ![g].victim = v]
       \/ thread' = [thread EXCEPT ![g].place = "draw"]
    /\ OnlyThread

\* How a turn ends: with the game, or not.
Ends(g) == GameOver(g) /\ \E u \in g .. game : Decided(u)
PlaysOn(g) == /\ \E u \in g .. game : ~Decided(u)
               /\ UNCHANGED <<status, lastStatus, gameOn, behind, screen, dropped>>

LEMMA TurnEnds ==
    ASSUME NEW g \in Game, EndTurn(g)
    PROVE  Ends(g) \/ PlaysOn(g)
BY DEF EndTurn, Ends, PlaysOn

\* Every step is one of these.
LEMMA Steps ==
    ASSUME [Next]_vars
    PROVE  \/ \E t \in Table : StartGame(t)
           \/ \E g \in Game :
                 \/ BeginTurn(g) \/ Break(g) \/ Chooses(g) \/ UserMoves(g) \/ Announce(g)
                 \/ AskNext(g) \/ UserAllows(g) \/ UserChallenges(g) \/ AskingDone(g)
                 \/ ClaimProved(g) \/ BluffCalled(g) \/ Act(g) \/ AskExchange(g)
                 \/ CloseDialog(g) \/ EndTurn(g) \/ LeaveLoop(g)
           \/ EndGame \/ OpenSheet \/ CloseSheet \/ Appear \/ PlayAgain
           \/ UNCHANGED vars
<1>1. ASSUME NEW g \in Game, AIChooses(g) \/ DrawsOn(g) PROVE Chooses(g)
  <2>1. {thread[g].mover} \cup Fitting(g) \subseteq Victims(thread[g].mover)
    BY DEF Fitting, Victims
  <2> QED
    BY <1>1, <2>1 DEF AIChooses, DrawsOn, Chooses, GoTo
<1> QED
  BY <1>1 DEF Next, Turn, UserPlays, Menus

\* What a table is: the user first, then AIs.
LEMMA TableFacts ==
    ASSUME NEW t \in Table
    PROVE  /\ t \in Seq(Name) /\ Len(t) \in 2 .. MaxSeats
           /\ \A i \in 1 .. Len(t) : t[i] \in Name
<1>1. PICK n \in 2 .. MaxSeats : t \in [1 .. n -> Name]
  BY DEF Table, Name
<1>2. n \in Nat /\ Len(t) = n
  BY <1>1, SessionAssumption
<1> QED
  BY <1>1, <1>2

\* Tables are the same in every state.
LEMMA TableConstant == Table' = Table
BY DEF Table

\* The seats of the present game.
LEMMA SeatFacts ==
    ASSUME RestOK, game > 0
    PROVE  /\ game \in Game /\ NP \in 2 .. MaxSeats
           /\ \A i \in 0 .. NP - 1 : Seat(i) \in Known /\ Seat(i).game = game
           /\ Me(game) \in Known /\ Me(game).game = game
<1>1. game \in Nat /\ game =< MaxGames /\ table[game] \in Table
  BY SessionAssumption DEF RestOK, game
<1>2. game \in Game
  BY <1>1, SessionAssumption DEF Game
<1>3. NP \in 2 .. MaxSeats /\ \A i \in 1 .. NP : table[game][i] \in Name
  BY <1>1, TableFacts DEF NP
<1> QED
  BY <1>1, <1>2, <1>3, SessionAssumption DEF Seat, Me, Known, Name, game

-----------------------------------------------------------------------------
LEMMA TypeInit == Init => TypeInv
<1> SUFFICES ASSUME Init PROVE TypeInv
  OBVIOUS
<1>1. NewThread \in Thread
  BY SessionAssumption DEF NewThread, Thread
<1>2. table = <<>> /\ game = 0
  BY DEF Init, game
<1>3. RestOK
  <2>1. gameOn \in [Game -> BOOLEAN] /\ status \in [Game -> Verdict]
        /\ extra \in [Game -> Nat]
    BY DEF Init, Verdict
  <2>2. table \in Seq(Table)
    BY <1>2, EmptySeq
  <2>3. game =< MaxGames /\ logger \in 0 .. game
    <3>1. logger = 0
      BY DEF Init
    <3> QED
      BY <1>2, <3>1, SessionAssumption
  <2>4. out = {} /\ abandoned = {} /\ crossed = {} /\ behind = {} /\ dropped = {}
    BY DEF Init
  <2> QED
    BY <2>1, <2>2, <2>3, <2>4 DEF Init, RestOK, Verdict
<1>4. ASSUME NEW g \in Game PROVE Fits(thread[g], g)
  <2>1. thread[g] = NewThread
    BY DEF Init
  <2>2. g > game /\ game = 0 /\ g \in Nat
    BY <1>2, SessionAssumption DEF Game
  <2> QED
    BY <2>1, <2>2 DEF Fits, NewThread, InMove
<1>5. thread \in [Game -> Thread]
  BY <1>1 DEF Init
<1> QED
  BY <1>3, <1>4, <1>5 DEF TypeInv, ThreadInv

\* A step of one thread at the same table.
LEMMA OneThread ==
    ASSUME ThreadInv, UNCHANGED table,
           NEW g \in Game, NEW r \in Thread, Fits(r, g),
           thread' = [thread EXCEPT ![g] = r]
    PROVE  ThreadInv'
<1>1. thread' \in [Game -> Thread]
  BY DEF ThreadInv
<1>2. ASSUME NEW h \in Game PROVE Fits(thread'[h], h)
  BY DEF ThreadInv
<1>3. ASSUME NEW h \in Game PROVE Fits(thread[h], h)'
  BY <1>2 DEF Fits, game, NP, Known, Name, NewThread, InMove
<1>4. thread' \in [Game' -> Thread']
  BY <1>1 DEF Game, Thread
<1> QED
  BY <1>3, <1>4 DEF ThreadInv, Game

\* Steps that leave table and threads alone.
LEMMA NoThread ==
    ASSUME ThreadInv, UNCHANGED <<table, thread>>
    PROVE  ThreadInv'
BY DEF ThreadInv, Fits, game, NP, Known, Name, NewThread, InMove, Game, Thread

\* A thread that moves is that of a game that has begun.
LEMMA Begun ==
    ASSUME ThreadInv, RestOK, NEW g \in Game, thread[g].place # "none"
    PROVE  /\ g \in 1 .. game /\ game \in Nat \ {0}
           /\ thread[g] \in Thread /\ Fits(thread[g], g)
<1>1. game \in Nat
  BY DEF RestOK, game
<1>2. g =< game
  <2> SUFFICES ASSUME g > game PROVE FALSE
    BY <1>1 DEF Game
  <2>1. thread[g] = NewThread
    BY DEF ThreadInv, Fits
  <2> QED
    BY <2>1 DEF NewThread
<1> QED
  BY <1>1, <1>2 DEF ThreadInv, Game

\* The other types are kept by every step.
LEMMA RestStep ==
    ASSUME TypeInv, [Next]_vars
    PROVE  RestOK'
<1>1. ASSUME NEW t \in Table, StartGame(t) PROVE RestOK'
  <2>1. Append(table, t) \in Seq(Table) /\ Len(Append(table, t)) = game + 1
    BY AppendProperties DEF TypeInv, RestOK, game
  <2>2. table' \in Seq(Table') /\ game' = game + 1 /\ game + 1 =< MaxGames
    BY <1>1, <2>1, TableConstant, SessionAssumption DEF StartGame, TypeInv, RestOK, game
  <2>3. game \in Nat /\ 1 .. game \subseteq 1 .. (game + 1) /\ 0 .. game \subseteq 0 .. (game + 1)
    BY DEF TypeInv, RestOK, game
  <2> QED
    BY <1>1, <2>2, <2>3 DEF StartGame, uiVars, historyVars, TypeInv, RestOK, Name, Game
<1>2. ASSUME NEW g \in Game, BeginTurn(g) PROVE RestOK'
  BY <1>2, TableConstant DEF BeginTurn, Crash, OnlyThread, uiVars, historyVars, TypeInv, RestOK, game, Name, Game
<1>3. ASSUME NEW g \in Game, Break(g) PROVE RestOK'
  BY <1>3, TableConstant DEF Break, OnlyThread, uiVars, historyVars, TypeInv, RestOK, game, Name, Game
<1>4. ASSUME NEW g \in Game, Chooses(g) PROVE RestOK'
  BY <1>4, TableConstant DEF Chooses, OnlyThread, uiVars, historyVars, TypeInv, RestOK, game, Name, Game
<1>5. ASSUME NEW g \in Game, UserMoves(g) PROVE RestOK'
  BY <1>5, TableConstant DEF UserMoves, OnlyThread, uiVars, historyVars, TypeInv, RestOK, game, Name, Game
<1>6. ASSUME NEW g \in Game, Announce(g) PROVE RestOK'
  <2>1. g \in 1 .. game
    BY <1>6, Begun DEF Announce, At, TypeInv
  <2>2. extra' \in [Game -> Nat]
    BY <1>6 DEF Announce, TypeInv, RestOK
  <2>3. logger' = g /\ UNCHANGED <<uiVars, table, out, gameOn, status, lastStatus,
                                   crashed, abandoned, crossed, behind, dropped>>
    BY <1>6 DEF Announce
  <2>4. g \in 0 .. game /\ game' = game
    BY <2>1, <2>3 DEF game
  <2>5. logger' \in 0 .. game'
    BY <2>3, <2>4
  <2> QED
    BY <2>2, <2>3, <2>4, <2>5, TableConstant DEF uiVars, TypeInv, RestOK, game, Name, Game
<1>7. ASSUME NEW g \in Game, AskNext(g) PROVE RestOK'
  BY <1>7, TableConstant DEF AskNext, Crash, OnlyThread, uiVars, historyVars, TypeInv, RestOK, game, Name, Game
<1>8. ASSUME NEW g \in Game, UserAllows(g) PROVE RestOK'
  BY <1>8, TableConstant DEF UserAllows, OnlyThread, uiVars, historyVars, TypeInv, RestOK, game, Name, Game
<1>9. ASSUME NEW g \in Game, UserChallenges(g) PROVE RestOK'
  BY <1>9, TableConstant DEF UserChallenges, OnlyThread, uiVars, historyVars, TypeInv, RestOK, game, Name, Game
<1>10. ASSUME NEW g \in Game, AskingDone(g) PROVE RestOK'
  BY <1>10, TableConstant DEF AskingDone, OnlyThread, uiVars, historyVars, TypeInv, RestOK, game, Name, Game
<1>11. ASSUME NEW g \in Game, ClaimProved(g) PROVE RestOK'
  <2>1. thread[g].objector \in Known
    BY <1>11, Begun DEF ClaimProved, At, TypeInv, Fits, InMove
  <2>2. out' \subseteq out \cup {thread[g].objector} /\ crossed' \subseteq crossed \cup {g}
    BY <1>11 DEF ClaimProved, Reveal, Touch
  <2> QED
    BY <1>11, <2>1, <2>2, TableConstant DEF ClaimProved, OnlyPlayers, uiVars, Known, TypeInv, RestOK, game, Name, Game
<1>12. ASSUME NEW g \in Game, BluffCalled(g) PROVE RestOK'
  <2>1. thread[g].mover \in Known
    BY <1>12, Begun DEF BluffCalled, At, TypeInv, Fits, InMove
  <2>2. out' \subseteq out \cup {thread[g].mover} /\ crossed' \subseteq crossed \cup {g}
    BY <1>12 DEF BluffCalled, Reveal, Touch
  <2> QED
    BY <1>12, <2>1, <2>2, TableConstant DEF BluffCalled, OnlyPlayers, uiVars, Known, TypeInv, RestOK, game, Name, Game
<1>13. ASSUME NEW g \in Game, Act(g) PROVE RestOK'
  <2>1. thread[g].victim \in Known
    BY <1>13, Begun DEF Act, At, TypeInv, Fits, InMove
  <2>2. out' \subseteq out \cup {thread[g].victim} /\ crossed' \subseteq crossed \cup {g}
    BY <1>13 DEF Act, Reveal, Touch
  <2> QED
    BY <1>13, <2>1, <2>2, TableConstant DEF Act, OnlyPlayers, uiVars, Known, TypeInv, RestOK, game, Name, Game
<1>14. ASSUME NEW g \in Game, AskExchange(g) PROVE RestOK'
  BY <1>14, TableConstant DEF AskExchange, uiVars, historyVars, TypeInv, RestOK, game, Name, Game
<1>15. ASSUME NEW g \in Game, CloseDialog(g) PROVE RestOK'
  BY <1>15, TableConstant DEF CloseDialog, uiVars, historyVars, TypeInv, RestOK, game, Name, Game
<1>16. ASSUME NEW g \in Game, EndTurn(g) PROVE RestOK'
  <2>1. /\ status' \in [Game -> Verdict] /\ gameOn' \in [Game -> BOOLEAN]
        /\ lastStatus' \in Verdict \/ lastStatus' = lastStatus
        /\ screen' = "ends" => screen = "ends" \/ lastStatus' \in Verdict
        /\ screen' \in {screen, "ends"}
        /\ behind' \subseteq Game /\ dropped' \subseteq Game
    <3>1. CASE Ends(g)
      <4>1. PICK v \in Verdict : status' = [status EXCEPT ![g] = v] /\ LastScreen(g, v)
        BY <3>1 DEF Ends, GameOver, Verdict
      <4>2. dropped' \in {dropped, dropped \cup {g}}
        BY <3>1 DEF Ends, GameOver
      <4> QED
        BY <4>1, <4>2 DEF LastScreen, TypeInv, RestOK
    <3>2. CASE PlaysOn(g)
      BY <3>2 DEF PlaysOn, TypeInv, RestOK
    <3> QED
      BY <1>16, <3>1, <3>2, TurnEnds
  <2>2. UNCHANGED <<over, shown, table, out, logger, crashed, abandoned, crossed, extra>>
    BY <1>16 DEF EndTurn
  <2> QED
    BY <2>1, <2>2, TableConstant DEF TypeInv, RestOK, game, Name, Game, Verdict
<1>17. ASSUME NEW g \in Game, LeaveLoop(g) PROVE RestOK'
  BY <1>17, TableConstant DEF LeaveLoop, LastScreen, uiVars, TypeInv, RestOK, game, Name, Game, Verdict
<1>18. CASE EndGame
  <2>1. game \in Game
    BY <1>18, SeatFacts DEF EndGame, TypeInv
  <2> QED
    BY <1>18, <2>1, TableConstant DEF EndGame, LastScreen, uiVars, TypeInv, RestOK, game, Name, Game, Verdict
<1>19. CASE OpenSheet
  BY <1>19, TableConstant DEF OpenSheet, uiVars, historyVars, TypeInv, RestOK, game, Name, Game, Verdict
<1>20. CASE CloseSheet
  BY <1>20, TableConstant DEF CloseSheet, uiVars, historyVars, TypeInv, RestOK, game, Name, Game, Verdict
<1>21. CASE Appear
  BY <1>21, TableConstant DEF Appear, uiVars, historyVars, TypeInv, RestOK, game, Name, Game, Verdict
<1>22. CASE PlayAgain
  BY <1>22, TableConstant DEF PlayAgain, uiVars, historyVars, TypeInv, RestOK, game, Name, Game, Verdict
<1>23. CASE UNCHANGED vars
  BY <1>23, TableConstant DEF vars, uiVars, historyVars, TypeInv, RestOK, game, Name, Game, Verdict
<1> QED
  BY <1>1, <1>2, <1>3, <1>4, <1>5, <1>6, <1>7, <1>8, <1>9, <1>10, <1>11, <1>12, <1>13, <1>14, <1>15, <1>16, <1>17, <1>18, <1>19, <1>20, <1>21, <1>22, <1>23, Steps

\* turnInd is incremented to an index of the present table.
LEMMA NextIsSeat ==
    ASSUME NP \in Nat, NP \in 2 .. MaxSeats, NEW g \in Game, thread[g] \in Thread
    PROVE  NextTurn(g) \in 0 .. NP - 1 /\ NextTurn(g) \in 0 .. MaxSeats - 1
<1>1. thread[g].turn \in Nat
  BY SessionAssumption DEF Thread
<1> QED
  BY <1>1, SessionAssumption DEF NextTurn

\* The thread after a finished move.
LEMMA Rested ==
    ASSUME NEW g \in Game, thread[g] \in Thread,
           NEW place \in {"check", "dialog", "stuck"}
    PROVE  Rest(g, place) \in Thread
<1>1. /\ 0 \in 0 .. MaxSeats - 1 /\ 0 \in 0 .. MaxSeats
      /\ thread[g].turn \in 0 .. MaxSeats - 1
  BY SessionAssumption DEF Thread
<1>2. NewThread \in Thread
  BY <1>1 DEF NewThread, Thread
<1> QED
  BY <1>1, <1>2 DEF Rest, Thread

\* Players of the games begun are players.
LEMMA KnownTypes ==
    ASSUME RestOK
    PROVE  Known \subseteq [game : Game, name : AIName \cup {UserName}]
BY SessionAssumption DEF RestOK, Known, Name, Game, game

\* The threads fit their games in every step.
LEMMA ThreadStep ==
    ASSUME TypeInv, [Next]_vars
    PROVE  ThreadInv'
<1>1. ASSUME NEW t \in Table, StartGame(t) PROVE ThreadInv'
  <2>1. Append(table, t) \in Seq(Table) /\ Len(Append(table, t)) = game + 1
        /\ Append(table, t)[game + 1] = t
    BY AppendProperties DEF TypeInv, RestOK, game
  <2>2. game' = game + 1 /\ NP' = Len(t) /\ game \in Nat
    BY <1>1, <2>1 DEF StartGame, game, NP, TypeInv, RestOK
  <2>3. Len(t) \in 2 .. MaxSeats
    BY TableFacts
  <2>4. thread' \in [Game -> Thread]
    <3> DEFINE r == [thread[game + 1] EXCEPT !.place = "top"]
    <3>1. game + 1 \in Game
      BY <1>1, <2>2, SessionAssumption DEF StartGame, Game
    <3>2. thread \in [Game -> Thread] /\ thread[game + 1] \in Thread
      BY <3>1 DEF TypeInv, ThreadInv
    <3>3. r \in Thread
      BY <3>2 DEF Thread
    <3>4. thread' = [thread EXCEPT ![game + 1] = r]
      BY <1>1 DEF StartGame
    <3> HIDE DEF r
    <3> QED
      BY <3>2, <3>3, <3>4
  <2>5. ASSUME NEW h \in Game PROVE Fits(thread[h], h)'
    <3>1. h \in Nat /\ Known \subseteq Known'
      BY <2>2, SessionAssumption DEF Known, Name, Game
    <3>2. CASE h = game + 1
      <4>1. thread[h] = NewThread
        BY <2>2, <3>1, <3>2 DEF TypeInv, ThreadInv, Fits
      <4>2. thread'[h] = [NewThread EXCEPT !.place = "top"]
        BY <4>1, <3>2, <1>1 DEF StartGame, TypeInv, ThreadInv
      <4>3. /\ thread'[h].place = "top" /\ thread'[h].mover = NoPlayer
            /\ thread'[h].turn = 0
        BY <4>2 DEF NewThread
      <4> QED
        BY <2>2, <2>3, <3>2, <4>3 DEF Fits, InMove
    <3>3. CASE h # game + 1
      <4>1. thread'[h] = thread[h] /\ Fits(thread[h], h)
        BY <3>3, <1>1 DEF StartGame, TypeInv, ThreadInv
      <4>3. h # game' /\ (h > game <=> h > game')
        BY <2>2, <3>1, <3>3
      <4> QED
        BY <3>1, <4>1, <4>3 DEF Fits, NewThread, InMove
    <3> QED
      BY <3>2, <3>3
  <2> QED
    BY <2>4, <2>5 DEF ThreadInv, Game, Thread
<1>2. ASSUME NEW g \in Game, BeginTurn(g) PROVE ThreadInv'
  <2>1. g \in 1 .. game /\ game \in Nat \ {0} /\ thread[g] \in Thread /\ Fits(thread[g], g)
    BY <1>2, Begun DEF BeginTurn, At, TypeInv
  <2>2. /\ NP \in Nat /\ NP \in 2 .. MaxSeats /\ Me(game) \in Known
        /\ \A i \in 0 .. NP - 1 : Seat(i) \in Known
    BY <2>1, SeatFacts, SessionAssumption DEF TypeInv
  <2>3. Known \subseteq [game : Game, name : AIName \cup {UserName}]
    BY KnownTypes DEF TypeInv
  <2>0. CASE Crash
    BY <2>0, NoThread DEF Crash, TypeInv
  <2> SUFFICES ASSUME ~Crash PROVE ThreadInv'
    BY <2>0
  <2>4. UNCHANGED table
    BY <1>2 DEF BeginTurn, OnlyThread
  <2> DEFINE p == Seat(thread[g].turn)
  <2>6. p \in Known
    BY <2>1, <2>2, <1>2 DEF BeginTurn, Thread
  <2>10. ASSUME p \in out /\ thread' = [thread EXCEPT ![g].turn = NextTurn(g)] PROVE ThreadInv'
    <3> DEFINE r == [thread[g] EXCEPT !.turn = NextTurn(g)]
    <3>1. /\ r.place = thread[g].place /\ r.turn = NextTurn(g) /\ r.asked = thread[g].asked
         /\ r.mover = thread[g].mover /\ r.victim = thread[g].victim /\ r.objector = thread[g].objector
      BY <2>1 DEF Thread, NextTurn
    <3>0. NextTurn(g) \in 0 .. MaxSeats - 1 /\ NextTurn(g) \in 0 .. NP - 1
      BY <2>1, <2>2, <2>3, <2>6, <2>10, <1>2, SessionAssumption, NextIsSeat DEF BeginTurn, At, Fits, InMove, Thread
    <3>2. r \in Thread
      BY <2>1, <3>0, <2>10 DEF Thread
    <3>3. thread' = [thread EXCEPT ![g] = r]
      BY <2>1, <2>10, <1>2 DEF BeginTurn, TypeInv, ThreadInv
    <3> HIDE DEF r
    <3>4. Fits(r, g)
      BY <2>1, <2>2, <2>3, <2>6, <2>10, <1>2, <3>1, <3>0, SessionAssumption DEF BeginTurn, At, Fits, InMove
    <3> QED
      BY <1>2, <2>4, <3>2, <3>3, <3>4, OneThread DEF TypeInv
  <2>11. ASSUME thread' = [thread EXCEPT ![g].place = "choose", ![g].mover = p] PROVE ThreadInv'
    <3> DEFINE r == [thread[g] EXCEPT !.place = "choose", !.mover = p]
    <3>1. /\ r.place = "choose" /\ r.turn = thread[g].turn /\ r.asked = thread[g].asked
         /\ r.mover = p /\ r.victim = thread[g].victim /\ r.objector = thread[g].objector
      BY <2>1 DEF Thread
    <3>0. p \in [game : Game, name : AIName \cup {UserName}]
      BY <2>1, <2>2, <2>3, <2>6, <2>11, <1>2, SessionAssumption DEF BeginTurn, At, Fits, InMove, Thread
    <3>2. r \in Thread
      BY <2>1, <3>0, <2>11 DEF Thread
    <3>3. thread' = [thread EXCEPT ![g] = r]
      BY <2>1, <2>11, <1>2 DEF BeginTurn, TypeInv, ThreadInv
    <3> HIDE DEF r
    <3>4. Fits(r, g)
      BY <2>1, <2>2, <2>3, <2>6, <2>11, <1>2, <3>1, <3>0, SessionAssumption DEF BeginTurn, At, Fits, InMove
    <3> QED
      BY <1>2, <2>4, <3>2, <3>3, <3>4, OneThread DEF TypeInv
  <2>12. ASSUME thread[g].mover = NoPlayer /\ thread' = [thread EXCEPT ![g].place = "pause"] PROVE ThreadInv'
    <3> DEFINE r == [thread[g] EXCEPT !.place = "pause"]
    <3>1. /\ r.place = "pause" /\ r.turn = thread[g].turn /\ r.asked = thread[g].asked
         /\ r.mover = thread[g].mover /\ r.victim = thread[g].victim /\ r.objector = thread[g].objector
      BY <2>1 DEF Thread
    <3>2. r \in Thread
      BY <2>1, <2>12, SessionAssumption DEF Thread
    <3>3. thread' = [thread EXCEPT ![g] = r]
      BY <2>1, <2>12, <1>2 DEF BeginTurn, TypeInv, ThreadInv
    <3> HIDE DEF r
    <3>4. Fits(r, g)
      BY <2>1, <2>2, <2>3, <2>6, <2>12, <1>2, <3>1, SessionAssumption DEF BeginTurn, At, Fits, InMove
    <3> QED
      BY <1>2, <2>4, <3>2, <3>3, <3>4, OneThread DEF TypeInv
  <2>13. ASSUME thread[g].mover # NoPlayer /\ thread' = [thread EXCEPT ![g].place = "say"] PROVE ThreadInv'
    <3> DEFINE r == [thread[g] EXCEPT !.place = "say"]
    <3>1. /\ r.place = "say" /\ r.turn = thread[g].turn /\ r.asked = thread[g].asked
         /\ r.mover = thread[g].mover /\ r.victim = thread[g].victim /\ r.objector = thread[g].objector
      BY <2>1 DEF Thread
    <3>2. r \in Thread
      BY <2>1, <2>13, SessionAssumption DEF Thread
    <3>3. thread' = [thread EXCEPT ![g] = r]
      BY <2>1, <2>13, <1>2 DEF BeginTurn, TypeInv, ThreadInv
    <3> HIDE DEF r
    <3>4. Fits(r, g)
      BY <2>1, <2>2, <2>3, <2>6, <2>13, <1>2, <3>1, SessionAssumption DEF BeginTurn, At, Fits, InMove
    <3> QED
      BY <1>2, <2>4, <3>2, <3>3, <3>4, OneThread DEF TypeInv
  <2> QED
    BY <1>2, <2>10, <2>11, <2>12, <2>13 DEF BeginTurn, OnlyThread, GoTo, Crash
<1>3. ASSUME NEW g \in Game, Break(g) PROVE ThreadInv'
  <2>1. g \in 1 .. game /\ game \in Nat \ {0} /\ thread[g] \in Thread /\ Fits(thread[g], g)
    BY <1>3, Begun DEF Break, At, TypeInv
  <2>4. UNCHANGED table
    BY <1>3 DEF Break, OnlyThread
  <2> QED
    <3> DEFINE r == [thread[g] EXCEPT !.place = "idle"]
    <3>1. /\ r.place = "idle" /\ r.turn = thread[g].turn /\ r.asked = thread[g].asked
         /\ r.mover = thread[g].mover /\ r.victim = thread[g].victim /\ r.objector = thread[g].objector
      BY <2>1 DEF Thread
    <3>2. r \in Thread
      BY <2>1, SessionAssumption DEF Thread
    <3>3. thread' = [thread EXCEPT ![g] = r]
      BY <2>1, <1>3 DEF Break, GoTo, TypeInv, ThreadInv
    <3> HIDE DEF r
    <3>4. Fits(r, g)
      BY <2>1, <1>3, <3>1, SessionAssumption DEF Break, At, Fits, InMove
    <3> QED
      BY <1>3, <2>4, <3>2, <3>3, <3>4, OneThread DEF TypeInv
<1>4. ASSUME NEW g \in Game, Chooses(g) PROVE ThreadInv'
  <2>1. g \in 1 .. game /\ game \in Nat \ {0} /\ thread[g] \in Thread /\ Fits(thread[g], g)
    BY <1>4, Begun DEF Chooses, At, TypeInv
  <2>2. /\ NP \in Nat /\ NP \in 2 .. MaxSeats /\ Me(game) \in Known
        /\ \A i \in 0 .. NP - 1 : Seat(i) \in Known
    BY <2>1, SeatFacts, SessionAssumption DEF TypeInv
  <2>3. Known \subseteq [game : Game, name : AIName \cup {UserName}]
    BY KnownTypes DEF TypeInv
  <2>4. UNCHANGED table
    BY <1>4 DEF Chooses, OnlyThread
  <2>10. ASSUME NEW v \in Victims(thread[g].mover), thread' = [thread EXCEPT ![g].place = "say", ![g].victim = v] PROVE ThreadInv'
    <3> DEFINE r == [thread[g] EXCEPT !.place = "say", !.victim = v]
    <3>1. /\ r.place = "say" /\ r.turn = thread[g].turn /\ r.asked = thread[g].asked
         /\ r.mover = thread[g].mover /\ r.victim = v /\ r.objector = thread[g].objector
      BY <2>1 DEF Thread, Victims
    <3>0. v \in [game : Game, name : AIName \cup {UserName}]
      BY <2>1, <2>2, <2>3, <2>10, <1>4, SessionAssumption DEF Chooses, At, Fits, InMove, Thread, Victims
    <3>2. r \in Thread
      BY <2>1, <3>0, <2>10 DEF Thread
    <3>3. thread' = [thread EXCEPT ![g] = r]
      BY <2>1, <2>10, <1>4 DEF Chooses, TypeInv, ThreadInv
    <3> HIDE DEF r
    <3>4. Fits(r, g)
      BY <2>1, <2>2, <2>3, <2>10, <1>4, <3>1, <3>0, SessionAssumption DEF Chooses, At, Fits, InMove, Victims
    <3> QED
      BY <1>4, <2>4, <3>2, <3>3, <3>4, OneThread DEF TypeInv
  <2>11. ASSUME thread' = [thread EXCEPT ![g].place = "draw"] PROVE ThreadInv'
    <3> DEFINE r == [thread[g] EXCEPT !.place = "draw"]
    <3>1. /\ r.place = "draw" /\ r.turn = thread[g].turn /\ r.asked = thread[g].asked
         /\ r.mover = thread[g].mover /\ r.victim = thread[g].victim /\ r.objector = thread[g].objector
      BY <2>1 DEF Thread
    <3>2. r \in Thread
      BY <2>1 DEF Thread
    <3>3. thread' = [thread EXCEPT ![g] = r]
      BY <2>1, <2>11 DEF TypeInv, ThreadInv
    <3> HIDE DEF r
    <3>4. Fits(r, g)
      BY <2>1, <1>4, <3>1 DEF Chooses, At, Fits, InMove
    <3> QED
      BY <1>4, <2>4, <3>2, <3>3, <3>4, OneThread DEF TypeInv
  <2> QED
    BY <1>4, <2>10, <2>11 DEF Chooses
<1>5. ASSUME NEW g \in Game, UserMoves(g) PROVE ThreadInv'
  <2>1. g \in 1 .. game /\ game \in Nat \ {0} /\ thread[g] \in Thread /\ Fits(thread[g], g)
    BY <1>5, Begun DEF UserMoves, At, TypeInv
  <2>2. /\ NP \in Nat /\ NP \in 2 .. MaxSeats /\ Me(game) \in Known
        /\ \A i \in 0 .. NP - 1 : Seat(i) \in Known
    BY <2>1, SeatFacts, SessionAssumption DEF TypeInv
  <2>3. Known \subseteq [game : Game, name : AIName \cup {UserName}]
    BY KnownTypes DEF TypeInv
  <2>4. UNCHANGED table
    BY <1>5 DEF UserMoves, OnlyThread
  <2>10. ASSUME NEW v \in Victims(Me(g)), thread' = [thread EXCEPT ![g].place = "top", ![g].mover = Me(g), ![g].victim = v] PROVE ThreadInv'
    <3> DEFINE r == [thread[g] EXCEPT !.place = "top", !.mover = Me(g), !.victim = v]
    <3>1. /\ r.place = "top" /\ r.turn = thread[g].turn /\ r.asked = thread[g].asked
         /\ r.mover = Me(g) /\ r.victim = v /\ r.objector = thread[g].objector
      BY <2>1 DEF Thread, Victims
    <3>0. v \in [game : Game, name : AIName \cup {UserName}] /\ Me(g) \in [game : Game, name : AIName \cup {UserName}]
      BY <2>1, <2>2, <2>3, <2>10, <1>5, SessionAssumption DEF UserMoves, At, Fits, InMove, Thread, Victims, UserSees
    <3>2. r \in Thread
      BY <2>1, <3>0, <2>10 DEF Thread
    <3>3. thread' = [thread EXCEPT ![g] = r]
      BY <2>1, <2>10, <1>5 DEF UserMoves, TypeInv, ThreadInv
    <3> HIDE DEF r
    <3>4. Fits(r, g)
      BY <2>1, <2>2, <2>3, <2>10, <1>5, <3>1, <3>0, SessionAssumption DEF UserMoves, At, Fits, InMove, UserSees, Victims
    <3> QED
      BY <1>5, <2>4, <3>2, <3>3, <3>4, OneThread DEF TypeInv
  <2> QED
    BY <1>5, <2>10 DEF UserMoves
<1>6. ASSUME NEW g \in Game, Announce(g) PROVE ThreadInv'
  <2>1. g \in 1 .. game /\ game \in Nat \ {0} /\ thread[g] \in Thread /\ Fits(thread[g], g)
    BY <1>6, Begun DEF Announce, At, TypeInv
  <2>4. UNCHANGED table
    BY <1>6 DEF Announce
  <2>10. ASSUME NEW next \in {"ask", "act"}, thread' = [thread EXCEPT ![g].place = next, ![g].asked = 0, ![g].allowed = FALSE] PROVE ThreadInv'
    <3> DEFINE r == [thread[g] EXCEPT !.place = next, !.asked = 0, !.allowed = FALSE]
    <3>1. /\ r.place = next /\ r.turn = thread[g].turn /\ r.asked = 0
         /\ r.mover = thread[g].mover /\ r.victim = thread[g].victim /\ r.objector = thread[g].objector
      BY <2>1 DEF Thread
    <3>0. 0 \in 0 .. MaxSeats
      BY <2>1, <2>10, <1>6, SessionAssumption DEF Announce, At, Fits, InMove, Thread
    <3>2. r \in Thread
      BY <2>1, <3>0, <2>10 DEF Thread
    <3>3. thread' = [thread EXCEPT ![g] = r]
      BY <2>1, <2>10, <1>6 DEF Announce, TypeInv, ThreadInv
    <3> HIDE DEF r
    <3>4. Fits(r, g)
      BY <2>1, <2>10, <1>6, <3>1, <3>0, SessionAssumption DEF Announce, At, Fits, InMove
    <3> QED
      BY <1>6, <2>4, <3>2, <3>3, <3>4, OneThread DEF TypeInv
  <2> QED
    BY <1>6, <2>10 DEF Announce
<1>7. ASSUME NEW g \in Game, AskNext(g) PROVE ThreadInv'
  <2>1. g \in 1 .. game /\ game \in Nat \ {0} /\ thread[g] \in Thread /\ Fits(thread[g], g)
    BY <1>7, Begun DEF AskNext, At, TypeInv
  <2>2. /\ NP \in Nat /\ NP \in 2 .. MaxSeats /\ Me(game) \in Known
        /\ \A i \in 0 .. NP - 1 : Seat(i) \in Known
    BY <2>1, SeatFacts, SessionAssumption DEF TypeInv
  <2>3. Known \subseteq [game : Game, name : AIName \cup {UserName}]
    BY KnownTypes DEF TypeInv
  <2>0. CASE Crash
    BY <2>0, NoThread DEF Crash, TypeInv
  <2> SUFFICES ASSUME ~Crash PROVE ThreadInv'
    BY <2>0
  <2>4. UNCHANGED table
    BY <1>7 DEF AskNext, OnlyThread
  <2> DEFINE p == Seat(thread[g].asked)
  <2>6. p \in Known /\ thread[g].asked < NP
    BY <2>1, <2>2, <1>7 DEF AskNext, Thread
  <2>10. ASSUME thread' = [thread EXCEPT ![g].asked = @ + 1] PROVE ThreadInv'
    <3> DEFINE r == [thread[g] EXCEPT !.asked = @ + 1]
    <3>1. /\ r.place = thread[g].place /\ r.turn = thread[g].turn /\ r.asked = thread[g].asked + 1
         /\ r.mover = thread[g].mover /\ r.victim = thread[g].victim /\ r.objector = thread[g].objector
      BY <2>1 DEF Thread
    <3>0. thread[g].asked + 1 \in 0 .. MaxSeats
      BY <2>1, <2>2, <2>3, <2>6, <2>10, <1>7, SessionAssumption DEF AskNext, At, Fits, InMove, Thread
    <3>2. r \in Thread
      BY <2>1, <3>0, <2>10 DEF Thread
    <3>3. thread' = [thread EXCEPT ![g] = r]
      BY <2>1, <2>10, <1>7 DEF AskNext, TypeInv, ThreadInv
    <3> HIDE DEF r
    <3>4. Fits(r, g)
      BY <2>1, <2>2, <2>3, <2>6, <2>10, <1>7, <3>1, <3>0, SessionAssumption DEF AskNext, At, Fits, InMove
    <3> QED
      BY <1>7, <2>4, <3>2, <3>3, <3>4, OneThread DEF TypeInv
  <2>11. ASSUME thread' = [thread EXCEPT ![g].place = "wait"] PROVE ThreadInv'
    <3> DEFINE r == [thread[g] EXCEPT !.place = "wait"]
    <3>1. /\ r.place = "wait" /\ r.turn = thread[g].turn /\ r.asked = thread[g].asked
         /\ r.mover = thread[g].mover /\ r.victim = thread[g].victim /\ r.objector = thread[g].objector
      BY <2>1 DEF Thread
    <3>2. r \in Thread
      BY <2>1, <2>11, SessionAssumption DEF Thread
    <3>3. thread' = [thread EXCEPT ![g] = r]
      BY <2>1, <2>11, <1>7 DEF AskNext, TypeInv, ThreadInv
    <3> HIDE DEF r
    <3>4. Fits(r, g)
      BY <2>1, <2>2, <2>3, <2>6, <2>11, <1>7, <3>1, SessionAssumption DEF AskNext, At, Fits, InMove
    <3> QED
      BY <1>7, <2>4, <3>2, <3>3, <3>4, OneThread DEF TypeInv
  <2>12. ASSUME thread' = [thread EXCEPT ![g].place = "prove", ![g].objector = p, ![g].asked = 0, ![g].allowed = FALSE] PROVE ThreadInv'
    <3> DEFINE r == [thread[g] EXCEPT !.place = "prove", !.objector = p, !.asked = 0, !.allowed = FALSE]
    <3>1. /\ r.place = "prove" /\ r.turn = thread[g].turn /\ r.asked = 0
         /\ r.mover = thread[g].mover /\ r.victim = thread[g].victim /\ r.objector = p
      BY <2>1 DEF Thread
    <3>0. p \in [game : Game, name : AIName \cup {UserName}] /\ 0 \in 0 .. MaxSeats
      BY <2>1, <2>2, <2>3, <2>6, <2>12, <1>7, SessionAssumption DEF AskNext, At, Fits, InMove, Thread
    <3>2. r \in Thread
      BY <2>1, <3>0, <2>12 DEF Thread
    <3>3. thread' = [thread EXCEPT ![g] = r]
      BY <2>1, <2>12, <1>7 DEF AskNext, TypeInv, ThreadInv
    <3> HIDE DEF r
    <3>4. Fits(r, g)
      BY <2>1, <2>2, <2>3, <2>6, <2>12, <1>7, <3>1, <3>0, SessionAssumption DEF AskNext, At, Fits, InMove
    <3> QED
      BY <1>7, <2>4, <3>2, <3>3, <3>4, OneThread DEF TypeInv
  <2>13. ASSUME thread' = [thread EXCEPT ![g].asked = @ + 1, ![g].allowed = TRUE] PROVE ThreadInv'
    <3> DEFINE r == [thread[g] EXCEPT !.asked = @ + 1, !.allowed = TRUE]
    <3>1. /\ r.place = thread[g].place /\ r.turn = thread[g].turn /\ r.asked = thread[g].asked + 1
         /\ r.mover = thread[g].mover /\ r.victim = thread[g].victim /\ r.objector = thread[g].objector
      BY <2>1 DEF Thread
    <3>0. thread[g].asked + 1 \in 0 .. MaxSeats
      BY <2>1, <2>2, <2>3, <2>6, <2>13, <1>7, SessionAssumption DEF AskNext, At, Fits, InMove, Thread
    <3>2. r \in Thread
      BY <2>1, <3>0, <2>13 DEF Thread
    <3>3. thread' = [thread EXCEPT ![g] = r]
      BY <2>1, <2>13, <1>7 DEF AskNext, TypeInv, ThreadInv
    <3> HIDE DEF r
    <3>4. Fits(r, g)
      BY <2>1, <2>2, <2>3, <2>6, <2>13, <1>7, <3>1, <3>0, SessionAssumption DEF AskNext, At, Fits, InMove
    <3> QED
      BY <1>7, <2>4, <3>2, <3>3, <3>4, OneThread DEF TypeInv
  <2> QED
    BY <1>7, <2>10, <2>11, <2>12, <2>13 DEF AskNext, OnlyThread, GoTo, Crash
<1>8. ASSUME NEW g \in Game, UserAllows(g) PROVE ThreadInv'
  <2>1. g \in 1 .. game /\ game \in Nat \ {0} /\ thread[g] \in Thread /\ Fits(thread[g], g)
    BY <1>8, Begun DEF UserAllows, At, TypeInv
  <2>2. /\ NP \in Nat /\ NP \in 2 .. MaxSeats /\ Me(game) \in Known
        /\ \A i \in 0 .. NP - 1 : Seat(i) \in Known
    BY <2>1, SeatFacts, SessionAssumption DEF TypeInv
  <2>3. Known \subseteq [game : Game, name : AIName \cup {UserName}]
    BY KnownTypes DEF TypeInv
  <2>4. UNCHANGED table
    BY <1>8 DEF UserAllows, OnlyThread
  <2> QED
    <3> DEFINE r == [thread[g] EXCEPT !.place = "ask", !.asked = @ + 1, !.allowed = TRUE]
    <3>1. /\ r.place = "ask" /\ r.turn = thread[g].turn /\ r.asked = thread[g].asked + 1
         /\ r.mover = thread[g].mover /\ r.victim = thread[g].victim /\ r.objector = thread[g].objector
      BY <2>1 DEF Thread
    <3>0. thread[g].asked + 1 \in 0 .. MaxSeats
      BY <2>1, <2>2, <2>3, <1>8, SessionAssumption DEF UserAllows, At, Fits, InMove, Thread, UserSees
    <3>2. r \in Thread
      BY <2>1, <3>0 DEF Thread
    <3>3. thread' = [thread EXCEPT ![g] = r]
      BY <2>1, <1>8 DEF UserAllows, TypeInv, ThreadInv
    <3> HIDE DEF r
    <3>4. Fits(r, g)
      BY <2>1, <2>2, <2>3, <1>8, <3>1, <3>0, SessionAssumption DEF UserAllows, At, Fits, InMove, UserSees
    <3> QED
      BY <1>8, <2>4, <3>2, <3>3, <3>4, OneThread DEF TypeInv
<1>9. ASSUME NEW g \in Game, UserChallenges(g) PROVE ThreadInv'
  <2>1. g \in 1 .. game /\ game \in Nat \ {0} /\ thread[g] \in Thread /\ Fits(thread[g], g)
    BY <1>9, Begun DEF UserChallenges, At, TypeInv
  <2>2. /\ NP \in Nat /\ NP \in 2 .. MaxSeats /\ Me(game) \in Known
        /\ \A i \in 0 .. NP - 1 : Seat(i) \in Known
    BY <2>1, SeatFacts, SessionAssumption DEF TypeInv
  <2>3. Known \subseteq [game : Game, name : AIName \cup {UserName}]
    BY KnownTypes DEF TypeInv
  <2>4. UNCHANGED table
    BY <1>9 DEF UserChallenges, OnlyThread
  <2> QED
    <3> DEFINE r == [thread[g] EXCEPT !.place = "prove", !.asked = 0, !.allowed = FALSE, !.objector = Seat(thread[g].asked)]
    <3>1. /\ r.place = "prove" /\ r.turn = thread[g].turn /\ r.asked = 0
         /\ r.mover = thread[g].mover /\ r.victim = thread[g].victim /\ r.objector = Seat(thread[g].asked)
      BY <2>1 DEF Thread
    <3>0. Seat(thread[g].asked) \in Known /\ Seat(thread[g].asked) \in [game : Game, name : AIName \cup {UserName}] /\ 0 \in 0 .. MaxSeats
      BY <2>1, <2>2, <2>3, <1>9, SessionAssumption DEF UserChallenges, At, Fits, InMove, Thread, UserSees
    <3>2. r \in Thread
      BY <2>1, <3>0 DEF Thread
    <3>3. thread' = [thread EXCEPT ![g] = r]
      BY <2>1, <1>9 DEF UserChallenges, TypeInv, ThreadInv
    <3> HIDE DEF r
    <3>4. Fits(r, g)
      BY <2>1, <2>2, <2>3, <1>9, <3>1, <3>0, SessionAssumption DEF UserChallenges, At, Fits, InMove, UserSees
    <3> QED
      BY <1>9, <2>4, <3>2, <3>3, <3>4, OneThread DEF TypeInv
<1>10. ASSUME NEW g \in Game, AskingDone(g) PROVE ThreadInv'
  <2>1. g \in 1 .. game /\ game \in Nat \ {0} /\ thread[g] \in Thread /\ Fits(thread[g], g)
    BY <1>10, Begun DEF AskingDone, At, TypeInv
  <2>2. /\ NP \in Nat /\ NP \in 2 .. MaxSeats /\ Me(game) \in Known
        /\ \A i \in 0 .. NP - 1 : Seat(i) \in Known
    BY <2>1, SeatFacts, SessionAssumption DEF TypeInv
  <2>3. Known \subseteq [game : Game, name : AIName \cup {UserName}]
    BY KnownTypes DEF TypeInv
  <2>4. UNCHANGED table
    BY <1>10 DEF AskingDone, OnlyThread
  <2>10. CASE thread[g].allowed
    <3> DEFINE r == [thread[g] EXCEPT !.place = "act", !.asked = 0, !.allowed = FALSE]
    <3>1. /\ r.place = "act" /\ r.turn = thread[g].turn /\ r.asked = 0
         /\ r.mover = thread[g].mover /\ r.victim = thread[g].victim /\ r.objector = thread[g].objector
      BY <2>1 DEF Thread
    <3>0. 0 \in 0 .. MaxSeats
      BY <2>1, <2>2, <2>3, <2>10, <1>10, SessionAssumption DEF AskingDone, At, Fits, InMove, Thread
    <3>2. r \in Thread
      BY <2>1, <3>0, <2>10 DEF Thread
    <3>3. thread' = [thread EXCEPT ![g] = r]
      BY <2>1, <2>10, <1>10 DEF AskingDone, TypeInv, ThreadInv
    <3> HIDE DEF r
    <3>4. Fits(r, g)
      BY <2>1, <2>2, <2>3, <2>10, <1>10, <3>1, <3>0, SessionAssumption DEF AskingDone, At, Fits, InMove
    <3> QED
      BY <1>10, <2>4, <3>2, <3>3, <3>4, OneThread DEF TypeInv
  <2>11. CASE ~thread[g].allowed
    <3> DEFINE r == Rest(g, "check")
    <3>1. /\ r.place = "check" /\ r.turn = thread[g].turn /\ r.asked = 0
         /\ r.mover = NoPlayer /\ r.victim = NoPlayer /\ r.objector = NoPlayer
      BY <2>1 DEF Thread, Rest, NewThread
    <3>2. r \in Thread
      BY <2>1, Rested DEF Thread
    <3>3. thread' = [thread EXCEPT ![g] = r]
      BY <2>1, <2>11, <1>10 DEF AskingDone, TypeInv, ThreadInv
    <3> HIDE DEF r
    <3>4. Fits(r, g)
      BY <2>1, <2>2, <2>3, <2>11, <1>10, <3>1, SessionAssumption DEF AskingDone, At, Fits, InMove
    <3> QED
      BY <1>10, <2>4, <3>2, <3>3, <3>4, OneThread DEF TypeInv
  <2> QED
    BY <1>10, <2>10, <2>11 DEF AskingDone
<1>11. ASSUME NEW g \in Game, ClaimProved(g) PROVE ThreadInv'
  <2>1. g \in 1 .. game /\ game \in Nat \ {0} /\ thread[g] \in Thread /\ Fits(thread[g], g)
    BY <1>11, Begun DEF ClaimProved, At, TypeInv
  <2>4. UNCHANGED table
    BY <1>11 DEF ClaimProved, OnlyPlayers
  <2> QED
    <3> DEFINE r == [thread[g] EXCEPT !.place = "act", !.objector = NoPlayer]
    <3>1. /\ r.place = "act" /\ r.turn = thread[g].turn /\ r.asked = thread[g].asked
         /\ r.mover = thread[g].mover /\ r.victim = thread[g].victim /\ r.objector = NoPlayer
      BY <2>1 DEF Thread
    <3>2. r \in Thread
      BY <2>1, SessionAssumption DEF Thread
    <3>3. thread' = [thread EXCEPT ![g] = r]
      BY <2>1, <1>11 DEF ClaimProved, TypeInv, ThreadInv
    <3> HIDE DEF r
    <3>4. Fits(r, g)
      BY <2>1, <1>11, <3>1, SessionAssumption DEF ClaimProved, At, Fits, InMove
    <3> QED
      BY <1>11, <2>4, <3>2, <3>3, <3>4, OneThread DEF TypeInv
<1>12. ASSUME NEW g \in Game, BluffCalled(g) PROVE ThreadInv'
  <2>1. g \in 1 .. game /\ game \in Nat \ {0} /\ thread[g] \in Thread /\ Fits(thread[g], g)
    BY <1>12, Begun DEF BluffCalled, At, TypeInv
  <2>4. UNCHANGED table
    BY <1>12 DEF BluffCalled, OnlyPlayers
  <2> QED
    <3> DEFINE r == Rest(g, "check")
    <3>1. /\ r.place = "check" /\ r.turn = thread[g].turn /\ r.asked = 0
         /\ r.mover = NoPlayer /\ r.victim = NoPlayer /\ r.objector = NoPlayer
      BY <2>1 DEF Thread, Rest, NewThread
    <3>2. r \in Thread
      BY <2>1, Rested DEF Thread
    <3>3. thread' = [thread EXCEPT ![g] = r]
      BY <2>1, <1>12 DEF BluffCalled, TypeInv, ThreadInv
    <3> HIDE DEF r
    <3>4. Fits(r, g)
      BY <2>1, <1>12, <3>1, SessionAssumption DEF BluffCalled, At, Fits, InMove
    <3> QED
      BY <1>12, <2>4, <3>2, <3>3, <3>4, OneThread DEF TypeInv
<1>13. ASSUME NEW g \in Game, Act(g) PROVE ThreadInv'
  <2>1. g \in 1 .. game /\ game \in Nat \ {0} /\ thread[g] \in Thread /\ Fits(thread[g], g)
    BY <1>13, Begun DEF Act, At, TypeInv
  <2>4. UNCHANGED table
    BY <1>13 DEF Act, OnlyPlayers
  <2> QED
    <3> DEFINE r == Rest(g, "check")
    <3>1. /\ r.place = "check" /\ r.turn = thread[g].turn /\ r.asked = 0
         /\ r.mover = NoPlayer /\ r.victim = NoPlayer /\ r.objector = NoPlayer
      BY <2>1 DEF Thread, Rest, NewThread
    <3>2. r \in Thread
      BY <2>1, Rested DEF Thread
    <3>3. thread' = [thread EXCEPT ![g] = r]
      BY <2>1, <1>13 DEF Act, TypeInv, ThreadInv
    <3> HIDE DEF r
    <3>4. Fits(r, g)
      BY <2>1, <1>13, <3>1, SessionAssumption DEF Act, At, Fits, InMove
    <3> QED
      BY <1>13, <2>4, <3>2, <3>3, <3>4, OneThread DEF TypeInv
<1>14. ASSUME NEW g \in Game, AskExchange(g) PROVE ThreadInv'
  <2>1. g \in 1 .. game /\ game \in Nat \ {0} /\ thread[g] \in Thread /\ Fits(thread[g], g)
    BY <1>14, Begun DEF AskExchange, At, TypeInv
  <2>4. UNCHANGED table
    BY <1>14 DEF AskExchange
  <2>10. ASSUME NEW next \in {"dialog", "stuck"}, thread' = [thread EXCEPT ![g] = Rest(g, next)] PROVE ThreadInv'
    <3> DEFINE r == Rest(g, next)
    <3>1. /\ r.place = next /\ r.turn = thread[g].turn /\ r.asked = 0
         /\ r.mover = NoPlayer /\ r.victim = NoPlayer /\ r.objector = NoPlayer
      BY <2>1 DEF Thread, Rest, NewThread
    <3>2. r \in Thread
      BY <2>1, Rested, <2>10 DEF Thread
    <3>3. thread' = [thread EXCEPT ![g] = r]
      BY <2>1, <2>10, <1>14 DEF AskExchange, TypeInv, ThreadInv
    <3> HIDE DEF r
    <3>4. Fits(r, g)
      BY <2>1, <2>10, <1>14, <3>1, SessionAssumption DEF AskExchange, At, Fits, InMove
    <3> QED
      BY <1>14, <2>4, <3>2, <3>3, <3>4, OneThread DEF TypeInv
  <2> QED
    BY <1>14, <2>10 DEF AskExchange
<1>15. ASSUME NEW g \in Game, CloseDialog(g) PROVE ThreadInv'
  <2>1. g \in 1 .. game /\ game \in Nat \ {0} /\ thread[g] \in Thread /\ Fits(thread[g], g)
    BY <1>15, Begun DEF CloseDialog, At, TypeInv
  <2>4. UNCHANGED table
    BY <1>15 DEF CloseDialog
  <2>10. ASSUME NEW next \in {"check", "stuck"}, thread' = [thread EXCEPT ![g].place = next] PROVE ThreadInv'
    <3> DEFINE r == [thread[g] EXCEPT !.place = next]
    <3>1. /\ r.place = next /\ r.turn = thread[g].turn /\ r.asked = thread[g].asked
         /\ r.mover = thread[g].mover /\ r.victim = thread[g].victim /\ r.objector = thread[g].objector
      BY <2>1 DEF Thread
    <3>2. r \in Thread
      BY <2>1, <2>10, SessionAssumption DEF Thread
    <3>3. thread' = [thread EXCEPT ![g] = r]
      BY <2>1, <2>10, <1>15 DEF CloseDialog, TypeInv, ThreadInv
    <3> HIDE DEF r
    <3>4. Fits(r, g)
      BY <2>1, <2>10, <1>15, <3>1, SessionAssumption DEF CloseDialog, At, Fits, InMove
    <3> QED
      BY <1>15, <2>4, <3>2, <3>3, <3>4, OneThread DEF TypeInv
  <2> QED
    BY <1>15, <2>10 DEF CloseDialog, GoTo
<1>16. ASSUME NEW g \in Game, EndTurn(g) PROVE ThreadInv'
  <2>1. g \in 1 .. game /\ game \in Nat \ {0} /\ thread[g] \in Thread /\ Fits(thread[g], g)
    BY <1>16, Begun DEF EndTurn, At, TypeInv
  <2>2. /\ NP \in Nat /\ NP \in 2 .. MaxSeats /\ Me(game) \in Known
        /\ \A i \in 0 .. NP - 1 : Seat(i) \in Known
    BY <2>1, SeatFacts, SessionAssumption DEF TypeInv
  <2>3. Known \subseteq [game : Game, name : AIName \cup {UserName}]
    BY KnownTypes DEF TypeInv
  <2>4. UNCHANGED table
    BY <1>16 DEF EndTurn
  <2> QED
    <3> DEFINE r == [thread[g] EXCEPT !.place = "top", !.turn = NextTurn(g)]
    <3>1. /\ r.place = "top" /\ r.turn = NextTurn(g) /\ r.asked = thread[g].asked
         /\ r.mover = thread[g].mover /\ r.victim = thread[g].victim /\ r.objector = thread[g].objector
      BY <2>1 DEF Thread, NextTurn
    <3>0. thread[g].mover = NoPlayer /\ NextTurn(g) \in 0 .. MaxSeats - 1 /\ NextTurn(g) \in 0 .. NP - 1
      BY <2>1, <2>2, <2>3, <1>16, SessionAssumption, NextIsSeat DEF EndTurn, At, Fits, InMove, Thread
    <3>2. r \in Thread
      BY <2>1, <3>0 DEF Thread
    <3>3. thread' = [thread EXCEPT ![g] = r]
      BY <2>1, <1>16 DEF EndTurn, TypeInv, ThreadInv
    <3> HIDE DEF r
    <3>4. Fits(r, g)
      BY <2>1, <2>2, <3>1, <3>0 DEF Fits, InMove
    <3> QED
      BY <1>16, <2>4, <3>2, <3>3, <3>4, OneThread DEF TypeInv
<1>17. ASSUME NEW g \in Game, LeaveLoop(g) PROVE ThreadInv'
  <2>1. g \in 1 .. game /\ game \in Nat \ {0} /\ thread[g] \in Thread /\ Fits(thread[g], g)
    BY <1>17, Begun DEF LeaveLoop, At, TypeInv
  <2>2. /\ NP \in Nat /\ NP \in 2 .. MaxSeats /\ Me(game) \in Known
        /\ \A i \in 0 .. NP - 1 : Seat(i) \in Known
    BY <2>1, SeatFacts, SessionAssumption DEF TypeInv
  <2>3. Known \subseteq [game : Game, name : AIName \cup {UserName}]
    BY KnownTypes DEF TypeInv
  <2>4. UNCHANGED table
    BY <1>17 DEF LeaveLoop
  <2> QED
    <3> DEFINE r == [NewThread EXCEPT !.place = "over"]
    <3>1. /\ r.place = "over" /\ r.turn = 0 /\ r.asked = 0
         /\ r.mover = NoPlayer /\ r.victim = NoPlayer /\ r.objector = NoPlayer
      BY <2>1 DEF Thread, NewThread
    <3>0. 0 \in 0 .. MaxSeats /\ 0 \in 0 .. MaxSeats - 1
      BY SessionAssumption
    <3>2. r \in Thread
      BY <3>0 DEF Thread, NewThread
    <3>3. thread' = [thread EXCEPT ![g] = r]
      BY <2>1, <1>17 DEF LeaveLoop, TypeInv, ThreadInv
    <3> HIDE DEF r
    <3>4. Fits(r, g)
      BY <2>1, <2>2, <2>3, <1>17, <3>1, SessionAssumption DEF LeaveLoop, At, Fits, InMove
    <3> QED
      BY <1>17, <2>4, <3>2, <3>3, <3>4, OneThread DEF TypeInv
<1>18. CASE EndGame
  BY <1>18, NoThread DEF EndGame, TypeInv
<1>19. CASE OpenSheet
  BY <1>19, NoThread DEF OpenSheet, TypeInv
<1>20. CASE CloseSheet
  BY <1>20, NoThread DEF CloseSheet, TypeInv
<1>21. CASE Appear
  BY <1>21, NoThread DEF Appear, TypeInv
<1>22. CASE PlayAgain
  BY <1>22, NoThread DEF PlayAgain, TypeInv
<1>23. CASE UNCHANGED vars
  BY <1>23, NoThread DEF vars, TypeInv
<1> QED
  BY <1>1, <1>2, <1>3, <1>4, <1>5, <1>6, <1>7, <1>8, <1>9, <1>10, <1>11, <1>12, <1>13, <1>14, <1>15, <1>16, <1>17, <1>18, <1>19, <1>20, <1>21, <1>22, <1>23, Steps

\* The globals, the fields and the locals of the threads keep their types:
\* the index of the present thread is good, whoever is asked is a player, and
\* the last screen always has a verdict to show.
THEOREM TypeCorrect == Spec => []TypeOK
<1>1. Init => TypeInv
  BY TypeInit
<1>2. TypeInv /\ [Next]_vars => TypeInv'
  BY RestStep, ThreadStep DEF TypeInv
<1>3. TypeInv => TypeOK
  BY DEF TypeInv, RestOK, ThreadInv, TypeOK, Name
<1> QED
  BY <1>1, <1>2, <1>3, PTL DEF Spec

-----------------------------------------------------------------------------
\* A thread in a turn whose game was not abandoned is that of the present game.
LEMMA Present ==
    ASSUME SessionInv, NEW g \in Game,
           thread[g].place # "none",
           gameOn[g] \/ (g \notin abandoned /\ thread[g].place \notin Resting)
    PROVE  g = game /\ thread[g].turn < NP /\ gameOn[g]
<1>2. g \in 1 .. game /\ game \in Nat \ {0} /\ Fits(thread[g], g)
  BY Begun DEF SessionInv, TypeInv
<1>3. gameOn[g]
  BY DEF SessionInv, Apart, ApartInv
<1>4. ~(g < game)
  BY <1>3 DEF SessionInv, Apart, ApartInv
<1> QED
  BY <1>2, <1>3, <1>4 DEF Fits

\* A step of one thread that leaves the screens and gameOn alone.
LEMMA OneApart ==
    ASSUME Apart, thread \in [Game -> Thread], NEW g \in Game, NEW r,
           thread' = [thread EXCEPT ![g] = r],
           UNCHANGED <<table, gameOn, screen, abandoned>>,
           g \notin abandoned => Mine(r, g),
           g \notin abandoned => gameOn[g] \/ r.place \in Resting
    PROVE  Apart'
<1>1. ASSUME NEW h \in Game, h # g PROVE thread'[h] = thread[h] /\ ApartInv(h)
  BY <1>1 DEF Apart
<1>2. ASSUME NEW h \in Game, h # g PROVE ApartInv(h)'
  BY <1>1, <1>2 DEF ApartInv, Mine, InMove, Resting, game
<1>3. thread'[g] = r /\ ApartInv(g)
  BY DEF Apart
<1>4. ApartInv(g)'
  BY <1>3 DEF ApartInv, Mine, InMove, Resting, game
<1> QED
  BY <1>2, <1>4 DEF Apart, Game

\* Steps that leave all of this alone.
LEMMA NoApart ==
    ASSUME Apart, UNCHANGED <<table, gameOn, screen, abandoned, thread>>
    PROVE  Apart'
BY DEF Apart, ApartInv, Mine, InMove, Resting, game, Game

\* The screens change, or a game ends.
LEMMA ScreenApart ==
    ASSUME Apart, UNCHANGED <<table, thread>>, abandoned \subseteq abandoned',
           gameOn' \in [Game -> BOOLEAN],
           \A g \in Game : \/ gameOn'[g] = gameOn[g]
                           \/ /\ ~gameOn'[g]
                              /\ g \in abandoned' \/ thread[g].place \in Resting,
           screen' = screen \/ (game \in Game => ~gameOn'[game])
    PROVE  Apart'
BY DEF Apart, ApartInv, Mine, InMove, Resting, game, Game

\* The games are kept apart by every step.
LEMMA ApartStep ==
    ASSUME SessionInv, [Next]_vars
    PROVE  Apart'
<1>1. ASSUME NEW t \in Table, StartGame(t) PROVE Apart'
  <2>1. game' = game + 1 /\ game \in Nat /\ screen' = "game"
    BY <1>1, AppendProperties DEF StartGame, game, SessionInv, TypeInv, RestOK
  <2>2. UNCHANGED <<gameOn, abandoned>> /\ screen = "main"
        /\ thread' = [thread EXCEPT ![game + 1].place = "top"]
    BY <1>1 DEF StartGame, historyVars
  <2>3. ASSUME NEW h \in Game PROVE ApartInv(h)'
    <3>1. ApartInv(h) /\ h \in Nat /\ Fits(thread[h], h) /\ thread[h] \in Thread
      BY SessionAssumption DEF SessionInv, Apart, TypeInv, ThreadInv, Game
    <3>2. CASE h = game + 1
      <4>1. thread[h] = NewThread
        BY <2>1, <3>1, <3>2 DEF Fits
      <4>2. thread'[h] = [NewThread EXCEPT !.place = "top"]
        BY <2>2, <3>2, <4>1 DEF SessionInv, TypeInv, ThreadInv
      <4>3. thread'[h].place = "top" /\ thread'[h].mover = NoPlayer
        BY <4>2 DEF NewThread
      <4> QED
        BY <2>1, <2>2, <3>1, <3>2, <4>3 DEF ApartInv, Mine, InMove, Resting
    <3>3. CASE h # game + 1
      <4>1. thread'[h] = thread[h]
        BY <2>2, <3>3 DEF SessionInv, TypeInv, ThreadInv
      <4>2. h < game' => ~gameOn[h]
        BY <2>1, <2>2, <3>1, <3>3 DEF ApartInv
      <4> QED
        BY <2>1, <2>2, <3>1, <3>3, <4>1, <4>2 DEF ApartInv, Mine, InMove, Resting
    <3> QED
      BY <3>2, <3>3
  <2> QED
    BY <2>3 DEF Apart, Game
<1>2. ASSUME NEW g \in Game, BeginTurn(g) PROVE Apart'
  <2>1. g \in 1 .. game /\ game \in Nat \ {0} /\ thread[g] \in Thread /\ Fits(thread[g], g)
    BY <1>2, Begun DEF BeginTurn, At, SessionInv, TypeInv
  <2>3. thread[g].place = "top" /\ (g \notin abandoned => Mine(thread[g], g))
    BY <1>2 DEF BeginTurn, At, SessionInv, Apart, ApartInv
  <2>2. g \notin abandoned => g = game /\ thread[g].turn < NP /\ gameOn[g]
    BY <1>2, <2>3, Present DEF Resting, BeginTurn
  <2>4. UNCHANGED <<table, gameOn, screen, abandoned>>
    BY <1>2 DEF BeginTurn, uiVars, historyVars, Crash, OnlyThread
  <2>0. CASE Crash
    BY <2>0, <2>4, NoApart DEF Crash, SessionInv
  <2> SUFFICES ASSUME ~Crash PROVE Apart'
    BY <2>0
  <2> DEFINE p == Seat(thread[g].turn)
  <2>5. p.game = game
    BY DEF Seat
  <2>10. ASSUME p \in out /\ thread' = [thread EXCEPT ![g].turn = NextTurn(g)] PROVE Apart'
    <3> DEFINE r == [thread[g] EXCEPT !.turn = NextTurn(g)]
    <3>1. /\ r.place = thread[g].place /\ r.mover = thread[g].mover
         /\ r.victim = thread[g].victim /\ r.objector = thread[g].objector
      BY <2>1 DEF Thread
    <3>2. thread' = [thread EXCEPT ![g] = r]
      BY <2>1, <2>10, <1>2 DEF BeginTurn, SessionInv, TypeInv, ThreadInv
    <3> HIDE DEF r
    <3>3. g \notin abandoned => Mine(r, g) /\ (gameOn[g] \/ r.place \in Resting)
      BY <2>1, <2>2, <2>3, <2>5, <2>10, <1>2, <3>1 DEF BeginTurn, Mine, InMove, Resting, Fits
    <3> QED
      BY <2>1, <2>4, <3>2, <3>3, OneApart DEF SessionInv, TypeInv, ThreadInv
  <2>11. ASSUME thread' = [thread EXCEPT ![g].place = "choose", ![g].mover = p] PROVE Apart'
    <3> DEFINE r == [thread[g] EXCEPT !.place = "choose", !.mover = p]
    <3>1. /\ r.place = "choose" /\ r.mover = p
         /\ r.victim = thread[g].victim /\ r.objector = thread[g].objector
      BY <2>1 DEF Thread
    <3>2. thread' = [thread EXCEPT ![g] = r]
      BY <2>1, <2>11, <1>2 DEF BeginTurn, SessionInv, TypeInv, ThreadInv
    <3> HIDE DEF r
    <3>3. g \notin abandoned => Mine(r, g) /\ (gameOn[g] \/ r.place \in Resting)
      BY <2>1, <2>2, <2>3, <2>5, <2>11, <1>2, <3>1 DEF BeginTurn, Mine, InMove, Resting, Fits
    <3> QED
      BY <2>1, <2>4, <3>2, <3>3, OneApart DEF SessionInv, TypeInv, ThreadInv
  <2>12. ASSUME thread[g].mover = NoPlayer /\ thread' = [thread EXCEPT ![g].place = "pause"] PROVE Apart'
    <3> DEFINE r == [thread[g] EXCEPT !.place = "pause"]
    <3>1. /\ r.place = "pause" /\ r.mover = thread[g].mover
         /\ r.victim = thread[g].victim /\ r.objector = thread[g].objector
      BY <2>1 DEF Thread
    <3>2. thread' = [thread EXCEPT ![g] = r]
      BY <2>1, <2>12, <1>2 DEF BeginTurn, SessionInv, TypeInv, ThreadInv
    <3> HIDE DEF r
    <3>3. g \notin abandoned => Mine(r, g) /\ (gameOn[g] \/ r.place \in Resting)
      BY <2>1, <2>2, <2>3, <2>5, <2>12, <1>2, <3>1 DEF BeginTurn, Mine, InMove, Resting, Fits
    <3> QED
      BY <2>1, <2>4, <3>2, <3>3, OneApart DEF SessionInv, TypeInv, ThreadInv
  <2>13. ASSUME thread[g].mover # NoPlayer /\ thread' = [thread EXCEPT ![g].place = "say"] PROVE Apart'
    <3> DEFINE r == [thread[g] EXCEPT !.place = "say"]
    <3>1. /\ r.place = "say" /\ r.mover = thread[g].mover
         /\ r.victim = thread[g].victim /\ r.objector = thread[g].objector
      BY <2>1 DEF Thread
    <3>2. thread' = [thread EXCEPT ![g] = r]
      BY <2>1, <2>13, <1>2 DEF BeginTurn, SessionInv, TypeInv, ThreadInv
    <3> HIDE DEF r
    <3>3. g \notin abandoned => Mine(r, g) /\ (gameOn[g] \/ r.place \in Resting)
      BY <2>1, <2>2, <2>3, <2>5, <2>13, <1>2, <3>1 DEF BeginTurn, Mine, InMove, Resting, Fits
    <3> QED
      BY <2>1, <2>4, <3>2, <3>3, OneApart DEF SessionInv, TypeInv, ThreadInv
  <2> QED
    BY <1>2, <2>10, <2>11, <2>12, <2>13 DEF BeginTurn, OnlyThread, GoTo, Crash
<1>3. ASSUME NEW g \in Game, Break(g) PROVE Apart'
  <2>1. g \in 1 .. game /\ game \in Nat \ {0} /\ thread[g] \in Thread /\ Fits(thread[g], g)
    BY <1>3, Begun DEF Break, At, SessionInv, TypeInv
  <2>3. thread[g].place = "pause" /\ (g \notin abandoned => Mine(thread[g], g))
    BY <1>3 DEF Break, At, SessionInv, Apart, ApartInv
  <2>2. g \notin abandoned => g = game /\ thread[g].turn < NP /\ gameOn[g]
    BY <1>3, <2>3, Present DEF Resting, Break
  <2>4. UNCHANGED <<table, gameOn, screen, abandoned>>
    BY <1>3 DEF Break, uiVars, historyVars, OnlyThread
  <2> QED
    <3> DEFINE r == [thread[g] EXCEPT !.place = "idle"]
    <3>1. /\ r.place = "idle" /\ r.mover = thread[g].mover
         /\ r.victim = thread[g].victim /\ r.objector = thread[g].objector
      BY <2>1 DEF Thread
    <3>2. thread' = [thread EXCEPT ![g] = r]
      BY <2>1, <1>3 DEF Break, GoTo, SessionInv, TypeInv, ThreadInv
    <3> HIDE DEF r
    <3>3. g \notin abandoned => Mine(r, g) /\ (gameOn[g] \/ r.place \in Resting)
      BY <2>1, <2>2, <2>3, <1>3, <3>1 DEF Break, Mine, InMove, Resting, Fits
    <3> QED
      BY <2>1, <2>4, <3>2, <3>3, OneApart DEF SessionInv, TypeInv, ThreadInv
<1>4. ASSUME NEW g \in Game, Chooses(g) PROVE Apart'
  <2>1. g \in 1 .. game /\ game \in Nat \ {0} /\ thread[g] \in Thread /\ Fits(thread[g], g)
    BY <1>4, Begun DEF Chooses, At, SessionInv, TypeInv
  <2>3. thread[g].place \in {"choose", "draw"} /\ (g \notin abandoned => Mine(thread[g], g))
    BY <1>4 DEF Chooses, At, SessionInv, Apart, ApartInv
  <2>2. g \notin abandoned => g = game /\ thread[g].turn < NP /\ gameOn[g]
    BY <2>3, Present DEF Resting
  <2>4. UNCHANGED <<table, gameOn, screen, abandoned>>
    BY <1>4 DEF Chooses, uiVars, historyVars, OnlyThread
  <2>5. \A v \in Victims(thread[g].mover) : v = thread[g].mover \/ v.game = game
    BY DEF Victims, Seat
  <2>10. ASSUME NEW v \in Victims(thread[g].mover), thread' = [thread EXCEPT ![g].place = "say", ![g].victim = v] PROVE Apart'
    <3> DEFINE r == [thread[g] EXCEPT !.place = "say", !.victim = v]
    <3>1. /\ r.place = "say" /\ r.mover = thread[g].mover
         /\ r.victim = v /\ r.objector = thread[g].objector
      BY <2>1, <2>10 DEF Thread
    <3>2. thread' = [thread EXCEPT ![g] = r]
      BY <2>1, <2>10, <1>4 DEF Chooses, SessionInv, TypeInv, ThreadInv
    <3> HIDE DEF r
    <3>3. g \notin abandoned => Mine(r, g) /\ (gameOn[g] \/ r.place \in Resting)
      BY <2>1, <2>2, <2>3, <2>5, <2>10, <1>4, <3>1 DEF Chooses, Mine, InMove, Resting, Fits
    <3> QED
      BY <2>1, <2>4, <3>2, <3>3, OneApart DEF SessionInv, TypeInv, ThreadInv
  <2>11. ASSUME thread' = [thread EXCEPT ![g].place = "draw"] PROVE Apart'
    <3> DEFINE r == [thread[g] EXCEPT !.place = "draw"]
    <3>1. r.place = "draw" /\ r.mover = thread[g].mover
      BY <2>1 DEF Thread
    <3>2. thread' = [thread EXCEPT ![g] = r]
      BY <2>1, <2>11 DEF SessionInv, TypeInv, ThreadInv
    <3> HIDE DEF r
    <3>3. g \notin abandoned => Mine(r, g) /\ (gameOn[g] \/ r.place \in Resting)
      BY <2>2, <2>3, <3>1 DEF Mine, InMove
    <3> QED
      BY <2>1, <2>4, <3>2, <3>3, OneApart DEF SessionInv, TypeInv, ThreadInv
  <2> QED
    BY <1>4, <2>10, <2>11 DEF Chooses
<1>5. ASSUME NEW g \in Game, UserMoves(g) PROVE Apart'
  <2>1. g \in 1 .. game /\ game \in Nat \ {0} /\ thread[g] \in Thread /\ Fits(thread[g], g)
    BY <1>5, Begun DEF UserMoves, At, SessionInv, TypeInv
  <2>3. thread[g].place = "idle" /\ (g \notin abandoned => Mine(thread[g], g))
    BY <1>5 DEF UserMoves, At, SessionInv, Apart, ApartInv
  <2>2. g \notin abandoned => g = game /\ thread[g].turn < NP /\ gameOn[g]
    BY <1>5, <2>3, Present DEF Resting, UserMoves
  <2>4. UNCHANGED <<table, gameOn, screen, abandoned>>
    BY <1>5 DEF UserMoves, uiVars, historyVars, OnlyThread
  <2>5. g = game /\ Me(g).game = g /\ \A v \in Victims(Me(g)) : v.game = g
    BY <1>5 DEF UserMoves, UserSees, Victims, Seat, Me
  <2>10. ASSUME NEW v \in Victims(Me(g)), thread' = [thread EXCEPT ![g].place = "top", ![g].mover = Me(g), ![g].victim = v] PROVE Apart'
    <3> DEFINE r == [thread[g] EXCEPT !.place = "top", !.mover = Me(g), !.victim = v]
    <3>1. /\ r.place = "top" /\ r.mover = Me(g)
         /\ r.victim = v /\ r.objector = thread[g].objector
      BY <2>1, <2>10 DEF Thread
    <3>2. thread' = [thread EXCEPT ![g] = r]
      BY <2>1, <2>10, <1>5 DEF UserMoves, SessionInv, TypeInv, ThreadInv
    <3> HIDE DEF r
    <3>3. g \notin abandoned => Mine(r, g) /\ (gameOn[g] \/ r.place \in Resting)
      BY <2>1, <2>2, <2>3, <2>5, <2>10, <1>5, <3>1 DEF UserMoves, Mine, InMove, Resting, Fits, UserSees
    <3> QED
      BY <2>1, <2>4, <3>2, <3>3, OneApart DEF SessionInv, TypeInv, ThreadInv
  <2> QED
    BY <1>5, <2>10 DEF UserMoves
<1>6. ASSUME NEW g \in Game, Announce(g) PROVE Apart'
  <2>1. g \in 1 .. game /\ game \in Nat \ {0} /\ thread[g] \in Thread /\ Fits(thread[g], g)
    BY <1>6, Begun DEF Announce, At, SessionInv, TypeInv
  <2>3. thread[g].place = "say" /\ (g \notin abandoned => Mine(thread[g], g))
    BY <1>6 DEF Announce, At, SessionInv, Apart, ApartInv
  <2>2. g \notin abandoned => g = game /\ thread[g].turn < NP /\ gameOn[g]
    BY <2>3, Present DEF Resting
  <2>4. UNCHANGED <<table, gameOn, screen, abandoned>>
    BY <1>6 DEF Announce, uiVars, historyVars
  <2>10. ASSUME NEW next \in {"ask", "act"}, thread' = [thread EXCEPT ![g].place = next, ![g].asked = 0, ![g].allowed = FALSE] PROVE Apart'
    <3> DEFINE r == [thread[g] EXCEPT !.place = next, !.asked = 0, !.allowed = FALSE]
    <3>1. /\ r.place = next /\ r.mover = thread[g].mover
         /\ r.victim = thread[g].victim /\ r.objector = thread[g].objector
      BY <2>1, <2>10 DEF Thread
    <3>2. thread' = [thread EXCEPT ![g] = r]
      BY <2>1, <2>10, <1>6 DEF Announce, SessionInv, TypeInv, ThreadInv
    <3> HIDE DEF r
    <3>3. g \notin abandoned => Mine(r, g) /\ (gameOn[g] \/ r.place \in Resting)
      BY <2>1, <2>2, <2>3, <2>10, <1>6, <3>1 DEF Announce, Mine, InMove, Resting, Fits
    <3> QED
      BY <2>1, <2>4, <3>2, <3>3, OneApart DEF SessionInv, TypeInv, ThreadInv
  <2> QED
    BY <1>6, <2>10 DEF Announce
<1>7. ASSUME NEW g \in Game, AskNext(g) PROVE Apart'
  <2>1. g \in 1 .. game /\ game \in Nat \ {0} /\ thread[g] \in Thread /\ Fits(thread[g], g)
    BY <1>7, Begun DEF AskNext, At, SessionInv, TypeInv
  <2>3. thread[g].place = "ask" /\ (g \notin abandoned => Mine(thread[g], g))
    BY <1>7 DEF AskNext, At, SessionInv, Apart, ApartInv
  <2>2. g \notin abandoned => g = game /\ thread[g].turn < NP /\ gameOn[g]
    BY <2>3, Present DEF Resting
  <2>4. UNCHANGED <<table, gameOn, screen, abandoned>>
    BY <1>7 DEF AskNext, uiVars, historyVars, Crash, OnlyThread
  <2>0. CASE Crash
    BY <2>0, <2>4, NoApart DEF Crash, SessionInv
  <2> SUFFICES ASSUME ~Crash PROVE Apart'
    BY <2>0
  <2> DEFINE p == Seat(thread[g].asked)
  <2>5. p.game = game
    BY DEF Seat
  <2>10. ASSUME thread' = [thread EXCEPT ![g].asked = @ + 1] PROVE Apart'
    <3> DEFINE r == [thread[g] EXCEPT !.asked = @ + 1]
    <3>1. /\ r.place = thread[g].place /\ r.mover = thread[g].mover
         /\ r.victim = thread[g].victim /\ r.objector = thread[g].objector
      BY <2>1 DEF Thread
    <3>2. thread' = [thread EXCEPT ![g] = r]
      BY <2>1, <2>10, <1>7 DEF AskNext, SessionInv, TypeInv, ThreadInv
    <3> HIDE DEF r
    <3>3. g \notin abandoned => Mine(r, g) /\ (gameOn[g] \/ r.place \in Resting)
      BY <2>1, <2>2, <2>3, <2>5, <2>10, <1>7, <3>1 DEF AskNext, Mine, InMove, Resting, Fits
    <3> QED
      BY <2>1, <2>4, <3>2, <3>3, OneApart DEF SessionInv, TypeInv, ThreadInv
  <2>11. ASSUME thread' = [thread EXCEPT ![g].place = "wait"] PROVE Apart'
    <3> DEFINE r == [thread[g] EXCEPT !.place = "wait"]
    <3>1. /\ r.place = "wait" /\ r.mover = thread[g].mover
         /\ r.victim = thread[g].victim /\ r.objector = thread[g].objector
      BY <2>1 DEF Thread
    <3>2. thread' = [thread EXCEPT ![g] = r]
      BY <2>1, <2>11, <1>7 DEF AskNext, SessionInv, TypeInv, ThreadInv
    <3> HIDE DEF r
    <3>3. g \notin abandoned => Mine(r, g) /\ (gameOn[g] \/ r.place \in Resting)
      BY <2>1, <2>2, <2>3, <2>5, <2>11, <1>7, <3>1 DEF AskNext, Mine, InMove, Resting, Fits
    <3> QED
      BY <2>1, <2>4, <3>2, <3>3, OneApart DEF SessionInv, TypeInv, ThreadInv
  <2>12. ASSUME thread' = [thread EXCEPT ![g].place = "prove", ![g].objector = p, ![g].asked = 0, ![g].allowed = FALSE] PROVE Apart'
    <3> DEFINE r == [thread[g] EXCEPT !.place = "prove", !.objector = p, !.asked = 0, !.allowed = FALSE]
    <3>1. /\ r.place = "prove" /\ r.mover = thread[g].mover
         /\ r.victim = thread[g].victim /\ r.objector = p
      BY <2>1 DEF Thread
    <3>2. thread' = [thread EXCEPT ![g] = r]
      BY <2>1, <2>12, <1>7 DEF AskNext, SessionInv, TypeInv, ThreadInv
    <3> HIDE DEF r
    <3>3. g \notin abandoned => Mine(r, g) /\ (gameOn[g] \/ r.place \in Resting)
      BY <2>1, <2>2, <2>3, <2>5, <2>12, <1>7, <3>1 DEF AskNext, Mine, InMove, Resting, Fits
    <3> QED
      BY <2>1, <2>4, <3>2, <3>3, OneApart DEF SessionInv, TypeInv, ThreadInv
  <2>13. ASSUME thread' = [thread EXCEPT ![g].asked = @ + 1, ![g].allowed = TRUE] PROVE Apart'
    <3> DEFINE r == [thread[g] EXCEPT !.asked = @ + 1, !.allowed = TRUE]
    <3>1. /\ r.place = thread[g].place /\ r.mover = thread[g].mover
         /\ r.victim = thread[g].victim /\ r.objector = thread[g].objector
      BY <2>1 DEF Thread
    <3>2. thread' = [thread EXCEPT ![g] = r]
      BY <2>1, <2>13, <1>7 DEF AskNext, SessionInv, TypeInv, ThreadInv
    <3> HIDE DEF r
    <3>3. g \notin abandoned => Mine(r, g) /\ (gameOn[g] \/ r.place \in Resting)
      BY <2>1, <2>2, <2>3, <2>5, <2>13, <1>7, <3>1 DEF AskNext, Mine, InMove, Resting, Fits
    <3> QED
      BY <2>1, <2>4, <3>2, <3>3, OneApart DEF SessionInv, TypeInv, ThreadInv
  <2> QED
    BY <1>7, <2>10, <2>11, <2>12, <2>13 DEF AskNext, OnlyThread, GoTo, Crash
<1>8. ASSUME NEW g \in Game, UserAllows(g) PROVE Apart'
  <2>1. g \in 1 .. game /\ game \in Nat \ {0} /\ thread[g] \in Thread /\ Fits(thread[g], g)
    BY <1>8, Begun DEF UserAllows, At, SessionInv, TypeInv
  <2>3. thread[g].place = "wait" /\ (g \notin abandoned => Mine(thread[g], g))
    BY <1>8 DEF UserAllows, At, SessionInv, Apart, ApartInv
  <2>2. g \notin abandoned => g = game /\ thread[g].turn < NP /\ gameOn[g]
    BY <2>3, Present DEF Resting
  <2>4. UNCHANGED <<table, gameOn, screen, abandoned>>
    BY <1>8 DEF UserAllows, uiVars, historyVars, OnlyThread
  <2> QED
    <3> DEFINE r == [thread[g] EXCEPT !.place = "ask", !.asked = @ + 1, !.allowed = TRUE]
    <3>1. /\ r.place = "ask" /\ r.mover = thread[g].mover
         /\ r.victim = thread[g].victim /\ r.objector = thread[g].objector
      BY <2>1 DEF Thread
    <3>2. thread' = [thread EXCEPT ![g] = r]
      BY <2>1, <1>8 DEF UserAllows, SessionInv, TypeInv, ThreadInv
    <3> HIDE DEF r
    <3>3. g \notin abandoned => Mine(r, g) /\ (gameOn[g] \/ r.place \in Resting)
      BY <2>1, <2>2, <2>3, <1>8, <3>1 DEF UserAllows, Mine, InMove, Resting, Fits
    <3> QED
      BY <2>1, <2>4, <3>2, <3>3, OneApart DEF SessionInv, TypeInv, ThreadInv
<1>9. ASSUME NEW g \in Game, UserChallenges(g) PROVE Apart'
  <2>1. g \in 1 .. game /\ game \in Nat \ {0} /\ thread[g] \in Thread /\ Fits(thread[g], g)
    BY <1>9, Begun DEF UserChallenges, At, SessionInv, TypeInv
  <2>3. thread[g].place = "wait" /\ (g \notin abandoned => Mine(thread[g], g))
    BY <1>9 DEF UserChallenges, At, SessionInv, Apart, ApartInv
  <2>2. g \notin abandoned => g = game /\ thread[g].turn < NP /\ gameOn[g]
    BY <2>3, Present DEF Resting
  <2>4. UNCHANGED <<table, gameOn, screen, abandoned>>
    BY <1>9 DEF UserChallenges, uiVars, historyVars, OnlyThread
  <2>5. Seat(thread[g].asked).game = game
    BY DEF Seat
  <2> QED
    <3> DEFINE r == [thread[g] EXCEPT !.place = "prove", !.asked = 0, !.allowed = FALSE, !.objector = Seat(thread[g].asked)]
    <3>1. /\ r.place = "prove" /\ r.mover = thread[g].mover
         /\ r.victim = thread[g].victim /\ r.objector = Seat(thread[g].asked)
      BY <2>1 DEF Thread
    <3>2. thread' = [thread EXCEPT ![g] = r]
      BY <2>1, <1>9 DEF UserChallenges, SessionInv, TypeInv, ThreadInv
    <3> HIDE DEF r
    <3>3. g \notin abandoned => Mine(r, g) /\ (gameOn[g] \/ r.place \in Resting)
      BY <2>1, <2>2, <2>3, <2>5, <1>9, <3>1 DEF UserChallenges, Mine, InMove, Resting, Fits, UserSees
    <3> QED
      BY <2>1, <2>4, <3>2, <3>3, OneApart DEF SessionInv, TypeInv, ThreadInv
<1>10. ASSUME NEW g \in Game, AskingDone(g) PROVE Apart'
  <2>1. g \in 1 .. game /\ game \in Nat \ {0} /\ thread[g] \in Thread /\ Fits(thread[g], g)
    BY <1>10, Begun DEF AskingDone, At, SessionInv, TypeInv
  <2>3. thread[g].place = "ask" /\ (g \notin abandoned => Mine(thread[g], g))
    BY <1>10 DEF AskingDone, At, SessionInv, Apart, ApartInv
  <2>2. g \notin abandoned => g = game /\ thread[g].turn < NP /\ gameOn[g]
    BY <2>3, Present DEF Resting
  <2>4. UNCHANGED <<table, gameOn, screen, abandoned>>
    BY <1>10 DEF AskingDone, uiVars, historyVars, OnlyThread
  <2>10. CASE thread[g].allowed
    <3> DEFINE r == [thread[g] EXCEPT !.place = "act", !.asked = 0, !.allowed = FALSE]
    <3>1. /\ r.place = "act" /\ r.mover = thread[g].mover
         /\ r.victim = thread[g].victim /\ r.objector = thread[g].objector
      BY <2>1 DEF Thread
    <3>2. thread' = [thread EXCEPT ![g] = r]
      BY <2>1, <2>10, <1>10 DEF AskingDone, SessionInv, TypeInv, ThreadInv
    <3> HIDE DEF r
    <3>3. g \notin abandoned => Mine(r, g) /\ (gameOn[g] \/ r.place \in Resting)
      BY <2>1, <2>2, <2>3, <2>10, <1>10, <3>1 DEF AskingDone, Mine, InMove, Resting, Fits
    <3> QED
      BY <2>1, <2>4, <3>2, <3>3, OneApart DEF SessionInv, TypeInv, ThreadInv
  <2>11. CASE ~thread[g].allowed
    <3> DEFINE r == Rest(g, "check")
    <3>1. /\ r.place = "check" /\ r.mover = NoPlayer
         /\ r.victim = NoPlayer /\ r.objector = NoPlayer
      BY <2>1 DEF Thread, Rest, NewThread
    <3>2. thread' = [thread EXCEPT ![g] = r]
      BY <2>1, <2>11, <1>10 DEF AskingDone, SessionInv, TypeInv, ThreadInv
    <3> HIDE DEF r
    <3>3. g \notin abandoned => Mine(r, g) /\ (gameOn[g] \/ r.place \in Resting)
      BY <2>1, <2>2, <2>3, <2>11, <1>10, <3>1 DEF AskingDone, Mine, InMove, Resting, Fits
    <3> QED
      BY <2>1, <2>4, <3>2, <3>3, OneApart DEF SessionInv, TypeInv, ThreadInv
  <2> QED
    BY <1>10, <2>10, <2>11 DEF AskingDone
<1>11. ASSUME NEW g \in Game, ClaimProved(g) PROVE Apart'
  <2>1. g \in 1 .. game /\ game \in Nat \ {0} /\ thread[g] \in Thread /\ Fits(thread[g], g)
    BY <1>11, Begun DEF ClaimProved, At, SessionInv, TypeInv
  <2>3. thread[g].place = "prove" /\ (g \notin abandoned => Mine(thread[g], g))
    BY <1>11 DEF ClaimProved, At, SessionInv, Apart, ApartInv
  <2>2. g \notin abandoned => g = game /\ thread[g].turn < NP /\ gameOn[g]
    BY <2>3, Present DEF Resting
  <2>4. UNCHANGED <<table, gameOn, screen, abandoned>>
    BY <1>11 DEF ClaimProved, uiVars, historyVars, OnlyPlayers
  <2> QED
    <3> DEFINE r == [thread[g] EXCEPT !.place = "act", !.objector = NoPlayer]
    <3>1. /\ r.place = "act" /\ r.mover = thread[g].mover
         /\ r.victim = thread[g].victim /\ r.objector = NoPlayer
      BY <2>1 DEF Thread
    <3>2. thread' = [thread EXCEPT ![g] = r]
      BY <2>1, <1>11 DEF ClaimProved, SessionInv, TypeInv, ThreadInv
    <3> HIDE DEF r
    <3>3. g \notin abandoned => Mine(r, g) /\ (gameOn[g] \/ r.place \in Resting)
      BY <2>1, <2>2, <2>3, <1>11, <3>1 DEF ClaimProved, Mine, InMove, Resting, Fits
    <3> QED
      BY <2>1, <2>4, <3>2, <3>3, OneApart DEF SessionInv, TypeInv, ThreadInv
<1>12. ASSUME NEW g \in Game, BluffCalled(g) PROVE Apart'
  <2>1. g \in 1 .. game /\ game \in Nat \ {0} /\ thread[g] \in Thread /\ Fits(thread[g], g)
    BY <1>12, Begun DEF BluffCalled, At, SessionInv, TypeInv
  <2>3. thread[g].place = "prove" /\ (g \notin abandoned => Mine(thread[g], g))
    BY <1>12 DEF BluffCalled, At, SessionInv, Apart, ApartInv
  <2>2. g \notin abandoned => g = game /\ thread[g].turn < NP /\ gameOn[g]
    BY <2>3, Present DEF Resting
  <2>4. UNCHANGED <<table, gameOn, screen, abandoned>>
    BY <1>12 DEF BluffCalled, uiVars, historyVars, OnlyPlayers
  <2> QED
    <3> DEFINE r == Rest(g, "check")
    <3>1. /\ r.place = "check" /\ r.mover = NoPlayer
         /\ r.victim = NoPlayer /\ r.objector = NoPlayer
      BY <2>1 DEF Thread, Rest, NewThread
    <3>2. thread' = [thread EXCEPT ![g] = r]
      BY <2>1, <1>12 DEF BluffCalled, SessionInv, TypeInv, ThreadInv
    <3> HIDE DEF r
    <3>3. g \notin abandoned => Mine(r, g) /\ (gameOn[g] \/ r.place \in Resting)
      BY <2>1, <2>2, <2>3, <1>12, <3>1 DEF BluffCalled, Mine, InMove, Resting, Fits
    <3> QED
      BY <2>1, <2>4, <3>2, <3>3, OneApart DEF SessionInv, TypeInv, ThreadInv
<1>13. ASSUME NEW g \in Game, Act(g) PROVE Apart'
  <2>1. g \in 1 .. game /\ game \in Nat \ {0} /\ thread[g] \in Thread /\ Fits(thread[g], g)
    BY <1>13, Begun DEF Act, At, SessionInv, TypeInv
  <2>3. thread[g].place = "act" /\ (g \notin abandoned => Mine(thread[g], g))
    BY <1>13 DEF Act, At, SessionInv, Apart, ApartInv
  <2>2. g \notin abandoned => g = game /\ thread[g].turn < NP /\ gameOn[g]
    BY <2>3, Present DEF Resting
  <2>4. UNCHANGED <<table, gameOn, screen, abandoned>>
    BY <1>13 DEF Act, uiVars, historyVars, OnlyPlayers
  <2> QED
    <3> DEFINE r == Rest(g, "check")
    <3>1. /\ r.place = "check" /\ r.mover = NoPlayer
         /\ r.victim = NoPlayer /\ r.objector = NoPlayer
      BY <2>1 DEF Thread, Rest, NewThread
    <3>2. thread' = [thread EXCEPT ![g] = r]
      BY <2>1, <1>13 DEF Act, SessionInv, TypeInv, ThreadInv
    <3> HIDE DEF r
    <3>3. g \notin abandoned => Mine(r, g) /\ (gameOn[g] \/ r.place \in Resting)
      BY <2>1, <2>2, <2>3, <1>13, <3>1 DEF Act, Mine, InMove, Resting, Fits
    <3> QED
      BY <2>1, <2>4, <3>2, <3>3, OneApart DEF SessionInv, TypeInv, ThreadInv
<1>14. ASSUME NEW g \in Game, AskExchange(g) PROVE Apart'
  <2>1. g \in 1 .. game /\ game \in Nat \ {0} /\ thread[g] \in Thread /\ Fits(thread[g], g)
    BY <1>14, Begun DEF AskExchange, At, SessionInv, TypeInv
  <2>3. thread[g].place = "act" /\ (g \notin abandoned => Mine(thread[g], g))
    BY <1>14 DEF AskExchange, At, SessionInv, Apart, ApartInv
  <2>2. g \notin abandoned => g = game /\ thread[g].turn < NP /\ gameOn[g]
    BY <2>3, Present DEF Resting
  <2>4. UNCHANGED <<table, gameOn, screen, abandoned>>
    BY <1>14 DEF AskExchange, uiVars, historyVars
  <2>10. ASSUME NEW next \in {"dialog", "stuck"}, thread' = [thread EXCEPT ![g] = Rest(g, next)] PROVE Apart'
    <3> DEFINE r == Rest(g, next)
    <3>1. /\ r.place = next /\ r.mover = NoPlayer
         /\ r.victim = NoPlayer /\ r.objector = NoPlayer
      BY <2>1, <2>10 DEF Thread, Rest, NewThread
    <3>2. thread' = [thread EXCEPT ![g] = r]
      BY <2>1, <2>10, <1>14 DEF AskExchange, SessionInv, TypeInv, ThreadInv
    <3> HIDE DEF r
    <3>3. g \notin abandoned => Mine(r, g) /\ (gameOn[g] \/ r.place \in Resting)
      BY <2>1, <2>2, <2>3, <2>10, <1>14, <3>1 DEF AskExchange, Mine, InMove, Resting, Fits
    <3> QED
      BY <2>1, <2>4, <3>2, <3>3, OneApart DEF SessionInv, TypeInv, ThreadInv
  <2> QED
    BY <1>14, <2>10 DEF AskExchange
<1>15. ASSUME NEW g \in Game, CloseDialog(g) PROVE Apart'
  <2>1. g \in 1 .. game /\ game \in Nat \ {0} /\ thread[g] \in Thread /\ Fits(thread[g], g)
    BY <1>15, Begun DEF CloseDialog, At, SessionInv, TypeInv
  <2>3. thread[g].place = "dialog" /\ (g \notin abandoned => Mine(thread[g], g))
    BY <1>15 DEF CloseDialog, At, SessionInv, Apart, ApartInv
  <2>2. g \notin abandoned => g = game /\ thread[g].turn < NP /\ gameOn[g]
    BY <2>3, Present DEF Resting
  <2>4. UNCHANGED <<table, gameOn, screen, abandoned>>
    BY <1>15 DEF CloseDialog, uiVars, historyVars
  <2>10. ASSUME NEW next \in {"check", "stuck"}, thread' = [thread EXCEPT ![g].place = next] PROVE Apart'
    <3> DEFINE r == [thread[g] EXCEPT !.place = next]
    <3>1. /\ r.place = next /\ r.mover = thread[g].mover
         /\ r.victim = thread[g].victim /\ r.objector = thread[g].objector
      BY <2>1, <2>10 DEF Thread
    <3>2. thread' = [thread EXCEPT ![g] = r]
      BY <2>1, <2>10, <1>15 DEF CloseDialog, SessionInv, TypeInv, ThreadInv
    <3> HIDE DEF r
    <3>3. g \notin abandoned => Mine(r, g) /\ (gameOn[g] \/ r.place \in Resting)
      BY <2>1, <2>2, <2>3, <2>10, <1>15, <3>1 DEF CloseDialog, Mine, InMove, Resting, Fits
    <3> QED
      BY <2>1, <2>4, <3>2, <3>3, OneApart DEF SessionInv, TypeInv, ThreadInv
  <2> QED
    BY <1>15, <2>10 DEF CloseDialog, GoTo
<1>16. ASSUME NEW g \in Game, EndTurn(g) PROVE Apart'
  <2>1. g \in 1 .. game /\ game \in Nat \ {0} /\ thread[g] \in Thread /\ Fits(thread[g], g)
    BY <1>16, Begun DEF EndTurn, At, SessionInv, TypeInv
  <2>2. /\ UNCHANGED <<table, abandoned>>
        /\ \/ UNCHANGED <<gameOn, screen>>
           \/ /\ gameOn' = [gameOn EXCEPT ![g] = FALSE]
              /\ screen' = screen \/ g = game
    BY <1>16 DEF EndTurn, GameOver, LastScreen, UserSees
  <2>3. /\ thread' = [thread EXCEPT ![g] = thread'[g]]
        /\ thread'[g].place \in Resting /\ Mine(thread'[g], g)
    <3>1. thread' = [thread EXCEPT ![g].place = "top", ![g].turn = NextTurn(g)]
      BY <1>16 DEF EndTurn
    <3>2. thread'[g].place = "top" /\ thread'[g].mover = thread[g].mover
      BY <2>1, <3>1 DEF Thread, SessionInv, TypeInv, ThreadInv
    <3>3. thread[g].mover = NoPlayer
      BY <2>1, <1>16 DEF EndTurn, At, Fits
    <3> QED
      BY <3>1, <3>2, <3>3 DEF Mine, InMove, Resting, SessionInv, TypeInv, ThreadInv
  <2>4. ASSUME NEW h \in Game PROVE ApartInv(h)'
    <3>1. h = g \/ thread'[h] = thread[h]
      BY <2>3 DEF SessionInv, TypeInv, ThreadInv
    <3>2. /\ gameOn'[h] = gameOn[h] \/ h = g
          /\ ~gameOn[h] => ~gameOn'[h]
          /\ screen' = screen \/ ~gameOn'[game]
      BY <2>1, <2>2 DEF SessionInv, TypeInv, RestOK
    <3> QED
      BY <2>2, <2>3, <3>1, <3>2 DEF ApartInv, SessionInv, Apart, Mine, InMove, Resting, game
  <2> QED
    BY <2>4 DEF Apart, Game
<1>17. ASSUME NEW g \in Game, LeaveLoop(g) PROVE Apart'
  <2>1. g \in 1 .. game /\ game \in Nat \ {0} /\ thread[g] \in Thread /\ Fits(thread[g], g)
    BY <1>17, Begun DEF LeaveLoop, At, SessionInv, TypeInv
  <2>2. /\ UNCHANGED <<table, abandoned>>
        /\ \/ UNCHANGED <<gameOn, screen>>
           \/ /\ gameOn' = [gameOn EXCEPT ![g] = FALSE]
              /\ screen' = screen \/ g = game
    BY <1>17 DEF LeaveLoop, LastScreen, UserSees
  <2>3. /\ thread' = [thread EXCEPT ![g] = thread'[g]]
        /\ thread'[g].place \in Resting /\ Mine(thread'[g], g)
    <3>1. thread' = [thread EXCEPT ![g] = [NewThread EXCEPT !.place = "over"]]
      BY <1>17 DEF LeaveLoop
    <3>2. thread'[g].place = "over"
      BY <3>1 DEF NewThread, SessionInv, TypeInv, ThreadInv
    <3> QED
      BY <3>1, <3>2 DEF Mine, InMove, Resting, SessionInv, TypeInv, ThreadInv
  <2>4. ASSUME NEW h \in Game PROVE ApartInv(h)'
    <3>1. h = g \/ thread'[h] = thread[h]
      BY <2>3 DEF SessionInv, TypeInv, ThreadInv
    <3>2. /\ gameOn'[h] = gameOn[h] \/ h = g
          /\ ~gameOn[h] => ~gameOn'[h]
          /\ screen' = screen \/ ~gameOn'[game]
      BY <2>1, <2>2 DEF SessionInv, TypeInv, RestOK
    <3> QED
      BY <2>2, <2>3, <3>1, <3>2 DEF ApartInv, SessionInv, Apart, Mine, InMove, Resting, game
  <2> QED
    BY <2>4 DEF Apart, Game
<1>18. CASE EndGame
  <2>1. game \in Game
    BY <1>18, SeatFacts DEF EndGame, SessionInv, TypeInv
  <2>2. /\ UNCHANGED <<table, thread>> /\ abandoned \subseteq abandoned'
        /\ gameOn' = [gameOn EXCEPT ![game] = FALSE]
        /\ game \in abandoned' \/ thread[game].place \in Resting
    BY <1>18 DEF EndGame, LastScreen
  <2>3. gameOn' \in [Game -> BOOLEAN] /\ ~gameOn'[game]
        /\ \A g \in Game : g # game => gameOn'[g] = gameOn[g]
    BY <2>1, <2>2 DEF SessionInv, TypeInv, RestOK
  <2> QED
    BY <2>1, <2>2, <2>3, ScreenApart DEF SessionInv
<1>19. CASE OpenSheet
  BY <1>19, NoApart DEF OpenSheet, uiVars, historyVars, SessionInv
<1>20. CASE CloseSheet
  BY <1>20, NoApart DEF CloseSheet, uiVars, historyVars, SessionInv
<1>21. CASE Appear
  BY <1>21, NoApart DEF Appear, uiVars, historyVars, SessionInv
<1>22. CASE PlayAgain
  <2>1. UNCHANGED <<table, thread, gameOn, abandoned>> /\ screen = "ends"
    BY <1>22 DEF PlayAgain, historyVars
  <2>2. game \in Game => ~gameOn'[game]
    BY <2>1 DEF SessionInv, Apart, ApartInv
  <2>3. gameOn \in [Game -> BOOLEAN]
    BY DEF SessionInv, TypeInv, RestOK
  <2> QED
    BY <2>1, <2>2, <2>3, ScreenApart DEF SessionInv
<1>23. CASE UNCHANGED vars
  BY <1>23, NoApart DEF vars, uiVars, historyVars, SessionInv
<1> QED
  BY <1>1, <1>2, <1>3, <1>4, <1>5, <1>6, <1>7, <1>8, <1>9, <1>10, <1>11, <1>12, <1>13, <1>14, <1>15, <1>16, <1>17, <1>18, <1>19, <1>20, <1>21, <1>22, <1>23, Steps

\* A thread changes players of its own game, or its game was abandoned.
LEMMA CrossStep ==
    ASSUME SessionInv, [Next]_vars
    PROVE  OwnPlayersOnly'
<1>1. ASSUME NEW t \in Table, StartGame(t) PROVE OwnPlayersOnly'
  BY <1>1 DEF StartGame, historyVars, SessionInv, OwnPlayersOnly
<1>2. ASSUME NEW g \in Game, BeginTurn(g) PROVE OwnPlayersOnly'
  BY <1>2 DEF BeginTurn, Crash, OnlyThread, historyVars, SessionInv, OwnPlayersOnly
<1>3. ASSUME NEW g \in Game, Break(g) PROVE OwnPlayersOnly'
  BY <1>3 DEF Break, OnlyThread, historyVars, SessionInv, OwnPlayersOnly
<1>4. ASSUME NEW g \in Game, Chooses(g) PROVE OwnPlayersOnly'
  BY <1>4 DEF Chooses, OnlyThread, historyVars, SessionInv, OwnPlayersOnly
<1>5. ASSUME NEW g \in Game, UserMoves(g) PROVE OwnPlayersOnly'
  BY <1>5 DEF UserMoves, OnlyThread, historyVars, SessionInv, OwnPlayersOnly
<1>6. ASSUME NEW g \in Game, Announce(g) PROVE OwnPlayersOnly'
  BY <1>6 DEF Announce, historyVars, SessionInv, OwnPlayersOnly
<1>7. ASSUME NEW g \in Game, AskNext(g) PROVE OwnPlayersOnly'
  BY <1>7 DEF AskNext, Crash, OnlyThread, historyVars, SessionInv, OwnPlayersOnly
<1>8. ASSUME NEW g \in Game, UserAllows(g) PROVE OwnPlayersOnly'
  BY <1>8 DEF UserAllows, OnlyThread, historyVars, SessionInv, OwnPlayersOnly
<1>9. ASSUME NEW g \in Game, UserChallenges(g) PROVE OwnPlayersOnly'
  BY <1>9 DEF UserChallenges, OnlyThread, historyVars, SessionInv, OwnPlayersOnly
<1>10. ASSUME NEW g \in Game, AskingDone(g) PROVE OwnPlayersOnly'
  BY <1>10 DEF AskingDone, OnlyThread, historyVars, SessionInv, OwnPlayersOnly
<1>11. ASSUME NEW g \in Game, ClaimProved(g) PROVE OwnPlayersOnly'
  <2>1. g \notin abandoned => \A p \in {thread[g].objector} : p.game = g
    BY <1>11 DEF ClaimProved, At, SessionInv, Apart, ApartInv, Mine, InMove
  <2>2. Touch(g, {thread[g].objector}) /\ UNCHANGED abandoned
    BY <1>11 DEF ClaimProved, OnlyPlayers
  <2> QED
    BY <2>1, <2>2 DEF Touch, SessionInv, OwnPlayersOnly
<1>12. ASSUME NEW g \in Game, BluffCalled(g) PROVE OwnPlayersOnly'
  <2>1. g \notin abandoned => \A p \in {thread[g].mover} : p.game = g
    BY <1>12 DEF BluffCalled, At, SessionInv, Apart, ApartInv, Mine, InMove
  <2>2. Touch(g, {thread[g].mover}) /\ UNCHANGED abandoned
    BY <1>12 DEF BluffCalled, OnlyPlayers
  <2> QED
    BY <2>1, <2>2 DEF Touch, SessionInv, OwnPlayersOnly
<1>13. ASSUME NEW g \in Game, Act(g) PROVE OwnPlayersOnly'
  <2>1. g \notin abandoned => \A p \in {thread[g].mover, thread[g].victim} : p.game = g
    BY <1>13 DEF Act, At, SessionInv, Apart, ApartInv, Mine, InMove
  <2>2. Touch(g, {thread[g].mover, thread[g].victim}) /\ UNCHANGED abandoned
    BY <1>13 DEF Act, OnlyPlayers
  <2> QED
    BY <2>1, <2>2 DEF Touch, SessionInv, OwnPlayersOnly
<1>14. ASSUME NEW g \in Game, AskExchange(g) PROVE OwnPlayersOnly'
  BY <1>14 DEF AskExchange, historyVars, SessionInv, OwnPlayersOnly
<1>15. ASSUME NEW g \in Game, CloseDialog(g) PROVE OwnPlayersOnly'
  BY <1>15 DEF CloseDialog, historyVars, SessionInv, OwnPlayersOnly
<1>16. ASSUME NEW g \in Game, EndTurn(g) PROVE OwnPlayersOnly'
  BY <1>16 DEF EndTurn, historyVars, SessionInv, OwnPlayersOnly
<1>17. ASSUME NEW g \in Game, LeaveLoop(g) PROVE OwnPlayersOnly'
  BY <1>17 DEF LeaveLoop, historyVars, SessionInv, OwnPlayersOnly
<1>18. CASE EndGame
  BY <1>18 DEF EndGame, SessionInv, OwnPlayersOnly
<1>19. CASE OpenSheet
  BY <1>19 DEF OpenSheet, historyVars, SessionInv, OwnPlayersOnly
<1>20. CASE CloseSheet
  BY <1>20 DEF CloseSheet, historyVars, SessionInv, OwnPlayersOnly
<1>21. CASE Appear
  BY <1>21 DEF Appear, historyVars, SessionInv, OwnPlayersOnly
<1>22. CASE PlayAgain
  BY <1>22 DEF PlayAgain, historyVars, SessionInv, OwnPlayersOnly
<1>23. CASE UNCHANGED vars
  BY <1>23 DEF vars, historyVars, SessionInv, OwnPlayersOnly
<1> QED
  BY <1>1, <1>2, <1>3, <1>4, <1>5, <1>6, <1>7, <1>8, <1>9, <1>10, <1>11, <1>12, <1>13, <1>14, <1>15, <1>16, <1>17, <1>18, <1>19, <1>20, <1>21, <1>22, <1>23, Steps

\* The index of a thread is good, or its game was abandoned.
LEMMA CrashStep ==
    ASSUME SessionInv, [Next]_vars
    PROVE  CrashOnlyIfAbandoned'
<1>1. ASSUME NEW t \in Table, StartGame(t) PROVE CrashOnlyIfAbandoned'
  BY <1>1 DEF StartGame, historyVars, SessionInv, CrashOnlyIfAbandoned
<1>2. ASSUME NEW g \in Game, BeginTurn(g) PROVE CrashOnlyIfAbandoned'
  <2>1. CASE ~Crash
    BY <2>1, <1>2 DEF BeginTurn, OnlyThread, historyVars, SessionInv, CrashOnlyIfAbandoned
  <2>2. CASE Crash
    <3>1. thread[g].place = "top" /\ UNCHANGED abandoned
      BY <2>2, <1>2 DEF BeginTurn, At, Crash, historyVars
    <3>2. thread[g].turn >= NP \/ OnlyThread
      BY <1>2 DEF BeginTurn
    <3>3. g \notin abandoned => thread[g].turn < NP
      BY <1>2, <3>1, Present DEF Resting, BeginTurn
    <3>4. thread[g].turn \in Nat /\ NP \in Nat
      <4>1. thread[g] \in Thread /\ game \in Nat \ {0}
        BY <3>1, Begun DEF SessionInv, TypeInv
      <4> QED
        BY <4>1, SeatFacts, SessionAssumption DEF SessionInv, TypeInv, Thread
    <3>5. abandoned # {} \/ OnlyThread
      BY <3>2, <3>3, <3>4
    <3>6. OnlyThread => crashed' = crashed
      BY DEF OnlyThread
    <3> QED
      BY <3>1, <3>5, <3>6 DEF SessionInv, CrashOnlyIfAbandoned
  <2> QED
    BY <2>1, <2>2
<1>3. ASSUME NEW g \in Game, Break(g) PROVE CrashOnlyIfAbandoned'
  BY <1>3 DEF Break, OnlyThread, historyVars, SessionInv, CrashOnlyIfAbandoned
<1>4. ASSUME NEW g \in Game, Chooses(g) PROVE CrashOnlyIfAbandoned'
  BY <1>4 DEF Chooses, OnlyThread, historyVars, SessionInv, CrashOnlyIfAbandoned
<1>5. ASSUME NEW g \in Game, UserMoves(g) PROVE CrashOnlyIfAbandoned'
  BY <1>5 DEF UserMoves, OnlyThread, historyVars, SessionInv, CrashOnlyIfAbandoned
<1>6. ASSUME NEW g \in Game, Announce(g) PROVE CrashOnlyIfAbandoned'
  BY <1>6 DEF Announce, historyVars, SessionInv, CrashOnlyIfAbandoned
<1>7. ASSUME NEW g \in Game, AskNext(g) PROVE CrashOnlyIfAbandoned'
  <2>1. CASE ~Crash
    BY <2>1, <1>7 DEF AskNext, OnlyThread, historyVars, SessionInv, CrashOnlyIfAbandoned
  <2>2. CASE Crash
    <3>1. thread[g].place = "ask" /\ UNCHANGED abandoned
      BY <2>2, <1>7 DEF AskNext, At, Crash, historyVars
    <3>2. thread[g].turn >= NP \/ OnlyThread
      BY <1>7 DEF AskNext
    <3>3. g \notin abandoned => thread[g].turn < NP
      BY <3>1, Present DEF Resting
    <3>4. thread[g].turn \in Nat /\ NP \in Nat
      <4>1. thread[g] \in Thread /\ game \in Nat \ {0}
        BY <3>1, Begun DEF SessionInv, TypeInv
      <4> QED
        BY <4>1, SeatFacts, SessionAssumption DEF SessionInv, TypeInv, Thread
    <3>5. abandoned # {} \/ OnlyThread
      BY <3>2, <3>3, <3>4
    <3>6. OnlyThread => crashed' = crashed
      BY DEF OnlyThread
    <3> QED
      BY <3>1, <3>5, <3>6 DEF SessionInv, CrashOnlyIfAbandoned
  <2> QED
    BY <2>1, <2>2
<1>8. ASSUME NEW g \in Game, UserAllows(g) PROVE CrashOnlyIfAbandoned'
  BY <1>8 DEF UserAllows, OnlyThread, historyVars, SessionInv, CrashOnlyIfAbandoned
<1>9. ASSUME NEW g \in Game, UserChallenges(g) PROVE CrashOnlyIfAbandoned'
  BY <1>9 DEF UserChallenges, OnlyThread, historyVars, SessionInv, CrashOnlyIfAbandoned
<1>10. ASSUME NEW g \in Game, AskingDone(g) PROVE CrashOnlyIfAbandoned'
  BY <1>10 DEF AskingDone, OnlyThread, historyVars, SessionInv, CrashOnlyIfAbandoned
<1>11. ASSUME NEW g \in Game, ClaimProved(g) PROVE CrashOnlyIfAbandoned'
  BY <1>11 DEF ClaimProved, OnlyPlayers, historyVars, SessionInv, CrashOnlyIfAbandoned
<1>12. ASSUME NEW g \in Game, BluffCalled(g) PROVE CrashOnlyIfAbandoned'
  BY <1>12 DEF BluffCalled, OnlyPlayers, historyVars, SessionInv, CrashOnlyIfAbandoned
<1>13. ASSUME NEW g \in Game, Act(g) PROVE CrashOnlyIfAbandoned'
  BY <1>13 DEF Act, OnlyPlayers, historyVars, SessionInv, CrashOnlyIfAbandoned
<1>14. ASSUME NEW g \in Game, AskExchange(g) PROVE CrashOnlyIfAbandoned'
  BY <1>14 DEF AskExchange, historyVars, SessionInv, CrashOnlyIfAbandoned
<1>15. ASSUME NEW g \in Game, CloseDialog(g) PROVE CrashOnlyIfAbandoned'
  BY <1>15 DEF CloseDialog, historyVars, SessionInv, CrashOnlyIfAbandoned
<1>16. ASSUME NEW g \in Game, EndTurn(g) PROVE CrashOnlyIfAbandoned'
  BY <1>16 DEF EndTurn, historyVars, SessionInv, CrashOnlyIfAbandoned
<1>17. ASSUME NEW g \in Game, LeaveLoop(g) PROVE CrashOnlyIfAbandoned'
  BY <1>17 DEF LeaveLoop, historyVars, SessionInv, CrashOnlyIfAbandoned
<1>18. CASE EndGame
  BY <1>18 DEF EndGame, SessionInv, CrashOnlyIfAbandoned
<1>19. CASE OpenSheet
  BY <1>19 DEF OpenSheet, historyVars, SessionInv, CrashOnlyIfAbandoned
<1>20. CASE CloseSheet
  BY <1>20 DEF CloseSheet, historyVars, SessionInv, CrashOnlyIfAbandoned
<1>21. CASE Appear
  BY <1>21 DEF Appear, historyVars, SessionInv, CrashOnlyIfAbandoned
<1>22. CASE PlayAgain
  BY <1>22 DEF PlayAgain, historyVars, SessionInv, CrashOnlyIfAbandoned
<1>23. CASE UNCHANGED vars
  BY <1>23 DEF vars, historyVars, SessionInv, CrashOnlyIfAbandoned
<1> QED
  BY <1>1, <1>2, <1>3, <1>4, <1>5, <1>6, <1>7, <1>8, <1>9, <1>10, <1>11, <1>12, <1>13, <1>14, <1>15, <1>16, <1>17, <1>18, <1>19, <1>20, <1>21, <1>22, <1>23, Steps

LEMMA SessionInit == Init => SessionInv
<1> SUFFICES ASSUME Init PROVE SessionInv
  OBVIOUS
<1>1. game = 0
  BY DEF Init, game
<1>2. ASSUME NEW g \in Game PROVE ApartInv(g)
  <2>1. thread[g].place = "none" /\ gameOn[g] /\ g \in Nat \ {0}
    <3>1. thread[g] = NewThread /\ gameOn = [h \in Game |-> TRUE]
      BY DEF Init
    <3> QED
      BY <3>1, SessionAssumption DEF NewThread, Game
  <2> QED
    BY <1>1, <2>1 DEF ApartInv, Mine, InMove
<1>3. crossed = {} /\ ~crashed
  BY DEF Init
<1> QED
  BY <1>2, <1>3, TypeInit DEF SessionInv, Apart, OwnPlayersOnly, CrashOnlyIfAbandoned

LEMMA SessionStep == SessionInv /\ [Next]_vars => SessionInv'
<1> SUFFICES ASSUME SessionInv, [Next]_vars PROVE SessionInv'
  OBVIOUS
<1>1. TypeInv'
  BY RestStep, ThreadStep DEF SessionInv, TypeInv
<1> QED
  BY <1>1, ApartStep, CrossStep, CrashStep DEF SessionInv

\* Only the thread of a game that was ended in the middle of a turn changes
\* players of another game.
THEOREM GamesApart == Spec => []OwnPlayersOnly
<1>1. SessionInv => OwnPlayersOnly
  BY DEF SessionInv
<1> QED
  BY <1>1, SessionInit, SessionStep, PTL DEF Spec

\* Nor does any other thread of GameSession index past the end of the global
\* players, at the head of a turn or after an AI's "allow".
THEOREM CrashesAbandoned == Spec => []CrashOnlyIfAbandoned
<1>1. SessionInv => CrashOnlyIfAbandoned
  BY DEF SessionInv
<1> QED
  BY <1>1, SessionInit, SessionStep, PTL DEF Spec

-----------------------------------------------------------------------------
(***************************************************************************)
(* What a game announces, and what it tells the user in the end.           *)
(***************************************************************************)

\* Where the move of a thread is looked up at the end of moveLog.
Logged == {"ask", "wait", "prove", "act"}

\* A move is announced by Announce alone; the other steps leave the log alone,
\* and none leads to a new move once the game has ended.
Quiet(g) ==
    /\ abandoned \subseteq abandoned'
    /\ gameOn'[g] => gameOn[g]
    /\ thread'[g].place \in {"choose", "draw", "say"} =>
          thread[g].place \in {"choose", "draw", "say"} \/ gameOn[g]
    /\ thread'[g].place \in Logged => thread[g].place \in Logged
    /\ UNCHANGED <<logger, extra>>

LEMMA LogStep ==
    ASSUME SessionInv, [Next]_vars, NEW g \in Game
    PROVE  Quiet(g) \/ \E h \in Game : Announce(h)
<1>0. thread \in [Game -> Thread] /\ gameOn \in [Game -> BOOLEAN]
  BY DEF SessionInv, TypeInv, ThreadInv, RestOK
<1>1. ASSUME NEW t \in Table, StartGame(t) PROVE Quiet(g)
  BY <1>0, <1>1 DEF StartGame, Quiet, Logged, Thread, historyVars
<1>2. ASSUME NEW h \in Game, BeginTurn(h) PROVE Quiet(g)
  BY <1>0, <1>2 DEF BeginTurn, At, Crash, OnlyThread, GoTo, Quiet, Logged, Thread, historyVars
<1>3. ASSUME NEW h \in Game, Break(h) PROVE Quiet(g)
  BY <1>0, <1>3 DEF Break, At, GoTo, OnlyThread, Quiet, Logged, Thread, historyVars
<1>4. ASSUME NEW h \in Game, Chooses(h) PROVE Quiet(g)
  BY <1>0, <1>4 DEF Chooses, At, OnlyThread, Quiet, Logged, Thread, historyVars
<1>5. ASSUME NEW h \in Game, UserMoves(h) PROVE Quiet(g)
  BY <1>0, <1>5 DEF UserMoves, At, OnlyThread, Quiet, Logged, Thread, historyVars
<1>6. ASSUME NEW h \in Game, Announce(h) PROVE \E k \in Game : Announce(k)
  BY <1>6
<1>7. ASSUME NEW h \in Game, AskNext(h) PROVE Quiet(g)
  BY <1>0, <1>7 DEF AskNext, At, Crash, OnlyThread, GoTo, Quiet, Logged, Thread, historyVars
<1>8. ASSUME NEW h \in Game, UserAllows(h) PROVE Quiet(g)
  BY <1>0, <1>8 DEF UserAllows, At, OnlyThread, Quiet, Logged, Thread, historyVars
<1>9. ASSUME NEW h \in Game, UserChallenges(h) PROVE Quiet(g)
  BY <1>0, <1>9 DEF UserChallenges, At, OnlyThread, Quiet, Logged, Thread, historyVars
<1>10. ASSUME NEW h \in Game, AskingDone(h) PROVE Quiet(g)
  BY <1>0, <1>10 DEF AskingDone, At, OnlyThread, Rest, NewThread, Quiet, Logged, Thread, historyVars
<1>11. ASSUME NEW h \in Game, ClaimProved(h) PROVE Quiet(g)
  BY <1>0, <1>11 DEF ClaimProved, At, OnlyPlayers, Touch, Reveal, Quiet, Logged, Thread, historyVars
<1>12. ASSUME NEW h \in Game, BluffCalled(h) PROVE Quiet(g)
  BY <1>0, <1>12 DEF BluffCalled, At, OnlyPlayers, Touch, Reveal, Rest, NewThread, Quiet, Logged, Thread, historyVars
<1>13. ASSUME NEW h \in Game, Act(h) PROVE Quiet(g)
  BY <1>0, <1>13 DEF Act, At, OnlyPlayers, Touch, Reveal, Rest, NewThread, Quiet, Logged, Thread, historyVars
<1>14. ASSUME NEW h \in Game, AskExchange(h) PROVE Quiet(g)
  <2>1. UNCHANGED <<logger, extra, abandoned, gameOn>>
    BY <1>14 DEF AskExchange, historyVars
  <2>2. thread'[g] = thread[g] \/ thread'[g].place \in {"dialog", "stuck"}
    BY <1>0, <1>14 DEF AskExchange, Rest, NewThread
  <2> QED
    BY <2>1, <2>2 DEF Quiet, Logged
<1>15. ASSUME NEW h \in Game, CloseDialog(h) PROVE Quiet(g)
  BY <1>0, <1>15 DEF CloseDialog, At, GoTo, Quiet, Logged, Thread, historyVars
<1>16. ASSUME NEW h \in Game, EndTurn(h) PROVE Quiet(g)
  <2>1. thread[h].place = "check" /\ UNCHANGED <<logger, extra, abandoned>>
    BY <1>16 DEF EndTurn, At
  <2>2. thread' = [thread EXCEPT ![h].place = "top", ![h].turn = NextTurn(h)]
    BY <1>16 DEF EndTurn
  <2>3. gameOn' = gameOn \/ gameOn' = [gameOn EXCEPT ![h] = FALSE]
    <3>1. CASE Ends(h)
      BY <3>1 DEF Ends, GameOver, LastScreen
    <3>2. CASE PlaysOn(h)
      BY <3>2 DEF PlaysOn
    <3> QED
      BY <1>16, <3>1, <3>2, TurnEnds
  <2>4. thread'[g] = thread[g] \/ thread'[g].place = "top"
    BY <1>0, <2>2 DEF Thread
  <2> QED
    BY <1>0, <2>1, <2>3, <2>4 DEF Quiet, Logged
<1>17. ASSUME NEW h \in Game, LeaveLoop(h) PROVE Quiet(g)
  BY <1>0, <1>17 DEF LeaveLoop, At, LastScreen, NewThread, Quiet, Logged, Thread, historyVars
<1>18. CASE EndGame
  BY <1>0, <1>18 DEF EndGame, LastScreen, Quiet, Logged, Thread, historyVars
<1>19. CASE OpenSheet
  BY <1>0, <1>19 DEF OpenSheet, Quiet, Logged, Thread, historyVars
<1>20. CASE CloseSheet
  BY <1>0, <1>20 DEF CloseSheet, Quiet, Logged, Thread, historyVars
<1>21. CASE Appear
  BY <1>0, <1>21 DEF Appear, Quiet, Logged, Thread, historyVars
<1>22. CASE PlayAgain
  BY <1>0, <1>22 DEF PlayAgain, Quiet, Logged, Thread, historyVars
<1>23. CASE UNCHANGED vars
  BY <1>23 DEF vars, historyVars, Quiet
<1> QED
  BY <1>1, <1>2, <1>3, <1>4, <1>5, <1>6, <1>7, <1>8, <1>9, <1>10, <1>11, <1>12, <1>13, <1>14, <1>15, <1>16, <1>17, <1>18, <1>19, <1>20, <1>21, <1>22, <1>23, Steps

\* A thread in a move whose game was not abandoned is the one that has announced
\* its move last; a game that has ended and announced a move has no other one.
AnnouncedInv(g) ==
    /\ abandoned = {} /\ thread[g].place \in Logged => logger = g
    /\ extra[g] =< 1
    /\ gameOn[g] => extra[g] = 0
    /\ extra[g] = 1 => thread[g].place \notin {"choose", "draw", "say"}

LogInv == SessionInv /\ \A g \in Game : AnnouncedInv(g)

LEMMA LogInit == Init => LogInv
<1> SUFFICES ASSUME Init PROVE LogInv
  OBVIOUS
<1>1. ASSUME NEW g \in Game PROVE thread[g].place = "none" /\ extra[g] = 0
  <2>1. thread = [h \in Game |-> NewThread] /\ extra = [h \in Game |-> 0]
    BY DEF Init
  <2>2. thread[g] = NewThread /\ extra[g] = 0
    BY <2>1
  <2> QED
    BY <2>2 DEF NewThread
<1>2. ASSUME NEW g \in Game PROVE AnnouncedInv(g)
  BY <1>1 DEF AnnouncedInv, Logged
<1> QED
  BY <1>2, SessionInit DEF LogInv

LEMMA LogInvStep == LogInv /\ [Next]_vars => LogInv'
<1> SUFFICES ASSUME LogInv, [Next]_vars PROVE LogInv'
  OBVIOUS
<1>0. SessionInv /\ SessionInv' /\ extra \in [Game -> Nat] /\ thread \in [Game -> Thread]
  BY SessionStep DEF LogInv, SessionInv, TypeInv, RestOK, ThreadInv
<1>1. ASSUME NEW g \in Game, Quiet(g) PROVE AnnouncedInv(g)'
  BY <1>0, <1>1 DEF LogInv, AnnouncedInv, Quiet
<1>2. ASSUME NEW g \in Game, NEW h \in Game, Announce(h) PROVE AnnouncedInv(g)'
  <2>1. /\ thread[h].place = "say" /\ logger' = h /\ UNCHANGED <<gameOn, abandoned, table>>
        /\ extra' = [extra EXCEPT ![h] = IF gameOn[h] THEN 0 ELSE extra[h] + 1]
        /\ thread'[h].place \in {"ask", "act"}
        /\ g # h => thread'[g] = thread[g]
    BY <1>0, <1>2 DEF Announce, At, Thread
  <2>2. CASE g = h
    BY <1>0, <2>1, <2>2 DEF LogInv, AnnouncedInv
  <2>3. CASE g # h
    <3>1. ~(abandoned = {} /\ thread[g].place \in Logged)
      <4> SUFFICES ASSUME abandoned = {}, thread[g].place \in Logged PROVE FALSE
        OBVIOUS
      <4>1. g = game
        BY <1>0, Present DEF Logged, Resting
      <4>2. h = game
        BY <1>0, <2>1, Present DEF Resting
      <4> QED
        BY <2>3, <4>1, <4>2
    <3> QED
      BY <1>0, <2>1, <2>3, <3>1 DEF LogInv, AnnouncedInv
  <2> QED
    BY <2>2, <2>3
<1>3. ASSUME NEW g \in Game PROVE AnnouncedInv(g)'
  BY <1>0, <1>1, <1>2, LogStep
<1> QED
  BY <1>0, <1>3 DEF LogInv, Game

\* A game that has ended announces at most the move its thread was about to.
THEOREM AtMostOneMore == Spec => []OneMoveMore
<1>1. LogInv => OneMoveMore
  BY DEF LogInv, AnnouncedInv, OneMoveMore
<1> QED
  BY <1>1, LogInit, LogInvStep, PTL DEF Spec

\* As long as no game is ended in the middle of a turn, the last entry of moveLog
\* is the move that is asked about and carried out.
THEOREM LogIsOfTheMove == Spec => []LogEndsWithMove
<1>1. LogInv => LogEndsWithMove
  <2> SUFFICES ASSUME LogInv PROVE LogEndsWithMove
    OBVIOUS
  <2>1. game \in Nat /\ game =< MaxGames /\ 1 .. game \subseteq Game
    BY SessionAssumption DEF LogInv, SessionInv, TypeInv, RestOK, game, Game
  <2> QED
    BY <2>1 DEF LogInv, AnnouncedInv, LogEndsWithMove, Logged
<1> QED
  BY <1>1, LogInit, LogInvStep, PTL DEF Spec

-----------------------------------------------------------------------------
\* Steps between which the last screen tells the same.
StillScreens ==
    UNCHANGED <<screen, shown, status, lastStatus, table, behind, abandoned>>

LEMMA ScreenStep ==
    ASSUME [Next]_vars
    PROVE  \/ StillScreens \/ EndGame \/ Appear \/ PlayAgain
           \/ \E t \in Table : StartGame(t)
           \/ \E g \in Game : (EndTurn(g) /\ Ends(g)) \/ LeaveLoop(g)
<1>1. ASSUME NEW g \in Game,
             \/ BeginTurn(g) \/ Break(g) \/ Chooses(g) \/ UserMoves(g) \/ AskNext(g)
             \/ UserAllows(g) \/ UserChallenges(g) \/ AskingDone(g)
      PROVE  StillScreens
  BY <1>1 DEF BeginTurn, Break, Chooses, UserMoves, AskNext, UserAllows, UserChallenges,
              AskingDone, Crash, OnlyThread, StillScreens, uiVars, historyVars
<1>2. ASSUME NEW g \in Game, Announce(g) \/ ClaimProved(g) \/ BluffCalled(g) \/ Act(g)
      PROVE  StillScreens
  BY <1>2 DEF Announce, ClaimProved, BluffCalled, Act, OnlyPlayers, StillScreens, uiVars
<1>3. ASSUME NEW g \in Game, AskExchange(g) \/ CloseDialog(g) PROVE StillScreens
  BY <1>3 DEF AskExchange, CloseDialog, StillScreens, historyVars
<1>4. ASSUME NEW g \in Game, EndTurn(g), PlaysOn(g) PROVE StillScreens
  BY <1>4 DEF EndTurn, PlaysOn, StillScreens
<1>5. CASE OpenSheet \/ CloseSheet
  BY <1>5 DEF OpenSheet, CloseSheet, StillScreens, historyVars
<1>6. CASE UNCHANGED vars
  BY <1>6 DEF vars, uiVars, historyVars, StillScreens
<1> QED
  BY <1>1, <1>2, <1>3, <1>4, <1>5, <1>6, Steps, TurnEnds

\* On the last screen the field has the verdict of the present game, unless a
\* thread of an earlier one has written to it.
ShownInv ==
    /\ screen # "ends" => shown = "nothing"
    /\ screen = "ends" /\ behind = {} /\ game \notin abandoned =>
          lastStatus = status[game] /\ shown \in {"nothing", status[game]}

LEMMA ShownStep ==
    ASSUME SessionInv, ShownInv, [Next]_vars
    PROVE  ShownInv'
<1>1. CASE StillScreens
  BY <1>1 DEF StillScreens, ShownInv, game
<1>2. CASE EndGame
  <2>1. /\ screen = "game" /\ lastStatus' = status[game] /\ screen' \in {"game", "ends"}
        /\ UNCHANGED <<shown, status, table>>
    BY <1>2 DEF EndGame, LastScreen, UserSees
  <2> QED
    BY <2>1 DEF ShownInv, game
<1>3. CASE Appear
  BY <1>3 DEF Appear, ShownInv, game, historyVars
<1>4. CASE PlayAgain
  BY <1>4 DEF PlayAgain, ShownInv
<1>5. ASSUME NEW t \in Table, StartGame(t) PROVE ShownInv'
  BY <1>5 DEF StartGame, ShownInv
<1>6. ASSUME NEW g \in Game, LeaveLoop(g) PROVE ShownInv'
  <2>1. g \in 1 .. game /\ game \in Nat
    BY <1>6, Begun DEF LeaveLoop, At, SessionInv, TypeInv
  <2>2. /\ UNCHANGED <<shown, status, table, abandoned>> /\ lastStatus' = status[g]
        /\ behind' = {} => behind = {} /\ ~(g < game)
        /\ screen' \in {screen, "ends"}
    BY <1>6 DEF LeaveLoop, LastScreen
  <2>3. behind' = {} => g = game
    BY <2>1, <2>2
  <2> QED
    BY <2>2, <2>3 DEF ShownInv, game
<1>7. ASSUME NEW g \in Game, EndTurn(g), Ends(g) PROVE ShownInv'
  <2>1. g \in 1 .. game /\ game \in Nat
    BY <1>7, Begun DEF EndTurn, At, SessionInv, TypeInv
  <2>2. PICK v : status' = [status EXCEPT ![g] = v] /\ LastScreen(g, v)
    BY <1>7 DEF Ends, GameOver
  <2>3. UNCHANGED <<shown, table, abandoned>> /\ thread[g].place = "check"
    BY <1>7 DEF EndTurn, At
  <2>4. /\ lastStatus' = v /\ screen' \in {screen, "ends"}
        /\ behind' = {} => behind = {} /\ ~(g < game)
    BY <2>2 DEF LastScreen
  <2>5. behind' = {} => g = game
    BY <2>1, <2>4
  <2>6. g = game /\ g \notin abandoned => screen = "game"
    <3> SUFFICES ASSUME g = game, g \notin abandoned PROVE screen = "game"
      OBVIOUS
    <3>1. gameOn[g]
      BY <2>3, Present DEF Resting
    <3> QED
      BY <3>1 DEF SessionInv, Apart, ApartInv
  <2>7. g = game => status'[game] = v
    BY <2>2 DEF SessionInv, TypeInv, RestOK
  <2> QED
    BY <2>3, <2>4, <2>5, <2>6, <2>7 DEF ShownInv, game
<1> QED
  BY <1>1, <1>2, <1>3, <1>4, <1>5, <1>6, <1>7, ScreenStep

\* The last screen shows the verdict of its game, unless an earlier one has
\* written to the shared field or the user ended the game in mid-turn.
THEOREM VerdictsOwn == Spec => []VerdictIsOwn
<1>1. Init => SessionInv /\ ShownInv
  BY SessionInit DEF Init, ShownInv
<1>2. SessionInv /\ ShownInv /\ [Next]_vars => (SessionInv /\ ShownInv)'
  BY SessionStep, ShownStep
<1>3. ShownInv => VerdictIsOwn
  BY DEF ShownInv, VerdictIsOwn
<1> QED
  BY <1>1, <1>2, <1>3, PTL DEF Spec

-----------------------------------------------------------------------------
\* What the verdict of game g says of its players.
Told(g) ==
    /\ status[g] = "You Won" =>
          Me(g) \notin out
          /\ \A i \in 2 .. Len(table[g]) : [game |-> g, name |-> table[g][i]] \in out
    /\ status[g] = "You Lose" => Me(g) \in out

\* A verdict ends its game, and is true.
StatusInv(g) ==
    /\ g > game => status[g] = "You Lost"
    /\ status[g] # "You Lost" => ~gameOn[g]
    /\ g =< game /\ g \notin abandoned /\ crossed = {} => Told(g)

\* Nobody touches the players of a game that is over, as long as no thread
\* changes players of another game.
Kept(g) ==
    /\ abandoned \subseteq abandoned' /\ crossed \subseteq crossed'
    /\ gameOn'[g] => gameOn[g]
    /\ status'[g] = status[g]
    /\ game =< game'
    /\ g =< game => table'[g] = table[g]
    /\ crossed' = {} /\ g \notin abandoned /\ ~gameOn[g] =>
          out \subseteq out' /\ \A p \in out' : p \in out \/ p.game # g

\* A step of a thread that changes players, of other games than g.
LEMMA OutStep ==
    ASSUME SessionInv, NEW g \in Game, NEW h \in Game, NEW p,
           thread[h].place \in {"prove", "act"}, Touch(h, {p}),
           Reveal(p)
    PROVE  /\ crossed \subseteq crossed'
           /\ crossed' = {} /\ g \notin abandoned /\ ~gameOn[g] =>
                 out \subseteq out' /\ \A q \in out' : q \in out \/ q.game # g
<1>1. crossed \subseteq crossed' /\ (crossed' = {} => p.game = h)
  BY DEF Touch
<1>2. out \subseteq out' /\ \A q \in out' : q \in out \/ q = p
  BY DEF Reveal
<1>3. g \notin abandoned /\ ~gameOn[g] => h # g
  BY DEF SessionInv, Apart, ApartInv, Resting
<1> QED
  BY <1>1, <1>2, <1>3

LEMMA StatusStep ==
    ASSUME SessionInv, [Next]_vars, NEW g \in Game
    PROVE  Kept(g) \/ (EndTurn(g) /\ Ends(g))
<1>0. /\ table \in Seq(Table) /\ game \in Nat /\ gameOn \in [Game -> BOOLEAN]
      /\ status \in [Game -> Verdict] /\ g \in Nat \ {0}
  BY SessionAssumption DEF SessionInv, TypeInv, RestOK, game, Game
<1>1. ASSUME UNCHANGED <<abandoned, crossed, gameOn, status, table, out>> PROVE Kept(g)
  BY <1>0, <1>1 DEF Kept, game
<1>2. ASSUME NEW h \in Game,
             \/ BeginTurn(h) \/ Break(h) \/ Chooses(h) \/ UserMoves(h) \/ AskNext(h)
             \/ UserAllows(h) \/ UserChallenges(h) \/ AskingDone(h)
      PROVE  Kept(g)
  BY <1>1, <1>2 DEF BeginTurn, Break, Chooses, UserMoves, AskNext, UserAllows,
        UserChallenges, AskingDone, Crash, OnlyThread, historyVars
<1>3. ASSUME NEW h \in Game, Announce(h) \/ AskExchange(h) \/ CloseDialog(h) PROVE Kept(g)
  BY <1>1, <1>3 DEF Announce, AskExchange, CloseDialog, historyVars
<1>4. ASSUME NEW h \in Game, ClaimProved(h) \/ BluffCalled(h) \/ Act(h) PROVE Kept(g)
  <2>1. UNCHANGED <<abandoned, gameOn, status, table>>
    BY <1>4 DEF ClaimProved, BluffCalled, Act, OnlyPlayers
  <2>2. CASE ClaimProved(h)
    BY <1>0, <2>1, <2>2, OutStep DEF ClaimProved, At, Kept, game
  <2>3. CASE BluffCalled(h)
    BY <1>0, <2>1, <2>3, OutStep DEF BluffCalled, At, Kept, game
  <2>4. CASE Act(h)
    <3> DEFINE p == thread[h].victim
    <3>1. thread[h].place = "act" /\ (out' = out \/ Reveal(p))
      BY <2>4 DEF Act, At
    <3>2. CASE Touch(h, {p})
      <4>1. /\ crossed \subseteq crossed'
            /\ crossed' = {} /\ g \notin abandoned /\ ~gameOn[g] =>
                  out \subseteq out' /\ \A q \in out' : q \in out \/ q.game # g
        <5>1. thread[h].place \in {"prove", "act"}
          BY <3>1
        <5>2. CASE Reveal(p)
          BY <5>1, <5>2, <3>2, OutStep
        <5>3. CASE out' = out
          BY <5>1, <5>3, <3>2 DEF Touch
        <5> QED
          BY <3>1, <5>2, <5>3
      <4> QED
        BY <1>0, <2>1, <4>1 DEF Kept, game
    <3>3. crossed' = {} => Touch(h, {p})
      BY <2>4 DEF Act, Touch
    <3>4. CASE crossed' # {}
      <4>1. crossed \subseteq crossed'
        BY <2>4 DEF Act, Touch
      <4> QED
        BY <1>0, <2>1, <3>4, <4>1 DEF Kept, game
    <3> QED
      BY <3>2, <3>3, <3>4
  <2> QED
    BY <1>4, <2>2, <2>3, <2>4
<1>5. ASSUME NEW h \in Game, EndTurn(h) PROVE Kept(g) \/ (EndTurn(g) /\ Ends(g))
  <2>1. UNCHANGED <<abandoned, crossed, table, out>>
    BY <1>5 DEF EndTurn
  <2>2. CASE PlaysOn(h)
    BY <1>1, <2>1, <2>2 DEF PlaysOn
  <2>3. CASE Ends(h) /\ h # g
    <3>1. PICK v : status' = [status EXCEPT ![h] = v] /\ LastScreen(h, v)
      BY <2>3 DEF Ends, GameOver
    <3>2. status'[g] = status[g] /\ gameOn'[g] = gameOn[g]
      BY <1>0, <2>3, <3>1 DEF LastScreen
    <3> QED
      BY <1>0, <2>1, <3>2 DEF Kept, game
  <2> QED
    BY <1>5, <2>2, <2>3, TurnEnds
<1>6. ASSUME NEW h \in Game, LeaveLoop(h) PROVE Kept(g)
  <2>1. /\ UNCHANGED <<abandoned, crossed, table, out, status>>
        /\ gameOn' = [gameOn EXCEPT ![h] = FALSE]
    BY <1>6 DEF LeaveLoop, LastScreen
  <2> QED
    BY <1>0, <2>1 DEF Kept, game
<1>7. CASE EndGame
  <2>1. /\ UNCHANGED <<crossed, table, out, status>> /\ abandoned \subseteq abandoned'
        /\ gameOn' = [gameOn EXCEPT ![game] = FALSE]
    BY <1>7 DEF EndGame, LastScreen
  <2> QED
    BY <1>0, <2>1 DEF Kept, game
<1>8. ASSUME NEW t \in Table, StartGame(t) PROVE Kept(g)
  <2>1. /\ UNCHANGED <<abandoned, crossed, gameOn, out, status>>
        /\ table' = Append(table, t)
    BY <1>8 DEF StartGame, historyVars
  <2>2. game' = game + 1 /\ (g =< game => table'[g] = table[g])
    BY <1>0, <2>1, AppendProperties DEF game
  <2>3. game =< game'
    BY <1>0, <2>2
  <2> QED
    BY <2>1, <2>2, <2>3 DEF Kept
<1>9. CASE OpenSheet \/ CloseSheet \/ Appear \/ PlayAgain
  BY <1>1, <1>9 DEF OpenSheet, CloseSheet, Appear, PlayAgain, historyVars
<1>10. CASE UNCHANGED vars
  BY <1>1, <1>10 DEF vars, historyVars
<1> QED
  BY <1>2, <1>3, <1>4, <1>5, <1>6, <1>7, <1>8, <1>9, <1>10, Steps

\* isGameOver counts right: if not the user, then all the AIs are out.
LEMMA DecidedIsTrue ==
    ASSUME RestOK, game > 0, Decided(game)
    PROVE  /\ Seat(0) = Me(game)
           /\ Me(game) \notin out => \A i \in 1 .. NP - 1 : Seat(i) \in out
<1>1. NP \in Nat /\ NP > 1
  BY SeatFacts, SessionAssumption
<1>2. Seat(0) = Me(game)
  <2>1. table[game] \in Table
    BY DEF RestOK, game
  <2>2. table[game][1] = UserName
    BY <2>1 DEF Table
  <2> QED
    BY <2>2 DEF Seat, Me
<1>3. ASSUME Me(game) \notin out PROVE \A i \in 1 .. NP - 1 : Seat(i) \in out
  <2> DEFINE Lost == {i \in 0 .. NP - 1 : Seat(i) \in out}
  <2>1. Cardinality(Lost) = NP - 1
    BY <1>3 DEF Decided
  <2>2. Lost \subseteq 1 .. NP - 1
    BY <1>1, <1>2, <1>3
  <2>3. IsFiniteSet(1 .. NP - 1) /\ Cardinality(1 .. NP - 1) = NP - 1
    BY <1>1, FS_Interval
  <2> HIDE DEF Lost
  <2>4. Lost = 1 .. NP - 1
    BY <2>1, <2>2, <2>3, FS_Subset
  <2> QED
    BY <2>4 DEF Lost
<1> QED
  BY <1>2, <1>3

TrueInv == SessionInv /\ \A g \in Game : StatusInv(g)

LEMMA TrueInit == Init => TrueInv
<1> SUFFICES ASSUME Init PROVE TrueInv
  OBVIOUS
<1>1. status = [g \in Game |-> "You Lost"]
  BY DEF Init
<1> QED
  BY <1>1, SessionInit DEF TrueInv, StatusInv, Told

LEMMA TrueStep == TrueInv /\ [Next]_vars => TrueInv'
<1> SUFFICES ASSUME TrueInv, [Next]_vars PROVE TrueInv'
  OBVIOUS
<1>0. SessionInv /\ SessionInv' /\ RestOK /\ game \in Nat /\ game' \in Nat
  BY SessionStep DEF TrueInv, SessionInv, TypeInv, RestOK, game
<1>1. ASSUME NEW g \in Game, Kept(g) PROVE StatusInv(g)'
  <2>1. g \in Nat /\ StatusInv(g)
    BY SessionAssumption DEF TrueInv, Game
  <2>2. game =< game' /\ status'[g] = status[g] /\ (gameOn'[g] => gameOn[g])
    BY <1>1 DEF Kept
  <2>3. g > game' => status'[g] = "You Lost"
    <3> SUFFICES ASSUME g > game' PROVE status'[g] = "You Lost"
      OBVIOUS
    <3>1. g > game
      BY <1>0, <2>1, <2>2
    <3> QED
      BY <2>1, <2>2, <3>1 DEF StatusInv
  <2>4. status'[g] # "You Lost" => ~gameOn'[g]
    BY <2>1, <2>2 DEF StatusInv
  <2>5. ASSUME g \notin abandoned', crossed' = {} PROVE Told(g)'
    <3>1. CASE status[g] = "You Lost"
      BY <2>2, <3>1 DEF Told
    <3>2. CASE status[g] # "You Lost"
      <4>1. g =< game /\ ~gameOn[g]
        <5>1. ~(g > game) /\ ~gameOn[g]
          BY <2>1, <3>2 DEF StatusInv
        <5> QED
          BY <1>0, <2>1, <5>1
      <4>2. g \notin abandoned /\ crossed = {} /\ table'[g] = table[g]
        BY <1>1, <2>5, <4>1 DEF Kept
      <4>3. out \subseteq out' /\ \A p \in out' : p \in out \/ p.game # g
        BY <1>1, <2>5, <4>1, <4>2 DEF Kept
      <4>4. Told(g)
        BY <2>1, <4>1, <4>2 DEF StatusInv
      <4>5. Me(g)' = Me(g) /\ Me(g).game = g
        BY DEF Me
      <4>6. Me(g) \in out' <=> Me(g) \in out
        BY <4>3, <4>5
      <4> QED
        BY <2>2, <4>2, <4>3, <4>4, <4>5, <4>6 DEF Told
    <3> QED
      BY <3>1, <3>2
  <2> QED
    BY <2>3, <2>4, <2>5 DEF StatusInv
<1>2. ASSUME NEW g \in Game, EndTurn(g), Ends(g) PROVE StatusInv(g)'
  <2> DEFINE v == IF Seat(0) \in out THEN "You Lose" ELSE "You Won"
  <2>1. /\ thread[g].place = "check" /\ UNCHANGED <<table, out, abandoned, crossed>>
        /\ status' = [status EXCEPT ![g] = v] /\ LastScreen(g, v)
    BY <1>2 DEF EndTurn, Ends, GameOver, At
  <2>2. g \in 1 .. game
    BY <1>0, <2>1, Begun DEF SessionInv, TypeInv
  <2>3. status'[g] = v /\ ~gameOn'[g] /\ game' = game
    BY <1>0, <2>1 DEF LastScreen, RestOK, game
  <2>4. ASSUME g \notin abandoned PROVE Told(g)'
    <3>1. g = game
      BY <1>0, <2>1, <2>4, Present DEF Resting
    <3>2. /\ Seat(0) = Me(g)
          /\ Me(g) \notin out => \A i \in 1 .. NP - 1 : Seat(i) \in out
      <4>1. game > 0 /\ Decided(game)
        BY <1>0, <1>2, <2>2, <3>1 DEF Ends
      <4> QED
        BY <1>0, <3>1, <4>1, DecidedIsTrue
    <3>3. NP = Len(table[g]) /\ NP \in Nat
      BY <1>0, <2>2, <3>1, SeatFacts, SessionAssumption DEF NP
    <3>4. ASSUME NEW i \in 2 .. Len(table[g])
          PROVE  Seat(i - 1) = [game |-> g, name |-> table[g][i]] /\ i - 1 \in 1 .. NP - 1
      BY <3>1, <3>3, <3>4 DEF Seat
    <3>5. Me(g) \notin out =>
             \A i \in 2 .. Len(table[g]) : [game |-> g, name |-> table[g][i]] \in out
      BY <3>2, <3>4
    <3>6. Me(g)' = Me(g)
      BY DEF Me
    <3>7. UNCHANGED <<table, out>>
      BY <2>1
    <3>8. CASE Me(g) \in out
      <4>1. status'[g] = "You Lose"
        BY <2>3, <3>2, <3>8
      <4> QED
        BY <3>6, <3>7, <3>8, <4>1 DEF Told
    <3>9. CASE Me(g) \notin out
      <4>1. status'[g] = "You Won"
        BY <2>3, <3>2, <3>9
      <4> QED
        BY <3>5, <3>6, <3>7, <3>9, <4>1 DEF Told
    <3> QED
      BY <3>8, <3>9
  <2>5. ~(g > game')
    <3>1. game' = game
      BY <2>1 DEF game
    <3> QED
      BY <1>0, <2>2, <3>1
  <2>6. g \notin abandoned' => Told(g)'
    BY <2>1, <2>4
  <2> QED
    BY <2>3, <2>5, <2>6 DEF StatusInv
<1>3. ASSUME NEW g \in Game PROVE StatusInv(g)'
  BY <1>0, <1>1, <1>2, StatusStep
<1> QED
  BY <1>0, <1>3 DEF TrueInv, Game

\* The verdict of a game that was not ended in the middle of a turn is true of its
\* players, as long as no thread has changed players of another game.
THEOREM VerdictsTrue == Spec => []StatusTrue
<1>1. TrueInv => StatusTrue
  <2> SUFFICES ASSUME TrueInv, NEW g \in 1 .. game, g \notin abandoned, crossed = {}
               PROVE  LET AIs == {[game |-> g, name |-> table[g][i]] :
                                      i \in 2 .. Len(table[g])}
                      IN /\ status[g] = "You Won"  => Me(g) \notin out /\ AIs \subseteq out
                         /\ status[g] = "You Lose" => Me(g) \in out
    BY DEF StatusTrue
  <2>1. g \in Game /\ g =< game
    BY SessionAssumption DEF TrueInv, SessionInv, TypeInv, RestOK, game, Game
  <2>2. Told(g)
    BY <2>1 DEF TrueInv, StatusInv
  <2> QED
    BY <2>2 DEF Told
<1> QED
  BY <1>1, TrueInit, TrueStep, PTL DEF Spec

-----------------------------------------------------------------------------
(***************************************************************************)
(* The games are those of Rounds.                                          *)
(***************************************************************************)

\* Who sits in chair i of game g with the table t, and the chairs of those who
\* are still in the game, when the players of o are out.
Chair(t) == 0 .. Len(t) - 1
Sits(g, t, i) == [game |-> g, name |-> t[i + 1]]
StillIn(g, t, o) == {i \in Chair(t) : Sits(g, t, i) \notin o}

\* The user and somebody else are in: the game is undecided.
Contest(g, t, o) == 0 \in StillIn(g, t, o) /\ StillIn(g, t, o) # {0}

Moving == {"choose", "draw", "say", "ask", "wait", "prove"}

\* The thread r of game g at its own table t, when the game is on or not: whoever
\* moves is the one whose turn it is, and in the game, which was undecided when
\* the turn began; the victim sits at the table; and as long as nobody has said
\* "allow", everybody to be asked is still to be asked.
TurnInv(g, t, o, r, on) ==
    LET others == StillIn(g, t, o) \ {r.turn} IN
    /\ r.place \in Moving \cup {"act"} => r.mover = Sits(g, t, r.turn)
    /\ r.place \in Moving => r.turn \in StillIn(g, t, o)
    /\ r.place \in Moving \/ (r.place \in {"top", "pause", "idle"} /\ on) => Contest(g, t, o)
    /\ r.place \in InMove => \E j \in Chair(t) : r.victim = Sits(g, t, j)
    /\ r.place = "top" /\ r.mover # NoPlayer =>
          r.mover = Sits(g, t, 0) /\ \E j \in Chair(t) : r.victim = Sits(g, t, j)
    /\ r.place \in {"ask", "wait"} => r.allowed \/ \A i \in others : i >= r.asked
    /\ r.place = "wait" => r.asked \in others
    /\ r.place = "prove" => \E i \in others : r.objector = Sits(g, t, i)

\* So it is with the present game, as long as no thread has come to the table of
\* another game.
RoundInv ==
    crossed = {} /\ game > 0 =>
        TurnInv(game, table[game], out, thread[game], gameOn[game])

\* A table seats everybody once, the user first.
LEMMA TableSeats ==
    ASSUME NEW t \in Table, NEW g
    PROVE  /\ Len(t) \in Nat /\ Len(t) >= 2 /\ Chair(t) = 0 .. Len(t) - 1
           /\ 0 \in Chair(t) /\ 1 \in Chair(t)
           /\ Sits(g, t, 0) = [game |-> g, name |-> UserName]
           /\ \A i, j \in Chair(t) : Sits(g, t, i).name = Sits(g, t, j).name => i = j
           /\ \A i \in Chair(t) : IsUser(Sits(g, t, i)) <=> i = 0
<1>1. t \in Seq(Name) /\ Len(t) \in 2 .. MaxSeats /\ DOMAIN t = 1 .. Len(t)
  BY TableFacts, LenProperties
<1>2. t[1] = UserName /\ \A i, j \in DOMAIN t : t[i] = t[j] => i = j
  BY DEF Table
<1>3. Len(t) \in Nat /\ Len(t) >= 2
  BY <1>1, SessionAssumption
<1>4. \A i \in Chair(t) : i \in Int /\ i + 1 \in 1 .. Len(t)
  BY <1>3 DEF Chair
<1>5. \A i, j \in Chair(t) : t[i + 1] = t[j + 1] => i = j
  <2> SUFFICES ASSUME NEW i \in Chair(t), NEW j \in Chair(t), t[i + 1] = t[j + 1]
               PROVE  i = j
    OBVIOUS
  <2>1. i + 1 = j + 1
    BY <1>1, <1>2, <1>4
  <2> QED
    BY <1>4, <2>1
<1>6. \A i \in Chair(t) : t[i + 1] = UserName <=> i = 0
  <2>1. 0 \in Chair(t) /\ t[0 + 1] = UserName
    BY <1>2, <1>3 DEF Chair
  <2> QED
    BY <1>5, <2>1
<1>7. 0 \in Chair(t) /\ 1 \in Chair(t)
  BY <1>3 DEF Chair
<1> QED
  BY <1>2, <1>3, <1>5, <1>6, <1>7 DEF Chair, Sits, IsUser

\* As long as a game is undecided, everybody in it has an opponent.
LEMMA HasOpponent ==
    ASSUME NEW g, NEW t, NEW o, Contest(g, t, o), NEW i
    PROVE  StillIn(g, t, o) \ {i} # {}
BY DEF Contest

\* If neither the players out nor the thread of the game changes, TurnInv stays.
LEMMA TurnStays ==
    ASSUME NEW g, NEW t, NEW o, NEW r, NEW on, TurnInv(g, t, o, r, on),
           NEW q, StillIn(g, t, q) = StillIn(g, t, o),
           NEW now, now => on
    PROVE  TurnInv(g, t, q, r, now)
BY DEF TurnInv, Contest

\* A player of chair j may be out, and nobody else.
LEMMA OneMayFall ==
    ASSUME NEW g, NEW t \in Table, NEW o, NEW j \in Chair(t), NEW q,
           q \in {o, o \cup {Sits(g, t, j)}}
    PROVE  StillIn(g, t, q) \in {StillIn(g, t, o), StillIn(g, t, o) \ {j}}
<1>1. \A i \in Chair(t) : Sits(g, t, i) = Sits(g, t, j) => i = j
  BY TableSeats
<1>2. CASE q = o
  BY <1>2
<1>3. CASE q = o \cup {Sits(g, t, j)}
  <2>1. StillIn(g, t, q) = StillIn(g, t, o) \ {j}
    BY <1>1, <1>3 DEF StillIn
  <2> QED
    BY <2>1
<1> QED
  BY <1>2, <1>3

\* The game being played, at its own table.
LEMMA Here ==
    ASSUME SessionInv, RoundInv, crossed = {}, NEW g \in Game, g = game
    PROVE  /\ game > 0 /\ table[g] \in Table /\ NP = Len(table[g])
           /\ \A i : Seat(i) = Sits(g, table[g], i)
           /\ \A i \in Chair(table[g]) :
                 i \in Nat /\ i < NP /\ ~(i >= NP) /\ (IsUser(Seat(i)) <=> i = 0)
           /\ Me(g) = Sits(g, table[g], 0)
           /\ thread \in [Game -> Thread] /\ thread[g] \in Thread
           /\ thread[g].turn \in Chair(table[g]) /\ thread[g].asked \in Nat
           /\ TurnInv(g, table[g], out, thread[g], gameOn[g])
<1>1. g \in Nat \ {0} /\ table \in Seq(Table) /\ RestOK
  BY DEF Game, SessionInv, TypeInv, RestOK
<1>2. game > 0 /\ table[g] \in Table
  BY <1>1 DEF game
<1>3. NP = Len(table[g]) /\ \A i : Seat(i) = Sits(g, table[g], i)
  BY DEF NP, Seat, Sits
<1>4. Me(g) = Sits(g, table[g], 0)
  BY <1>2, TableSeats DEF Me
<1>5. thread \in [Game -> Thread] /\ thread[g] \in Thread /\ Fits(thread[g], g)
  BY DEF SessionInv, TypeInv, ThreadInv
<1>6. thread[g].turn \in Nat /\ thread[g].asked \in Nat
  BY <1>5, SessionAssumption DEF Thread
<1>7. thread[g].turn \in Chair(table[g])
  BY <1>2, <1>3, <1>5, <1>6, TableSeats DEF Fits, Chair
<1>8. TurnInv(g, table[g], out, thread[g], gameOn[g])
  BY <1>2 DEF RoundInv
<1>9. ASSUME NEW i \in Chair(table[g])
      PROVE  i \in Nat /\ i < NP /\ ~(i >= NP) /\ (IsUser(Seat(i)) <=> i = 0)
  <2>1. Len(table[g]) \in Nat /\ i \in 0 .. Len(table[g]) - 1
    BY <1>2, TableSeats DEF Chair
  <2>2. i \in Nat /\ i < NP /\ ~(i >= NP)
    BY <1>3, <2>1
  <2>3. IsUser(Sits(g, table[g], i)) <=> i = 0
    BY <1>2, TableSeats
  <2> QED
    BY <1>3, <2>2, <2>3
<1> QED
  BY <1>2, <1>3, <1>4, <1>5, <1>6, <1>7, <1>8, <1>9

LEMMA StageValues ==
    /\ StageOf("top") = "rest" /\ StageOf("pause") = "rest" /\ StageOf("idle") = "rest"
    /\ StageOf("choose") = "turn" /\ StageOf("draw") = "turn" /\ StageOf("say") = "turn"
    /\ StageOf("ask") = "claimed" /\ StageOf("wait") = "claimed" /\ StageOf("prove") = "claimed"
    /\ StageOf("act") = "effect" /\ StageOf("dialog") = "effect" /\ StageOf("stuck") = "effect"
    /\ StageOf("check") = "end" /\ StageOf("over") = "over" /\ StageOf("none") = "rest"
BY DEF StageOf

\* The chairs as Rounds sees them.
LEMMA ChairsOf ==
    ASSUME NEW g
    PROVE  /\ Round(g)!Seats = Chair(table[g])
           /\ OutOf(g) = Chair(table[g]) \ StillIn(g, table[g], out)
           /\ OutOf(g)' = Chair(table'[g]) \ StillIn(g, table'[g], out')
           /\ \A p \in StillIn(g, table[g], out) \ {thread[g].turn} :
                 p \in Round(g)!Seats /\ Round(g)!Opponent(p)
<1>1. Round(g)!Seats = Chair(table[g])
  BY DEF Round!Seats, Chair
<1>2. OutOf(g) = Chair(table[g]) \ StillIn(g, table[g], out)
  BY DEF OutOf, Chair, StillIn, Sits
<1>3. OutOf(g)' = Chair(table'[g]) \ StillIn(g, table'[g], out')
  BY DEF OutOf, Chair, StillIn, Sits
<1>4. \A p \in StillIn(g, table[g], out) \ {thread[g].turn} :
         p \in Round(g)!Seats /\ Round(g)!Opponent(p)
  BY <1>1, <1>2 DEF Round!Opponent, StillIn
<1> QED
  BY <1>1, <1>2, <1>3, <1>4

\* A step that only takes a thread on in its turn.
LEMMA StageMoves ==
    ASSUME NEW g, UNCHANGED <<table, out, gameOn[g], status[g]>>,
           thread'[g].turn = thread[g].turn,
           NEW before, before = StageOf(thread[g].place),
           NEW after, after = StageOf(thread'[g].place)
    PROVE  /\ after = before => UNCHANGED Round(g)!vars
           /\ before = "rest" /\ gameOn[g] /\ thread[g].turn \in StillIn(g, table[g], out)
              /\ after \in {"turn", "claimed", "effect"} => Round(g)!Next
           /\ before = "turn" /\ after \in {"claimed", "effect"} => Round(g)!Next
           /\ before = "claimed" /\ after = "effect"
              /\ StillIn(g, table[g], out) \ {thread[g].turn} # {} => Round(g)!Next
<1>1. UNCHANGED <<Len(table[g]), OutOf(g), gameOn[g], status[g]>>
  BY DEF OutOf
<1>2. after = before => UNCHANGED Round(g)!vars
  BY <1>1 DEF Round!vars
<1>3. ASSUME before = "rest", gameOn[g], thread[g].turn \in StillIn(g, table[g], out),
             after \in {"turn", "claimed", "effect"}
      PROVE  Round(g)!Next
  <2>1. thread[g].turn \notin OutOf(g)
    BY <1>3, ChairsOf
  <2>2. Round(g)!Begin
    BY <1>1, <1>3, <2>1 DEF Round!Begin
  <2> QED
    BY <2>2 DEF Round!Next
<1>4. ASSUME before = "turn", after \in {"claimed", "effect"} PROVE Round(g)!Next
  <2>1. Round(g)!Say
    BY <1>1, <1>4 DEF Round!Say
  <2> QED
    BY <2>1 DEF Round!Next
<1>5. ASSUME before = "claimed", after = "effect",
             StillIn(g, table[g], out) \ {thread[g].turn} # {}
      PROVE  Round(g)!Next
  <2>1. \E p \in Round(g)!Seats : Round(g)!Opponent(p)
    BY <1>5, ChairsOf
  <2>2. Round(g)!Stand
    BY <1>1, <1>5, <2>1 DEF Round!Stand
  <2> QED
    BY <2>2 DEF Round!Next
<1> QED
  BY <1>2, <1>3, <1>4, <1>5

\* What a step of the present game's thread does to the game.
Played(g) ==
    /\ TurnInv(g, table[g], out', thread'[g], gameOn'[g])
    /\ Round(g)!Next \/ UNCHANGED Round(g)!vars

LEMMA BeginTurnPlays ==
    ASSUME SessionInv, RoundInv, crossed = {}, NEW g \in Game, g = game, BeginTurn(g)
    PROVE  Played(g)
<1> DEFINE t == table[g]
           r == thread[g]
           i == thread[g].turn
<1>1. /\ t \in Table /\ NP = Len(t) /\ Seat(i) = Sits(g, t, i)
      /\ thread \in [Game -> Thread] /\ r \in Thread /\ i \in Chair(t)
      /\ TurnInv(g, t, out, r, gameOn[g])
  BY Here
<1>2. /\ r.place = "top" /\ gameOn[g] /\ ~(i >= NP)
      /\ Contest(g, t, out)
      /\ IsUser(Seat(i)) <=> i = 0
  <2>1. ~(i >= NP) /\ (IsUser(Seat(i)) <=> i = 0)
    BY <1>1, Here
  <2>2. r.place = "top" /\ gameOn[g]
    BY DEF BeginTurn, At
  <2> QED
    BY <1>1, <2>1, <2>2 DEF TurnInv
<1>3. /\ UNCHANGED <<table, out, gameOn, status>>
      /\ \/ /\ Seat(i) \in out
            /\ thread' = [thread EXCEPT ![g].turn = NextTurn(g)]
         \/ /\ Seat(i) \notin out /\ ~IsUser(Seat(i))
            /\ thread' = [thread EXCEPT ![g].place = "choose", ![g].mover = Seat(i)]
         \/ /\ Seat(i) \notin out /\ IsUser(Seat(i))
            /\ GoTo(g, IF r.mover = NoPlayer THEN "pause" ELSE "say")
  <2>1. OnlyThread =>  UNCHANGED <<table, out, gameOn, status>>
    BY DEF OnlyThread
  <2> QED
    BY <1>2, <2>1 DEF BeginTurn
<1>4. i \in StillIn(g, t, out) <=> Seat(i) \notin out
  BY <1>1 DEF StillIn
<1> HIDE DEF t, r, i
\* Whoever is out is passed over.
<1>5. CASE Seat(i) \in out /\ thread' = [thread EXCEPT ![g].turn = NextTurn(g)]
  <2>1. thread'[g] = [r EXCEPT !.turn = NextTurn(g)]
    BY <1>1, <1>5 DEF r
  <2>2. thread'[g].place = "top" /\ thread'[g].turn = NextTurn(g)
        /\ thread'[g].mover = r.mover /\ thread'[g].victim = r.victim
    BY <1>1, <1>2, <2>1 DEF Thread
  <2>3. TurnInv(g, t, out, thread'[g], gameOn[g])
    BY <1>1, <1>2, <2>2 DEF TurnInv, Moving, InMove
  <2>4. Round(g)!Pass
    <3>1. i \in OutOf(g)
      BY <1>1, <1>4, <1>5, ChairsOf DEF t
    <3>2. NextTurn(g) = Round(g)!After
      BY <1>1 DEF NextTurn, Round!After, t
    <3>3. UNCHANGED <<Len(table[g]), OutOf(g), StageOf(thread[g].place), gameOn[g], status[g]>>
      BY <1>2, <1>3, <2>2 DEF OutOf, r
    <3> QED
      BY <1>2, <2>2, <3>1, <3>2, <3>3, StageValues DEF Round!Pass, r, i
  <2> QED
    BY <1>3, <2>3, <2>4 DEF Played, Round!Next, t
\* The turn begins, or the user is still to choose.
<1>6. ASSUME Seat(i) \notin out, NEW place \in {"choose", "pause", "say"},
             thread'[g].place = place, thread'[g].turn = i,
             place # "pause" => thread'[g].mover = Seat(i),
             place = "say" => \E j \in Chair(t) : thread'[g].victim = Sits(g, t, j)
      PROVE  Played(g)
  <2>1. i \in StillIn(g, t, out)
    BY <1>4, <1>6
  <2>2. TurnInv(g, t, out, thread'[g], gameOn[g])
    BY <1>1, <1>2, <1>6, <2>1 DEF TurnInv, Moving, InMove
  <2>3. Round(g)!Next \/ UNCHANGED Round(g)!vars
    <3>1. StageOf(thread[g].place) = "rest" /\ StageOf(thread'[g].place) \in {"rest", "turn"}
      BY <1>2, <1>6, StageValues DEF r
    <3> QED
      BY <1>2, <1>3, <1>6, <2>1, <3>1, StageMoves DEF t, i
  <2> QED
    BY <1>3, <2>2, <2>3 DEF Played, t
<1>7. CASE /\ Seat(i) \notin out /\ ~IsUser(Seat(i))
           /\ thread' = [thread EXCEPT ![g].place = "choose", ![g].mover = Seat(i)]
  <2>1. thread'[g] = [r EXCEPT !.place = "choose", !.mover = Seat(i)]
    BY <1>1, <1>7 DEF r
  <2>2. /\ thread'[g].place = "choose" /\ thread'[g].turn = i /\ thread'[g].mover = Seat(i)
    BY <1>1, <2>1 DEF Thread, i, r
  <2> QED
    BY <1>6, <1>7, <2>2
<1>8. CASE /\ Seat(i) \notin out /\ IsUser(Seat(i))
           /\ GoTo(g, IF r.mover = NoPlayer THEN "pause" ELSE "say")
  <2> DEFINE place == IF r.mover = NoPlayer THEN "pause" ELSE "say"
  <2>1. thread'[g] = [r EXCEPT !.place = place]
    BY <1>1, <1>8 DEF r, GoTo
  <2>2. /\ thread'[g].place = place /\ thread'[g].turn = i
        /\ thread'[g].mover = r.mover /\ thread'[g].victim = r.victim
    BY <1>1, <2>1 DEF Thread, i, r
  <2>3. i = 0
    BY <1>2, <1>8
  <2>4. place = "say" => /\ r.mover = Seat(i)
                         /\ \E j \in Chair(t) : r.victim = Sits(g, t, j)
    BY <1>1, <1>2, <2>3 DEF TurnInv
  <2> QED
    BY <1>6, <1>8, <2>2, <2>4
<1> QED
  BY <1>3, <1>5, <1>7, <1>8

\* A step that takes the thread of the present game on in its turn, to r, and
\* hurts nobody.
LEMMA GoesOn ==
    ASSUME SessionInv, RoundInv, crossed = {}, NEW g \in Game, g = game,
           UNCHANGED <<table, out, gameOn, status>>,
           thread'[g].turn = thread[g].turn,
           TurnInv(g, table[g], out, thread'[g], gameOn[g]),
           \/ StageOf(thread'[g].place) = StageOf(thread[g].place)
           \/ StageOf(thread[g].place) = "turn"
              /\ StageOf(thread'[g].place) \in {"claimed", "effect"}
           \/ StageOf(thread[g].place) = "claimed" /\ StageOf(thread'[g].place) = "effect"
              /\ Contest(g, table[g], out)
    PROVE  Played(g)
<1>1. Contest(g, table[g], out) => StillIn(g, table[g], out) \ {thread[g].turn} # {}
  BY HasOpponent
<1>2. Round(g)!Next \/ UNCHANGED Round(g)!vars
  BY <1>1, StageMoves
<1> QED
  BY <1>2 DEF Played

LEMMA BreakPlays ==
    ASSUME SessionInv, RoundInv, crossed = {}, NEW g \in Game, g = game, Break(g)
    PROVE  Played(g)
<1> DEFINE t == table[g]
           r == thread[g]
<1>1. /\ thread \in [Game -> Thread] /\ r \in Thread /\ r.turn \in Chair(t)
      /\ TurnInv(g, t, out, r, gameOn[g])
  BY Here
<1>2. r.place = "pause" /\ gameOn[g] /\ UNCHANGED <<table, out, gameOn, status>>
  BY DEF Break, At, OnlyThread
<1>3. thread'[g] = [r EXCEPT !.place = "idle"]
  BY <1>1 DEF Break, GoTo
<1> HIDE DEF t, r
<1>4. thread'[g].place = "idle" /\ thread'[g].turn = r.turn
  BY <1>1, <1>3 DEF Thread
<1>5. TurnInv(g, t, out, thread'[g], gameOn[g])
  BY <1>1, <1>2, <1>4 DEF TurnInv, Moving, InMove
<1> QED
  BY <1>2, <1>4, <1>5, GoesOn, StageValues DEF t, r

\* Whoever is drawn or pressed as a victim sits at the table, or is oneself.
LEMMA VictimsSit ==
    ASSUME SessionInv, RoundInv, crossed = {}, NEW g \in Game, g = game,
           NEW i \in Chair(table[g]), NEW v \in Victims(Sits(g, table[g], i))
    PROVE  \E j \in Chair(table[g]) : v = Sits(g, table[g], j)
<1>1. NP = Len(table[g]) /\ \A j : Seat(j) = Sits(g, table[g], j)
  BY Here
<1>2. CASE v = Sits(g, table[g], i)
  BY <1>2
<1>3. CASE v # Sits(g, table[g], i)
  BY <1>1, <1>3 DEF Victims, Chair
<1> QED
  BY <1>2, <1>3

LEMMA ChoosesPlays ==
    ASSUME SessionInv, RoundInv, crossed = {}, NEW g \in Game, g = game, Chooses(g)
    PROVE  Played(g)
<1> DEFINE t == table[g]
           r == thread[g]
<1>1. /\ thread \in [Game -> Thread] /\ r \in Thread /\ r.turn \in Chair(t)
      /\ TurnInv(g, t, out, r, gameOn[g])
  BY Here
<1>2. r.place \in {"choose", "draw"} /\ UNCHANGED <<table, out, gameOn, status>>
  BY DEF Chooses, At, OnlyThread
<1>3. r.mover = Sits(g, t, r.turn) /\ r.turn \in StillIn(g, t, out) /\ Contest(g, t, out)
  BY <1>1, <1>2 DEF TurnInv, Moving
<1>4. ASSUME NEW v \in Victims(r.mover),
             thread' = [thread EXCEPT ![g].place = "say", ![g].victim = v]
      PROVE  Played(g)
  <2>1. \E j \in Chair(t) : v = Sits(g, t, j)
    BY <1>1, <1>3, VictimsSit
  <2>2. thread'[g] = [r EXCEPT !.place = "say", !.victim = v]
    BY <1>1, <1>4
  <2> HIDE DEF t, r
  <2>3. /\ thread'[g].place = "say" /\ thread'[g].turn = r.turn
        /\ thread'[g].mover = r.mover /\ thread'[g].victim = v
    BY <1>1, <2>2 DEF Thread
  <2>4. TurnInv(g, t, out, thread'[g], gameOn[g])
    BY <1>3, <2>1, <2>3 DEF TurnInv, Moving, InMove
  <2> QED
    BY <1>2, <2>3, <2>4, GoesOn, StageValues DEF t, r
<1>5. ASSUME thread' = [thread EXCEPT ![g].place = "draw"] PROVE Played(g)
  <2>1. thread'[g] = [r EXCEPT !.place = "draw"]
    BY <1>1, <1>5
  <2> HIDE DEF t, r
  <2>2. thread'[g].place = "draw" /\ thread'[g].turn = r.turn /\ thread'[g].mover = r.mover
    BY <1>1, <2>1 DEF Thread
  <2>3. TurnInv(g, t, out, thread'[g], gameOn[g])
    BY <1>3, <2>2 DEF TurnInv, Moving, InMove
  <2> QED
    BY <1>2, <2>2, <2>3, GoesOn, StageValues DEF t, r
<1> QED
  BY <1>4, <1>5 DEF Chooses

LEMMA UserMovesPlays ==
    ASSUME SessionInv, RoundInv, crossed = {}, NEW g \in Game, g = game, UserMoves(g)
    PROVE  Played(g)
<1> DEFINE t == table[g]
           r == thread[g]
<1>1. /\ thread \in [Game -> Thread] /\ r \in Thread /\ t \in Table
      /\ TurnInv(g, t, out, r, gameOn[g]) /\ Me(g) = Sits(g, t, 0)
  BY Here
<1>2. r.place = "idle" /\ gameOn[g] /\ UNCHANGED <<table, out, gameOn, status>>
  BY DEF UserMoves, At, OnlyThread
<1>3. PICK v \in Victims(Me(g)) :
         thread' = [thread EXCEPT ![g].place = "top", ![g].mover = Me(g), ![g].victim = v]
  BY DEF UserMoves
<1>4. 0 \in Chair(t)
  BY <1>1, TableSeats
<1>5. \E j \in Chair(t) : v = Sits(g, t, j)
  BY <1>1, <1>3, <1>4, VictimsSit
<1>6. thread'[g] = [r EXCEPT !.place = "top", !.mover = Me(g), !.victim = v]
  BY <1>1, <1>3
<1> HIDE DEF t, r
<1>7. /\ thread'[g].place = "top" /\ thread'[g].turn = r.turn
      /\ thread'[g].mover = Me(g) /\ thread'[g].victim = v
  BY <1>1, <1>6 DEF Thread
<1>8. TurnInv(g, t, out, thread'[g], gameOn[g])
  BY <1>1, <1>2, <1>5, <1>7 DEF TurnInv, Moving, InMove
<1> QED
  BY <1>2, <1>7, <1>8, GoesOn, StageValues DEF t, r

LEMMA AnnouncePlays ==
    ASSUME SessionInv, RoundInv, crossed = {}, NEW g \in Game, g = game, Announce(g)
    PROVE  Played(g)
<1> DEFINE t == table[g]
           r == thread[g]
<1>1. /\ thread \in [Game -> Thread] /\ r \in Thread /\ t \in Table
      /\ TurnInv(g, t, out, r, gameOn[g])
  BY Here
<1>2. r.place = "say" /\ UNCHANGED <<table, out, gameOn, status>>
  BY DEF Announce, At
<1>3. /\ r.mover = Sits(g, t, r.turn) /\ r.turn \in StillIn(g, t, out) /\ Contest(g, t, out)
      /\ \E j \in Chair(t) : r.victim = Sits(g, t, j)
  BY <1>1, <1>2 DEF TurnInv, Moving, InMove
<1>4. PICK next \in {"ask", "act"} :
         thread' = [thread EXCEPT ![g].place = next, ![g].asked = 0, ![g].allowed = FALSE]
  BY DEF Announce
<1>5. thread'[g] = [r EXCEPT !.place = next, !.asked = 0, !.allowed = FALSE]
  BY <1>1, <1>4
<1> HIDE DEF t, r
<1>6. /\ thread'[g].place = next /\ thread'[g].turn = r.turn /\ thread'[g].asked = 0
      /\ thread'[g].mover = r.mover /\ thread'[g].victim = r.victim
  BY <1>1, <1>5 DEF Thread
<1>7. \A i \in StillIn(g, t, out) : i >= 0
  BY <1>1, TableSeats DEF StillIn, Chair
<1>8. TurnInv(g, t, out, thread'[g], gameOn[g])
  BY <1>3, <1>4, <1>6, <1>7 DEF TurnInv, Moving, InMove
<1> QED
  BY <1>2, <1>4, <1>6, <1>8, GoesOn, StageValues DEF t, r

\* A thread that asks: its facts, as the cases below need them.
LEMMA Asking ==
    ASSUME SessionInv, RoundInv, crossed = {}, NEW g \in Game, g = game,
           thread[g].place \in {"ask", "wait", "prove"}
    PROVE  /\ thread[g].mover = Sits(g, table[g], thread[g].turn)
           /\ thread[g].turn \in StillIn(g, table[g], out)
           /\ Contest(g, table[g], out)
           /\ \E j \in Chair(table[g]) : thread[g].victim = Sits(g, table[g], j)
           /\ thread[g].place \in {"ask", "wait"} =>
                 \/ thread[g].allowed
                 \/ \A i \in StillIn(g, table[g], out) \ {thread[g].turn} : i >= thread[g].asked
           /\ thread[g].place = "wait" =>
                 thread[g].asked \in StillIn(g, table[g], out) \ {thread[g].turn}
           /\ thread[g].place = "prove" =>
                 \E i \in StillIn(g, table[g], out) \ {thread[g].turn} :
                     thread[g].objector = Sits(g, table[g], i)
<1>1. TurnInv(g, table[g], out, thread[g], gameOn[g])
  BY Here
<1> QED
  BY <1>1 DEF TurnInv, Moving, InMove

\* Whoever is skipped could not object.
LEMMA SkippedSit ==
    ASSUME SessionInv, RoundInv, crossed = {}, NEW g \in Game, g = game,
           thread[g].place = "ask", thread[g].asked < NP
    PROVE  Skipped(g, Seat(thread[g].asked)) <=>
              thread[g].asked \notin StillIn(g, table[g], out) \ {thread[g].turn}
<1> DEFINE t == table[g]
           a == thread[g].asked
           i == thread[g].turn
<1>1. t \in Table /\ NP = Len(t) /\ Seat(a) = Sits(g, t, a) /\ i \in Chair(t) /\ a \in Nat
  BY Here
<1>2. thread[g].mover = Sits(g, t, i)
  BY Asking
<1>3. a \in Chair(t)
  BY <1>1, TableSeats DEF Chair
<1> HIDE DEF t, a, i
<1>4. \A j, k \in Chair(t) : Sits(g, t, j).name = Sits(g, t, k).name => j = k
  BY <1>1, TableSeats
<1>5. Sits(g, t, a) \in out <=> a \notin StillIn(g, t, out)
  BY <1>3 DEF StillIn
<1>6. Seat(a).name = thread[g].mover.name <=> a = i
  BY <1>1, <1>2, <1>3, <1>4
<1>7. Seat(a) \in out <=> a \notin StillIn(g, t, out)
  BY <1>1, <1>5
<1>8. Skipped(g, Seat(a)) <=> a = i \/ a \notin StillIn(g, t, out)
  BY <1>6, <1>7, Zenon DEF Skipped
<1> QED
  BY <1>8 DEF t, a, i

LEMMA AskNextPlays ==
    ASSUME SessionInv, RoundInv, crossed = {}, NEW g \in Game, g = game, AskNext(g)
    PROVE  Played(g)
<1> DEFINE t == table[g]
           r == thread[g]
           a == thread[g].asked
           others == StillIn(g, t, out) \ {r.turn}
<1>1. /\ thread \in [Game -> Thread] /\ r \in Thread /\ t \in Table
      /\ Seat(a) = Sits(g, t, a) /\ a \in Nat /\ r.turn < NP
  <2>1. r.turn \in Chair(t) /\ \A i \in Chair(t) : i < NP
    BY Here
  <2> QED
    BY <2>1, Here
<1>2. r.place = "ask" /\ a < NP
  BY DEF AskNext, At
<1>3. /\ r.mover = Sits(g, t, r.turn) /\ r.turn \in StillIn(g, t, out) /\ Contest(g, t, out)
      /\ \E j \in Chair(t) : r.victim = Sits(g, t, j)
      /\ r.allowed \/ \A i \in others : i >= a
  BY <1>2, Asking
<1>4. Skipped(g, Seat(a)) <=> a \notin others
  BY <1>2, SkippedSit
<1>5. others \subseteq Nat
  BY <1>1, TableSeats DEF StillIn, Chair
<1>6. UNCHANGED <<table, out, gameOn, status>>
  BY <1>1 DEF AskNext, OnlyThread, Crash
<1>7. \/ /\ Skipped(g, Seat(a))
         /\ thread' = [thread EXCEPT ![g].asked = @ + 1]
      \/ /\ ~Skipped(g, Seat(a))
         /\ GoTo(g, "wait")
      \/ /\ ~Skipped(g, Seat(a))
         /\ thread' = [thread EXCEPT ![g].place = "prove", ![g].objector = Seat(a),
                                     ![g].asked = 0, ![g].allowed = FALSE]
      \/ thread' = [thread EXCEPT ![g].asked = @ + 1, ![g].allowed = TRUE]
  <2>1. ~(r.turn >= NP)
    <3>1. r.turn \in Chair(t) /\ \A i \in Chair(t) : ~(i >= NP)
      BY Here
    <3> QED
      BY <3>1
  <2> QED
    BY <2>1 DEF AskNext
<1>8. ASSUME thread'[g].turn = r.turn, TurnInv(g, t, out, thread'[g], gameOn[g]),
             thread'[g].place \in {"ask", "wait", "prove"}
      PROVE  Played(g)
  BY <1>2, <1>6, <1>8, GoesOn, StageValues
<1> HIDE DEF t, r, a
<1>9. CASE /\ Skipped(g, Seat(a))
           /\ thread' = [thread EXCEPT ![g].asked = @ + 1]
  <2>1. thread'[g] = [r EXCEPT !.asked = @ + 1]
    BY <1>1, <1>9 DEF r
  <2>2. /\ thread'[g].place = "ask" /\ thread'[g].turn = r.turn /\ thread'[g].asked = a + 1
        /\ thread'[g].mover = r.mover /\ thread'[g].victim = r.victim
        /\ thread'[g].allowed = r.allowed
    BY <1>1, <1>2, <2>1 DEF Thread, r, a
  <2>3. r.allowed \/ \A i \in others : i >= a + 1
    BY <1>1, <1>3, <1>4, <1>5, <1>9
  <2>4. TurnInv(g, t, out, thread'[g], gameOn[g])
    BY <1>3, <2>2, <2>3 DEF TurnInv, Moving, InMove
  <2> QED
    BY <1>8, <2>2, <2>4
<1>10. CASE ~Skipped(g, Seat(a)) /\ GoTo(g, "wait")
  <2>1. thread'[g] = [r EXCEPT !.place = "wait"]
    BY <1>1, <1>10 DEF r, GoTo
  <2>2. /\ thread'[g].place = "wait" /\ thread'[g].turn = r.turn /\ thread'[g].asked = a
        /\ thread'[g].mover = r.mover /\ thread'[g].victim = r.victim
        /\ thread'[g].allowed = r.allowed
    BY <1>1, <2>1 DEF Thread, r, a
  <2>3. TurnInv(g, t, out, thread'[g], gameOn[g])
    BY <1>3, <1>4, <1>10, <2>2 DEF TurnInv, Moving, InMove
  <2> QED
    BY <1>8, <2>2, <2>3
<1>11. CASE /\ ~Skipped(g, Seat(a))
            /\ thread' = [thread EXCEPT ![g].place = "prove", ![g].objector = Seat(a),
                                        ![g].asked = 0, ![g].allowed = FALSE]
  <2>1. thread'[g] = [r EXCEPT !.place = "prove", !.objector = Seat(a),
                               !.asked = 0, !.allowed = FALSE]
    BY <1>1, <1>11 DEF r
  <2>2. /\ thread'[g].place = "prove" /\ thread'[g].turn = r.turn
        /\ thread'[g].mover = r.mover /\ thread'[g].victim = r.victim
        /\ thread'[g].objector = Sits(g, t, a)
    BY <1>1, <2>1 DEF Thread, r, a
  <2>3. TurnInv(g, t, out, thread'[g], gameOn[g])
    BY <1>3, <1>4, <1>11, <2>2 DEF TurnInv, Moving, InMove
  <2> QED
    BY <1>8, <2>2, <2>3
<1>12. CASE thread' = [thread EXCEPT ![g].asked = @ + 1, ![g].allowed = TRUE]
  <2>1. thread'[g] = [r EXCEPT !.asked = @ + 1, !.allowed = TRUE]
    BY <1>1, <1>12 DEF r
  <2>2. /\ thread'[g].place = "ask" /\ thread'[g].turn = r.turn
        /\ thread'[g].mover = r.mover /\ thread'[g].victim = r.victim
        /\ thread'[g].allowed = TRUE
    BY <1>1, <1>2, <2>1 DEF Thread, r
  <2>3. TurnInv(g, t, out, thread'[g], gameOn[g])
    BY <1>3, <2>2 DEF TurnInv, Moving, InMove
  <2> QED
    BY <1>8, <2>2, <2>3
<1> QED
  BY <1>7, <1>9, <1>10, <1>11, <1>12

LEMMA UserAnswersPlays ==
    ASSUME SessionInv, RoundInv, crossed = {}, NEW g \in Game, g = game,
           UserAllows(g) \/ UserChallenges(g)
    PROVE  Played(g)
<1> DEFINE t == table[g]
           r == thread[g]
           a == thread[g].asked
           others == StillIn(g, t, out) \ {r.turn}
<1>1. /\ thread \in [Game -> Thread] /\ r \in Thread /\ Seat(a) = Sits(g, t, a)
  BY Here
<1>2. r.place = "wait" /\ UNCHANGED <<table, out, gameOn, status>>
  BY DEF UserAllows, UserChallenges, At, OnlyThread
<1>3. /\ r.mover = Sits(g, t, r.turn) /\ r.turn \in StillIn(g, t, out) /\ Contest(g, t, out)
      /\ \E j \in Chair(t) : r.victim = Sits(g, t, j)
      /\ a \in others
  BY <1>2, Asking
<1>4. ASSUME thread'[g].turn = r.turn, TurnInv(g, t, out, thread'[g], gameOn[g]),
             thread'[g].place \in {"ask", "prove"}
      PROVE  Played(g)
  BY <1>2, <1>4, GoesOn, StageValues
<1>5. UserAllows(g) => thread'[g] = [r EXCEPT !.place = "ask", !.asked = @ + 1, !.allowed = TRUE]
  BY <1>1 DEF UserAllows
<1>6. UserChallenges(g) => thread'[g] = [r EXCEPT !.place = "prove", !.asked = 0,
                                                  !.allowed = FALSE, !.objector = Seat(a)]
  BY <1>1 DEF UserChallenges
<1> HIDE DEF t, r, a
<1>7. CASE UserAllows(g)
  <2>1. /\ thread'[g].place = "ask" /\ thread'[g].turn = r.turn
        /\ thread'[g].mover = r.mover /\ thread'[g].victim = r.victim
        /\ thread'[g].allowed = TRUE
    BY <1>1, <1>5, <1>7 DEF Thread
  <2>2. TurnInv(g, t, out, thread'[g], gameOn[g])
    BY <1>3, <2>1 DEF TurnInv, Moving, InMove
  <2> QED
    BY <1>4, <2>1, <2>2
<1>8. CASE UserChallenges(g)
  <2>1. /\ thread'[g].place = "prove" /\ thread'[g].turn = r.turn
        /\ thread'[g].mover = r.mover /\ thread'[g].victim = r.victim
        /\ thread'[g].objector = Sits(g, t, a)
    BY <1>1, <1>6, <1>8 DEF Thread
  <2>2. TurnInv(g, t, out, thread'[g], gameOn[g])
    BY <1>3, <2>1 DEF TurnInv, Moving, InMove
  <2> QED
    BY <1>4, <2>1, <2>2
<1> QED
  BY <1>7, <1>8

\* Somebody has been asked: the game was undecided, so somebody could object.
LEMMA AskingDonePlays ==
    ASSUME SessionInv, RoundInv, crossed = {}, NEW g \in Game, g = game, AskingDone(g)
    PROVE  Played(g)
<1> DEFINE t == table[g]
           r == thread[g]
           others == StillIn(g, t, out) \ {r.turn}
<1>1. /\ thread \in [Game -> Thread] /\ r \in Thread /\ t \in Table /\ NP = Len(t)
      /\ r.asked \in Nat
  BY Here
<1>2. r.place = "ask" /\ r.asked >= NP /\ UNCHANGED <<table, out, gameOn, status>>
  BY DEF AskingDone, At, OnlyThread
<1>3. /\ r.mover = Sits(g, t, r.turn) /\ r.turn \in StillIn(g, t, out) /\ Contest(g, t, out)
      /\ \E j \in Chair(t) : r.victim = Sits(g, t, j)
      /\ r.allowed \/ \A i \in others : i >= r.asked
  BY <1>2, Asking
<1>4. r.allowed
  <2>1. PICK i \in others : TRUE
    BY <1>3, HasOpponent
  <2>2. i \in Chair(t)
    BY DEF StillIn
  <2>3. i \in Nat /\ i < Len(t)
    BY <1>1, <2>2, TableSeats DEF Chair
  <2>4. ~(i >= r.asked)
    BY <1>1, <1>2, <2>3, TableSeats
  <2> QED
    BY <1>3, <2>4
<1>5. thread'[g] = [r EXCEPT !.place = "act", !.asked = 0, !.allowed = FALSE]
  BY <1>1, <1>4 DEF AskingDone
<1> HIDE DEF t, r
<1>6. /\ thread'[g].place = "act" /\ thread'[g].turn = r.turn
      /\ thread'[g].mover = r.mover /\ thread'[g].victim = r.victim
  BY <1>1, <1>5 DEF Thread
<1>7. TurnInv(g, t, out, thread'[g], gameOn[g])
  BY <1>3, <1>6 DEF TurnInv, Moving, InMove
<1> QED
  BY <1>2, <1>3, <1>6, <1>7, GoesOn, StageValues DEF t, r

-----------------------------------------------------------------------------
\* Who reveals a card, may fall.
LEMMA RevealedFalls ==
    ASSUME NEW g, table[g] \in Table, table' = table, NEW j \in Chair(table[g]),
           out' = out \/ Reveal(Sits(g, table[g], j))
    PROVE  Round(g)!MayFall(j)
<1> DEFINE t == table[g]
<1>1. out' \in {out, out \cup {Sits(g, t, j)}}
  BY DEF Reveal
<1>2. StillIn(g, t, out') \in {StillIn(g, t, out), StillIn(g, t, out) \ {j}}
  BY <1>1, OneMayFall
<1>3. /\ OutOf(g) = Chair(t) \ StillIn(g, t, out)
      /\ OutOf(g)' = Chair(t) \ StillIn(g, t, out')
  BY ChairsOf
<1> HIDE DEF t
<1>4. OutOf(g)' \in {OutOf(g), OutOf(g) \cup {j}}
  <2>1. CASE StillIn(g, t, out') = StillIn(g, t, out)
    BY <1>3, <2>1
  <2>2. CASE StillIn(g, t, out') = StillIn(g, t, out) \ {j}
    <3>1. j \in Chair(t)
      BY DEF t
    <3>2. OutOf(g)' = OutOf(g) \cup {j}
      BY <1>3, <2>2, <3>1
    <3> QED
      BY <3>2
  <2> QED
    BY <1>2, <2>1, <2>2
<1> QED
  BY <1>4 DEF Round!MayFall

LEMMA ClaimProvedPlays ==
    ASSUME SessionInv, RoundInv, crossed = {}, NEW g \in Game, g = game, ClaimProved(g)
    PROVE  Played(g)
<1> DEFINE t == table[g]
           r == thread[g]
<1>1. thread \in [Game -> Thread] /\ r \in Thread /\ t \in Table
  BY Here
<1>2. r.place = "prove" /\ UNCHANGED <<table, gameOn, status>> /\ Reveal(r.objector)
  BY DEF ClaimProved, At, OnlyPlayers
<1>3. /\ r.mover = Sits(g, t, r.turn) /\ r.turn \in StillIn(g, t, out)
      /\ \E j \in Chair(t) : r.victim = Sits(g, t, j)
      /\ \E i \in StillIn(g, t, out) \ {r.turn} : r.objector = Sits(g, t, i)
  BY <1>2, Asking
<1>4. PICK i \in StillIn(g, t, out) \ {r.turn} : r.objector = Sits(g, t, i)
  BY <1>3
<1>5. i \in Round(g)!Seats /\ Round(g)!Opponent(i)
  BY ChairsOf
<1>6. i \in Chair(t) /\ Round(g)!MayFall(i)
  <2>1. i \in Chair(t)
    BY DEF StillIn
  <2> QED
    BY <1>1, <1>2, <1>4, <2>1, RevealedFalls
<1>7. thread'[g] = [r EXCEPT !.place = "act", !.objector = NoPlayer]
  BY <1>1 DEF ClaimProved
<1>8. thread[g].turn \notin OutOf(g)
  BY <1>3, ChairsOf
<1> HIDE DEF t, r
<1>9. /\ thread'[g].place = "act" /\ thread'[g].turn = r.turn
      /\ thread'[g].mover = r.mover /\ thread'[g].victim = r.victim
  BY <1>1, <1>7 DEF Thread
<1>10. TurnInv(g, t, out', thread'[g], gameOn'[g])
  BY <1>3, <1>9 DEF TurnInv, Moving, InMove
<1>11. Round(g)!Uphold(i)
  <2>1. /\ StageOf(thread[g].place) = "claimed" /\ StageOf(thread'[g].place) = "effect"
        /\ UNCHANGED <<Len(table[g]), thread[g].turn, gameOn[g], status[g]>>
    BY <1>2, <1>9, StageValues DEF r
  <2> QED
    BY <1>5, <1>6, <1>8, <2>1 DEF Round!Uphold
<1> QED
  BY <1>5, <1>10, <1>11 DEF Played, Round!Next, t

LEMMA BluffCalledPlays ==
    ASSUME SessionInv, RoundInv, crossed = {}, NEW g \in Game, g = game, BluffCalled(g)
    PROVE  Played(g)
<1> DEFINE t == table[g]
           r == thread[g]
<1>1. /\ thread \in [Game -> Thread] /\ r \in Thread /\ t \in Table /\ r.turn \in Chair(t)
  BY Here
<1>2. r.place = "prove" /\ UNCHANGED <<table, gameOn, status>> /\ Reveal(r.mover)
  BY DEF BluffCalled, At, OnlyPlayers
<1>3. /\ r.mover = Sits(g, t, r.turn)
      /\ \E i \in StillIn(g, t, out) \ {r.turn} : r.objector = Sits(g, t, i)
  BY <1>2, Asking
<1>4. \E p \in Round(g)!Seats : Round(g)!Opponent(p)
  BY <1>3, ChairsOf
<1>5. Round(g)!MayFall(thread[g].turn)
  BY <1>1, <1>2, <1>3, RevealedFalls
<1>6. thread'[g] = Rest(g, "check")
  BY <1>1 DEF BluffCalled
<1> HIDE DEF t, r
<1>7. thread'[g].place = "check" /\ thread'[g].turn = r.turn
  BY <1>6 DEF Rest, NewThread, r
<1>8. TurnInv(g, t, out', thread'[g], gameOn'[g])
  BY <1>7 DEF TurnInv, Moving, InMove
<1>9. Round(g)!Refute
  <2>1. /\ StageOf(thread[g].place) = "claimed" /\ StageOf(thread'[g].place) = "end"
        /\ UNCHANGED <<Len(table[g]), thread[g].turn, gameOn[g], status[g]>>
    BY <1>2, <1>7, StageValues DEF r
  <2> QED
    BY <1>4, <1>5, <2>1 DEF Round!Refute
<1> QED
  BY <1>8, <1>9 DEF Played, Round!Next, t

\* A step that ends the effect of a move: one player, not the mover, may fall.
LEMMA EffectPlays ==
    ASSUME SessionInv, RoundInv, crossed = {}, NEW g \in Game, g = game,
           thread[g].place \in {"act", "dialog", "stuck"},
           UNCHANGED <<table, gameOn, status>>,
           thread'[g].place = "check", thread'[g].turn = thread[g].turn,
           NEW j \in Chair(table[g]) \ {thread[g].turn},
           out' = out \/ Reveal(Sits(g, table[g], j))
    PROVE  Played(g)
<1>1. table[g] \in Table
  BY Here
<1>2. TurnInv(g, table[g], out', thread'[g], gameOn'[g])
  BY DEF TurnInv, Moving, InMove
<1>3. Round(g)!MayFall(j) /\ j \in Round(g)!Seats \ {thread[g].turn}
  BY <1>1, RevealedFalls, ChairsOf
<1>4. Round(g)!Effect
  <2>1. /\ StageOf(thread[g].place) = "effect" /\ StageOf(thread'[g].place) = "end"
        /\ UNCHANGED <<Len(table[g]), thread[g].turn, gameOn[g], status[g]>>
    BY StageValues
  <2> QED
    BY <1>3, <2>1 DEF Round!Effect
<1> QED
  BY <1>2, <1>4 DEF Played, Round!Next

\* There is always another chair.
LEMMA OtherChair ==
    ASSUME NEW t \in Table, NEW i
    PROVE  \E j \in Chair(t) : j # i
<1>1. 0 \in Chair(t) /\ 1 \in Chair(t)
  BY TableSeats
<1> QED
  BY <1>1

LEMMA ActPlays ==
    ASSUME SessionInv, RoundInv, crossed = {}, NEW g \in Game, g = game, Act(g)
    PROVE  Played(g)
<1> DEFINE t == table[g]
           r == thread[g]
<1>1. /\ thread \in [Game -> Thread] /\ r \in Thread /\ t \in Table
      /\ TurnInv(g, t, out, r, gameOn[g])
  BY Here
<1>2. r.place = "act" /\ UNCHANGED <<table, gameOn, status>>
  BY DEF Act, At, OnlyPlayers
<1>3. thread'[g] = Rest(g, "check")
  BY <1>1 DEF Act
<1>4. thread'[g].place = "check" /\ thread'[g].turn = r.turn
  BY <1>3 DEF Rest, NewThread
<1>5. r.mover = Sits(g, t, r.turn) /\ \E j \in Chair(t) : r.victim = Sits(g, t, j)
  BY <1>1, <1>2 DEF TurnInv, InMove
<1>6. PICK j \in Chair(t) : r.victim = Sits(g, t, j)
  BY <1>5
<1>7. IF r.victim = r.mover THEN out' = out ELSE Reveal(r.victim)
  BY DEF Act
<1>8. CASE r.victim = r.mover
  <2>1. PICK k \in Chair(t) : k # r.turn
    BY <1>1, OtherChair
  <2> QED
    BY <1>2, <1>4, <1>7, <1>8, <2>1, EffectPlays
<1>9. CASE r.victim # r.mover
  <2>1. j # r.turn
    BY <1>5, <1>6, <1>9
  <2> QED
    BY <1>2, <1>4, <1>6, <1>7, <1>9, <2>1, EffectPlays
<1> QED
  BY <1>8, <1>9

LEMMA DialogPlays ==
    ASSUME SessionInv, RoundInv, crossed = {}, NEW g \in Game, g = game,
           AskExchange(g) \/ CloseDialog(g)
    PROVE  Played(g)
<1> DEFINE t == table[g]
           r == thread[g]
<1>1. thread \in [Game -> Thread] /\ r \in Thread /\ t \in Table
  BY Here
<1>2. UNCHANGED <<table, out, gameOn, status>> /\ r.place \in {"act", "dialog"}
  BY DEF AskExchange, CloseDialog, At
<1>3. thread'[g].turn = r.turn
      /\ \/ thread'[g].place \in {"dialog", "stuck"}
         \/ thread'[g].place = "check"
  <2>1. CASE AskExchange(g)
    <3>1. PICK place \in {"dialog", "stuck"} : thread'[g] = Rest(g, place)
      BY <1>1, <2>1 DEF AskExchange
    <3> QED
      BY <3>1 DEF Rest, NewThread
  <2>2. CASE CloseDialog(g)
    <3>1. PICK place \in {"check", "stuck"} : GoTo(g, place)
      BY <2>2 DEF CloseDialog
    <3>2. thread'[g] = [r EXCEPT !.place = place]
      BY <1>1, <3>1 DEF GoTo
    <3> HIDE DEF r
    <3>3. thread'[g].place = place /\ thread'[g].turn = r.turn
      BY <1>1, <3>2 DEF Thread
    <3> QED
      BY <3>3
  <2> QED
    BY <2>1, <2>2
<1>4. CASE thread'[g].place \in {"dialog", "stuck"}
  <2>1. TurnInv(g, t, out, thread'[g], gameOn[g])
    BY <1>4 DEF TurnInv, Moving, InMove
  <2> QED
    BY <1>2, <1>3, <1>4, <2>1, GoesOn, StageValues
<1>5. CASE thread'[g].place = "check"
  <2>1. PICK k \in Chair(t) : k # r.turn
    BY <1>1, OtherChair
  <2> QED
    BY <1>2, <1>3, <1>5, <2>1, EffectPlays
<1> QED
  BY <1>3, <1>4, <1>5

-----------------------------------------------------------------------------
\* A game is decided when it is no contest any more.
LEMMA DecidedMeans ==
    ASSUME SessionInv, RoundInv, crossed = {}, NEW g \in Game, g = game
    PROVE  /\ Decided(g) <=> ~Contest(g, table[g], out)
           /\ Round(g)!Decided <=> ~Contest(g, table[g], out)
           /\ Seat(0) \in out <=> 0 \in OutOf(g)
<1> DEFINE t == table[g]
           S == StillIn(g, t, out)
<1>1. /\ game > 0 /\ t \in Table /\ NP = Len(t) /\ Me(g) = Sits(g, t, 0) /\ RestOK
      /\ \A i : Seat(i) = Sits(g, t, i)
  BY Here DEF SessionInv, TypeInv
<1>2. 0 \in Chair(t) /\ Chair(t) = 0 .. NP - 1 /\ NP \in Nat /\ NP >= 2
  BY <1>1, TableSeats
<1>3. S = {i \in Chair(t) : Seat(i) \notin out}
  BY <1>1 DEF StillIn
<1>4. 0 \in S <=> Me(g) \notin out
  BY <1>1, <1>2, <1>3
<1>5. Contest(g, t, out) <=> 0 \in S /\ S # {0}
  BY DEF Contest
<1> HIDE DEF S
<1>6. ASSUME Decided(g), Contest(g, t, out) PROVE FALSE
  <2>1. Me(g) \notin out
    BY <1>4, <1>5, <1>6
  <2>2. \A i \in 1 .. NP - 1 : Seat(i) \in out
    BY <1>1, <1>6, <2>1, DecidedIsTrue
  <2>3. PICK i \in S : i # 0
    BY <1>5, <1>6
  <2>4. i \in 1 .. NP - 1 /\ Seat(i) \notin out
    BY <1>2, <1>3, <2>3
  <2> QED
    BY <2>2, <2>4
<1>7. ASSUME ~Contest(g, t, out) PROVE Decided(g)
  <2>1. CASE Me(g) \in out
    BY <2>1 DEF Decided
  <2>2. CASE S = {0}
    <3> DEFINE Lost == {i \in 0 .. NP - 1 : Seat(i) \in out}
    <3>1. Lost = 1 .. NP - 1
      BY <1>2, <1>3, <2>2
    <3>2. Cardinality(1 .. NP - 1) = NP - 1
      BY <1>2, FS_Interval
    <3>3. Cardinality(Lost) = NP - 1
      BY <3>1, <3>2, Zenon
    <3> QED
      BY <3>3, Zenon DEF Decided
  <2> QED
    BY <1>4, <1>5, <1>7, <2>1, <2>2
<1>8. Round(g)!Decided <=> 0 \in OutOf(g) \/ Chair(t) \ {0} \subseteq OutOf(g)
  BY ChairsOf DEF Round!Decided
<1>9. OutOf(g) = Chair(t) \ S
  BY ChairsOf DEF S
<1>10. S \subseteq Chair(t)
  BY <1>3
<1>11. Round(g)!Decided <=> ~Contest(g, t, out)
  <2>1. Chair(t) \ {0} \subseteq OutOf(g) <=> S \subseteq {0}
    BY <1>9, <1>10
  <2> QED
    BY <1>2, <1>5, <1>8, <1>9, <2>1
<1>12. Seat(0) \in out <=> 0 \in OutOf(g)
  BY <1>1, <1>2, <1>4, <1>9
<1> QED
  BY <1>6, <1>7, <1>11, <1>12

LEMMA EndTurnPlays ==
    ASSUME SessionInv, RoundInv, crossed = {}, NEW g \in Game, g = game, EndTurn(g)
    PROVE  Played(g)
<1> DEFINE t == table[g]
           r == thread[g]
           verdict == IF Seat(0) \in out THEN "You Lose" ELSE "You Won"
<1>1. /\ thread \in [Game -> Thread] /\ r \in Thread /\ t \in Table /\ NP = Len(t)
      /\ Fits(r, g) /\ gameOn \in [Game -> BOOLEAN] /\ status \in [Game -> Verdict]
      /\ RestOK
  BY Here DEF SessionInv, TypeInv, ThreadInv, RestOK
<1>2. r.place = "check" /\ UNCHANGED <<table, out>>
      /\ thread' = [thread EXCEPT ![g].place = "top", ![g].turn = NextTurn(g)]
  BY DEF EndTurn, At
<1>3. thread'[g] = [r EXCEPT !.place = "top", !.turn = NextTurn(g)]
  BY <1>1, <1>2
<1>4. r.mover = NoPlayer
  BY <1>1, <1>2 DEF Fits
<1>5. /\ gameOn'[g] \in BOOLEAN
      /\ IF Decided(g) THEN status'[g] = verdict /\ ~gameOn'[g]
                       ELSE status'[g] = status[g] /\ gameOn'[g] = gameOn[g]
  <2>1. g .. game = {g}
    BY SessionAssumption DEF Game
  <2>2. CASE Ends(g)
    BY <1>1, <2>1, <2>2 DEF Ends, GameOver, LastScreen
  <2>3. CASE PlaysOn(g)
    BY <1>1, <2>1, <2>3 DEF PlaysOn
  <2> QED
    BY <2>2, <2>3, TurnEnds
<1>6. NextTurn(g) = Round(g)!After
  BY <1>1 DEF NextTurn, Round!After
<1>7. /\ Decided(g) <=> ~Contest(g, t, out)
      /\ Round(g)!Decided <=> ~Contest(g, t, out)
      /\ Seat(0) \in out <=> 0 \in OutOf(g)
  BY DecidedMeans
<1> HIDE DEF r
<1>8. /\ thread'[g].place = "top" /\ thread'[g].turn = NextTurn(g)
      /\ thread'[g].mover = NoPlayer
  BY <1>1, <1>3, <1>4 DEF Thread
<1>9. TurnInv(g, t, out', thread'[g], gameOn'[g])
  BY <1>2, <1>5, <1>7, <1>8 DEF TurnInv, Moving, InMove
<1>10. Round(g)!EndTurn
  <2>1. /\ StageOf(thread[g].place) = "end" /\ StageOf(thread'[g].place) = "rest"
        /\ UNCHANGED <<Len(table[g]), OutOf(g)>>
    BY <1>2, <1>8, StageValues DEF r, OutOf
  <2>2. gameOn'[g] = (gameOn[g] /\ ~Round(g)!Decided)
    BY <1>1, <1>5, <1>7
  <2>3. status'[g] = IF ~Round(g)!Decided THEN status[g]
                     ELSE IF 0 \in OutOf(g) THEN "You Lose" ELSE "You Won"
    BY <1>5, <1>7, Zenon
  <2> QED
    BY <1>6, <1>8, <2>1, <2>2, <2>3 DEF Round!EndTurn
<1> QED
  BY <1>2, <1>9, <1>10 DEF Played, Round!Next

\* Of any game, the present one or an earlier one.
LEMMA LeaveLoopPlays ==
    ASSUME SessionInv, NEW g \in Game, LeaveLoop(g)
    PROVE  /\ UNCHANGED <<table, out>> /\ thread'[g].place = "over"
           /\ gameOn'[g] = gameOn[g]
           /\ Round(g)!Next
<1>1. thread \in [Game -> Thread] /\ gameOn \in [Game -> BOOLEAN]
  BY DEF SessionInv, TypeInv, RestOK, ThreadInv
<1>2. /\ UNCHANGED <<table, out, status>> /\ thread[g].place \in {"top", "pause"}
      /\ ~gameOn[g] /\ gameOn' = [gameOn EXCEPT ![g] = FALSE]
  BY DEF LeaveLoop, LastScreen, At
<1>3. thread'[g] = [NewThread EXCEPT !.place = "over"]
  BY <1>1 DEF LeaveLoop
<1>4. thread'[g].place = "over" /\ thread'[g].turn = 0
  BY <1>3 DEF NewThread
<1>5. gameOn'[g] = gameOn[g]
  BY <1>1, <1>2
<1>6. Round(g)!Leave
  <2>1. /\ StageOf(thread[g].place) = "rest" /\ StageOf(thread'[g].place) = "over"
        /\ UNCHANGED <<Len(table[g]), OutOf(g), status[g]>>
    BY <1>2, <1>4, StageValues DEF OutOf
  <2> QED
    BY <1>2, <1>4, <1>5, <2>1 DEF Round!Leave
<1> QED
  BY <1>2, <1>4, <1>5, <1>6 DEF Round!Next

-----------------------------------------------------------------------------
OwnStep(g) ==
    \/ BeginTurn(g) \/ Break(g) \/ Chooses(g) \/ UserMoves(g) \/ Announce(g)
    \/ AskNext(g) \/ UserAllows(g) \/ UserChallenges(g) \/ AskingDone(g)
    \/ ClaimProved(g) \/ BluffCalled(g) \/ Act(g) \/ AskExchange(g)
    \/ CloseDialog(g) \/ EndTurn(g) \/ LeaveLoop(g)

\* Game g as it was, but that it may be closed.
Aside(g) ==
    /\ thread'[g] = thread[g] /\ table'[g] = table[g] /\ status'[g] = status[g]
    /\ crossed \subseteq crossed'
    /\ crossed' = {} =>
          \A i \in Chair(table[g]) : Sits(g, table[g], i) \in out' <=> Sits(g, table[g], i) \in out
    /\ gameOn'[g] \in BOOLEAN /\ (gameOn'[g] => gameOn[g])

\* What the thread of one game does leaves another game aside.
LEMMA OthersAside ==
    ASSUME SessionInv, NEW g \in Game, NEW h \in Game, h # g, OwnStep(h)
    PROVE  Aside(g) /\ table' = table
<1>0. /\ thread \in [Game -> Thread] /\ gameOn \in [Game -> BOOLEAN]
      /\ status \in [Game -> Verdict] /\ gameOn[g] \in BOOLEAN
  BY DEF SessionInv, TypeInv, RestOK, ThreadInv
<1>1. ASSUME UNCHANGED <<table, out, crossed>>,
             thread'[g] = thread[g], status'[g] = status[g], gameOn'[g] = gameOn[g]
      PROVE  Aside(g) /\ table' = table
  BY <1>0, <1>1 DEF Aside
<1>2. CASE \/ BeginTurn(h) \/ Break(h) \/ Chooses(h) \/ UserMoves(h) \/ AskNext(h)
           \/ UserAllows(h) \/ UserChallenges(h) \/ AskingDone(h)
  <2>1. UNCHANGED <<table, out, crossed, status, gameOn>>
    BY <1>2 DEF BeginTurn, Break, Chooses, UserMoves, AskNext, UserAllows, UserChallenges,
                AskingDone, Crash, OnlyThread, historyVars
  <2>2. thread'[g] = thread[g]
    <3>1. CASE BeginTurn(h) \/ Break(h) \/ Chooses(h) \/ UserMoves(h)
      BY <1>0, <3>1 DEF BeginTurn, Break, Chooses, UserMoves, Crash, GoTo
    <3>2. CASE AskNext(h) \/ UserAllows(h) \/ UserChallenges(h) \/ AskingDone(h)
      BY <1>0, <3>2 DEF AskNext, UserAllows, UserChallenges, AskingDone, Crash, GoTo
    <3> QED
      BY <1>2, <3>1, <3>2
  <2> QED
    BY <1>1, <2>1, <2>2
<1>3. CASE Announce(h) \/ AskExchange(h) \/ CloseDialog(h)
  <2>1. UNCHANGED <<table, out, crossed, status, gameOn>>
    BY <1>3 DEF Announce, AskExchange, CloseDialog, historyVars
  <2>2. thread'[g] = thread[g]
    BY <1>0, <1>3 DEF Announce, AskExchange, CloseDialog, GoTo
  <2> QED
    BY <1>1, <2>1, <2>2
<1>4. ASSUME UNCHANGED <<table, gameOn, status>>, thread'[g] = thread[g],
             NEW p, out' = out \/ Reveal(p),
             crossed \subseteq crossed', crossed' = {} => p.game = h
      PROVE  Aside(g) /\ table' = table
  <2>1. \A i : Sits(g, table[g], i).game = g
    BY DEF Sits
  <2>2. \A q \in out' \cup out : (q \in out' <=> q \in out) \/ q = p
    BY <1>4 DEF Reveal
  <2> QED
    BY <1>0, <1>4, <2>1, <2>2 DEF Aside
<1>5. CASE ClaimProved(h) \/ BluffCalled(h) \/ Act(h)
  <2>1. UNCHANGED <<table, gameOn, status>>
    BY <1>5 DEF ClaimProved, BluffCalled, Act, OnlyPlayers
  <2>2. thread'[g] = thread[g]
    BY <1>0, <1>5 DEF ClaimProved, BluffCalled, Act
  <2>3. PICK p : (out' = out \/ Reveal(p)) /\ crossed \subseteq crossed'
                 /\ (crossed' = {} => p.game = h)
    BY <1>5 DEF ClaimProved, BluffCalled, Act, Touch
  <2> QED
    BY <1>4, <2>1, <2>2, <2>3
<1>6. CASE EndTurn(h) \/ LeaveLoop(h)
  <2>1. UNCHANGED <<table, out, crossed>>
    BY <1>6 DEF EndTurn, LeaveLoop
  <2>2. thread'[g] = thread[g]
    BY <1>0, <1>6 DEF EndTurn, LeaveLoop
  <2>3. status'[g] = status[g] /\ gameOn'[g] = gameOn[g]
    <3>1. CASE Ends(h)
      BY <1>0, <3>1 DEF Ends, GameOver, LastScreen
    <3>2. CASE PlaysOn(h)
      BY <3>2 DEF PlaysOn
    <3>3. CASE LeaveLoop(h)
      BY <1>0, <3>3 DEF LeaveLoop, LastScreen
    <3> QED
      BY <1>6, <3>1, <3>2, <3>3, TurnEnds
  <2> QED
    BY <1>1, <2>1, <2>2, <2>3
<1> QED
  BY <1>2, <1>3, <1>5, <1>6 DEF OwnStep

\* The screens leave every game aside, and so does the beginning of another.
LEMMA ScreensAside ==
    ASSUME SessionInv, NEW g \in Game, g =< game,
           \/ \E t \in Table : StartGame(t)
           \/ EndGame \/ OpenSheet \/ CloseSheet \/ Appear \/ PlayAgain
           \/ UNCHANGED vars
    PROVE  Aside(g)
<1>0. /\ thread \in [Game -> Thread] /\ gameOn \in [Game -> BOOLEAN]
      /\ table \in Seq(Table) /\ game \in Nat /\ g \in Nat \ {0} /\ gameOn[g] \in BOOLEAN
  BY SessionAssumption DEF SessionInv, TypeInv, RestOK, ThreadInv, Game, game
<1>1. ASSUME UNCHANGED <<out, crossed, status>>,
             thread'[g] = thread[g], table'[g] = table[g],
             gameOn'[g] = gameOn[g] \/ gameOn'[g] = FALSE
      PROVE  Aside(g)
  BY <1>0, <1>1 DEF Aside
<1>2. ASSUME NEW t \in Table, StartGame(t) PROVE Aside(g)
  <2>1. /\ UNCHANGED <<out, crossed, status, gameOn>> /\ table' = Append(table, t)
        /\ thread' = [thread EXCEPT ![game + 1].place = "top"]
    BY <1>2 DEF StartGame, historyVars
  <2>2. table'[g] = table[g]
    BY <1>0, <2>1, AppendProperties DEF game
  <2>3. g # game + 1
    BY <1>0
  <2>4. thread'[g] = thread[g]
    BY <1>0, <2>1, <2>3
  <2> QED
    BY <1>1, <2>1, <2>2, <2>4
<1>3. CASE EndGame
  <2>1. UNCHANGED <<out, crossed, status, thread, table>>
        /\ gameOn' = [gameOn EXCEPT ![game] = FALSE]
    BY <1>3 DEF EndGame, LastScreen
  <2> QED
    BY <1>0, <1>1, <2>1
<1>4. CASE OpenSheet \/ CloseSheet \/ Appear \/ PlayAgain
  BY <1>1, <1>4 DEF OpenSheet, CloseSheet, Appear, PlayAgain, historyVars
<1>5. CASE UNCHANGED vars
  BY <1>1, <1>5 DEF vars, historyVars
<1> QED
  BY <1>2, <1>3, <1>4, <1>5

\* A game left aside is closed, or as it was.
LEMMA AsidePlays ==
    ASSUME NEW g \in Game, Aside(g), crossed' = {}, gameOn[g] \in BOOLEAN
    PROVE  /\ StillIn(g, table[g], out') = StillIn(g, table[g], out)
           /\ Round(g)!Next \/ UNCHANGED Round(g)!vars
<1>0. \A i \in Chair(table[g]) : Sits(g, table[g], i) \in out' <=> Sits(g, table[g], i) \in out
  BY DEF Aside
<1>1. StillIn(g, table[g], out') = StillIn(g, table[g], out)
  BY <1>0, Zenon DEF StillIn
<1>2. /\ UNCHANGED <<Len(table[g]), OutOf(g), thread[g].turn, StageOf(thread[g].place), status[g]>>
      /\ gameOn'[g] = gameOn[g] \/ (gameOn[g] /\ gameOn'[g] = FALSE)
  <2>1. table'[g] = table[g] /\ thread'[g] = thread[g] /\ status'[g] = status[g]
    BY DEF Aside
  <2>2. /\ OutOf(g) = Chair(table[g]) \ StillIn(g, table[g], out)
        /\ OutOf(g)' = Chair(table'[g]) \ StillIn(g, table'[g], out')
    BY ChairsOf
  <2>3. OutOf(g)' = OutOf(g)
    BY <1>1, <2>1, <2>2, Zenon
  <2>4. gameOn'[g] = gameOn[g] \/ (gameOn[g] /\ gameOn'[g] = FALSE)
    BY DEF Aside
  <2> QED
    BY <2>1, <2>3, <2>4
<1>3. CASE gameOn'[g] = gameOn[g]
  BY <1>1, <1>2, <1>3 DEF Round!vars
<1>4. CASE gameOn[g] /\ gameOn'[g] = FALSE
  <2>1. Round(g)!Close
    BY <1>2, <1>4 DEF Round!Close
  <2> QED
    BY <1>1, <2>1 DEF Round!Next
<1> QED
  BY <1>1, <1>2, <1>3, <1>4

\* No thread changes who sits where.
LEMMA OwnTable ==
    ASSUME NEW g \in Game, OwnStep(g)
    PROVE  table' = table
<1>1. CASE \/ BeginTurn(g) \/ Break(g) \/ Chooses(g) \/ UserMoves(g) \/ Announce(g)
           \/ AskNext(g) \/ UserAllows(g) \/ UserChallenges(g) \/ AskingDone(g)
  BY <1>1 DEF BeginTurn, Break, Chooses, UserMoves, Announce, AskNext, UserAllows,
              UserChallenges, AskingDone, Crash, OnlyThread
<1>2. CASE \/ ClaimProved(g) \/ BluffCalled(g) \/ Act(g) \/ AskExchange(g)
           \/ CloseDialog(g) \/ EndTurn(g) \/ LeaveLoop(g)
  BY <1>2 DEF ClaimProved, BluffCalled, Act, AskExchange, CloseDialog, EndTurn, LeaveLoop,
              OnlyPlayers
<1> QED
  BY <1>1, <1>2 DEF OwnStep

\* The thread of the present game plays.
LEMMA OwnPlays ==
    ASSUME SessionInv, RoundInv, crossed = {}, NEW g \in Game, g = game, OwnStep(g)
    PROVE  Played(g) /\ table' = table
<1>1. table' = table
  BY OwnTable
<1>2. CASE LeaveLoop(g)
  <2>1. /\ UNCHANGED <<table, out>> /\ thread'[g].place = "over"
        /\ Round(g)!Next
    BY <1>2, LeaveLoopPlays
  <2>2. TurnInv(g, table[g], out', thread'[g], gameOn'[g])
    BY <2>1 DEF TurnInv, Moving, InMove
  <2> QED
    BY <1>1, <2>1, <2>2 DEF Played
<1>3. CASE BeginTurn(g) \/ Break(g) \/ Chooses(g) \/ UserMoves(g) \/ Announce(g)
  BY <1>1, <1>3, BeginTurnPlays, BreakPlays, ChoosesPlays, UserMovesPlays, AnnouncePlays
<1>4. CASE AskNext(g) \/ UserAllows(g) \/ UserChallenges(g) \/ AskingDone(g)
  BY <1>1, <1>4, AskNextPlays, UserAnswersPlays, AskingDonePlays
<1>5. CASE \/ ClaimProved(g) \/ BluffCalled(g) \/ Act(g) \/ AskExchange(g)
           \/ CloseDialog(g) \/ EndTurn(g)
  BY <1>1, <1>5, ClaimProvedPlays, BluffCalledPlays, ActPlays, DialogPlays, EndTurnPlays
<1> QED
  BY <1>2, <1>3, <1>4, <1>5 DEF OwnStep

\* The thread of an earlier game that was not abandoned can only leave its loop.
LEMMA EarlierLeaves ==
    ASSUME SessionInv, NEW g \in Game, g < game, g \notin abandoned, OwnStep(g)
    PROVE  LeaveLoop(g)
<1>1. ~gameOn[g] /\ thread[g].place \in {"top", "pause", "idle", "over", "none"}
  BY DEF SessionInv, Apart, ApartInv, Resting
<1>2. ~(BeginTurn(g) \/ Break(g) \/ UserMoves(g))
  BY <1>1 DEF BeginTurn, Break, UserMoves
<1>3. ~(Chooses(g) \/ Announce(g) \/ AskNext(g) \/ UserAllows(g) \/ UserChallenges(g))
  BY <1>1 DEF Chooses, Announce, AskNext, UserAllows, UserChallenges, At
<1>4. ~(AskingDone(g) \/ ClaimProved(g) \/ BluffCalled(g) \/ Act(g) \/ AskExchange(g))
  BY <1>1 DEF AskingDone, ClaimProved, BluffCalled, Act, AskExchange, At
<1>5. ~(CloseDialog(g) \/ EndTurn(g))
  BY <1>1 DEF CloseDialog, EndTurn, At
<1> QED
  BY <1>2, <1>3, <1>4, <1>5 DEF OwnStep

\* Only the lobby begins a game.
LEMMA TableStep ==
    ASSUME [Next]_vars
    PROVE  table' = table \/ \E t \in Table : StartGame(t)
<1>1. ASSUME NEW g \in Game, OwnStep(g) PROVE table' = table
  BY <1>1, OwnTable
<1>2. CASE EndGame \/ OpenSheet \/ CloseSheet \/ Appear \/ PlayAgain \/ UNCHANGED vars
  BY <1>2 DEF EndGame, OpenSheet, CloseSheet, Appear, PlayAgain, vars
<1> QED
  BY <1>1, <1>2, Steps DEF OwnStep

\* A new game is undecided, and its thread has chosen nothing.
LEMMA StartBegins ==
    ASSUME TrueInv, \A h \in Game : h > game => gameOn[h],
           NEW t \in Table, StartGame(t), NEW g \in Game, g = game'
    PROVE  /\ TurnInv(g, table'[g], out', thread'[g], gameOn'[g])
           /\ (Round(g)!Init)'
<1>0. /\ table \in Seq(Table) /\ thread \in [Game -> Thread] /\ gameOn \in [Game -> BOOLEAN]
      /\ game \in Nat /\ \A h \in Game : Fits(thread[h], h)
      /\ \A p \in out : p.game \in 1 .. game
  BY DEF TrueInv, SessionInv, TypeInv, RestOK, ThreadInv, game
<1>1. /\ UNCHANGED <<out, gameOn, status>> /\ table' = Append(table, t)
      /\ thread' = [thread EXCEPT ![game + 1].place = "top"]
  BY DEF StartGame
<1>2. g = game + 1 /\ table'[g] = t
  BY <1>0, <1>1, AppendProperties DEF game
<1>3. g > game /\ \A p \in out : p.game # g
  <2>1. \A n \in 1 .. game : n # game + 1
    BY <1>0
  <2> QED
    BY <1>0, <1>2, <2>1
<1>4. thread[g] = NewThread
  BY <1>0, <1>3 DEF Fits
<1>5. thread'[g] = [NewThread EXCEPT !.place = "top"]
  BY <1>0, <1>1, <1>2, <1>4
<1>6. thread'[g].place = "top" /\ thread'[g].turn = 0 /\ thread'[g].mover = NoPlayer
  BY <1>5 DEF NewThread
<1>7. gameOn'[g] = TRUE /\ status'[g] = "You Lost"
  BY <1>0, <1>1, <1>3 DEF TrueInv, StatusInv
<1>8. 0 \in Chair(t) /\ 1 \in Chair(t) /\ Len(t) \in Nat /\ Len(t) >= 2
  BY TableSeats
<1>9. StillIn(g, t, out) = Chair(t)
  <2>1. \A i : Sits(g, t, i).game = g
    BY DEF Sits
  <2> QED
    BY <1>3, <2>1 DEF StillIn
<1>10. Contest(g, t, out)
  BY <1>8, <1>9 DEF Contest
<1>11. TurnInv(g, table'[g], out', thread'[g], gameOn'[g])
  BY <1>1, <1>2, <1>6, <1>10 DEF TurnInv, Moving, InMove
<1>12. (Round(g)!Init)'
  <2>1. OutOf(g)' = Chair(table'[g]) \ StillIn(g, table'[g], out')
    BY ChairsOf
  <2>2. OutOf(g)' = {}
    <3>1. StillIn(g, table'[g], out') = Chair(table'[g])
      BY <1>1, <1>2, <1>9, Zenon
    <3> QED
      BY <2>1, <3>1
  <2>4. Len(t) \in Nat \ {0, 1}
    <3>1. \A n \in Nat : n >= 2 => n \in Nat \ {0, 1}
      OBVIOUS
    <3> QED
      BY <1>8, <3>1, Zenon
  <2>5. Len(table'[g]) \in Nat \ {0, 1}
    BY <1>2, <2>4, Zenon
  <2>3. StageOf(thread'[g].place) = "rest"
    BY <1>6, StageValues
  <2> QED
    BY <1>6, <1>7, <2>2, <2>3, <2>5 DEF Round!Init
<1> QED
  BY <1>11, <1>12

WholeInv == TrueInv /\ RoundInv /\ \A g \in Game : g > game => gameOn[g]

LEMMA WholeInit == Init => WholeInv
<1> SUFFICES ASSUME Init PROVE WholeInv
  OBVIOUS
<1>1. game = 0 /\ \A g \in Game : gameOn[g]
  BY EmptySeq DEF Init, game
<1>2. ~(game > 0)
  BY <1>1
<1> QED
  BY <1>1, <1>2, TrueInit DEF WholeInv, RoundInv

\* What a step does to game g, begun before it.
LEMMA GameStep ==
    ASSUME WholeInv, [Next]_vars, NEW g \in Game, g =< game
    PROVE  \/ OwnStep(g) /\ table' = table
           \/ Aside(g)
<1>1. SessionInv
  BY DEF WholeInv, TrueInv
<1>2. ASSUME NEW h \in Game, OwnStep(h) PROVE (OwnStep(g) /\ table' = table) \/ Aside(g)
  <2>1. CASE h = g
    BY <1>2, <2>1, OwnTable
  <2>2. CASE h # g
    BY <1>1, <1>2, <2>2, OthersAside
  <2> QED
    BY <2>1, <2>2
<1>3. ASSUME \/ \E t \in Table : StartGame(t)
             \/ EndGame \/ OpenSheet \/ CloseSheet \/ Appear \/ PlayAgain
             \/ UNCHANGED vars
      PROVE  Aside(g)
  BY <1>1, <1>3, ScreensAside
<1>4. \/ \E h \in Game : OwnStep(h)
      \/ \E t \in Table : StartGame(t)
      \/ EndGame \/ OpenSheet \/ CloseSheet \/ Appear \/ PlayAgain
      \/ UNCHANGED vars
  BY Steps DEF OwnStep
<1> QED
  BY <1>2, <1>3, <1>4

\* A game that has not begun has not ended either.
LEMMA StillToBegin ==
    ASSUME WholeInv, [Next]_vars, NEW g \in Game, g > game
    PROVE  gameOn'[g]
<1>0. /\ SessionInv /\ gameOn \in [Game -> BOOLEAN] /\ gameOn[g] /\ game \in Nat /\ g \in Nat
      /\ ThreadInv /\ RestOK
  <2>1. SessionInv /\ ThreadInv /\ RestOK /\ gameOn[g]
    BY DEF WholeInv, TrueInv, SessionInv, TypeInv
  <2>2. game \in Nat /\ gameOn \in [Game -> BOOLEAN]
    BY <2>1 DEF RestOK, game
  <2>3. g \in Nat
    BY SessionAssumption DEF Game
  <2> QED
    BY <2>1, <2>2, <2>3
<1>1. ASSUME NEW h \in Game, OwnStep(h) PROVE gameOn'[g]
  <2>1. thread[h].place # "none"
    <3>1. CASE \/ BeginTurn(h) \/ Break(h) \/ Chooses(h) \/ UserMoves(h) \/ Announce(h)
               \/ AskNext(h) \/ UserAllows(h) \/ UserChallenges(h) \/ AskingDone(h)
      BY <3>1 DEF BeginTurn, Break, Chooses, UserMoves, Announce, AskNext, UserAllows,
                  UserChallenges, AskingDone, At
    <3>2. CASE \/ ClaimProved(h) \/ BluffCalled(h) \/ Act(h) \/ AskExchange(h)
               \/ CloseDialog(h) \/ EndTurn(h) \/ LeaveLoop(h)
      BY <3>2 DEF ClaimProved, BluffCalled, Act, AskExchange, CloseDialog, EndTurn, LeaveLoop, At
    <3> QED
      BY <1>1, <3>1, <3>2 DEF OwnStep
  <2>2. h \in 1 .. game
    BY <1>0, <2>1, Begun
  <2>3. h # g
    BY <1>0, <2>2
  <2>4. gameOn'[g] = gameOn[g]
    <3>1. CASE \/ BeginTurn(h) \/ Break(h) \/ Chooses(h) \/ UserMoves(h) \/ Announce(h)
               \/ AskNext(h) \/ UserAllows(h) \/ UserChallenges(h) \/ AskingDone(h)
      BY <3>1 DEF BeginTurn, Break, Chooses, UserMoves, Announce, AskNext, UserAllows,
                  UserChallenges, AskingDone, Crash, OnlyThread
    <3>2. CASE \/ ClaimProved(h) \/ BluffCalled(h) \/ Act(h) \/ AskExchange(h) \/ CloseDialog(h)
      BY <3>2 DEF ClaimProved, BluffCalled, Act, AskExchange, CloseDialog, OnlyPlayers
    <3>3. CASE Ends(h)
      BY <1>0, <2>3, <3>3 DEF Ends, GameOver, LastScreen
    <3>4. CASE PlaysOn(h)
      BY <3>4 DEF PlaysOn
    <3>5. CASE LeaveLoop(h)
      BY <1>0, <2>3, <3>5 DEF LeaveLoop, LastScreen
    <3> QED
      BY <1>1, <3>1, <3>2, <3>3, <3>4, <3>5, TurnEnds DEF OwnStep
  <2> QED
    BY <1>0, <2>4
<1>2. CASE EndGame
  BY <1>0, <1>2 DEF EndGame, LastScreen
<1>3. CASE \/ \E t \in Table : StartGame(t)
           \/ OpenSheet \/ CloseSheet \/ Appear \/ PlayAgain
  BY <1>0, <1>3 DEF StartGame, OpenSheet, CloseSheet, Appear, PlayAgain
<1>4. CASE UNCHANGED vars
  BY <1>0, <1>4 DEF vars
<1> QED
  BY <1>1, <1>2, <1>3, <1>4, Steps DEF OwnStep

LEMMA RoundStep ==
    ASSUME WholeInv, [Next]_vars
    PROVE  /\ RoundInv'
           /\ \A g \in Game :
                 /\ game' = g /\ game # g => (Round(g)!Init)'
                 /\ g =< game /\ crossed' = {} /\ ~Misplaced(g) =>
                       Round(g)!Next \/ UNCHANGED Round(g)!vars
<1>0. /\ SessionInv /\ TrueInv /\ RoundInv /\ game \in Nat /\ gameOn \in [Game -> BOOLEAN]
      /\ \A h \in Game : h > game => gameOn[h]
  BY DEF WholeInv, TrueInv, SessionInv, TypeInv, RestOK, game
<1>1. game =< MaxGames /\ MaxGames \in Nat
  BY <1>0, SessionAssumption DEF SessionInv, TypeInv, RestOK
\* The new game, if one begins.
<1>2. ASSUME NEW t \in Table, StartGame(t), NEW g \in Game, g = game'
      PROVE  /\ TurnInv(g, table'[g], out', thread'[g], gameOn'[g])
             /\ (Round(g)!Init)'
  BY <1>0, <1>2, StartBegins
<1>3. ASSUME NEW t \in Table, StartGame(t) PROVE game' = game + 1 /\ game' \in Game
  <2>1. table' = Append(table, t) /\ game < MaxGames /\ table \in Seq(Table)
    BY <1>0, <1>3 DEF StartGame, SessionInv, TypeInv, RestOK
  <2>2. game' = game + 1
    BY <2>1, AppendProperties DEF game
  <2> QED
    BY <1>0, <1>1, <2>1, <2>2 DEF Game
\* A game begun before.
<1>4. ASSUME NEW g \in Game, g =< game, crossed' = {}
      PROVE  \/ OwnStep(g) /\ crossed = {} /\ table' = table
             \/ /\ Aside(g) /\ crossed = {}
                /\ StillIn(g, table[g], out') = StillIn(g, table[g], out)
                /\ Round(g)!Next \/ UNCHANGED Round(g)!vars
  <2>1. crossed \subseteq crossed'
    BY <1>0, StatusStep DEF Kept, EndTurn
  <2>2. CASE Aside(g)
    <3>1. gameOn[g] \in BOOLEAN
      BY <1>0
    <3> QED
      BY <1>4, <2>1, <2>2, <3>1, AsidePlays
  <2> QED
    BY <1>4, <2>1, <2>2, GameStep
<1>5. ASSUME NEW g \in Game, g = game, OwnStep(g), crossed = {} PROVE Played(g)
  BY <1>0, <1>5, OwnPlays
<1>6. RoundInv'
  <2> SUFFICES ASSUME crossed' = {}, game' > 0
               PROVE  TurnInv(game', table'[game'], out', thread'[game'], gameOn'[game'])
    BY DEF RoundInv, TurnInv, Contest, StillIn, Sits, Chair, Moving, InMove
  <2>1. CASE \E t \in Table : StartGame(t)
    BY <1>2, <1>3, <2>1
  <2>2. ASSUME table' = table, NEW g \in Game, g = game
        PROVE  TurnInv(g, table'[g], out', thread'[g], gameOn'[g])
    <3>1. g =< game /\ g > 0
      BY <1>0, <1>1, <2>2 DEF Game
    <3>2. CASE OwnStep(g) /\ crossed = {}
      <4>1. Played(g)
        BY <1>5, <2>2, <3>2
      <4> QED
        BY <2>2, <4>1 DEF Played
    <3>3. CASE /\ Aside(g) /\ crossed = {}
               /\ StillIn(g, table[g], out') = StillIn(g, table[g], out)
      <4>1. TurnInv(g, table[g], out, thread[g], gameOn[g])
        BY <1>0, <2>2, <3>1, <3>3 DEF RoundInv
      <4>2. TurnInv(g, table[g], out', thread[g], gameOn'[g])
        BY <3>3, <4>1, TurnStays DEF Aside
      <4> QED
        BY <2>2, <3>3, <4>2 DEF Aside
    <3> QED
      BY <1>4, <3>1, <3>2, <3>3
  <2>3. CASE table' = table
    <3>1. game' = game /\ game \in Game
      BY <1>0, <1>1, <2>3 DEF game, Game
    <3> QED
      BY <2>2, <2>3, <3>1
  <2> QED
    BY <2>1, <2>3, TableStep
<1>7. ASSUME NEW g \in Game, game' = g, game # g PROVE (Round(g)!Init)'
  <2>1. table' # table
    BY <1>7 DEF game
  <2> QED
    BY <1>2, <1>7, <2>1, TableStep
<1>8. ASSUME NEW g \in Game, g =< game, crossed' = {}, ~Misplaced(g)
      PROVE  Round(g)!Next \/ UNCHANGED Round(g)!vars
  <2>1. CASE OwnStep(g) /\ crossed = {}
    <3>1. CASE g = game
      BY <1>5, <2>1, <3>1 DEF Played
    <3>2. CASE g < game
      <4>1. g \notin abandoned
        BY <1>8, <3>2 DEF Misplaced
      <4> QED
        BY <1>0, <2>1, <3>2, <4>1, EarlierLeaves, LeaveLoopPlays
    <3>3. g \in Nat
      BY SessionAssumption DEF Game
    <3> QED
      BY <1>0, <1>8, <3>1, <3>2, <3>3
  <2> QED
    BY <1>4, <1>8, <2>1
<1> QED
  BY <1>6, <1>7, <1>8

LEMMA WholeStep == WholeInv /\ [Next]_vars => WholeInv'
<1> SUFFICES ASSUME WholeInv, [Next]_vars PROVE WholeInv'
  OBVIOUS
<1>1. TrueInv'
  BY TrueStep DEF WholeInv
<1>2. RoundInv'
  BY RoundStep
<1>3. ASSUME NEW g \in Game, g > game' PROVE gameOn'[g]
  <2>1. game =< game' /\ game \in Nat /\ game' \in Nat /\ g \in Nat
    <3>1. SessionInv /\ game \in Nat /\ game' \in Nat
      BY <1>1 DEF WholeInv, TrueInv, SessionInv, TypeInv, RestOK, game
    <3>2. game =< game' \/ table' = table
      BY <3>1, StatusStep DEF Kept, EndTurn
    <3>3. table' = table => game' = game
      BY DEF game
    <3> QED
      BY <3>1, <3>2, <3>3, SessionAssumption DEF Game
  <2>2. g > game
    BY <1>3, <2>1
  <2> QED
    BY <1>3, <2>2, StillToBegin
<1> QED
  BY <1>1, <1>2, <1>3 DEF WholeInv, Game

LEMMA RoundWords ==
    WholeInv /\ [Next]_vars =>
        [ \A g \in Game :
            /\ game' = g /\ game # g => (Round(g)!Init)'
            /\ g =< game /\ crossed' = {} /\ ~Misplaced(g) =>
                  Round(g)!Next \/ UNCHANGED Round(g)!vars ]_vars
BY RoundStep

\* Every game of a session is one of Rounds: it begins as that does, and then each
\* step of the program is a step of it or none, as long as no thread has changed
\* players of another game, and for an abandoned game only while it is the present one.
THEOREM RoundsPlayed == Spec => PlaysRounds
<1> QED
  BY WholeInit, WholeStep, RoundWords, PTL DEF Spec, PlaysRounds

=============================================================================

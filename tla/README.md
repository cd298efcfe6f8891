# A TLA+ model of Coup

This directory specifies and verifies the game in `src/Coup/Coup`: an iOS
program in which one user plays Coup against one to five AIs. The modules are
translated from the Swift source; line numbers below refer to it, and GVC is
`View Controllers/GameViewController.swift`.

## 1. Inventory

| component | where | state | operations |
|---|---|---|---|
| Cards and move names | `Backend/Card.swift`, `Backend/Move.swift` | the role and the `revealed` flag of each of 15 objects | none |
| Deck | `Backend/Deck.swift` | `cardDeck` | deal, draw one, draw two, return one (turned), return two |
| Players | `Backend/Player.swift` 3-88 | two cards, coins | `checkhaveCard`, `isPlayerRevealed` |
| AI decisions | `Backend/Player.swift` 120-898 | move weights, challenge rate | choice of a move, a target, an answer |
| Turn engine | GVC | `turnInd`, `gameOn`, the chosen move, `challengeTurnInd`, `twoCards`, `status` | `runGame`, `anyChallenges`, `actOnMove`, `revealCard`, `isGameOver` |
| Challenge prompt | GVC 554-608, 704-740, 781-791 | `didPlayerChallengeOrAllow`, `challengeMove`, the buttons | polling loop, two handlers, queued enabling blocks |
| Exchange dialog | `ExchangeViewController.swift`, GVC 466-526, 795-817 | `switchSegue`, the dialog's copy of `twoCards` | long presses, keep, swipe, spins and resets |
| Game session | GVC, `GameEndsViewController.swift`, `OfflineViewController.swift` 148 | globals `players`, `moveLog`; `GameEndsViewController.status` | start, End Game, end screen, play again |
| Lobby | `OfflineViewController.swift` | `playerArray`, `aiArray`, `playerCount` | add, delete, start |
| Activity log, login, settings, sound, menus, cells | the other files | preferences, account | I/O and display |

How they interact. The main thread runs the interface. A serial dispatch queue
runs one work item, `runGame`, the *game thread*. The two share the stored
properties of the view controller, the global `players` and `moveLog`, and the
card objects, without locks. The game thread asks the main thread for work by
`DispatchQueue.main.async` and `.sync`; the main thread answers by setting
flags that the game thread polls (`didPlayerChallengeOrAllow`), spins on
(`switchSegue`), or by queueing the work item again (`didPlayerMove`).

What is hard.

- The cards of a challenged exchange: a proof is shown, the replacement drawn,
  the move carried out - which may exchange the very hand the proof is in - and
  only then is the proof replaced. Cards travel through locals meanwhile.
- What a move was chosen on (coins, who is in the game) is used after everybody
  has been asked and a challenge has cost somebody a card.
- Two players can go out in one turn, and the count of the eliminated is checked
  once a turn.
- The two threads hand over answers by a flag and a field, in this order; blocks
  that enable buttons are queued behind touches; recognizers call back several
  times; a dialog can vanish without a callback.
- "End Game" only clears `gameOn`. The thread plays its turn to the end behind the
  last screen, and the next game shares the globals with it.
- A segue can fall through, because a sheet is open or the game has ended, after
  `prepare(for:)` has already changed the state.
- An AI's weights go through a long chain of sums, halvings and special cases
  for each slot of each player, and are drawn from in the order of a dictionary.

`PROJECT.json` lists each hazard with its line and the properties aimed at it.

What makes each component correct: the deck and the hands always hold the same
cards, once, and nothing in the deck is face up; a player who is out stays out;
the game stops when and only when it is decided, with the right verdict; each
claim is challenged or carried out; purses move only as the moves say and nobody
pays what it does not have; every turn ends; an answer of the user is taken
once, for the question it was given to; an exchange ends and loses no card; an AI
draws only what it can pay for and judges only by what it may see; a name sits at
a table once; the thread of one game leaves the players, the verdict and the log
of another alone.

## 2. Modules

| module | models |
|---|---|
| `CoupCards` | seats, card objects, roles, move names: the vocabulary, with the assumptions on the constants |
| `CoupGame` | the turn engine with deck, hands, purses, AIs and the user, and its properties |
| `CoupRules` | the abstract specification: influence, purses, one claim a turn |
| `Exchange` | the abstract specification of one exchange of the user |
| `Objections` | the abstract specification of the asking: a claim put to the table |
| `Rounds` | the abstract specification of a game as a sequence of turns: who is out, whose turn it is, the verdict |
| `CoupGameRules` | the refinement mappings from `CoupGame` to `CoupRules` and `Rounds`, of its dialog steps to `Exchange`, and of its asking steps to `Objections` |
| `AIPlayer` | the weights of an AI's moves, the draw by them, its rate of challenging |
| `ExchangeDialog` | the two threads of one exchange of the user, with the refinement mapping to `Exchange` |
| `ChallengePrompt` | the two threads of the prompt for a challenge, over several moves, with the refinement mapping to `Objections` |
| `CoupTable` | the tables a game can be started with |
| `GameSession` | several games in a row: screens, segues, globals, a thread for each game |
| `SessionRounds` | the refinement mapping from each game of `GameSession` to `Rounds` |
| `Lobby` | how a table is put together |
| `MCCoupGame`, `MCAIPlayer`, `MCExchangeDialog`, `MCChallengePrompt`, `MCGameSession`, `MCLobby` | instances for TLC |
| `CoupGameProofs`, `CoupVerdictProofs`, `CoupRulesProofs` | theorems about `CoupGame`: types and cards; the end of the game, elimination, purses and the length of a turn; the refinements. Each extends the one before |
| `ExchangeDialogProofs`, `ChallengePromptProofs`, `GameSessionProofs`, `LobbyProofs`, `AIPlayerProofs` | theorems about the modules they are named after |

How they fit together. `CoupGame` is the centre. `AIPlayer` details the choice of
an AI that `CoupGame` leaves open: `DrawAllowed` is what `AICan` of `CoupGame`
says. `ExchangeDialog` and `ChallengePrompt` detail the steps `CoupGame` takes for
an answer of the user. Each joint is a module of its own. `Exchange` is what the
dialog steps of `CoupGame` are (`ExchangeByTheBook`) and what the two threads of
`ExchangeDialog` implement (`FollowsExchange`). `Objections` is what the asking
steps of `CoupGame` are (`AskingByTheBook`) and what the two threads of
`ChallengePrompt` implement (`FollowsAsking`).
`GameSession` repeats the control of a turn, without cards and coins, to put
several turns and threads side by side. That it is the same turn is what `Rounds`
is for: `CoupGame` implements it (`FollowsRounds`), and so does every game of
`GameSession` (`PlaysRounds`). `CoupTable` is between `Lobby`, which
shows that a game starts exactly at its tables (`CountTellsTheTable`), and
`GameSession`, which starts at any of them; `NPAssumption` of `CoupCards` rests on
it too.

### CoupGame

`pc` is the place of the game thread. Between two places only the game thread
touches cards and coins, so an action is the code between two places: from a
random draw or a wait to the next one. `top` is the head of the loop of
`runGame`, `idle` the queue without a work item while the user thinks, `target`
the loop of `getPlayerMove`, `ask` the loop of `anyChallenges`, `prove` the
branch of a challenge, `act` the entry of `actOnMove`, `dialog0` and `dialog1`
its two waits, `return` its last lines, `replace` the code after it for a proved
claim, `check` the end of the turn, `over` the end of the loop.

| variable | code |
|---|---|
| `deck`, `hand`, `revealed`, `coins` | `deck.cardDeck`, `players[p].cards`, `Card.revealed`, `players[p].coins` |
| `turnInd`, `gameOn`, `challengeTurnInd`, `twoCards`, `status` | the properties of these names |
| `playerMove` | `playerMove` while `didPlayerMove`, else `NoMove` |
| `move`, `objection`, `theCard`, `newCard` | the locals of `runGame`; of `objection` the name, because its caller is `challengeTurnInd` and its target the caller of the move |

The deck is a set because every draw picks a random index of a shuffled array:
no order can be observed. A card is an object, so "the card shown" and "another
Duke" differ, as in the code. Labels, highlights, sounds, sleeps and the move
log are left out. AIs choose among the moves whose weight is not always zero
(`Weighted`, `AICan`), and answer a claim either way. The user's answers are one
step here; how the threads hand them over is the business of the two thread
modules below, which therefore compose with this one by what they promise: the
two threads of a prompt implement `Objections`, those of an exchange `Exchange`.
Where they break that promise (section 5) the steps of `CoupGame` are the intended
ones.

Definitions named `X_Something` above `X`, commented "seeded defect", are wrong
versions of `X`. No specification uses them; they show that a property can fail.

### CoupRules and CoupGameRules

`CoupRules` is a turn as the players see it: a claim, at most one objection, and
the effect. Its state is the influence (slots) of each player, the purses, the
turn, the stage of the turn, the claim and the verdict. It knows no card, no
deck, no asking order and no dialog. `CoupGameRules` maps `CoupGame` to it: the
influence is the set of face-down slots, the stage is read off `pc`; purses,
turn, move and verdict are the same variables. Asking an AI that allows, drawing
a target in vain, drawing cards and replacing a proof are stuttering steps.

Two places of `CoupRules` say what this program does rather than what the game
should be, so that the refinement is a fact: the user may rob anybody (`Aimable`),
and a claimant who proves a claim has the slot of the card shown afterwards, even
if it had lost it before (`Uphold`). Both are in section 5.

### Rounds and SessionRounds

`Rounds` is what a turn of `CoupGame` and one of `GameSession` have in common. Its
state is who is out, whose turn it is, how far the turn is, whether the game is on
and the verdict. In `CoupGame` a player is out who has no influence (that of
`CoupGameRules`); in `GameSession` `out` is a variable, and the players of a game
are found in it by their names (`OutOf`). What a challenge or a move costs is
left open here: `MayFall` says who, at most, goes out by it.

A game of `GameSession` follows `Rounds` as long as no thread has changed players of
another game (`crossed`). The thread of an abandoned game is left out once a later
game has begun (`Misplaced`), because its turn goes on at another table.

### Exchange and ExchangeDialog

`Exchange` is one exchange with its answers as single steps: `place` says which
card is asked about. In `CoupGame` its variables are the user's hand, the deck and
`pc`. In `ExchangeDialog` its `place` is read off the slots that have been
answered (`PlaceNow`), and not off the game thread, because an answer changes the
cards when it is given, before the game thread sees the flag; its `deck` is what
has been given back.

`gpc` is the game thread between GVC 470 and 526; `screen` is the dialog shown,
with its own copy of `twoCards`; `finger` is a press that goes on after its
first callback. `repeated`, `early`, `swiped` and `answered` are history variables:
they remember that a press sent a second callback, that the second dialog was
answered before the flag was reset, that a dialog was swiped away, and the slots
whose dialog was answered. The slot of the
answer and the card chosen are the four cases of `applyExchange`.

### Objections and ChallengePrompt

`Objections` is the asking with answers as single steps: `next` is who is asked,
`answer` the last answer, `challenge` the pair runGame makes reveal a card. In
`CoupGame` the pair is the player asked and the caller of the move, as the code
would have it; in `ChallengePrompt` it is read off the `Move` that `anyChallenges`
returns, which is where another player could get in. `Claim` is the rest of
`runGame`; only `ChallengePrompt` needs it, because it goes on from move to move.

`gpc` is the game thread in `anyChallenges`; `mpc` the main thread in a handler:
`write` between the flag and the answer, `disable` between the answer and
`disableAllButtons` (for Allow a second of sleep). `queued` counts enabling
blocks; a touch may be handled before them. `NextMove` is the rest of `runGame`
between two moves that can be challenged. `late` remembers that an enabling
block ran when nobody waited for an answer, `torn` that the answer was read
while a handler was at `write`. The end of the program by an index out of range
is `mpc = "crashed"`.

### AIPlayer

A step is one call: `BeginTurn` is `changeMoveRate`, `GetAIMoveName` the draw,
`GetChallengeOrAllow` is `adjustChallengeRate`. The rest of the game is the table,
any position at each turn; cards are named by the move they back. The weights
keep their arithmetic: tens for cards held and shown, a hundred taken off,
halving towards zero, the clamp. A random number matters only by the interval it
falls in, so the ends of the intervals stand for all (`Rand`). The order of a
dictionary is not defined; `Order` lists the orders an instance tries.

### GameSession

| variable | code |
|---|---|
| `table`, `out` | the global `players` of each game; the `Player` objects with both cards revealed |
| `gameOn[g]`, `status[g]` | the properties of the view controller of game `g` |
| `thread[g]` | the work item of game `g`: its place in `runGame`, `turnInd`, `challengeTurnInd`, and the players it holds in locals |
| `logger` | whose move is the last in the global `moveLog` |
| `lastStatus`, `shown` | `GameEndsViewController.status`, and what `viewDidAppear` has typed |
| `screen`, `over` | the view controller on top, and what is presented over it |

An index is looked up in the *present* game's table, a player kept in a local is
an object of the game it was read in; that difference is what the module is
about. `LastScreen` is `prepare(for:)` with the presentation: it always clears
`gameOn` and writes the status, and presents only if the game screen is on top.
`abandoned`, `crossed`, `behind`, `dropped` and `extra` are history variables.
A press in the pause of `runGame` counts as one right after it: the thread breaks
out of the loop in either case. An AI whose draw of a target fits nobody - a theft,
when nobody in the game has two coins - is at `draw`, and stays there for as long
as the table and its purses are those of its own game (`DrawsOn`). `user!` in
`isGameOver` is the user `setupUser` found last, in a block that may have run at the
table of a later game (the `u` of `EndTurn`); only the thread of an abandoned game
gets that far.

### Lobby

The two lists and the counter of `OfflineViewController`, with one action for
each of the three handlers.

## 3. What TLC checks

| run | instance | properties | result |
|---|---|---|---|
| `pair` | 2 seats, every deal of 7 cards of 4 roles, all moves but income and foreign aid, purses to 10 | `TypeOK`, `CardsConserved`, `DeckFaceDown`, `DeckNeverRunsShort`, `AIPurseBounded`, `EliminationIsPermanent` | hold |
| `table` | 3 seats, one deal of 9 cards of 3 roles, purses to 4, one theft on credit, no exchange | `PlayOnlyUndecided`, `VerdictSound`, `ClaimNeverDropped`, `DebtOnlyByUserTheft`, `FollowsRules` | hold |
| `fair` | 3 seats, one deal of 9 cards of 3 roles, tax, theft, assassination and coup, purses to 5 | `TurnsGoRound` | hold |
| `dialog` | 4 cards, every set of revealed slots, 2 repeats of a press, swipes | `TypeOK`, `KeptUnlessRepeated`, `ClosedBeforeReturn`, `RevealedStays`, `EndsUnlessLost`, `FollowsExchange` | hold |
| `prompt` | 3 seats, 3 moves put to the table, 2 queued blocks | `TypeOK`, `FlagIsTheUsers`, `CrashOnlyIfRaced`, `PromptAnswered`, `FollowsAsking` | hold |
| `lobby` | the five names and six seats of the program | `RosterShared`, `CountTellsTheTable` | hold |
| `session` | 2 games, tables of 2 or 3, symmetric names | `TypeOK`, `OneMoveMore`, `OwnPlayersOnly`, `CrashOnlyIfAbandoned`, `VerdictIsOwn`, `StatusTrue`, `LogEndsWithMove`, `PlaysRounds` | hold |
| `session_live` | a game of 3, then one of 2 | `EndedStops`, `VerdictTold` | hold |
| `ai` | 2 players, the cards of 2 roles, purses of 1, 3 and 7, 2 turns, 2 orders | `TypeOK`, `DrawAllowed`, `RateIsFlat`, `HeldIsRaised`, `NobodyPeeks` | hold |
| `proof`, `theft`, `dialog_ends` | small versions of these | what a comment or the rules say | violated: section 5 |

Bounds, and why they are enough.

- `pair`: seven cards is the least `CardAssumption` allows for two seats, so the
  deck is as short as it can be: a challenged exchange empties it. Four roles
  with two Assassins, two Dukes and two Ambassadors give equal cards in one hand
  and in both. Contessa is left out, and with it foreign aid: a claim of it is a
  bluff without one, like a claim of theft without a Captain, and income reaches
  no card. Both moves are in `table`. `MaxCoins = 10` is one more than
  `AIPurseBounded` allows an AI, so that the forced coup, and not the bound, is what
  keeps it at nine; a move that would make its caller richer than the bound is not
  chosen.
  The cards of one role are symmetric: no property tells them apart.
- `table`: with three seats the caller, the challenger, the target and a
  bystander can differ, two players can go out in one turn, and a turn can pass
  over a player who is out. Purses of four allow assassinations and thefts; the
  coup, which needs seven, is in `pair`. Exchanges do not touch what
  these properties read (coins, turn, who is out), and are left out to keep the
  instance small; so one deal suffices, since claims may be true or bluffs and
  revealed cards are replaced by any card of the deck. `MaxDebt = 1` lets the
  user's theft take a purse to -1.
- `fair`: with three seats a player can be out while the game goes on, so that both
  loops that skip players do skip some, and a theft can be left without a victim.
  The loops are in the turn and not in the cards: one deal is enough, with one
  Assassin and one Captain, so that a claim may be true or a bluff. Assassinations
  and challenges put players out. Purses of five let a tax be followed by an
  assassination; with less, a user of two coins would be kept from every move by
  the bound alone.
- `dialog`: one exchange has four cards and at most two dialogs. Two repeats are
  enough for a late callback of the first dialog to meet every place of the
  second and of the return.
- `prompt`: three moves let an answer be stale by one move and by two; two
  queued blocks let one be left over while another is served.
- `FollowsRules` is checked in `table`, not in `pair`, where the mapping makes the
  run too long. The exchange and the coup, which `table` does not have, are covered
  by the proof in section 4, which knows no bound.
- `lobby` has no bound: it is the program's own size.
- `session`: a third game adds nothing to two, since the thread of a game meets
  only the present one, and what two abandoned threads do to it one can do alone.
  Tables of two and three have different lengths (an index can be too large) and
  the same or other names in the seats (an abandoned thread compares names). With
  three a turn can pass over somebody who is out. `session_live` takes the one
  order of the two tables in which the thread of the first game can be left with
  an index past the second: a table of three, then one of two. All orders take
  too long there; the safety properties of `session` see them.
- `ai`: the weights of the roles do not depend on each other, so two roles show
  the two kinds there are: a weight that starts afresh when the card is held
  (Assassin) and one that goes on from turn to turn (Duke, which also goes by the
  coins). The purses are one, three and seven, on the two sides of each
  comparison with three and seven; with one coin nobody can be robbed. The second
  turn sees weights that the first has changed. The two orders differ in
  what comes first and last and in the neighbours of each key.

No run except `lobby` checks for deadlock: a game ends, a thread may wait for ever
on the user, and the bounds stop moves and turns. The lobby can never be stuck.

### Fairness

`FairSpec` of `CoupGame`: weak fairness of the game thread - a serial queue keeps
running its work item, and the random draws of `getPlayerMove` that do not fit
change nothing, so in the end one fits if there is one - and of the user's move
and answers: `TurnsGoRound` asks for them, and it is about a user who plays. If
none fits, which by `DrawEnds` happens to a theft only, the draw goes on for ever
and the turn with it: `TurnsGoRound` names this state (`DrawsInVain`), and run
`theft` shows that it is reached. The
"End Game" button is not fair: nobody has to press it. The dialog and the prompt
assume that both threads are scheduled, that an enabled button or a shown dialog
is answered some day, and that a finger is lifted some day.

`GameSession` assumes weak fairness of each thread and of the appearance of a
presented screen, and nothing of the user: `EndedStops` and `VerdictTold` are about
what the program does by itself. One condition on all of a thread's steps
(`Turn`) is enough, because a thread has one step at a time; its choices are not
fair, and need not be. The draw of a target that nobody fitted at first (`DrawsOn`)
is not in it: nothing says that a later table has somebody who does.

## 4. What is proved

For `CoupGame`, TLAPS proves these for every number of seats from 2 to 6, every finite deck of
at least `2 * NP + 3` cards with any assignment of roles, and every value of the
bounds (`NPAssumption`, `CardAssumption`, `NoCardAssumption`, `BoundAssumption`).
`CountTellsTheTable` of `Lobby` justifies the first; the second is an equality for the program's 15
cards and 6 seats.

| theorem | says |
|---|---|
| `TypeCorrect` | `Spec => []TypeOK` |
| `CardsAlwaysConserved`, `DeckAlwaysFaceDown`, `DeckNeverShort` | the three card invariants |
| `ClaimsAnswered`, `NoPlayAfterTheEnd`, `VerdictTrue` | `ClaimNeverDropped`, `PlayOnlyUndecided`, `VerdictSound` |
| `EliminationLasts` | `EliminationIsPermanent`, an action property |
| `AIPursesBounded`, `NoOtherDebt` | `AIPurseBounded`, and the action property `DebtOnlyByUserTheft` |
| `TurnsRunDown` | `TurnsNeverDrag`: every step lowers `StepsLeft`, at most `NP + 12`, or passes the turn to the next player, or is "End Game" |
| `DrawEnds` | `getPlayerMove` has a target to hit on, except for a theft when all who have two coins are out (`DrawEndsOrNoVictim`): the exact extent of run `theft` |
| `RulesFollowed` | `FollowsRules`: every behaviour of `CoupGame` is one of `CoupRules` |
| `RoundsFollowed` | `FollowsRounds`: every behaviour of `CoupGame` is one of `Rounds` |
| `ExchangesByTheBook` | `ExchangeByTheBook`: the dialogs of the user's move are one exchange of `Exchange` |
| `AsksByTheBook` | `AskingByTheBook`: a claim that can be challenged is put to the table as `Objections` has it |

The argument.

- *Types.* `TypeOK` is not inductive: `newCard` and `twoCards` may be absent, and
  the code uses them as cards. `TypeInv` adds at which places of the game thread
  they are there (`CardsInFlight`), and where a move is chosen (`MoveChosen`).
- *Cards.* `CardInv` adds `CardsConserved`, `DeckFaceDown`, that a dialog asks
  about a face-down card (`DialogFaceDown`: else a revealed card could be given
  to the deck), and that a challenge has a seated challenger. Each action either
  leaves the cards alone, turns cards on the table, or moves named objects
  between deck, hands and flight.
- *The deck is long enough.* With no exchange running, at most `2 * NP` cards are
  on the table and one in flight; if all of the deck were one card, the deck and
  these would be fewer than `2 * NP + 3` (`DeckLarge`).
- *The end.* `VerdictInv` says that a contest - the user and some AI are in the
  game - is on wherever a move is chosen or asked about, even after "End Game"
  has been pressed, which `PlayOnlyUndecided` leaves open; that nobody was there
  to be asked as long as nobody has answered; and that a verdict is spoken only
  when the loop ends. `CountIsRight` is the arithmetic of `isGameOver`: the AIs
  are `NP - 1` players.
- *Elimination.* One case for each action: cards are only turned up, or the hand
  that changes belongs to a player with influence (the claimant with a proof, the
  owner of a proof being replaced, the user in a dialog), or, for the exchange of
  an AI, only face-down slots change. Distinctness of the objects in the hands,
  from `CardInv`, keeps the turned-down proof from being anybody else's card.
- *Purses.* `PurseInv` carries what the choice looked at through the asking: a
  move is payable, an AI below seven coins unless it calls a coup, its victim has
  two. It needs `VerdictInv`: the user's choice must not be overtaken by the
  elimination of the user.
- *Refinement.* The step lemmas go by the kind of step: choosing, a challenge,
  the effect, the end of the turn, and the steps that `CoupRules` does not see.
  They need `PurseInv`, and `TargetInv`: a move with a target is aimed at somebody
  else, a challenger is seated and in the game, and only an exchange gets to the
  places of the dialogs. That cards drawn, returned and replaced do not change the
  influence rests on `CardInv`: the deck is face down, and a card is in one slot.
- *The rounds.* `RoundsFollowed` goes over `CoupRules`: a step of that is one of
  `Rounds`, because whoever loses an influence is the only one who may fall by it
  (`LoserMayFall`), and by `TargetInv` that is never the mover, unless it bluffed.
- *The exchange.* `UserDraws` is the only step into the dialogs, and leads to a
  beginning of `Exchange` because `CardInv` keeps the hand, the draw and the deck
  apart (`FourApart`). An answer turns no card of the hand: the one it asks about
  is face down, and so is what it takes.
- *The asking.* Whoever announces a move is in the game (`MoverInv`: the turn of
  somebody eliminated is passed over before a move is chosen), and nobody has
  answered it (`VerdictInv`). From then on the table stands still: no step of the
  asking turns a card, so those in the game remain the same.
- *The draw of a target.* `ContestInv` gives somebody in the game other than the
  one who draws; for a theft `LootInv` says what its weight looked at.
- *The length of a turn.* `StepsLeft` numbers the places of the game thread in the
  order of `runGame` and counts those still to be asked. `TypeInv` is enough: it
  keeps `challengeTurnInd` between 0 and `NP`.

`ExchangeByTheBook`, `AskingByTheBook`, `FollowsRounds`, `TurnsNeverDrag` and
`DrawEndsOrNoVictim` are proved and have no run of their own.

For the two threads of the user's answers, whatever the number of players, moves,
queued blocks, cards and repeats:

| module | theorems | inductive invariant |
|---|---|---|
| `ExchangeDialogProofs` | `TypeCorrect`, `ClosedFirst` (`ClosedBeforeReturn`), `RevealedCardsStay` (`RevealedStays`), `CardsKept` (`KeptUnlessRepeated`), `ExchangeFollowed` (`FollowsExchange`), `StuckOnlyLost` | `ClosedInv`: what is on the screen at which place of the game thread. `HiddenInv`: a dialog or a finger points to a face-down card. `FourInv`: with one callback a press, the hand and `twoCards` are the four cards, each once, and the dialog's copy is up to date. `AnsweredInv`: with one callback a press, the game thread is no further than the answers, and the dialog on the screen is the one that waits. `LostInv`: a dialog leaves the screen with the flag up, with a swipe, or early |
| `ChallengePromptProofs` | `TypeCorrect`, `AnswersFresh`, `ChallengesFresh`, `FlagTrue` (`FlagIsTheUsers`), `CrashesRaced`, `AskingFollowed` (`FollowsAsking`) | `FreshInv`: with the flag up and no handler between its two writes, the field holds an answer of the player asked to this move. `RaceInv`: unless an enabling block ran late, the buttons work only while the user is waited for |

`ExchangeFollowed` and `ExchangesByTheBook` join the two modules: what the threads do
and what the turn engine takes them to do is one specification. `ExchangeFollowed`
goes step by step: an answer to the dialog on the screen is the answer that is
waited for (`AnswerMoves`), the return is the return, and all else the game thread
does is a stutter (`Quiet`). `StuckOnlyLost` is what safety can say of
`EndsUnlessLost`: the flag is down for good, with no dialog left to raise it, only
after a swipe or an early answer.

`AskingFollowed` and `AsksByTheBook` join the other two. `AskingFollowed` needs
`FreshInv`: what `anyChallenges` takes from the field names the player asked and the
move on the table (`CollectAnswers`), unless the read is torn; polls, blocks and
handlers are stutters. Late enabling blocks do not break it: a press meant for
nobody is taken as the answer of the player asked, which `FlagIsTheUsers` is about.
What it rests on are two theorems without a run. `AnswersFresh`: an answer taken
from the field while no handler is between its two writes is the user's, to the
move on the table (`AnswerIsToThisMove`). `ChallengesFresh`: as long as no read has
been torn, a challenge acted upon names the move on the table
(`ChallengeIsToThisMove`). Neither says anything of a torn read, after which
`runGame` may act on a challenge to an older move; that interleaving is the end of
what is shown here, and not excluded by the program.

For `GameSession`, whatever the number of games, names and seats:

| theorem | says |
|---|---|
| `TypeCorrect` | `TypeOK`; that the last screen always has a verdict to type is in the invariant |
| `GamesApart` | `OwnPlayersOnly` |
| `CrashesAbandoned` | `CrashOnlyIfAbandoned`: of the two places where the threads of this module index `players`; a press on buttons enabled late can crash too, see `CrashesRaced` |
| `AtMostOneMore`, `LogIsOfTheMove` | `OneMoveMore`, `LogEndsWithMove` |
| `VerdictsOwn` | `VerdictIsOwn` |
| `VerdictsTrue` | `StatusTrue`: the verdict of a game that was not abandoned, as long as no thread has changed players of another game. An abandoned game is counted at another table, and its verdict can be false |
| `RoundsPlayed` | `PlaysRounds`: every game is one of `Rounds` |

`TypeInv` adds to the types which locals a thread has at which place, and that the
indices of the present game are good (`Fits`). `SessionInv` adds `ApartInv`: a game
that is over and was not abandoned has its thread between turns, where it reads
`gameOn` before anything else; only the game on the screen is on; and the players
a thread holds are its own unless its game was abandoned (`Mine`). `OwnPlayersOnly`
alone is not inductive: it says nothing of whom a thread is about to change.

The others stand on `SessionInv`. `LogInv`: two threads whose games were not
abandoned are never in a turn at once, since both would be those of the present
game (`Present`); and a thread of an ended game that has announced a move is past
the places where one is chosen. `ShownInv`: on the last screen the shared field is
the status of the present game, because whoever writes it is that game's thread,
or leaves a trace in `behind`. `TrueInv`: a game with a verdict is over, so nobody
changes its players (`OutStep`), and `DecidedIsTrue` is the arithmetic of
`isGameOver`.

`RoundsPlayed` needs `RoundInv`, about the thread of the present game (`TurnInv`):
whoever moves sits where the turn is, and is in the game; the game was a contest
when the turn began; and as long as nobody has allowed the move, everybody who
could object is still to be asked, so that the loop of `anyChallenges` cannot run
out without an answer (`AskingDonePlays`). There is a lemma for each step of that
thread. A thread of another game, the screens and a new game leave a game aside, or
close it (`OthersAside`, `ScreensAside`); the thread of an earlier game can only
leave its loop (`EarlierLeaves`); and a new game begins as `Rounds` does
(`StartBegins`), since nobody at its table can be out. `DecidedMeans` completes
the arithmetic of `isGameOver`: its count is right in both directions.

For `Lobby`, whatever the names and the number of seats (`LobbyAssumption`):
`RosterAlwaysShared` (`RosterShared`) and `CountAlwaysTells` (`CountTellsTheTable`).
`LobbyInv` adds that the counter, by which the code decides, is the number of rows.
Names do not repeat in the rows and the list together, so that a row can be added
whenever the counter allows it is a count: fewer rows than seats leave a name
(`NameLeft`). By `CountAlwaysTells` the tables `GameSession` begins with are exactly
those at which the lobby starts a game.

For `AIPlayer`, whatever the number of players, the cards dealt, the purses, the
orders of the dictionary and the number of turns:

| theorem | says |
|---|---|
| `TypeCorrect` | `TypeOK`: no weight is ever negative |
| `DrawsAllowed` | `DrawAllowed`: what is drawn can be paid for, and is never a move of weight zero but income |
| `RateAlwaysFlat` | `RateIsFlat` |
| `HeldAlwaysRaised` | `HeldIsRaised` |
| `NobodyEverPeeks` | `NobodyPeeks`: the weights do not depend on what an AI cannot see |

`AIInv` adds `RatesOfTable`: during a turn, a move that the purses of this table do
not allow has no weight. The loops of the code, over the players and over the
dictionary, are recursive functions (`Spoilt`, `Upto`), and what they compute needs
an induction. The induction theorems of the library take a predicate as a
parameter, which the provers do not support; `Upwards` takes a *set* of numbers
instead, and is proved from the pigeonhole principle: if a loop in `S` at 0 left
`S` at `n`, adding one would put its places below `n` into one place less.
`LoopRuns` then gives the values of a loop that runs a given number of rounds, and
`SpoiltFacts` and `UptoFacts` the equations of the two functions.

Only model-checked: the liveness properties, since fairness and ENABLED are beyond
the prover (`TurnsGoRound`, `PromptAnswered`, `EndsUnlessLost`, `EndedStops`,
`VerdictTold`). `TurnsRunDown` is the half of `TurnsGoRound` that needs neither: a
turn cannot go on for ever, so it fails to end only where no step is taken: the
user does not answer or has ended the game, or a target is drawn for ever
(`DrawsInVain`, as in `theft`). Every other property of a run that holds is a theorem.

## 5. What disagrees with the code's own words

The counterexamples of three runs:

1. `proof`: `checkhaveCard` answers the slot of a *revealed* card when the first
   card has the role and only the second is face down. The player gets the lost
   influence back. `EliminationIsPermanent` still holds: it takes a hidden card.
2. `theft`: the weight of a theft counts eliminated players, the draw of its
   target does not, and never ends. `TurnsGoRound` shows that nothing else keeps
   a turn from ending.
3. `dialog_ends`: the flag is reset after the second dialog is shown.
   `EndsUnlessLost` shows that this and the swipe are all that can stop it.

Passing properties say exactly how far some others go:

- `DebtOnlyByUserTheft`: the user's list of targets for a theft is made from the
  wrong coins, so a purse can go below zero; nothing else does that.
- `KeptUnlessRepeated`: a long press is several callbacks, and each exchanges
  again; nothing else loses a card.
- `FlagIsTheUsers`: an enabling block left in the queue makes a press of the user
  the answer of an AI; nothing else does.
- `HeldIsRaised`: an AI with a face-down Assassin is more inclined to use it,
  except that after losing its other one it is put off altogether, and not by
  half, by one that another player shows in the second slot.
- `RateIsFlat`: the rates 0.45 and 1.00 of `adjustChallengeRate` are never reached.
- `OwnPlayersOnly`, `CrashOnlyIfAbandoned`, `LogEndsWithMove`: a game ended in the
  middle of a turn plays on, against the players of the next game; it can ask and
  cost them an influence, put its move into their log, and end the program by an
  index. A game ended between turns, or decided, does none of this.
- `VerdictIsOwn`, `VerdictTold`: a verdict can be overwritten by an earlier game,
  and is not shown at all if a sheet is open when the game is decided.
- `EndedStops`: a thread that waits for the user when the game is ended waits on, and
  one that draws a victim in vain draws on, if need be for ever; every other one stops.

## 6. Not modelled

Login (Firebase), settings, sounds, menus, cells, the static text and the
vendored `Pods`: I/O and display without influence on a game. Of the activity log
only that its sheet is open, and whose move is last in it. Memory effects of
unsynchronised access beyond the order of single reads and writes (an optimised
build may read `switchSegue` once; a reference read while it is written; `gameOn`
passed inout while the main thread clears it). Highlights, whose blocks read
`challengeTurnInd` when they run. In `CoupGame` the user is `players[0]`; that a
user's name is never an AI's is the assumption `LobbyAssumption`: the AIs' names
have a space, the user's is the first part of an e-mail address. `otherCardCount` and `updateCoin` are never called.

## 7. Plan

Done: every component of section 1 that carries the state of a game, the
refinements between `CoupRules`, `Rounds`, `CoupGame` and `GameSession`, `Exchange`
and `ExchangeDialog`, `Objections` and `ChallengePrompt`, and the proofs of every property that is not a
liveness property. What could follow,
most useful first:

1. What safety can say of the other liveness properties, as `StuckOnlyLost` does of
   `EndsUnlessLost`: in which states `PromptAnswered` and `EndedStops` could fail.
2. `AIPlayer` checked with all five roles and three players; the theorems already
   cover them.

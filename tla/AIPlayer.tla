------------------------------ MODULE AIPlayer ------------------------------
(***************************************************************************)
(* How an AI decides (class AI of Player.swift): the weights of its moves, *)
(* changed at the beginning of each of its turns by what lies on the       *)
(* table, the draw of a move by these weights, and the rate at which it    *)
(* challenges.                                                             *)
(*                                                                         *)
(* The rest of the game is the table, which may be any position at each    *)
(* turn and each challenge.  A card is told by the move it backs.          *)
(***************************************************************************)
EXTENDS Integers, Sequences, FiniteSets

CONSTANTS
    NP,         \* players.count
    Me,         \* the seat of the AI
    Dealt,      \* the moves backed by the cards in the game
    Purse,      \* the numbers of coins a player may have
    Order,      \* BOUND: orders in which the dictionary may list its keys
    MaxTurns    \* BOUND: turns of the AI

Key    == {"income", "foreignAid", "tax", "steal", "assassinate", "exchange"}
Backed == Key \ {"income"}
Seat   == 0 .. NP - 1
Slot   == {0, 1}

ASSUME AIAssumption ==
    /\ NP \in 2 .. 6 /\ Me \in Seat \ {0}
    /\ Dealt \subseteq Backed
    /\ Purse \subseteq Int
    /\ \A o \in Order : o \in Seq(Key) /\ Len(o) = 6 /\ {o[i] : i \in 1 .. 6} = Key
    /\ MaxTurns \in Nat

VARIABLES
    moveRateDic,
    challengeRate,  \* in hundredths
    table,          \* what the AI has been asked about; NoTable in between
    choice,         \* the name getAIMoveName answers
    turns           \* BOUND: turns so far

vars == <<moveRateDic, challengeRate, table, choice, turns>>

-----------------------------------------------------------------------------
(***************************************************************************)
(* The table.                                                              *)
(***************************************************************************)

Places == {<<p, s>> : p \in Seat, s \in Slot}
Out(t, p) == t.up[<<p, 0>>] /\ t.up[<<p, 1>>]

\* An AI is asked only as long as it and the user are in the game.  There are
\* three cards of each role.
Table == {t \in [card : [Places -> Dealt], up : [Places -> BOOLEAN],
                 coins : [Seat -> Purse]] :
            /\ ~Out(t, Me) /\ ~Out(t, 0)
            /\ \A m \in Dealt : Cardinality({q \in Places : t.card[q] = m}) =< 3}

NoTable == [card |-> <<>>, up |-> <<>>, coins |-> <<>>]

\* The order of the loops over players: the k-th card they look at.
Place(k) == <<(k - 1) \div 2, (k - 1) % 2>>

Mine(t, m)   == Cardinality({s \in Slot : t.card[<<Me, s>>] = m})
\* Seeded defect: a card need not be revealed to be lost.
MineUp_Any(t, m) == \E s \in Slot : t.card[<<Me, s>>] = m

MineUp(t, m) == \E s \in Slot : t.card[<<Me, s>>] = m /\ t.up[<<Me, s>>]

\* Seeded defect: the slots are mixed up, as in otherCardCount.
Shown_SlotMixUp(t, m) ==
    {q \in Places : q[1] # Me /\ t.up[q] /\ t.card[<<q[1], 0>>] = m}

\* Where the others show a card that backs m.
Shown(t, m) == {q \in Places : q[1] # Me /\ t.up[q] /\ t.card[q] = m}

-----------------------------------------------------------------------------
(***************************************************************************)
(* changeMoveRate.                                                         *)
(***************************************************************************)

\* Swift divides towards zero.
Half(w) == IF w >= 0 THEN w \div 2 ELSE - ((- w) \div 2)

\* Two of the weights start afresh whenever the card is held.
Base(w, m) == IF m \in {"assassinate", "steal"} THEN 5 ELSE w

\* What a card shown by another player does to the weight of a move of which
\* the AI has lost a card: it depends on the slot.
Spoil(w, q) == IF q[2] = 0 THEN Half(w) ELSE w - 100

\* What the cards shown at the places of S make of it, in the order of the loop.
Spoilt(w, S) ==
    LET rate[k \in 0 .. 2 * NP] ==
            IF k = 0 THEN w
            ELSE IF Place(k) \in S THEN Spoil(rate[k - 1], Place(k)) ELSE rate[k - 1]
    IN rate[2 * NP]

\* The halving for a lost card alone is kept only if nobody else shows one.
Held(w, t, m) ==
    LET raised == Base(w, m) + 10 * Mine(t, m) + 10 * Cardinality(Shown(t, m)) IN
    IF ~MineUp(t, m) THEN raised
    ELSE IF Shown(t, m) = {} THEN Half(raised)
    ELSE Spoilt(raised, Shown(t, m))

Bluffed(w, t, m) == w - 1 - 2 * Cardinality(Shown(t, m))

ByCards(w, t, m) ==
    IF m = "income" THEN w
    ELSE IF Mine(t, m) > 0 THEN Held(w, t, m) ELSE Bluffed(w, t, m)

\* Seeded defect: an AI without three coins may still pay an assassin.
ByCoins_OnCredit(w, t, m) ==
    IF m \in {"income", "tax", "foreignAid"}
    THEN IF t.coins[Me] < 3 THEN w + 10 ELSE w - 10
    ELSE IF m = "steal" /\ \A p \in Seat \ {Me} : t.coins[p] < 2 THEN 0 ELSE w

ByCoins(w, t, m) ==
    IF m \in {"income", "tax", "foreignAid"}
    THEN IF t.coins[Me] < 3 THEN w + 10 ELSE w - 10
    ELSE IF m = "assassinate" /\ t.coins[Me] < 3 THEN 0
    ELSE IF m = "steal" /\ \A p \in Seat \ {Me} : t.coins[p] < 2 THEN 0
    ELSE w

\* Seeded defect: negative weights stay.
Clamp_Not(w) == w

Clamp(w) == IF w < 0 THEN 0 ELSE w

NewRates(rates, t) ==
    [m \in Key |-> Clamp(ByCoins(ByCards(rates[m], t, m), t, m))]

-----------------------------------------------------------------------------
(***************************************************************************)
(* getAIMoveName.                                                          *)
(***************************************************************************)

\* The sum of the weights of the first n keys.
Upto(rates, o, n) ==
    LET sum[i \in 0 .. 6] == IF i = 0 THEN 0 ELSE sum[i - 1] + rates[o[i]]
    IN sum[n]

\* Seeded defect: the lower bound belongs to the interval.
Drawn_Closed(rates, o, rand) ==
    LET hit == {i \in 1 .. 6 : Upto(rates, o, i - 1) =< rand /\ rand =< Upto(rates, o, i)}
    IN IF hit = {} THEN "income" ELSE o[CHOOSE i \in hit : \A j \in hit : j =< i]

\* The last key whose interval has the random number; 0 is in none.
Drawn(rates, o, rand) ==
    LET hit == {i \in 1 .. 6 : Upto(rates, o, i - 1) < rand /\ rand =< Upto(rates, o, i)}
    IN IF hit = {} THEN "income" ELSE o[CHOOSE i \in hit : \A j \in hit : j =< i]

\* The random numbers at the ends of the intervals stand for those between.
Rand(rates, o) ==
    {Upto(rates, o, i) : i \in 0 .. 6}
      \cup ({Upto(rates, o, i) + 1 : i \in 0 .. 6} \cap 0 .. Upto(rates, o, 6))

Init ==
    /\ moveRateDic = [m \in Key |-> 5]
    /\ challengeRate = 25
    /\ table = NoTable /\ choice = "none" /\ turns = 0

BeginTurn(t) ==
    /\ table = NoTable /\ turns < MaxTurns
    /\ moveRateDic' = NewRates(moveRateDic, t)
    /\ table' = t /\ choice' = "none" /\ turns' = turns + 1
    /\ UNCHANGED challengeRate

GetAIMoveName ==
    /\ table # NoTable /\ choice = "none"
    /\ \E o \in Order : \E rand \in Rand(moveRateDic, o) :
          choice' = IF table.coins[Me] >= 7 THEN "coup" ELSE Drawn(moveRateDic, o, rand)
    /\ UNCHANGED <<moveRateDic, challengeRate, table, turns>>

\* The others play.
EndTurn ==
    /\ choice # "none"
    /\ table' = NoTable /\ choice' = "none"
    /\ UNCHANGED <<moveRateDic, challengeRate, turns>>

-----------------------------------------------------------------------------
(***************************************************************************)
(* adjustChallengeRate.                                                    *)
(***************************************************************************)

Claimable == {"assassinate", "exchange", "tax", "steal"}

\* Cards of the claimed move the AI knows of, if it has one itself; the counts
\* of the other moves stay 0.
Known(t, claim, m) ==
    IF m = claim /\ Mine(t, m) > 0 THEN Mine(t, m) + Cardinality(Shown(t, m)) ELSE 0

\* Seeded defect: "and" for "or" in the first branch.
RateFor_And(t, claim) ==
    LET count(m) == Known(t, claim, m) IN
    IF \A m \in Claimable : count(m) =< 1 THEN 30
    ELSE IF \E m \in Claimable : count(m) = 2 THEN 45 ELSE 100

RateFor(t, claim) ==
    LET count(m) == Known(t, claim, m) IN
    IF \E m \in Claimable : count(m) =< 1 THEN 30
    ELSE IF \E m \in Claimable : count(m) = 2 THEN 45
    ELSE IF \E m \in Claimable : count(m) >= 3 THEN 100
    ELSE challengeRate

\* getChallengeOrAllow: the AI's answer is a draw at this rate.
GetChallengeOrAllow(t, claim) ==
    /\ table = NoTable
    /\ challengeRate' = RateFor(t, claim)
    /\ UNCHANGED <<moveRateDic, table, choice, turns>>

Next ==
    \/ \E t \in Table : BeginTurn(t)
    \/ \E t \in Table, claim \in Backed : GetChallengeOrAllow(t, claim)
    \/ GetAIMoveName \/ EndTurn

Spec == Init /\ [][Next]_vars

-----------------------------------------------------------------------------
(***************************************************************************)
(* Properties.                                                             *)
(***************************************************************************)

\* Between turns no weight is negative: the draw, which adds them up, relies
\* on it.
TypeOK ==
    /\ moveRateDic \in [Key -> Nat]
    /\ challengeRate \in 0 .. 100
    /\ table \in Table \cup {NoTable}
    /\ choice \in Key \cup {"coup", "none"}
    /\ turns \in 0 .. MaxTurns

\* An AI plays by what it may see: the face-down cards of the others have no
\* influence on its weights.
NobodyPeeks ==
    [][\A m \in Dealt :
         LET u == [table' EXCEPT !.card =
                      [q \in Places |-> IF q[1] = Me \/ table'.up[q]
                                        THEN table'.card[q] ELSE m]]
         IN table = NoTable /\ table' # NoTable
              => moveRateDic' = NewRates(moveRateDic, u)]_vars

\* What is drawn can be paid: three coins for an assassin, a coup with seven
\* and always then, a theft only if some other player has two.  This is
\* what the moves of an AI are in CoupGame (AICan).  And nothing is drawn whose
\* weight is zero but income.
DrawAllowed ==
    table # NoTable /\ choice # "none" =>
        /\ (choice = "coup") = (table.coins[Me] >= 7)
        /\ choice = "assassinate" => table.coins[Me] >= 3
        /\ choice = "steal" => \E p \in Seat \ {Me} : table.coins[p] >= 2
        /\ choice \in {"income", "coup"} \/ moveRateDic[choice] > 0

\* The rate is 0.30 from the first answer on, whatever the claim and whatever
\* the AI knows: three of the four counts are always zero.
RateIsFlat == challengeRate \in {25, 30}

\* "if AI has the move, increase the rate of it": an AI that has a face-down
\* Assassin, and the coins, is more inclined to use it than in the beginning,
\* however its weight has fallen before - unless it has lost another Assassin
\* and some other player shows one in the second slot, for which the code
\* takes off a hundred where it halves the weight for the first.
HeldIsRaised ==
    (/\ table # NoTable
     /\ table.coins[Me] >= 3
     /\ \E s \in Slot : table.card[<<Me, s>>] = "assassinate" /\ ~table.up[<<Me, s>>])
    => \/ moveRateDic["assassinate"] > 5
       \/ /\ \E s \in Slot : table.card[<<Me, s>>] = "assassinate" /\ table.up[<<Me, s>>]
          /\ \E p \in Seat \ {Me} : table.card[<<p, 1>>] = "assassinate" /\ table.up[<<p, 1>>]
=============================================================================

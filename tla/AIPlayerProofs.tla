--------------------------- MODULE AIPlayerProofs ---------------------------
(***************************************************************************)
(* Theorems about the decisions of an AI, for every number of players,     *)
(* every choice of cards and purses and every order of the dictionary.     *)
(***************************************************************************)
EXTENDS AIPlayer, FiniteSetTheorems, TLAPS

-----------------------------------------------------------------------------
(***************************************************************************)
(* Induction along a loop.  It rests on the pigeonhole principle: if the   *)
(* loop stopped being in S at n, its places below n would fit into one     *)
(* place less.                                                             *)
(***************************************************************************)

LEMMA Upwards ==
    ASSUME NEW N \in Nat, NEW S, 0 \in S,
           \A k \in 0 .. N - 1 : k \in S => k + 1 \in S
    PROVE  0 .. N \subseteq S
<1> SUFFICES ASSUME NEW n \in 0 .. N, n \notin S PROVE FALSE
  OBVIOUS
<1> DEFINE T == S \cap 0 .. n - 1
           f == [k \in T |-> k + 1]
<1>1. 0 \in T /\ IsFiniteSet(T)
  <2>1. IsFiniteSet(0 .. n - 1)
    BY FS_Interval
  <2>2. n # 0
    OBVIOUS
  <2> QED
    BY <2>1, <2>2, FS_Subset
<1>2. f \in [T -> T \ {0}]
  <2>1. ASSUME NEW k \in T PROVE k + 1 \in T \ {0}
    <3>1. k \in 0 .. N - 1 /\ k + 1 \in S /\ k + 1 # n
      BY <2>1
    <3> QED
      BY <2>1, <3>1
  <2> QED
    BY <2>1
<1>3. /\ IsFiniteSet(T \ {0})
      /\ Cardinality(T \ {0}) = Cardinality(T) - 1
      /\ Cardinality(T) \in Nat
  BY <1>1, FS_RemoveElement, FS_CardinalityType
<1>4. \A j, k \in T : j # k => f[j] # f[k]
  OBVIOUS
<1> HIDE DEF T, f
<1>5. Cardinality(T \ {0}) < Cardinality(T)
  BY <1>3
<1> QED
  BY <1>1, <1>2, <1>3, <1>4, <1>5, FS_PigeonHole

\* The values of a loop that begins with base: f[k] after k rounds.
Runs(f, N, V, base, round) ==
    /\ f \in [0 .. N -> V]
    /\ f[0] = base
    /\ \A k \in 1 .. N : f[k] = round[k][f[k - 1]]

LEMMA LoopRuns ==
    ASSUME NEW N \in Nat, NEW V, NEW base \in V, NEW round \in [1 .. N -> [V -> V]]
    PROVE  \E f : Runs(f, N, V, base, round)
<1> DEFINE Upto_(n, f) == f[0] = base /\ \A k \in 1 .. n : f[k] = round[k][f[k - 1]]
           S == {n \in 0 .. N : \E f \in [0 .. N -> V] : Upto_(n, f)}
<1>1. 0 \in S
  <2> DEFINE g == [k \in 0 .. N |-> base]
  <2>1. g \in [0 .. N -> V] /\ 0 \in 0 .. N
    OBVIOUS
  <2>2. g[0] = base
    OBVIOUS
  <2>3. \A k \in 1 .. 0 : FALSE
    OBVIOUS
  <2>4. Upto_(0, g)
    BY <2>2, <2>3
  <2> HIDE DEF g, Upto_
  <2> QED
    BY <2>1, <2>4
<1>2. ASSUME NEW n \in 0 .. N - 1, n \in S PROVE n + 1 \in S
  <2>1. PICK f \in [0 .. N -> V] : Upto_(n, f)
    BY <1>2
  <2> DEFINE g == [f EXCEPT ![n + 1] = round[n + 1][f[n]]]
  <2>2. n + 1 \in 1 .. N /\ f[n] \in V
    OBVIOUS
  <2>3. g \in [0 .. N -> V]
    BY <2>2
  <2>4. g[0] = base
    BY <2>1
  <2>5. ASSUME NEW k \in 1 .. n + 1 PROVE g[k] = round[k][g[k - 1]]
    <3>1. CASE k = n + 1
      BY <2>2, <3>1
    <3>2. CASE k # n + 1
      <4>1. k \in 1 .. n /\ k - 1 \in 0 .. N /\ k \in 0 .. N /\ k - 1 # n + 1
        BY <3>2
      <4>2. g[k] = f[k] /\ g[k - 1] = f[k - 1]
        BY <3>2, <4>1
      <4> QED
        BY <2>1, <4>1, <4>2
    <3> QED
      BY <3>1, <3>2
  <2>6. Upto_(n + 1, g)
    BY <2>4, <2>5
  <2>7. n + 1 \in 0 .. N
    BY <2>2
  <2> HIDE DEF g, Upto_
  <2> QED
    BY <2>3, <2>6, <2>7
<1> HIDE DEF S
<1>3. 0 .. N \subseteq S
  BY <1>1, <1>2, Upwards
<1> QED
  BY <1>3 DEF S, Runs

-----------------------------------------------------------------------------
(***************************************************************************)
(* The two loops of the model.                                             *)
(***************************************************************************)

LEMMA HalfType == \A w \in Int : Half(w) \in Int
BY DEF Half

LEMMA SpoilType == \A w \in Int : \A q : Spoil(w, q) \in Int
BY HalfType DEF Spoil

LEMMA NPFacts == NP \in Nat /\ 2 * NP \in Nat
BY AIAssumption

\* The loop over the cards on the table.
LEMMA SpoiltFacts ==
    ASSUME NEW w \in Int, NEW S
    PROVE  \E f \in [0 .. 2 * NP -> Int] :
              /\ f[0] = w
              /\ \A k \in 1 .. 2 * NP :
                    f[k] = IF Place(k) \in S THEN Spoil(f[k - 1], Place(k)) ELSE f[k - 1]
              /\ Spoilt(w, S) = f[2 * NP]
<1> DEFINE N == 2 * NP
           turn(v, k) == IF Place(k) \in S THEN Spoil(v, Place(k)) ELSE v
           round == [k \in 1 .. N |-> [v \in Int |-> turn(v, k)]]
           rhs(f) == [k \in 0 .. N |-> IF k = 0 THEN w ELSE
                        IF Place(k) \in S THEN Spoil(f[k - 1], Place(k)) ELSE f[k - 1]]
           rate == CHOOSE f : f = rhs(f)
<1>1. \E f : f = rhs(f)
  <2>0. N \in Nat
    BY NPFacts
  <2> DEFINE V == Int
  <2>1. w \in V /\ round \in [1 .. N -> [V -> V]]
    BY SpoilType
  <2> HIDE DEF round, N, V
  <2>2. PICK f : Runs(f, N, V, w, round)
    BY <2>0, <2>1, LoopRuns
  <2>3. ASSUME NEW k \in 0 .. N PROVE f[k] = rhs(f)[k]
    <3>1. CASE k = 0
      BY <2>2, <3>1 DEF Runs
    <3>2. CASE k # 0
      <4>1. k \in 1 .. N /\ f[k - 1] \in Int
        BY <2>0, <2>2, <3>2 DEF V, Runs
      <4>2. f[k] = turn(f[k - 1], k)
        BY <2>2, <4>1 DEF round, Runs
      <4> QED
        BY <3>2, <4>2
    <3> QED
      BY <3>1, <3>2
  <2>4. f = rhs(f)
    BY <2>2, <2>3 DEF Runs
  <2> QED
    BY <2>4
<1>2. rate = rhs(rate)
  BY <1>1
<1>3. Spoilt(w, S) = rate[N]
  BY DEF Spoilt
<1>4. N \in Nat
  BY NPFacts
<1> HIDE DEF rate, N
<1>5. \A k \in 0 .. N :
         rate[k] = IF k = 0 THEN w ELSE
                     IF Place(k) \in S THEN Spoil(rate[k - 1], Place(k)) ELSE rate[k - 1]
  BY <1>2
<1>6. 0 .. N \subseteq {k \in 0 .. N : rate[k] \in Int}
  <2> DEFINE T == {k \in 0 .. N : rate[k] \in Int}
  <2>1. 0 \in T
    BY <1>4, <1>5
  <2>2. ASSUME NEW k \in 0 .. N - 1, k \in T PROVE k + 1 \in T
    <3>1. k + 1 \in 0 .. N /\ k + 1 # 0 /\ (k + 1) - 1 = k /\ rate[k] \in Int
      BY <1>4, <2>2
    <3>2. rate[k + 1] = IF Place(k + 1) \in S THEN Spoil(rate[k], Place(k + 1)) ELSE rate[k]
      BY <1>5, <3>1
    <3> QED
      BY <3>1, <3>2, SpoilType
  <2> HIDE DEF T
  <2>3. 0 .. N \subseteq T
    BY <1>4, <2>1, <2>2, Upwards
  <2> QED
    BY <2>3 DEF T
<1>7. rate \in [0 .. N -> Int]
  <2>1. DOMAIN rate = 0 .. N /\ rate = [k \in 0 .. N |-> rate[k]]
    BY <1>2
  <2> QED
    BY <1>6, <2>1
<1>8. /\ rate[0] = w
      /\ \A k \in 1 .. N :
            rate[k] = IF Place(k) \in S THEN Spoil(rate[k - 1], Place(k)) ELSE rate[k - 1]
  BY <1>4, <1>5
<1> QED
  BY <1>3, <1>7, <1>8 DEF N

\* An order of the dictionary lists keys.
LEMMA OrderFacts == \A o \in Order, i \in 1 .. 6 : o[i] \in Key
BY AIAssumption

\* The loop over the dictionary: the ends of the intervals.
LEMMA UptoFacts ==
    ASSUME NEW rates \in [Key -> Int], NEW o \in Order
    PROVE  /\ \A n \in 0 .. 6 : Upto(rates, o, n) \in Int
           /\ Upto(rates, o, 0) = 0
           /\ \A n \in 1 .. 6 : Upto(rates, o, n) = Upto(rates, o, n - 1) + rates[o[n]]
<1> DEFINE round == [k \in 1 .. 6 |-> [v \in Int |-> v + rates[o[k]]]]
           rhs(f) == [i \in 0 .. 6 |-> IF i = 0 THEN 0 ELSE f[i - 1] + rates[o[i]]]
           sum == CHOOSE f : f = rhs(f)
<1>0. \A k \in 1 .. 6 : rates[o[k]] \in Int
  BY OrderFacts
<1>1. \E f : f = rhs(f)
  <2> DEFINE V == Int
             N == 6
  <2>1. N \in Nat /\ 0 \in V /\ round \in [1 .. N -> [V -> V]]
    BY <1>0
  <2> HIDE DEF round, V, N
  <2>2. PICK f : Runs(f, N, V, 0, round)
    BY <2>1, LoopRuns
  <2>3. f \in [0 .. 6 -> Int] /\ f[0] = 0 /\ \A k \in 1 .. 6 : f[k] = round[k][f[k - 1]]
    BY <2>2 DEF Runs, N, V
  <2>4. ASSUME NEW k \in 0 .. 6 PROVE f[k] = rhs(f)[k]
    <3>1. CASE k = 0
      BY <2>3, <3>1
    <3>2. CASE k # 0
      <4>1. k \in 1 .. 6 /\ f[k - 1] \in Int
        BY <2>3, <3>2
      <4>2. f[k] = f[k - 1] + rates[o[k]]
        BY <2>3, <4>1 DEF round
      <4> QED
        BY <3>2, <4>2
    <3> QED
      BY <3>1, <3>2
  <2>5. f = rhs(f)
    BY <2>3, <2>4
  <2> QED
    BY <2>5
<1>2. sum = rhs(sum)
  BY <1>1
<1>3. \A n : Upto(rates, o, n) = sum[n]
  BY DEF Upto
<1> HIDE DEF sum
<1>4. sum[0] = 0 /\ \A n \in 1 .. 6 : sum[n] = sum[n - 1] + rates[o[n]]
  BY <1>2
<1>5. /\ sum[0] \in Int /\ sum[1] \in Int /\ sum[2] \in Int /\ sum[3] \in Int
      /\ sum[4] \in Int /\ sum[5] \in Int /\ sum[6] \in Int
  <2>1. sum[0] \in Int
    BY <1>4
  <2>2. sum[1] \in Int
    BY <1>0, <1>4, <2>1
  <2>3. sum[2] \in Int
    BY <1>0, <1>4, <2>2
  <2>4. sum[3] \in Int
    BY <1>0, <1>4, <2>3
  <2>5. sum[4] \in Int
    BY <1>0, <1>4, <2>4
  <2>6. sum[5] \in Int
    BY <1>0, <1>4, <2>5
  <2>7. sum[6] \in Int
    BY <1>0, <1>4, <2>6
  <2> QED
    BY <2>1, <2>2, <2>3, <2>4, <2>5, <2>6, <2>7
<1> QED
  BY <1>3, <1>4, <1>5

-----------------------------------------------------------------------------
(***************************************************************************)
(* The cards on the table.                                                 *)
(***************************************************************************)

LEMMA PlacesFinite == IsFiniteSet(Places) /\ IsFiniteSet(Slot)
<1>1. IsFiniteSet(Seat) /\ IsFiniteSet(Slot)
  <2>1. Slot = {0} \cup {1}
    BY DEF Slot
  <2>2. IsFiniteSet({0} \cup {1})
    BY FS_Singleton, FS_AddElement
  <2>3. NP - 1 \in Int
    BY NPFacts
  <2>4. IsFiniteSet(0 .. NP - 1)
    BY <2>3, FS_Interval
  <2> QED
    BY <2>1, <2>2, <2>4 DEF Seat
<1>2. Places = Seat \X Slot
  BY DEF Places
<1> QED
  BY <1>1, <1>2, FS_Product

LEMMA CountTypes ==
    ASSUME NEW t, NEW m
    PROVE  /\ Mine(t, m) \in Nat /\ Cardinality(Shown(t, m)) \in Nat
           /\ IsFiniteSet(Shown(t, m))
<1>1. IsFiniteSet({s \in Slot : t.card[<<Me, s>>] = m}) /\ IsFiniteSet(Shown(t, m))
  BY PlacesFinite, FS_Subset DEF Shown
<1> QED
  BY <1>1, FS_CardinalityType DEF Mine

\* A card held is counted.
LEMMA MineCounts ==
    ASSUME NEW t, NEW m, NEW s \in Slot, t.card[<<Me, s>>] = m
    PROVE  Mine(t, m) >= 1
<1> DEFINE H == {x \in Slot : t.card[<<Me, x>>] = m}
<1>1. IsFiniteSet(H) /\ H # {}
  BY PlacesFinite, FS_Subset
<1>2. Cardinality(H) \in Nat /\ Cardinality(H) # 0
  BY <1>1, FS_CardinalityType, FS_EmptySet
<1> QED
  BY <1>2 DEF Mine

\* Both cards are counted, and leave at most one of three to the others.
LEMMA BothMine ==
    ASSUME NEW t \in Table, NEW m \in Dealt, \A s \in Slot : t.card[<<Me, s>>] = m
    PROVE  Mine(t, m) = 2 /\ Cardinality(Shown(t, m)) =< 1
<1> DEFINE all == {q \in Places : t.card[q] = m}
           mine == {<<Me, 0>>, <<Me, 1>>}
<1>1. Mine(t, m) = 2
  <2>1. {s \in Slot : t.card[<<Me, s>>] = m} = {0} \cup {1} /\ 0 # 1
    BY DEF Slot
  <2>2. IsFiniteSet({0}) /\ Cardinality({0}) = 1
    BY FS_Singleton
  <2>3. Cardinality({0} \cup {1}) = 2
    BY <2>2, FS_AddElement
  <2> QED
    BY <2>1, <2>3 DEF Mine
<1>2. mine \subseteq all /\ Shown(t, m) \subseteq all /\ mine \cap Shown(t, m) = {}
  <2>1. Me \in Seat
    BY AIAssumption
  <2> QED
    BY <2>1 DEF Shown, Places, Slot
<1>3. IsFiniteSet(all) /\ Cardinality(all) =< 3
  BY PlacesFinite, FS_Subset DEF Table
<1>4. IsFiniteSet(mine) /\ Cardinality(mine) = 2
  <2>1. IsFiniteSet({<<Me, 0>>}) /\ Cardinality({<<Me, 0>>}) = 1
    BY FS_Singleton
  <2>2. <<Me, 1>> \notin {<<Me, 0>>} /\ mine = {<<Me, 0>>} \cup {<<Me, 1>>}
    OBVIOUS
  <2> HIDE DEF mine
  <2>3. /\ IsFiniteSet({<<Me, 0>>} \cup {<<Me, 1>>})
        /\ Cardinality({<<Me, 0>>} \cup {<<Me, 1>>}) = Cardinality({<<Me, 0>>}) + 1
    BY <2>1, <2>2, FS_AddElement
  <2> QED
    BY <2>1, <2>2, <2>3
<1> HIDE DEF all, mine
<1>5. Cardinality(mine \cup Shown(t, m)) = 2 + Cardinality(Shown(t, m))
  <2>1. /\ Cardinality(mine \cup Shown(t, m)) =
              Cardinality(mine) + Cardinality(Shown(t, m)) - Cardinality(mine \cap Shown(t, m))
        /\ Cardinality({}) = 0
    BY <1>4, CountTypes, FS_Union, FS_EmptySet
  <2>2. Cardinality(mine \cap Shown(t, m)) = 0
    BY <1>2, <2>1
  <2>3. Cardinality(Shown(t, m)) \in Nat
    BY CountTypes
  <2> QED
    BY <1>4, <2>1, <2>2, <2>3
<1>6. Cardinality(mine \cup Shown(t, m)) =< Cardinality(all)
  BY <1>2, <1>3, FS_Subset
<1>7. Cardinality(all) \in Nat
  BY <1>3, FS_CardinalityType
<1> QED
  BY <1>1, <1>3, <1>5, <1>6, <1>7, CountTypes

-----------------------------------------------------------------------------
(***************************************************************************)
(* The weights.                                                            *)
(***************************************************************************)

LEMMA SpoiltType == ASSUME NEW w \in Int, NEW S PROVE Spoilt(w, S) \in Int
<1>1. PICK f \in [0 .. 2 * NP -> Int] : Spoilt(w, S) = f[2 * NP]
  BY SpoiltFacts
<1>2. 2 * NP \in 0 .. 2 * NP
  BY NPFacts
<1> QED
  BY <1>1, <1>2

\* One card shown in the first slot halves the weight, and does no more.
LEMMA SpoiltOnce ==
    ASSUME NEW w \in Int, NEW p \in Seat
    PROVE  Spoilt(w, {<<p, 0>>}) = Half(w)
<1> DEFINE S == {<<p, 0>>}
           n == 2 * p + 1
<1> HIDE DEF S, n
<1>1. PICK f \in [0 .. 2 * NP -> Int] :
         /\ f[0] = w
         /\ \A k \in 1 .. 2 * NP :
               f[k] = IF Place(k) \in S THEN Spoil(f[k - 1], Place(k)) ELSE f[k - 1]
         /\ Spoilt(w, S) = f[2 * NP]
  BY SpoiltFacts
<1> USE DEF S, n
<1>2. n \in 1 .. 2 * NP /\ p \in Nat
  BY NPFacts DEF Seat
<1>3. ASSUME NEW k \in 1 .. 2 * NP PROVE (Place(k) \in S) = (k = n)
  <2>1. ((k - 1) \div 2 = p /\ (k - 1) % 2 = 0) <=> k = n
    BY <1>2
  <2> QED
    BY <2>1 DEF Place
<1>4. Spoil(w, Place(n)) = Half(w)
  <2>1. Place(n)[2] = 0
    <3>1. Place(n) \in S
      BY <1>2, <1>3
    <3> QED
      BY <3>1
  <2> QED
    BY <2>1 DEF Spoil
<1> HIDE DEF S, n
<1> DEFINE T == {k \in 0 .. 2 * NP : f[k] = IF k < n THEN w ELSE Half(w)}
<1>5. 0 .. 2 * NP \subseteq T
  <2>1. 0 \in T
    BY <1>1, <1>2, NPFacts
  <2>2. ASSUME NEW k \in 0 .. 2 * NP - 1, k \in T PROVE k + 1 \in T
    <3>1. k + 1 \in 1 .. 2 * NP /\ k + 1 \in 0 .. 2 * NP /\ (k + 1) - 1 = k
      BY NPFacts
    <3>2. f[k + 1] = IF k + 1 = n THEN Spoil(f[k], Place(k + 1)) ELSE f[k]
      BY <1>1, <1>3, <3>1
    <3>3. f[k] = IF k < n THEN w ELSE Half(w)
      BY <2>2
    <3>4. f[k + 1] = IF k + 1 < n THEN w ELSE Half(w)
      BY <1>2, <1>4, <3>1, <3>2, <3>3
    <3> QED
      BY <3>1, <3>4
  <2> HIDE DEF T
  <2> QED
    BY <2>1, <2>2, NPFacts, Upwards
<1>6. 2 * NP \in T
  BY <1>5, NPFacts
<1>7. ~(2 * NP < n)
  BY <1>2, NPFacts
<1> QED
  BY <1>1, <1>6, <1>7 DEF S

LEMMA HeldType ==
    ASSUME NEW w \in Int, NEW t, NEW m
    PROVE  Held(w, t, m) \in Int
<1> DEFINE raised == Base(w, m) + 10 * Mine(t, m) + 10 * Cardinality(Shown(t, m))
<1>1. raised \in Int
  BY CountTypes DEF Base
<1> HIDE DEF raised
<1>2. Half(raised) \in Int /\ Spoilt(raised, Shown(t, m)) \in Int
  BY <1>1, HalfType, SpoiltType
<1> QED
  BY <1>1, <1>2 DEF Held, raised

\* changeMoveRate leaves no negative weight behind.
LEMMA RatesType ==
    ASSUME NEW rates \in [Key -> Nat], NEW t
    PROVE  NewRates(rates, t) \in [Key -> Nat]
<1>1. ASSUME NEW m \in Key PROVE Clamp(ByCoins(ByCards(rates[m], t, m), t, m)) \in Nat
  <2>1. rates[m] \in Int
    OBVIOUS
  <2>2. Bluffed(rates[m], t, m) \in Int /\ Held(rates[m], t, m) \in Int
    BY <2>1, CountTypes, HeldType DEF Bluffed
  <2>3. ByCards(rates[m], t, m) \in Int
    BY <2>1, <2>2 DEF ByCards
  <2>4. ByCoins(ByCards(rates[m], t, m), t, m) \in Int
    BY <2>3 DEF ByCoins
  <2> QED
    BY <2>4 DEF Clamp
<1> QED
  BY <1>1 DEF NewRates

\* The weight of a face-down Assassin which there are coins for.
LEMMA AssassinRaised ==
    ASSUME NEW rates \in [Key -> Nat], NEW t \in Table, t.coins[Me] >= 3,
           NEW s \in Slot, t.card[<<Me, s>>] = "assassinate", ~t.up[<<Me, s>>]
    PROVE  \/ NewRates(rates, t)["assassinate"] > 5
           \/ /\ \E x \in Slot : t.card[<<Me, x>>] = "assassinate" /\ t.up[<<Me, x>>]
              /\ \E p \in Seat \ {Me} : t.card[<<p, 1>>] = "assassinate" /\ t.up[<<p, 1>>]
<1> DEFINE m == "assassinate"
           w == rates[m]
           raised == Base(w, m) + 10 * Mine(t, m) + 10 * Cardinality(Shown(t, m))
<1>1. Mine(t, m) \in Nat /\ Mine(t, m) >= 1 /\ Cardinality(Shown(t, m)) \in Nat
  BY CountTypes, MineCounts
<1>2. raised = 5 + 10 * Mine(t, m) + 10 * Cardinality(Shown(t, m))
  BY DEF Base
<1>3. raised \in Int /\ raised >= 15
  BY <1>1, <1>2
<1>4. NewRates(rates, t)[m] = Clamp(Held(w, t, m))
  <2>1. ByCards(w, t, m) = Held(w, t, m)
    BY <1>1 DEF ByCards
  <2>2. ~(t.coins[Me] < 3)
    <3>1. t.coins[Me] \in Int
      BY AIAssumption DEF Table
    <3> QED
      BY <3>1
  <2>3. ByCoins(Held(w, t, m), t, m) = Held(w, t, m)
    BY <2>2 DEF ByCoins
  <2> QED
    BY <2>1, <2>3 DEF NewRates, Key
<1>5. ASSUME NEW v \in Int, v > 5, Held(w, t, m) = v
      PROVE  NewRates(rates, t)[m] > 5
  BY <1>4, <1>5 DEF Clamp
<1>6. CASE ~MineUp(t, m)
  <2>1. Held(w, t, m) = raised
    BY <1>6 DEF Held
  <2> HIDE DEF raised
  <2> QED
    BY <1>3, <1>5, <2>1
\* One Assassin is lost and one is left.
<1>7. CASE MineUp(t, m)
  <2>1. PICK x \in Slot : t.card[<<Me, x>>] = m /\ t.up[<<Me, x>>]
    BY <1>7 DEF MineUp
  <2>2. \A y \in Slot : t.card[<<Me, y>>] = m
    BY <2>1 DEF Slot
  <2>3. m \in Dealt
    <3>1. <<Me, s>> \in Places
      BY AIAssumption DEF Places
    <3> QED
      BY <3>1 DEF Table
  <2>4. Mine(t, m) = 2 /\ Cardinality(Shown(t, m)) =< 1
    BY <2>2, <2>3, BothMine
  <2>5. CASE Shown(t, m) = {}
    <3>1. Cardinality(Shown(t, m)) = 0
      BY <2>5, FS_EmptySet
    <3>2. raised = 25
      BY <1>2, <2>4, <3>1
    <3>3. Held(w, t, m) = Half(raised)
      BY <1>7, <2>5 DEF Held
    <3> HIDE DEF raised
    <3>4. Half(raised) = 12
      BY <3>2 DEF Half
    <3> QED
      BY <1>5, <3>3, <3>4
  <2>6. CASE Shown(t, m) # {}
    <3>1. Cardinality(Shown(t, m)) = 1
      <4>1. Cardinality(Shown(t, m)) # 0
        BY <2>6, CountTypes, FS_EmptySet
      <4> QED
        BY <1>1, <2>4, <4>1
    <3>2. PICK q : Shown(t, m) = {q}
      BY <3>1, CountTypes, FS_Singleton
    <3>3. q \in Places /\ q[1] # Me /\ t.up[q] /\ t.card[q] = m
      BY <3>2 DEF Shown
    <3>4. PICK p \in Seat, y \in Slot : q = <<p, y>>
      BY <3>3 DEF Places
    <3>5. CASE y = 1
      BY <2>1, <3>3, <3>4, <3>5
    <3>6. CASE y = 0
      <4>1. raised = 35
        BY <1>2, <2>4, <3>1
      <4>2. Held(w, t, m) = Spoilt(raised, {<<p, 0>>})
        BY <1>7, <2>6, <3>2, <3>4, <3>6 DEF Held
      <4> HIDE DEF raised
      <4>3. Spoilt(raised, {<<p, 0>>}) = Half(raised)
        BY <1>3, SpoiltOnce
      <4>4. Half(raised) = 17
        BY <4>1 DEF Half
      <4> QED
        BY <1>5, <4>2, <4>3, <4>4
    <3> QED
      BY <3>4, <3>5, <3>6 DEF Slot
  <2> QED
    BY <2>5, <2>6
<1> QED
  BY <1>6, <1>7

-----------------------------------------------------------------------------
(***************************************************************************)
(* The draw.                                                               *)
(***************************************************************************)

\* Either nothing is hit and income is drawn, or a key of positive weight.
LEMMA DrawnFacts ==
    ASSUME NEW rates \in [Key -> Int], NEW o \in Order, NEW rand \in Int
    PROVE  /\ Drawn(rates, o, rand) \in Key
           /\ Drawn(rates, o, rand) = "income" \/ rates[Drawn(rates, o, rand)] > 0
<1> DEFINE hit == {i \in 1 .. 6 : Upto(rates, o, i - 1) < rand /\ rand =< Upto(rates, o, i)}
           last == CHOOSE i \in hit : \A j \in hit : j =< i
<1>1. CASE hit = {}
  BY <1>1 DEF Drawn, Key
<1>2. CASE hit # {}
  <2>1. Drawn(rates, o, rand) = o[last]
    BY <1>2 DEF Drawn
  <2>2. \E i \in hit : \A j \in hit : j =< i
    <3>1. hit \subseteq 1 .. 6
      OBVIOUS
    <3> HIDE DEF hit
    <3>2. hit \subseteq {1, 2, 3, 4, 5, 6}
      BY <3>1
    <3>3. CASE 6 \in hit
      BY <3>2, <3>3
    <3>4. CASE 6 \notin hit /\ 5 \in hit
      BY <3>2, <3>4
    <3>5. CASE 6 \notin hit /\ 5 \notin hit /\ 4 \in hit
      BY <3>2, <3>5
    <3>6. CASE 6 \notin hit /\ 5 \notin hit /\ 4 \notin hit /\ 3 \in hit
      BY <3>2, <3>6
    <3>7. CASE 6 \notin hit /\ 5 \notin hit /\ 4 \notin hit /\ 3 \notin hit /\ 2 \in hit
      BY <3>2, <3>7
    <3>8. CASE hit \subseteq {1}
      <4>1. 1 \in hit
        BY <1>2, <3>8
      <4> QED
        BY <3>8, <4>1
    <3> QED
      BY <3>2, <3>3, <3>4, <3>5, <3>6, <3>7, <3>8
  <2>3. last \in hit
    BY <2>2
  <2> HIDE DEF last
  <2>4. /\ last \in 1 .. 6
        /\ Upto(rates, o, last - 1) < rand /\ rand =< Upto(rates, o, last)
    BY <2>3
  <2>5. o[last] \in Key /\ rates[o[last]] \in Int
    BY <2>4, OrderFacts
  <2>6. /\ Upto(rates, o, last - 1) \in Int
        /\ Upto(rates, o, last) = Upto(rates, o, last - 1) + rates[o[last]]
    <3>1. last - 1 \in 0 .. 6
      BY <2>4
    <3> QED
      BY <2>4, <3>1, UptoFacts
  <2>7. rates[o[last]] > 0
    BY <2>4, <2>5, <2>6
  <2> QED
    BY <2>1, <2>5, <2>7
<1> QED
  BY <1>1, <1>2

\* The random numbers are numbers.
LEMMA RandType ==
    ASSUME NEW rates \in [Key -> Int], NEW o \in Order
    PROVE  Rand(rates, o) \subseteq Int
<1>1. \A i \in 0 .. 6 : Upto(rates, o, i) \in Int
  BY UptoFacts
<1> QED
  BY <1>1 DEF Rand

\* What cannot be paid has no weight.
LEMMA ZeroRates ==
    ASSUME NEW rates, NEW t
    PROVE  /\ t.coins[Me] < 3 => NewRates(rates, t)["assassinate"] = 0
           /\ (\A p \in Seat \ {Me} : t.coins[p] < 2) => NewRates(rates, t)["steal"] = 0
<1>1. ASSUME t.coins[Me] < 3 PROVE \A w : ByCoins(w, t, "assassinate") = 0
  BY <1>1 DEF ByCoins
<1>2. ASSUME \A p \in Seat \ {Me} : t.coins[p] < 2 PROVE \A w : ByCoins(w, t, "steal") = 0
  BY <1>2 DEF ByCoins
<1>3. Clamp(0) = 0
  BY DEF Clamp
<1> QED
  BY <1>1, <1>2, <1>3 DEF NewRates, Key

-----------------------------------------------------------------------------
(***************************************************************************)
(* The invariant.                                                          *)
(***************************************************************************)

\* The weights an AI draws by were made for the table it has been asked about.
RatesOfTable ==
    table # NoTable =>
        /\ table.coins[Me] < 3 => moveRateDic["assassinate"] = 0
        /\ (\A p \in Seat \ {Me} : table.coins[p] < 2) => moveRateDic["steal"] = 0

AIInv == TypeOK /\ RateIsFlat /\ RatesOfTable /\ DrawAllowed /\ HeldIsRaised

LEMMA BeginTurnKeeps ==
    ASSUME AIInv, NEW t \in Table, BeginTurn(t)
    PROVE  AIInv'
<1>1. /\ moveRateDic \in [Key -> Nat] /\ turns \in Nat
      /\ moveRateDic' = NewRates(moveRateDic, t) /\ table' = t /\ choice' = "none"
      /\ turns' = turns + 1 /\ turns' =< MaxTurns /\ challengeRate' = challengeRate
  BY AIAssumption DEF AIInv, TypeOK, BeginTurn
<1>2. TypeOK'
  <2>1. moveRateDic' \in [Key -> Nat]
    BY <1>1, RatesType
  <2>2. turns' \in 0 .. MaxTurns
    BY <1>1, AIAssumption
  <2> QED
    BY <1>1, <2>1, <2>2 DEF AIInv, TypeOK
<1>3. RatesOfTable'
  BY <1>1, ZeroRates DEF RatesOfTable
<1>4. HeldIsRaised'
  <2> SUFFICES ASSUME t.coins[Me] >= 3,
                      NEW s \in Slot, t.card[<<Me, s>>] = "assassinate", ~t.up[<<Me, s>>]
               PROVE  \/ moveRateDic'["assassinate"] > 5
                      \/ /\ \E x \in Slot : t.card[<<Me, x>>] = "assassinate" /\ t.up[<<Me, x>>]
                         /\ \E p \in Seat \ {Me} :
                               t.card[<<p, 1>>] = "assassinate" /\ t.up[<<p, 1>>]
    BY <1>1 DEF HeldIsRaised
  <2> QED
    BY <1>1, AssassinRaised
<1> QED
  BY <1>1, <1>2, <1>3, <1>4 DEF AIInv, RateIsFlat, DrawAllowed

LEMMA DrawKeeps ==
    ASSUME AIInv, GetAIMoveName
    PROVE  AIInv'
<1>1. UNCHANGED <<moveRateDic, challengeRate, table, turns>> /\ table # NoTable
  BY DEF GetAIMoveName
<1>2. PICK o \in Order : \E rand \in Rand(moveRateDic, o) :
         choice' = IF table.coins[Me] >= 7 THEN "coup" ELSE Drawn(moveRateDic, o, rand)
  BY DEF GetAIMoveName
<1>3. PICK rand \in Rand(moveRateDic, o) :
         choice' = IF table.coins[Me] >= 7 THEN "coup" ELSE Drawn(moveRateDic, o, rand)
  BY <1>2
<1>4. moveRateDic \in [Key -> Int] /\ table \in Table
  BY <1>1 DEF AIInv, TypeOK
<1>5. rand \in Int
  BY <1>4, RandType
<1> DEFINE drawn == Drawn(moveRateDic, o, rand)
<1>6. drawn \in Key /\ (drawn = "income" \/ moveRateDic[drawn] > 0)
  BY <1>4, <1>5, DrawnFacts
<1> HIDE DEF drawn
<1>7. \A p \in Seat : table.coins[p] \in Int
  BY <1>4, AIAssumption DEF Table
<1>8. Me \in Seat
  BY AIAssumption
<1>9. TypeOK'
  BY <1>1, <1>3, <1>6 DEF AIInv, TypeOK, drawn
<1>10. DrawAllowed'
  <2>1. CASE table.coins[Me] >= 7
    BY <1>1, <1>3, <1>7, <1>8, <2>1 DEF DrawAllowed
  <2>2. CASE ~(table.coins[Me] >= 7)
    <3>1. choice' = drawn /\ choice' # "coup"
      BY <1>3, <1>6, <2>2 DEF Key, drawn
    <3>2. choice' = "assassinate" => table.coins[Me] >= 3
      <4> SUFFICES ASSUME choice' = "assassinate" PROVE ~(table.coins[Me] < 3)
        BY <1>7, <1>8
      <4>1. moveRateDic["assassinate"] > 0
        BY <1>6, <3>1
      <4> QED
        BY <1>1, <4>1 DEF AIInv, RatesOfTable
    <3>3. choice' = "steal" => \E p \in Seat \ {Me} : table.coins[p] >= 2
      <4> SUFFICES ASSUME choice' = "steal" PROVE ~(\A p \in Seat \ {Me} : table.coins[p] < 2)
        BY <1>7
      <4>1. moveRateDic["steal"] > 0
        BY <1>6, <3>1
      <4> QED
        BY <1>1, <4>1 DEF AIInv, RatesOfTable
    <3> QED
      BY <1>1, <1>6, <2>2, <3>1, <3>2, <3>3 DEF DrawAllowed
  <2> QED
    BY <2>1, <2>2
<1>11. RateIsFlat' /\ RatesOfTable' /\ HeldIsRaised'
  BY <1>1 DEF AIInv, RateIsFlat, RatesOfTable, HeldIsRaised
<1> QED
  BY <1>9, <1>10, <1>11 DEF AIInv

\* Of the four claims that are counted, at most one is the one announced.
LEMMA RateForFacts == \A t, claim : RateFor(t, claim) = 30
<1> SUFFICES ASSUME NEW t, NEW claim
             PROVE  \E m \in Claimable : Known(t, claim, m) =< 1
  BY DEF RateFor
<1>1. PICK m \in Claimable : m # claim
  BY DEF Claimable
<1>2. Known(t, claim, m) = 0
  BY <1>1 DEF Known
<1> QED
  BY <1>2

LEMMA AnswerKeeps ==
    ASSUME AIInv, NEW t, NEW claim, GetChallengeOrAllow(t, claim)
    PROVE  AIInv'
<1>1. challengeRate' = 30
  BY RateForFacts DEF GetChallengeOrAllow
<1> QED
  BY <1>1 DEF AIInv, TypeOK, RateIsFlat, RatesOfTable, DrawAllowed, HeldIsRaised,
     GetChallengeOrAllow

LEMMA EndTurnKeeps ==
    ASSUME AIInv, EndTurn
    PROVE  AIInv'
BY DEF AIInv, TypeOK, RateIsFlat, RatesOfTable, DrawAllowed, HeldIsRaised, EndTurn

LEMMA AIInvHolds == Spec => []AIInv
<1>1. Init => AIInv
  BY AIAssumption DEF Init, AIInv, TypeOK, RateIsFlat, RatesOfTable, DrawAllowed, HeldIsRaised
<1>2. AIInv /\ [Next]_vars => AIInv'
  <2> SUFFICES ASSUME AIInv, [Next]_vars
               PROVE  AIInv'
    OBVIOUS
  <2>1. ASSUME NEW t \in Table, BeginTurn(t) PROVE AIInv'
    BY <2>1, BeginTurnKeeps
  <2>2. ASSUME NEW t \in Table, NEW claim \in Backed, GetChallengeOrAllow(t, claim)
        PROVE  AIInv'
    BY <2>2, AnswerKeeps
  <2>3. CASE GetAIMoveName
    BY <2>3, DrawKeeps
  <2>4. CASE EndTurn
    BY <2>4, EndTurnKeeps
  <2>5. CASE UNCHANGED vars
    BY <2>5 DEF vars, AIInv, TypeOK, RateIsFlat, RatesOfTable, DrawAllowed, HeldIsRaised
  <2> QED
    BY <2>1, <2>2, <2>3, <2>4, <2>5 DEF Next
<1> QED
  BY <1>1, <1>2, PTL DEF Spec

-----------------------------------------------------------------------------
\* The weights changeMoveRate leaves are numbers, and none is negative: the sums
\* of getAIMoveName go up.
THEOREM TypeCorrect == Spec => []TypeOK
<1>1. AIInv => TypeOK
  BY DEF AIInv
<1> QED
  BY <1>1, AIInvHolds, PTL

\* getAIMoveName draws only what can be paid for, in whatever order the
\* dictionary lists its keys and whatever the other cards have made of the weights.
THEOREM DrawsAllowed == Spec => []DrawAllowed
<1>1. AIInv => DrawAllowed
  BY DEF AIInv
<1> QED
  BY <1>1, AIInvHolds, PTL

\* adjustChallengeRate answers 0.30 whatever the AI knows.
THEOREM RateAlwaysFlat == Spec => []RateIsFlat
<1>1. AIInv => RateIsFlat
  BY DEF AIInv
<1> QED
  BY <1>1, AIInvHolds, PTL

\* changeMoveRate makes an AI with a face-down Assassin more inclined to use it,
\* but for the hundred it takes off for one shown in a second slot.
THEOREM HeldAlwaysRaised == Spec => []HeldIsRaised
<1>1. AIInv => HeldIsRaised
  BY DEF AIInv
<1> QED
  BY <1>1, AIInvHolds, PTL

-----------------------------------------------------------------------------
(***************************************************************************)
(* What an AI may see.                                                     *)
(***************************************************************************)

\* Two tables with the same cards of the AI, the same cards face up and the same
\* purses give the same weights.
LEMMA SeenAlone ==
    ASSUME NEW t, NEW u, t.up = u.up, t.coins = u.coins,
           \A q \in Places : q[1] = Me \/ t.up[q] => t.card[q] = u.card[q]
    PROVE  \A rates : NewRates(rates, t) = NewRates(rates, u)
<1>1. \A s \in Slot : <<Me, s>> \in Places /\ <<Me, s>>[1] = Me
  BY AIAssumption DEF Places
<1>2. ASSUME NEW m
      PROVE  /\ Mine(t, m) = Mine(u, m)
             /\ MineUp(t, m) = MineUp(u, m)
             /\ Shown(t, m) = Shown(u, m)
  <2>1. \A s \in Slot : t.card[<<Me, s>>] = u.card[<<Me, s>>]
    BY <1>1
  <2>2. Mine(t, m) = Mine(u, m) /\ MineUp(t, m) = MineUp(u, m)
    <3>1. {s \in Slot : t.card[<<Me, s>>] = m} = {s \in Slot : u.card[<<Me, s>>] = m}
      BY <2>1
    <3> QED
      BY <2>1, <3>1 DEF Mine, MineUp
  <2>3. Shown(t, m) = Shown(u, m)
    BY DEF Shown
  <2> QED
    BY <2>2, <2>3
<1>3. \A w, m : Held(w, t, m) = Held(w, u, m) /\ Bluffed(w, t, m) = Bluffed(w, u, m)
  BY <1>2 DEF Held, Bluffed
<1>4. \A w, m : ByCards(w, t, m) = ByCards(w, u, m)
  BY <1>2, <1>3 DEF ByCards
<1>5. \A w, m : ByCoins(w, t, m) = ByCoins(w, u, m)
  BY DEF ByCoins
<1> QED
  BY <1>4, <1>5 DEF NewRates

\* changeMoveRate reads no card of another player that is face down.
THEOREM NobodyEverPeeks == Spec => NobodyPeeks
<1> DEFINE seen(m) == [table' EXCEPT !.card =
                          [q \in Places |-> IF q[1] = Me \/ table'.up[q]
                                            THEN table'.card[q] ELSE m]]
           fair == \A m \in Dealt : table = NoTable /\ table' # NoTable
                                      => moveRateDic' = NewRates(moveRateDic, seen(m))
<1>1. [Next]_vars => [fair]_vars
  <2> SUFFICES ASSUME [Next]_vars, NEW m \in Dealt, table = NoTable, table' # NoTable
               PROVE  moveRateDic' = NewRates(moveRateDic, seen(m))
    OBVIOUS
  <2>1. PICK t \in Table : BeginTurn(t)
    BY DEF Next, GetChallengeOrAllow, GetAIMoveName, EndTurn, vars
  <2>2. table' = t /\ moveRateDic' = NewRates(moveRateDic, t)
    BY <2>1 DEF BeginTurn
  <2>3. NewRates(moveRateDic, t) = NewRates(moveRateDic, seen(m))
    <3>1. /\ t.up = seen(m).up /\ t.coins = seen(m).coins
          /\ \A q \in Places : seen(m).card[q] = IF q[1] = Me \/ t.up[q] THEN t.card[q] ELSE m
      BY <2>2 DEF Table
    <3> HIDE DEF seen
    <3> QED
      BY <3>1, SeenAlone
  <2> QED
    BY <2>2, <2>3
<1>2. Spec => [][fair]_vars
  BY <1>1, PTL DEF Spec
<1>3. NobodyPeeks <=> [][fair]_vars
  BY DEF NobodyPeeks
<1> QED
  BY <1>2, <1>3, PTL
=============================================================================

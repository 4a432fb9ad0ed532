----------------------------- MODULE LedgerProofs -----------------------------
(***************************************************************************)
(* The ledger the distribution module keeps for one validator: the reward   *)
(* records and what refers to them, what each delegation is due and what is *)
(* there to pay it.  The calls of the keepers keep it balanced, and the     *)
(* ledgers of all validators with it.                                       *)
(***************************************************************************)
EXTENDS ChainProofs

-----------------------------------------------------------------------------
(* Numbers *)

\* A quotient, times what it was divided by, does not exceed what was divided.
LEMMA QuotientFits ==
    ASSUME NEW w \in Nat, NEW t \in Nat \ {0}
    PROVE  /\ w \div t \in Nat /\ (w \div t) * t <= w
           /\ w < (w \div t) * t + t
  OBVIOUS

\* And is the greatest number that fits.
LEMMA QuotientIsGreatest ==
    ASSUME NEW w \in Nat, NEW t \in Nat \ {0}, NEW k \in Nat, k * t <= w
    PROVE  k <= w \div t
  <1>1. w \div t \in Nat /\ w < ((w \div t) + 1) * t
    BY QuotientFits
  <1>2. ASSUME ~(k <= w \div t) PROVE FALSE
    <2>1. (w \div t) + 1 <= k
      BY <1>1, <1>2
    <2>. DEFINE q == (w \div t) + 1
    <2>2. q \in Nat /\ q <= k /\ w < q * t
      BY <1>1, <2>1
    <2>. HIDE DEF q
    <2>3. q * t <= k * t
      BY <2>2
    <2>. QED BY <2>2, <2>3
  <1>. QED BY <1>1, <1>2

\* A stake that was worth no more than its shares is not when shares are bought
\* at the present rate, rounded down;
LEMMA StakeAfterBuying ==
    ASSUME NEW st \in Nat, NEW s \in Nat, NEW dl \in Nat, NEW t \in Nat,
           NEW m \in Nat, NEW k \in Nat,
           s > 0, st * s <= dl * t, k * t <= m * s
    PROVE  st * (s + k) <= dl * (t + m)
  OBVIOUS

\* nor when they are sold,
LEMMA StakeAfterSelling ==
    ASSUME NEW st \in Nat, NEW s \in Nat, NEW dl \in Nat, NEW t \in Nat,
           NEW m \in Nat, NEW a \in Nat,
           s > 0, a <= s, m <= t, st * s <= dl * t, m * s <= a * t
    PROVE  st * (s - a) <= dl * (t - m)
  OBVIOUS

\* nor when the validator is slashed.
LEMMA StakeAfterSlash ==
    ASSUME NEW st \in Nat, NEW s \in Nat, NEW dl \in Nat, NEW t \in Nat,
           st * s <= dl * t
    PROVE  (st \div 2) * s <= dl * (t - (t \div 2))
  OBVIOUS

\* The rate of tokens to shares stays below a bound R when shares are sold,
LEMMA RateAfterSelling ==
    ASSUME NEW t \in Nat, NEW s \in Nat, NEW a \in Nat, NEW m \in Nat, NEW R \in Nat \ {0},
           s > 0, a <= s, m <= t, t <= R * s, a * t < m * s + s
    PROVE  t - m <= R * (s - a)
  OBVIOUS

\* and when they are bought for a multiple of R,
LEMMA RateAfterBuying ==
    ASSUME NEW t \in Nat, NEW s \in Nat, NEW j \in Nat, NEW k \in Nat, NEW R \in Nat \ {0},
           t <= R * s, j <= k
    PROVE  t + R * j <= R * (s + k)
  OBVIOUS

\* which buys at least as many shares as it is a multiple.
LEMMA EnoughShares ==
    ASSUME NEW t \in Nat \ {0}, NEW s \in Nat, NEW j \in Nat, NEW R \in Nat \ {0},
           t <= R * s
    PROVE  j <= ((R * j) * s) \div t
  <1>1. j * t <= (R * j) * s
    OBVIOUS
  <1>2. (R * j) * s \in Nat
    OBVIOUS
  <1>. QED BY <1>1, <1>2, QuotientIsGreatest

\* Who sells some of the shares leaves some of the tokens.
LEMMA SomethingLeft ==
    ASSUME NEW t \in Nat \ {0}, NEW s \in Nat \ {0}, NEW a \in Nat, a < s
    PROVE  (a * t) \div s < t
  <1>1. a * t < s * t /\ a * t \in Nat
    OBVIOUS
  <1>2. (a * t) \div s \in Nat /\ ((a * t) \div s) * s <= a * t
    BY <1>1, QuotientFits
  <1>3. ASSUME NEW q \in Nat, q * s <= a * t PROVE q < t
    BY <1>1, <1>3
  <1>. QED BY <1>2, <1>3

\* Induction over the numbers up to n.
LEMMA NumberInduction ==
    ASSUME NEW n \in Nat, NEW G, 0 \in G,
           \A i \in 1 .. n : i - 1 \in G => i \in G
    PROVE  \A i \in 0 .. n : i \in G
  <1>. DEFINE Bad == {i \in 0 .. n : i \notin G}
  <1>. SUFFICES ASSUME Bad # {} PROVE FALSE
    OBVIOUS
  <1>1. Bad \in SUBSET Nat /\ IsFiniteSet(Bad)
    <2>1. IsFiniteSet(0 .. n)
      BY FS_Interval
    <2>2. Bad \subseteq 0 .. n
      OBVIOUS
    <2>. QED BY <2>1, <2>2, FS_Subset
  <1>2. PICK m \in Bad : \A i \in Bad : m <= i
    <2>1. Min(Bad) \in Bad /\ \A i \in Bad : Min(Bad) <= i
      <3>. HIDE DEF Bad
      <3>. QED BY <1>1, LeastIsIn
    <2>. QED BY <2>1
  <1>3. m # 0 /\ m \in 1 .. n /\ m - 1 \in 0 .. n /\ m - 1 \notin Bad
    BY <1>2
  <1>. QED BY <1>3
-----------------------------------------------------------------------------
(* Sums *)

\* A sum of numbers is one, and no smaller than each of them.
LEMMA SumOfNaturals ==
    ASSUME NEW S, IsFiniteSet(S), NEW f \in [S -> Nat]
    PROVE  /\ SumFunction(f) \in Nat
           /\ \A x \in S : f[x] <= SumFunction(f)
  <1>. DEFINE Natural == {s \in SUBSET S : Sums(f)[s] \in Nat /\ \A x \in s : f[x] <= Sums(f)[s]}
  <1>0. AddsUp(Sums(f), f, S)
    BY SumsAddUp
  <1>1. ASSUME NEW s \in SUBSET S, \A q \in SUBSET s : q # s => q \in Natural
        PROVE  s \in Natural
    <2>1. CASE s = {}
      <3>1. Sums(f)[s] = 0
        BY <1>0, <2>1 DEF AddsUp
      <3>. QED BY <2>1, <3>1
    <2>2. CASE s # {}
      <3>. DEFINE a == Chosen(s)
                  q == s \ {a}
      <3>1. a \in s /\ a \in S /\ q \in Natural
        BY <1>1, <2>2, ChosenIsIn
      <3>2. Sums(f)[s] = f[a] + Sums(f)[q] /\ f[a] \in Nat /\ Sums(f)[q] \in Nat
        BY <1>0, <2>2, <3>1 DEF AddsUp
      <3>3. \A x \in s : x = a \/ f[x] <= Sums(f)[q]
        BY <3>1
      <3>4. \A x \in s : f[x] \in Nat
        OBVIOUS
      <3>. HIDE DEF a, q
      <3>. QED BY <3>2, <3>3, <3>4
    <2>. QED BY <2>1, <2>2
  <1>2. \A s \in SUBSET S : s \in Natural
    <2>. HIDE DEF Natural
    <2>. QED BY <1>1, Induction
  <1>. QED BY <1>2, SumIsWhole

\* The sum of f and k times h.
LEMMA SumIsLinear ==
    ASSUME NEW S, IsFiniteSet(S), NEW f \in [S -> Int], NEW h \in [S -> Int],
           NEW g \in [S -> Int], NEW k \in Int, \A x \in S : g[x] = f[x] + k * h[x]
    PROVE  SumFunction(g) = SumFunction(f) + k * SumFunction(h)
  <1>. DEFINE Same == {s \in SUBSET S : Sums(g)[s] = Sums(f)[s] + k * Sums(h)[s]}
  <1>0. AddsUp(Sums(f), f, S) /\ AddsUp(Sums(g), g, S) /\ AddsUp(Sums(h), h, S)
    BY SumsAddUp
  <1>1. ASSUME NEW s \in SUBSET S, \A q \in SUBSET s : q # s => q \in Same
        PROVE  s \in Same
    <2>1. CASE s = {}
      <3>1. Sums(f)[s] = 0 /\ Sums(g)[s] = 0 /\ Sums(h)[s] = 0
        BY <1>0, <2>1 DEF AddsUp
      <3>. QED BY <3>1
    <2>2. CASE s # {}
      <3>. DEFINE a == Chosen(s)
                  q == s \ {a}
      <3>1. a \in S /\ q \in Same
        BY <1>1, <2>2, ChosenIsIn
      <3>2. /\ Sums(f)[s] = f[a] + Sums(f)[q] /\ Sums(g)[s] = g[a] + Sums(g)[q]
            /\ Sums(h)[s] = h[a] + Sums(h)[q] /\ g[a] = f[a] + k * h[a]
            /\ Sums(g)[q] = Sums(f)[q] + k * Sums(h)[q]
        BY <1>0, <2>2, <3>1 DEF AddsUp
      <3>3. f[a] \in Int /\ h[a] \in Int /\ Sums(f)[q] \in Int /\ Sums(h)[q] \in Int
        BY <1>0, <3>1 DEF AddsUp
      <3>. HIDE DEF a, q
      <3>4. k * (h[a] + Sums(h)[q]) = k * h[a] + k * Sums(h)[q]
        BY <3>3
      <3>5. k * h[a] \in Int /\ k * Sums(h)[q] \in Int
        BY <3>3
      <3>. QED BY <3>2, <3>3, <3>4, <3>5
    <2>. QED BY <2>1, <2>2
  <1>2. \A s \in SUBSET S : s \in Same
    <2>. HIDE DEF Same
    <2>. QED BY <1>1, Induction
  <1>. QED BY <1>2, SumIsWhole

\* A sum of smaller numbers is smaller.
LEMMA SumIsMonotone ==
    ASSUME NEW S, IsFiniteSet(S), NEW f \in [S -> Int], NEW g \in [S -> Int],
           \A x \in S : f[x] <= g[x]
    PROVE  SumFunction(f) <= SumFunction(g)
  <1>. DEFINE Less == {s \in SUBSET S : Sums(f)[s] <= Sums(g)[s]}
  <1>0. AddsUp(Sums(f), f, S) /\ AddsUp(Sums(g), g, S)
    BY SumsAddUp
  <1>1. ASSUME NEW s \in SUBSET S, \A q \in SUBSET s : q # s => q \in Less
        PROVE  s \in Less
    <2>1. CASE s = {}
      <3>1. Sums(f)[s] = 0 /\ Sums(g)[s] = 0
        BY <1>0, <2>1 DEF AddsUp
      <3>. QED BY <3>1
    <2>2. CASE s # {}
      <3>. DEFINE a == Chosen(s)
                  q == s \ {a}
      <3>1. a \in S /\ q \in Less
        BY <1>1, <2>2, ChosenIsIn
      <3>2. /\ Sums(f)[s] = f[a] + Sums(f)[q] /\ Sums(g)[s] = g[a] + Sums(g)[q]
            /\ f[a] <= g[a] /\ Sums(f)[q] <= Sums(g)[q]
        BY <1>0, <2>2, <3>1 DEF AddsUp
      <3>3. f[a] \in Int /\ g[a] \in Int /\ Sums(f)[q] \in Int /\ Sums(g)[q] \in Int
        BY <1>0, <3>1 DEF AddsUp
      <3>. HIDE DEF a, q
      <3>. QED BY <3>2, <3>3
    <2>. QED BY <2>1, <2>2
  <1>2. \A s \in SUBSET S : s \in Less
    <2>. HIDE DEF Less
    <2>. QED BY <1>1, Induction
  <1>. QED BY <1>2, SumIsWhole

-----------------------------------------------------------------------------
(* What is gathered over the slashes *)

SlashedAt(c, v) == {c.dist[v].slashes[i].period : i \in DOMAIN c.dist[v].slashes}

\* The slashes are of blocks that have been, those that end a later period than
\* the one s starts after of blocks not before it.
InTime(c, v, s) ==
    \A i \in DOMAIN c.dist[v].slashes :
        LET e == c.dist[v].slashes[i] IN
        /\ e.height <= c.height
        /\ e.period > s.period => s.height <= e.height

\* The first slashes of d are those of c.
Extends(c, d, v) ==
    /\ Len(c.dist[v].slashes) <= Len(d.dist[v].slashes)
    /\ \A i \in 1 .. Len(c.dist[v].slashes) : d.dist[v].slashes[i] = c.dist[v].slashes[i]

HasOneMore(c, d, v) == Len(d.dist[v].slashes) = Len(c.dist[v].slashes) + 1

SameRatio(c, d, v, p) == Hist(d, v, p).ratio = Hist(c, v, p).ratio

\* Before the first slash.
AtStart(s) == [from |-> s.period, stake |-> s.stake, sum |-> 0, panic |-> FALSE]

LEMMA SlashesAreEvents ==
    ASSUME NEW c \in States, NEW v \in Operators
    PROVE  /\ Len(c.dist[v].slashes) \in Nat
           /\ DOMAIN c.dist[v].slashes = 1 .. Len(c.dist[v].slashes)
           /\ \A i \in 1 .. Len(c.dist[v].slashes) :
                 c.dist[v].slashes[i] \in [height : Int, period : Int]
  <1>. DEFINE T == [height : Int, period : Int]
              e == c.dist[v].slashes
  <1>1. e \in Seq(T)
    BY DEF States, Records, SlashEvents
  <1>. HIDE DEF T, e
  <1>2. DOMAIN e = 1 .. Len(e) /\ Len(e) \in Nat /\ \A i \in 1 .. Len(e) : e[i] \in T
    BY <1>1
  <1>. QED BY <1>2 DEF T, e

LEMMA FirstNumbers ==
    ASSUME NEW n \in Nat, NEW i \in 1 .. n
    PROVE  /\ Max(1 .. i) = i /\ (1 .. i) \ {i} = 1 .. (i - 1)
           /\ 1 .. i # {} /\ 1 .. i \in SUBSET (1 .. n)
  <1>1. 1 .. i \in SUBSET Nat /\ IsFiniteSet(1 .. i) /\ 1 .. i # {} /\ i \in 1 .. i
    <2>1. IsFiniteSet(1 .. i)
      BY FS_Interval
    <2>2. \A k \in 1 .. i : k \in Nat
      OBVIOUS
    <2>3. i \in 1 .. i
      OBVIOUS
    <2>. QED BY <2>1, <2>2, <2>3
  <1>2. Max(1 .. i) \in 1 .. i /\ \A k \in 1 .. i : Max(1 .. i) >= k
    BY <1>1, MaxIsIn
  <1>. QED BY <1>1, <1>2

\* One slash after the other.
LEMMA GathersInOrder ==
    ASSUME NEW c \in States, NEW v \in Operators, NEW s \in Infos, NEW h,
           GathersOver(c, v, s, h)
    PROVE  /\ h[1 .. 0] = AtStart(s)
           /\ OverSlashes(c, v, s) = h[1 .. Len(c.dist[v].slashes)]
           /\ \A i \in 1 .. Len(c.dist[v].slashes) :
                 h[1 .. i] = CutBySlash(c, v, s, h[1 .. (i - 1)], c.dist[v].slashes[i])
           /\ \A i \in 0 .. Len(c.dist[v].slashes) : h[1 .. i] \in Gathered
  <1>. DEFINE e == c.dist[v].slashes
              n == Len(e)
              D == DOMAIN e
  <1>1. n \in Nat /\ D = 1 .. n
    BY SlashesAreEvents
  <1>2. /\ h \in [SUBSET D -> Gathered] /\ h[{}] = AtStart(s)
        /\ \A t \in SUBSET D : t # {} =>
              h[t] = CutBySlash(c, v, s, h[t \ {Max(t)}], e[Max(t)])
        /\ OverSlashes(c, v, s) = h[D]
    BY DEF GathersOver, AtStart
  <1>. HIDE DEF n, D, e
  <1>3. h[1 .. 0] = AtStart(s)
    <2>1. 1 .. 0 = {}
      OBVIOUS
    <2>. QED BY <1>2, <2>1
  <1>4. ASSUME NEW i \in 1 .. n PROVE h[1 .. i] = CutBySlash(c, v, s, h[1 .. (i - 1)], e[i])
    <2>1. /\ Max(1 .. i) = i /\ (1 .. i) \ {i} = 1 .. (i - 1)
          /\ 1 .. i # {} /\ 1 .. i \in SUBSET D
      BY <1>1, FirstNumbers
    <2>. QED BY <1>2, <2>1
  <1>5. \A i \in 0 .. n : h[1 .. i] \in Gathered
    <2>1. \A i \in 0 .. n : 1 .. i \in SUBSET D
      BY <1>1
    <2>. QED BY <1>2, <2>1
  <1>. QED BY <1>1, <1>2, <1>3, <1>4, <1>5 DEF n, e

LEMMA GathersAt ==
    ASSUME NEW c \in States, NEW v \in Operators, NEW s \in Infos, NEW h,
           GathersOver(c, v, s, h), NEW i \in 1 .. Len(c.dist[v].slashes)
    PROVE  h[1 .. i] = CutBySlash(c, v, s, h[1 .. (i - 1)], c.dist[v].slashes[i])
  BY GathersInOrder

\* The reward records the cut of a slash is calculated from.
LEMMA CutIsTheSame ==
    ASSUME NEW c \in States, NEW d \in States, NEW v \in Operators, NEW s \in Infos,
           NEW acc \in Gathered, NEW e \in [height : Int, period : Int],
           e.height <= c.height, e.height <= d.height,
           e.period > s.period => s.height <= e.height,
           SameRatio(c, d, v, acc.from), SameRatio(c, d, v, e.period)
    PROVE  /\ CutBySlash(d, v, s, acc, e) = CutBySlash(c, v, s, acc, e)
           /\ CutBySlash(c, v, s, acc, e).from \in {acc.from, e.period}
  BY DEF CutBySlash, RewardsUpTo, SameRatio, Infos, Gathered

\* Over the same first slashes the same is gathered.
LEMMA SameGathered ==
    ASSUME NEW c \in States, NEW d \in States, NEW v \in Operators, NEW s \in Infos,
           Extends(c, d, v), InTime(c, v, s), InTime(d, v, s),
           \A p \in {s.period} \cup SlashedAt(c, v) : SameRatio(c, d, v, p),
           NEW g, GathersOver(c, v, s, g), NEW h, GathersOver(d, v, s, h)
    PROVE  \A i \in 0 .. Len(c.dist[v].slashes) :
              /\ h[1 .. i] = g[1 .. i]
              /\ g[1 .. i].from \in {s.period} \cup SlashedAt(c, v)
  <1>. DEFINE e == c.dist[v].slashes
              n == Len(e)
              G == {i \in 0 .. n : h[1 .. i] = g[1 .. i]
                                   /\ g[1 .. i].from \in {s.period} \cup SlashedAt(c, v)}
  <1>1. /\ n \in Nat /\ DOMAIN e = 1 .. n /\ n <= Len(d.dist[v].slashes)
        /\ Len(d.dist[v].slashes) \in Nat
        /\ DOMAIN d.dist[v].slashes = 1 .. Len(d.dist[v].slashes)
        /\ \A i \in 1 .. n : e[i] \in [height : Int, period : Int] /\ d.dist[v].slashes[i] = e[i]
    BY SlashesAreEvents DEF Extends
  <1>2. /\ g[1 .. 0] = AtStart(s) /\ h[1 .. 0] = AtStart(s)
        /\ \A i \in 0 .. n : g[1 .. i] \in Gathered
        /\ \A i \in 1 .. n : g[1 .. i] = CutBySlash(c, v, s, g[1 .. (i - 1)], e[i])
    BY GathersInOrder
  <1>3. \A i \in 1 .. n : h[1 .. i] = CutBySlash(d, v, s, h[1 .. (i - 1)], e[i])
    <2>1. \A i \in 1 .. Len(d.dist[v].slashes) :
             h[1 .. i] = CutBySlash(d, v, s, h[1 .. (i - 1)], d.dist[v].slashes[i])
      BY GathersInOrder
    <2>. QED BY <1>1, <2>1
  <1>4. \A i \in 1 .. n : /\ e[i].height <= c.height /\ e[i].height <= d.height
                          /\ e[i].period > s.period => s.height <= e[i].height
                          /\ e[i].period \in SlashedAt(c, v)
    <2>. TAKE i \in 1 .. n
    <2>1. i \in DOMAIN e /\ i \in DOMAIN d.dist[v].slashes /\ d.dist[v].slashes[i] = e[i]
      BY <1>1
    <2>2. e[i].height <= c.height /\ (e[i].period > s.period => s.height <= e[i].height)
      BY <2>1 DEF InTime
    <2>3. e[i].height <= d.height
      BY <2>1 DEF InTime
    <2>4. e[i].period \in SlashedAt(c, v)
      BY <2>1 DEF SlashedAt
    <2>. QED BY <2>2, <2>3, <2>4
  <1>. HIDE DEF e, n
  <1>5. 0 \in G
    BY <1>1, <1>2 DEF AtStart
  <1>6. ASSUME NEW i \in 1 .. n, i - 1 \in G PROVE i \in G
    <2>. DEFINE acc == g[1 .. (i - 1)]
    <2>1. acc \in Gathered /\ acc.from \in {s.period} \cup SlashedAt(c, v)
          /\ h[1 .. (i - 1)] = acc
      BY <1>1, <1>2, <1>6
    <2>2. g[1 .. i] = CutBySlash(c, v, s, acc, e[i]) /\ h[1 .. i] = CutBySlash(d, v, s, acc, e[i])
      BY <1>2, <1>3, <2>1
    <2>. HIDE DEF acc
    <2>3. SameRatio(c, d, v, acc.from) /\ SameRatio(c, d, v, e[i].period)
      BY <1>4, <2>1
    <2>4. e[i] \in [height : Int, period : Int]
      BY <1>1
    <2>5. /\ CutBySlash(d, v, s, acc, e[i]) = CutBySlash(c, v, s, acc, e[i])
          /\ CutBySlash(c, v, s, acc, e[i]).from \in {acc.from, e[i].period}
      BY <1>4, <2>1, <2>3, <2>4, CutIsTheSame
    <2>. QED BY <1>1, <1>4, <2>1, <2>2, <2>5
  <1>7. \A i \in 0 .. n : i \in G
    <2>. HIDE DEF G
    <2>. QED BY <1>1, <1>5, <1>6, NumberInduction
  <1>. QED BY <1>7 DEF n, e

\* A delegation that has the same slashes, and rewards per token, before it gets the same.
LEMMA SameOverSlashes ==
    ASSUME NEW c \in States, NEW d \in States, NEW v \in Operators, NEW s \in Infos,
           d.dist[v].slashes = c.dist[v].slashes, InTime(c, v, s), InTime(d, v, s),
           \A p \in {s.period} \cup SlashedAt(c, v) : SameRatio(c, d, v, p)
    PROVE  /\ OverSlashes(d, v, s) = OverSlashes(c, v, s)
           /\ OverSlashes(c, v, s).from \in {s.period} \cup SlashedAt(c, v)
  <1>1. PICK g : GathersOver(c, v, s, g)
    BY SlashesGather
  <1>2. PICK h : GathersOver(d, v, s, h)
    BY SlashesGather
  <1>3. Extends(c, d, v) /\ Len(c.dist[v].slashes) \in Nat
    BY SlashesAreEvents DEF Extends
  <1>4. \A i \in 0 .. Len(c.dist[v].slashes) :
           h[1 .. i] = g[1 .. i] /\ g[1 .. i].from \in {s.period} \cup SlashedAt(c, v)
    BY <1>1, <1>2, <1>3, SameGathered
  <1>5. /\ OverSlashes(c, v, s) = g[1 .. Len(c.dist[v].slashes)]
        /\ OverSlashes(d, v, s) = h[1 .. Len(d.dist[v].slashes)]
    BY <1>1, <1>2, GathersInOrder
  <1>. QED BY <1>3, <1>4, <1>5

\* With one more slash at the end.
LEMMA OverTheLastSlash ==
    ASSUME NEW c \in States, NEW d \in States, NEW v \in Operators, NEW s \in Infos,
           Extends(c, d, v), HasOneMore(c, d, v),
           InTime(c, v, s), InTime(d, v, s),
           \A p \in {s.period} \cup SlashedAt(c, v) : SameRatio(c, d, v, p)
    PROVE  OverSlashes(d, v, s) =
             CutBySlash(d, v, s, OverSlashes(c, v, s), d.dist[v].slashes[Len(d.dist[v].slashes)])
  <1>. DEFINE n == Len(c.dist[v].slashes)
              m == Len(d.dist[v].slashes)
  <1>1. PICK g : GathersOver(c, v, s, g)
    BY SlashesGather
  <1>2. PICK h : GathersOver(d, v, s, h)
    BY SlashesGather
  <1>3. n \in Nat /\ m \in 1 .. m /\ m - 1 = n
    BY SlashesAreEvents DEF HasOneMore
  <1>4. h[1 .. n] = g[1 .. n]
    <2>1. \A i \in 0 .. n : h[1 .. i] = g[1 .. i]
      BY <1>1, <1>2, SameGathered
    <2>. HIDE DEF n
    <2>. QED BY <1>3, <2>1
  <1>5. OverSlashes(c, v, s) = g[1 .. n] /\ OverSlashes(d, v, s) = h[1 .. m]
    BY <1>1, <1>2, GathersInOrder
  <1>6. h[1 .. m] = CutBySlash(d, v, s, h[1 .. (m - 1)], d.dist[v].slashes[m])
    <2>1. m \in 1 .. m
      BY <1>3
    <2>. QED BY <1>2, <2>1, GathersAt, Z3
  <1>. HIDE DEF n, m
  <1>7. OverSlashes(d, v, s) = CutBySlash(d, v, s, OverSlashes(c, v, s), d.dist[v].slashes[m])
    BY <1>3, <1>4, <1>5, <1>6
  <1>. QED BY <1>7 DEF m

LEMMA OverOneMoreSlash ==
    ASSUME NEW c \in States, NEW d \in States, NEW v \in Operators, NEW s \in Infos,
           NEW e \in [height : Int, period : Int],
           d.dist[v].slashes = Append(c.dist[v].slashes, e),
           InTime(c, v, s), InTime(d, v, s),
           \A p \in {s.period} \cup SlashedAt(c, v) : SameRatio(c, d, v, p)
    PROVE  OverSlashes(d, v, s) = CutBySlash(d, v, s, OverSlashes(c, v, s), e)
  <1>. DEFINE T == [height : Int, period : Int]
              q == c.dist[v].slashes
              a == Append(q, e)
  <1>1. q \in Seq(T) /\ e \in T
    BY DEF States, Records, SlashEvents
  <1>. HIDE DEF T, q
  <1>2. /\ Len(q) \in Nat /\ Len(a) = Len(q) + 1 /\ a[Len(a)] = e
        /\ \A i \in 1 .. Len(q) : a[i] = q[i]
    BY <1>1
  <1>3. d.dist[v].slashes = a
    BY DEF q
  <1>. HIDE DEF a
  <1>4. Len(q) <= Len(a)
    BY <1>2
  <1>5. /\ Extends(c, d, v) /\ HasOneMore(c, d, v)
        /\ d.dist[v].slashes[Len(d.dist[v].slashes)] = e
    BY <1>2, <1>3, <1>4 DEF Extends, HasOneMore, q
  <1>. QED BY <1>5, OverTheLastSlash

\* A delegation that starts after all slashes is not cut by any.
LEMMA OverNoSlashes ==
    ASSUME NEW c \in States, NEW v \in Operators, NEW s \in Infos,
           \A p \in SlashedAt(c, v) : ~(p > s.period)
    PROVE  OverSlashes(c, v, s) = AtStart(s)
  <1>. DEFINE e == c.dist[v].slashes
              n == Len(e)
  <1>1. PICK g : GathersOver(c, v, s, g)
    BY SlashesGather
  <1>. DEFINE G == {i \in 0 .. n : g[1 .. i] = AtStart(s)}
  <1>2. n \in Nat /\ \A i \in 1 .. n : e[i].period \in SlashedAt(c, v)
    <2>1. n \in Nat /\ DOMAIN e = 1 .. n
      BY SlashesAreEvents
    <2>2. \A i \in DOMAIN e : e[i].period \in SlashedAt(c, v)
      BY DEF SlashedAt
    <2>. QED BY <2>1, <2>2
  <1>3. /\ g[1 .. 0] = AtStart(s) /\ OverSlashes(c, v, s) = g[1 .. n]
        /\ \A i \in 1 .. n : g[1 .. i] = CutBySlash(c, v, s, g[1 .. (i - 1)], e[i])
    BY <1>1, GathersInOrder
  <1>. HIDE DEF e, n
  <1>4. 0 \in G /\ \A i \in 1 .. n : i - 1 \in G => i \in G
    <2>1. 0 \in G
      BY <1>2, <1>3
    <2>2. ASSUME NEW i \in 1 .. n, i - 1 \in G PROVE i \in G
      <3>1. ~(e[i].period > s.period)
        BY <1>2
      <3>2. g[1 .. i] = g[1 .. (i - 1)]
        BY <1>3, <3>1 DEF CutBySlash
      <3>. QED BY <1>2, <2>2, <3>2
    <2>. QED BY <2>1, <2>2
  <1>5. \A i \in 0 .. n : i \in G
    <2>. HIDE DEF G
    <2>. QED BY <1>2, <1>4, NumberInduction
  <1>. QED BY <1>2, <1>3, <1>5

-----------------------------------------------------------------------------
(* A ledger and the state it is in *)

\* The delegations of v that have started.
Started(c, v) == {x \in Delegators : c.start[x][v] # NoInfo}

\* The periods the delegations in D started after, and those that ended in a slash.
Marks(c, v, D) == {c.start[x][v].period : x \in D} \cup SlashedAt(c, v)

\* The records are those something refers to, and count what does.
Counted(c, v, D) ==
    LET r == c.dist[v] IN
    /\ D \subseteq Delegators /\ r.period >= 1
    /\ \A p \in Marks(c, v, D) : p \in 0 .. (r.period - 1)
    /\ DOMAIN r.hist = Marks(c, v, D) \cup {r.period - 1}
    /\ \A p \in DOMAIN r.hist :
          r.hist[p].refs = (IF p = r.period - 1 THEN 1 ELSE 0)
                           + (IF p \in Marks(c, v, D) THEN 1 ELSE 0)

\* No period is referred to by two of them.
Apart(c, v, D) ==
    LET e == c.dist[v].slashes IN
    /\ \A x, y \in D : c.start[x][v].period = c.start[y][v].period => x = y
    /\ \A i, j \in DOMAIN e : i < j => e[i].period < e[j].period
    /\ \A x \in D : c.start[x][v].period \notin SlashedAt(c, v)

\* Nothing has started or was slashed in a block to come, and who started in an
\* earlier period than a slash did so in no later block.
Timely(c, v, D) ==
    /\ \A i \in DOMAIN c.dist[v].slashes : c.dist[v].slashes[i].height <= c.height
    /\ \A x \in D : c.start[x][v].height <= c.height /\ InTime(c, v, c.start[x][v])

\* The rewards per token add up.
Rising(c, v) ==
    LET h == c.dist[v].hist IN
    /\ \A p \in DOMAIN h : h[p].ratio >= 0
    /\ \A p, q \in DOMAIN h : p <= q => h[p].ratio <= h[q].ratio

\* What a delegation gathered up to the last slash, and is due up to the end of
\* the last period.
Gathering(c, v, x) == OverSlashes(c, v, c.start[x][v])
Due(c, v, x) == RewardsUpTo(c, v, Gathering(c, v, x), c.dist[v].period - 1).sum

\* The stakes rewards are calculated for are worth no more than the delegations.
Staked(c, v, D) ==
    \A x \in D : LET e == Gathering(c, v, x) IN
        /\ ~e.panic /\ e.sum >= 0 /\ e.stake >= 0
        /\ e.stake * c.vals[v].shares <= c.dels[x][v] * c.vals[v].tokens

Dues(c, v, D) == SumFunction([x \in Delegators |-> IF x \in D THEN Due(c, v, x) ELSE 0])
Held(c, v) == SumFunction([x \in Delegators |-> c.dels[x][v]])

\* What is outstanding suffices for what is due, the rewards of this period and
\* the commission, and the delegations hold no more shares than there are.
Solvent(c, v, D) ==
    LET r == c.dist[v] IN
    /\ r.rewards >= 0 /\ r.commission >= 0
    /\ Dues(c, v, D) + r.rewards + r.commission <= r.outstanding
    /\ Held(c, v) <= c.vals[v].shares
    /\ c.vals[v].tokens > 0 <=> c.vals[v].shares > 0

Balanced(c, v, D) ==
    /\ Counted(c, v, D) /\ Apart(c, v, D) /\ Timely(c, v, D)
    /\ Rising(c, v) /\ Staked(c, v, D) /\ Solvent(c, v, D)

\* Nobody refers to the last period that has ended: a delegation may start.
Open(c, v, D) == c.dist[v].period - 1 \notin Marks(c, v, D)

\* A call that changes the ledger of v, and the accounts behind it.
OnlyLedger(c, d, v) ==
    /\ d \in States /\ SameStaking(c, d) /\ d.panic = c.panic
    /\ \A w \in Operators \ {v} :
          d.dist[w] = c.dist[w] /\ \A x \in Delegators : d.start[x][w] = c.start[x][w]

SameAccounts(c, d) == d.pool = c.pool /\ d.distribution = c.distribution

\* Only the reward records of v.
OnlyHistory(c, d, v) ==
    LET r == c.dist[v]
        s == d.dist[v]
    IN  /\ OnlyLedger(c, d, v) /\ SameAccounts(c, d) /\ d.start = c.start
        /\ s.outstanding = r.outstanding /\ s.rewards = r.rewards
        /\ s.commission = r.commission /\ s.period = r.period /\ s.slashes = r.slashes

LEMMA HistoryIsReplaced ==
    ASSUME NEW c \in States, NEW v \in Operators, NEW g
    PROVE  [c EXCEPT !.dist[v].hist = g].dist[v].hist = g
  BY DEF States, Records

LEMMA OnlyHistoryChanges ==
    ASSUME NEW c \in States, NEW v \in Operators, NEW g \in Histories
    PROVE  LET d == [c EXCEPT !.dist[v].hist = g] IN
           OnlyHistory(c, d, v) /\ d.dist[v].hist = g
  <1>. DEFINE d == [c EXCEPT !.dist[v].hist = g]
  <1>1. d \in States /\ SameStaking(c, d)
    BY HistoryDistributes DEF Distributes
  <1>2. c.dist[v] \in Records
    BY DEF States
  <1>3. d.dist = [c.dist EXCEPT ![v] = [c.dist[v] EXCEPT !.hist = g]]
    BY DEF States
  <1>4. d.panic = c.panic /\ d.start = c.start /\ d.pool = c.pool
        /\ d.distribution = c.distribution
    BY DEF States
  <1>. HIDE DEF d
  <1>5. /\ d.dist[v] = [c.dist[v] EXCEPT !.hist = g]
        /\ \A w \in Operators \ {v} : d.dist[w] = c.dist[w]
    BY <1>3 DEF States
  <1>6. OnlyLedger(c, d, v)
    BY <1>1, <1>4, <1>5 DEF OnlyLedger
  <1>7. OnlyHistory(c, d, v) /\ d.dist[v].hist = g
    BY <1>2, <1>4, <1>5, <1>6 DEF OnlyHistory, SameAccounts, Records
  <1>. QED BY <1>7 DEF d

LEMMA HistoryIsOfRecords ==
    ASSUME NEW c \in States, NEW v \in Operators
    PROVE  /\ DOMAIN c.dist[v].hist \subseteq Int
           /\ \A p \in DOMAIN c.dist[v].hist :
                 /\ c.dist[v].hist[p] \in Record /\ Hist(c, v, p) = c.dist[v].hist[p]
                 /\ c.dist[v].hist[p].ratio \in Int /\ c.dist[v].hist[p].refs \in Int
  <1>1. c.dist[v].hist \in Histories
    BY DEF States, Records
  <1>2. PICK P \in SUBSET Int : c.dist[v].hist \in [P -> Record]
    BY <1>1 DEF Histories
  <1>3. DOMAIN c.dist[v].hist = P /\ \A p \in P : c.dist[v].hist[p] \in Record
    BY <1>2
  <1>. QED BY <1>3 DEF Hist, Record

\* One reference less, of a record that has some.
LEMMA Decremented ==
    ASSUME NEW c \in States, NEW v \in Operators, NEW p \in DOMAIN c.dist[v].hist,
           c.dist[v].hist[p].refs >= 1
    PROVE  LET d == DecrementReferenceCount(c, v, p)
               f == c.dist[v].hist
           IN  /\ OnlyHistory(c, d, v)
               /\ DOMAIN d.dist[v].hist = DOMAIN f \ (IF f[p].refs = 1 THEN {p} ELSE {})
               /\ \A q \in DOMAIN d.dist[v].hist :
                     /\ d.dist[v].hist[q].ratio = f[q].ratio
                     /\ d.dist[v].hist[q].refs = IF q = p THEN f[p].refs - 1 ELSE f[q].refs
  <1>. DEFINE d == DecrementReferenceCount(c, v, p)
              f == c.dist[v].hist
              less == [q \in DOMAIN f \ {p} |-> f[q]]
              lower == With(f, p, [f[p] EXCEPT !.refs = @ - 1])
  <1>1. p \in Int /\ f[p] \in Record /\ Hist(c, v, p) = f[p] /\ f[p].refs \in Int
    BY HistoryIsOfRecords
  <1>2. d \in States
    BY <1>1, DecrementDistributes DEF Distributes
  <1>3. CASE f[p].refs = 1
    <2>1. d = [c EXCEPT !.dist[v].hist = less]
      BY <1>1, <1>3 DEF DecrementReferenceCount
    <2>2. d.dist[v].hist = less
      <3>. HIDE DEF d, less
      <3>. QED BY <2>1, HistoryIsReplaced
    <2>3. less \in Histories
      BY <1>2, <2>2 DEF States, Records
    <2>. HIDE DEF d
    <2>4. OnlyHistory(c, d, v)
      <3>. HIDE DEF less
      <3>. QED BY <2>1, <2>3, OnlyHistoryChanges
    <2>5. /\ DOMAIN d.dist[v].hist = DOMAIN f \ {p}
          /\ \A q \in DOMAIN d.dist[v].hist : d.dist[v].hist[q] = f[q] /\ q # p
      BY <2>2
    <2>6. /\ OnlyHistory(c, d, v)
          /\ DOMAIN d.dist[v].hist = DOMAIN f \ (IF f[p].refs = 1 THEN {p} ELSE {})
          /\ \A q \in DOMAIN d.dist[v].hist :
                /\ d.dist[v].hist[q].ratio = f[q].ratio
                /\ d.dist[v].hist[q].refs = IF q = p THEN f[p].refs - 1 ELSE f[q].refs
      BY <1>3, <2>4, <2>5
    <2>. QED BY <2>6 DEF d
  <1>4. CASE f[p].refs # 1
    <2>1. d = [c EXCEPT !.dist[v].hist = lower]
      BY <1>1, <1>4 DEF DecrementReferenceCount
    <2>2. d.dist[v].hist = lower
      <3>. HIDE DEF d, lower
      <3>. QED BY <2>1, HistoryIsReplaced
    <2>3. lower \in Histories
      BY <1>2, <2>2 DEF States, Records
    <2>. HIDE DEF d
    <2>4. OnlyHistory(c, d, v)
      <3>. HIDE DEF lower
      <3>. QED BY <2>1, <2>3, OnlyHistoryChanges
    <2>5. /\ DOMAIN lower = DOMAIN f
          /\ \A q \in DOMAIN f : lower[q] = IF q = p THEN [f[p] EXCEPT !.refs = @ - 1] ELSE f[q]
      BY DEF With
    <2>. HIDE DEF lower
    <2>6. /\ OnlyHistory(c, d, v)
          /\ DOMAIN d.dist[v].hist = DOMAIN f \ (IF f[p].refs = 1 THEN {p} ELSE {})
          /\ \A q \in DOMAIN d.dist[v].hist :
                /\ d.dist[v].hist[q].ratio = f[q].ratio
                /\ d.dist[v].hist[q].refs = IF q = p THEN f[p].refs - 1 ELSE f[q].refs
      BY <1>1, <1>4, <2>2, <2>4, <2>5 DEF Record
    <2>. QED BY <2>6 DEF d
  <1>. QED BY <1>3, <1>4

\* One reference more.
LEMMA Incremented ==
    ASSUME NEW c \in States, NEW v \in Operators, NEW p \in DOMAIN c.dist[v].hist,
           c.dist[v].hist[p].refs <= 2
    PROVE  LET d == IncrementReferenceCount(c, v, p)
               f == c.dist[v].hist
           IN  /\ OnlyHistory(c, d, v)
               /\ DOMAIN d.dist[v].hist = DOMAIN f
               /\ \A q \in DOMAIN f :
                     /\ d.dist[v].hist[q].ratio = f[q].ratio
                     /\ d.dist[v].hist[q].refs = IF q = p THEN f[p].refs + 1 ELSE f[q].refs
  <1>. DEFINE d == IncrementReferenceCount(c, v, p)
              f == c.dist[v].hist
              higher == With(f, p, [f[p] EXCEPT !.refs = @ + 1])
  <1>1. p \in Int /\ f[p] \in Record /\ Hist(c, v, p) = f[p] /\ f[p].refs \in Int
    BY HistoryIsOfRecords
  <1>2. d \in States
    BY <1>1, IncrementDistributes DEF Distributes
  <1>3. d = [c EXCEPT !.dist[v].hist = higher]
    BY <1>1 DEF IncrementReferenceCount
  <1>4. d.dist[v].hist = higher
    <2>. HIDE DEF d, higher
    <2>. QED BY <1>3, HistoryIsReplaced
  <1>5. higher \in Histories
    BY <1>2, <1>4 DEF States, Records
  <1>. HIDE DEF d
  <1>6. OnlyHistory(c, d, v)
    <2>. HIDE DEF higher
    <2>. QED BY <1>3, <1>5, OnlyHistoryChanges
  <1>7. /\ DOMAIN higher = DOMAIN f
        /\ \A q \in DOMAIN f : higher[q] = IF q = p THEN [f[p] EXCEPT !.refs = @ + 1] ELSE f[q]
    BY DEF With
  <1>. HIDE DEF higher
  <1>8. \A q \in DOMAIN f :
           /\ d.dist[v].hist[q].ratio = f[q].ratio
           /\ d.dist[v].hist[q].refs = IF q = p THEN f[p].refs + 1 ELSE f[q].refs
    BY <1>1, <1>4, <1>7 DEF Record
  <1>. QED BY <1>4, <1>6, <1>7, <1>8 DEF d

\* What the rewards of the current period are per token.
PerToken(c, v) ==
    IF c.vals[v].tokens > 0 THEN c.dist[v].rewards \div c.vals[v].tokens ELSE 0

\* A new record, at the end of the current period.
PeriodEnded(c, d, v, D) ==
    LET r == c.dist[v]
        s == d.dist[v]
    IN  /\ OnlyLedger(c, d, v) /\ d.start = c.start
        /\ d.distribution = c.distribution /\ d.pool = c.pool + Donated(c, v)
        /\ s.outstanding = r.outstanding - Donated(c, v) /\ s.rewards = 0
        /\ s.commission = r.commission /\ s.period = r.period + 1 /\ s.slashes = r.slashes
        /\ DOMAIN s.hist = Marks(c, v, D) \cup {r.period}
        /\ \A p \in Marks(c, v, D) : s.hist[p].ratio = r.hist[p].ratio /\ s.hist[p].refs = 1
        /\ s.hist[r.period].ratio = r.hist[r.period - 1].ratio + PerToken(c, v)
        /\ s.hist[r.period].refs = 1

RecordAdded(c, d, v, ratio, donated) ==
    LET r == c.dist[v]
        s == d.dist[v]
    IN  /\ d.start = c.start /\ d.panic = c.panic
        /\ d.distribution = c.distribution /\ d.pool = c.pool + donated
        /\ \A w \in Operators \ {v} : d.dist[w] = c.dist[w]
        /\ s.outstanding = r.outstanding - donated /\ s.rewards = 0
        /\ s.commission = r.commission /\ s.period = r.period + 1
        /\ s.slashes = r.slashes
        /\ DOMAIN s.hist = DOMAIN r.hist \cup {r.period}
        /\ \A p \in DOMAIN r.hist : p # r.period => s.hist[p] = r.hist[p]
        /\ s.hist[r.period].ratio = ratio /\ s.hist[r.period].refs = 1

LEMMA RecordIsAdded ==
    ASSUME NEW c \in States, NEW v \in Operators, NEW ratio, NEW donated
    PROVE  RecordAdded(c, StartPeriod(c, v, ratio, donated), v, ratio, donated)
  <1>. DEFINE d == StartPeriod(c, v, ratio, donated)
              new == [ratio |-> ratio, refs |-> 1]
              g == With(c.dist[v].hist, c.dist[v].period, new)
              s == [c.dist[v] EXCEPT !.outstanding = @ - donated, !.rewards = 0,
                                     !.period = @ + 1, !.hist = g]
  <1>1. d = [c EXCEPT !.pool = @ + donated, !.dist[v] = s]
    BY DEF StartPeriod
  <1>2. c.dist[v] \in Records
    BY DEF States
  <1>3. /\ DOMAIN g = DOMAIN c.dist[v].hist \cup {c.dist[v].period}
        /\ \A p \in DOMAIN c.dist[v].hist : p # c.dist[v].period => g[p] = c.dist[v].hist[p]
        /\ g[c.dist[v].period] = new
    BY DEF With
  <1>. HIDE DEF g
  <1>4. /\ s.outstanding = c.dist[v].outstanding - donated /\ s.rewards = 0
        /\ s.commission = c.dist[v].commission /\ s.period = c.dist[v].period + 1
        /\ s.slashes = c.dist[v].slashes /\ s.hist = g
    BY <1>2 DEF Records
  <1>. HIDE DEF s
  <1>5. /\ d.start = c.start /\ d.panic = c.panic /\ d.pool = c.pool + donated
        /\ d.distribution = c.distribution
        /\ d.dist[v] = s /\ \A w \in Operators \ {v} : d.dist[w] = c.dist[w]
    BY <1>1 DEF States
  <1>. HIDE DEF d
  <1>6. RecordAdded(c, d, v, ratio, donated)
    BY <1>3, <1>4, <1>5 DEF RecordAdded
  <1>. QED BY <1>6 DEF d

LEMMA PeriodEnds ==
    ASSUME NEW c \in States, NEW v \in Operators, NEW D,
           ~c.panic, Exists(c, v), Counted(c, v, D)
    PROVE  PeriodEnded(c, IncrementValidatorPeriod(c, v), v, D)
  <1>. DEFINE r == c.dist[v]
              p == r.period - 1
              M == Marks(c, v, D)
              e == DecrementReferenceCount(c, v, p)
              d == StartPeriod(e, v, EndRatio(c, v), Donated(c, v))
  <1>1. /\ r.period \in Int /\ r.period >= 1 /\ p \in Int
        /\ \A q \in M : q \in 0 .. p
        /\ DOMAIN r.hist = M \cup {p} /\ p \in DOMAIN r.hist
        /\ \A q \in DOMAIN r.hist :
              r.hist[q].refs = (IF q = p THEN 1 ELSE 0) + (IF q \in M THEN 1 ELSE 0)
    BY DEF Counted, States, Records
  <1>. HIDE DEF M
  <1>2. /\ OnlyHistory(c, e, v)
        /\ DOMAIN e.dist[v].hist = M
        /\ \A q \in M : e.dist[v].hist[q].ratio = r.hist[q].ratio /\ e.dist[v].hist[q].refs = 1
    <2>1. r.hist[p].refs = IF p \in M THEN 2 ELSE 1
      BY <1>1
    <2>. HIDE DEF r, p, e
    <2>2. /\ OnlyHistory(c, e, v)
          /\ DOMAIN e.dist[v].hist = DOMAIN r.hist \ (IF r.hist[p].refs = 1 THEN {p} ELSE {})
          /\ \A q \in DOMAIN e.dist[v].hist :
                /\ e.dist[v].hist[q].ratio = r.hist[q].ratio
                /\ e.dist[v].hist[q].refs = IF q = p THEN r.hist[p].refs - 1 ELSE r.hist[q].refs
      <3>1. p \in DOMAIN c.dist[v].hist /\ c.dist[v].hist[p].refs >= 1
        BY <1>1, <2>1 DEF r
      <3>. QED BY <3>1, Decremented DEF e, r
    <2>3. DOMAIN e.dist[v].hist = M
      BY <1>1, <2>1, <2>2
    <2>4. \A q \in M : e.dist[v].hist[q].refs = 1
      BY <1>1, <2>1, <2>2, <2>3
    <2>. QED BY <2>2, <2>3, <2>4
  <1>3. Hist(c, v, p).ratio = r.hist[p].ratio
    BY <1>1, HistoryIsOfRecords
  <1>4. EndRatio(c, v) = r.hist[p].ratio + PerToken(c, v)
    BY <1>3 DEF EndRatio, PerToken
  <1>5. IncrementValidatorPeriod(c, v) = d
    <2>1. ~e.panic
      BY <1>2 DEF OnlyHistory, OnlyLedger
    <2>. QED BY <2>1 DEF IncrementValidatorPeriod, Then
  <1>6. Distributes(c, d)
    BY <1>5, PeriodDistributes
  <1>. HIDE DEF e
  <1>7. /\ e \in States /\ e.start = c.start /\ e.panic = c.panic /\ SameAccounts(c, e)
        /\ \A w \in Operators \ {v} : e.dist[w] = c.dist[w]
        /\ e.dist[v].outstanding = r.outstanding /\ e.dist[v].commission = r.commission
        /\ e.dist[v].period = r.period /\ e.dist[v].slashes = r.slashes
    BY <1>2 DEF OnlyHistory, OnlyLedger
  <1>8. RecordAdded(e, d, v, EndRatio(c, v), Donated(c, v))
    BY <1>7, RecordIsAdded
  <1>. HIDE DEF d
  <1>9. OnlyLedger(c, d, v)
    BY <1>6, <1>7, <1>8 DEF OnlyLedger, Distributes, RecordAdded
  <1>10. \A q \in M : d.dist[v].hist[q] = e.dist[v].hist[q]
    BY SMTT(30), <1>1, <1>2, <1>7, <1>8 DEF RecordAdded
  <1>11. PeriodEnded(c, d, v, D)
    BY <1>2, <1>4, <1>7, <1>8, <1>9, <1>10 DEF PeriodEnded, RecordAdded, SameAccounts, M
  <1>. QED BY <1>5, <1>11

-----------------------------------------------------------------------------
(* What a call means for the delegations it is not about *)

\* The records the delegations in D depend on are the same.
SameBooks(c, d, v, D) ==
    /\ d.dist[v].slashes = c.dist[v].slashes
    /\ \A x \in D : d.start[x][v] = c.start[x][v]
    /\ \A p \in Marks(c, v, D) : SameRatio(c, d, v, p)

LEMMA GatherTheSame ==
    ASSUME NEW c \in States, NEW d \in States, NEW v \in Operators,
           NEW D \in SUBSET Delegators,
           Timely(c, v, D), Timely(d, v, D), SameBooks(c, d, v, D)
    PROVE  /\ Marks(d, v, D) = Marks(c, v, D) /\ SlashedAt(d, v) = SlashedAt(c, v)
           /\ \A x \in D : /\ Gathering(d, v, x) = Gathering(c, v, x)
                           /\ Gathering(c, v, x).from \in Marks(c, v, D)
  <1>1. Marks(d, v, D) = Marks(c, v, D) /\ SlashedAt(d, v) = SlashedAt(c, v)
    BY DEF SameBooks, Marks, SlashedAt
  <1>2. ASSUME NEW x \in D
        PROVE  /\ Gathering(d, v, x) = Gathering(c, v, x)
               /\ Gathering(c, v, x).from \in Marks(c, v, D)
    <2>. DEFINE s == c.start[x][v]
    <2>1. s \in Infos /\ d.start[x][v] = s
      BY DEF States, SameBooks
    <2>2. InTime(c, v, s) /\ InTime(d, v, s)
      BY <2>1 DEF Timely
    <2>3. {s.period} \cup SlashedAt(c, v) \subseteq Marks(c, v, D)
      BY DEF Marks
    <2>4. d.dist[v].slashes = c.dist[v].slashes
      BY DEF SameBooks
    <2>5. \A p \in {s.period} \cup SlashedAt(c, v) : SameRatio(c, d, v, p)
      BY <2>3 DEF SameBooks
    <2>. HIDE DEF s
    <2>6. /\ OverSlashes(d, v, s) = OverSlashes(c, v, s)
          /\ OverSlashes(c, v, s).from \in {s.period} \cup SlashedAt(c, v)
      BY <2>1, <2>2, <2>4, <2>5, SameOverSlashes
    <2>. QED BY <2>1, <2>3, <2>6 DEF Gathering, s
  <1>. QED BY <1>1, <1>2

LEMMA TimelyStays ==
    ASSUME NEW c \in States, NEW d \in States, NEW v \in Operators, NEW D, NEW E \in SUBSET D,
           d.dist[v].slashes = c.dist[v].slashes,
           \A x \in E : d.start[x][v] = c.start[x][v],
           c.height <= d.height, Timely(c, v, D), E \subseteq Delegators
    PROVE  Timely(d, v, E)
  <1>1. c.height \in Int /\ d.height \in Int
    BY DEF States
  <1>2. \A i \in DOMAIN c.dist[v].slashes : c.dist[v].slashes[i].height \in Int
    BY SlashesAreEvents
  <1>3. \A i \in DOMAIN d.dist[v].slashes : d.dist[v].slashes[i].height <= d.height
    BY <1>1, <1>2 DEF Timely
  <1>4. ASSUME NEW x \in E
        PROVE  d.start[x][v].height <= d.height /\ InTime(d, v, d.start[x][v])
    <2>1. c.start[x][v] \in Infos
      BY DEF States
    <2>2. d.start[x][v] = c.start[x][v] /\ c.start[x][v].height <= c.height
          /\ InTime(c, v, c.start[x][v])
      BY DEF Timely
    <2>3. d.start[x][v].height <= d.height
      BY <1>1, <2>1, <2>2 DEF Infos
    <2>4. InTime(d, v, c.start[x][v])
      BY <1>3, <2>2 DEF InTime
    <2>. QED BY <2>2, <2>3, <2>4
  <1>. QED BY <1>3, <1>4 DEF Timely

LEMMA ApartStays ==
    ASSUME NEW c, NEW d, NEW v, NEW D, NEW E \in SUBSET D,
           d.dist[v].slashes = c.dist[v].slashes,
           \A x \in E : d.start[x][v] = c.start[x][v], Apart(c, v, D)
    PROVE  Apart(d, v, E)
  <1>1. SlashedAt(d, v) = SlashedAt(c, v)
    BY DEF SlashedAt
  <1>2. \A x \in E : d.start[x][v].period = c.start[x][v].period /\ x \in D
    OBVIOUS
  <1>3. \A x, y \in E : d.start[x][v].period = d.start[y][v].period => x = y
    BY <1>2 DEF Apart
  <1>4. \A x \in E : d.start[x][v].period \notin SlashedAt(d, v)
    BY <1>1, <1>2 DEF Apart
  <1>5. \A i, j \in DOMAIN d.dist[v].slashes :
           i < j => d.dist[v].slashes[i].period < d.dist[v].slashes[j].period
    BY DEF Apart
  <1>. QED BY <1>3, <1>4, <1>5 DEF Apart

\* A delegation that started after no slash, or between two of them, has gathered
\* from one of the records that are kept.
LEMMA GathersFromMarks ==
    ASSUME NEW c \in States, NEW v \in Operators, NEW D \in SUBSET Delegators, Timely(c, v, D)
    PROVE  \A x \in D : /\ Gathering(c, v, x) \in Gathered
                        /\ Gathering(c, v, x).from \in Marks(c, v, D)
  <1>1. SameBooks(c, c, v, D)
    BY DEF SameBooks, SameRatio
  <1>2. \A x \in D : Gathering(c, v, x).from \in Marks(c, v, D)
    BY <1>1, GatherTheSame
  <1>3. \A x \in D : c.start[x][v] \in Infos
    BY DEF States
  <1>4. \A x \in D : Gathering(c, v, x) \in Gathered
    BY <1>3, OverSlashesGathers DEF Gathering
  <1>. QED BY <1>2, <1>4

\* The rewards per token at the end of the last period.
LastRatio(c, v) == Hist(c, v, c.dist[v].period - 1).ratio

LEMMA DueIs ==
    ASSUME NEW c \in States, NEW v \in Operators, NEW x
    PROVE  LET e == Gathering(c, v, x) IN
           Due(c, v, x) = e.sum + (LastRatio(c, v) - Hist(c, v, e.from).ratio) * e.stake
  BY DEF Due, RewardsUpTo, LastRatio

LEMMA LastRatioIsGreatest ==
    ASSUME NEW c \in States, NEW v \in Operators, NEW D, Counted(c, v, D), Rising(c, v)
    PROVE  /\ LastRatio(c, v) \in Nat
           /\ LastRatio(c, v) = c.dist[v].hist[c.dist[v].period - 1].ratio
           /\ \A p \in DOMAIN c.dist[v].hist :
                 /\ Hist(c, v, p).ratio \in Nat /\ Hist(c, v, p).ratio = c.dist[v].hist[p].ratio
                 /\ Hist(c, v, p).ratio <= LastRatio(c, v) /\ p <= c.dist[v].period - 1
  <1>. DEFINE h == c.dist[v].hist
              q == c.dist[v].period - 1
  <1>1. /\ q \in DOMAIN h /\ q \in Int /\ \A p \in DOMAIN h : p <= q
    BY DEF Counted, States, Records
  <1>2. \A p \in DOMAIN h : Hist(c, v, p) = h[p] /\ h[p].ratio \in Int /\ p \in Int
    BY HistoryIsOfRecords
  <1>3. \A p \in DOMAIN h : h[p].ratio >= 0 /\ \A s \in DOMAIN h : p <= s => h[p].ratio <= h[s].ratio
    BY DEF Rising
  <1>. HIDE DEF h, q
  <1>4. \A p \in DOMAIN h : /\ Hist(c, v, p).ratio \in Nat /\ Hist(c, v, p).ratio = h[p].ratio
                            /\ Hist(c, v, p).ratio <= h[q].ratio
    BY <1>1, <1>2, <1>3
  <1>5. Hist(c, v, q).ratio = h[q].ratio /\ h[q].ratio \in Nat
    BY <1>1, <1>4
  <1>. QED BY <1>1, <1>4, <1>5 DEF LastRatio, h, q

\* What a delegation is due is a number.
LEMMA DueIsNatural ==
    ASSUME NEW c \in States, NEW v \in Operators, NEW D, Counted(c, v, D),
           Timely(c, v, D), Rising(c, v), Staked(c, v, D), NEW x \in D
    PROVE  Due(c, v, x) \in Nat
  <1>. DEFINE e == Gathering(c, v, x)
              a == LastRatio(c, v) - Hist(c, v, e.from).ratio
  <1>1. D \subseteq Delegators /\ Marks(c, v, D) \subseteq DOMAIN c.dist[v].hist
    BY DEF Counted
  <1>2. e \in Gathered /\ e.from \in DOMAIN c.dist[v].hist
    BY <1>1, GathersFromMarks
  <1>3. e.sum \in Nat /\ e.stake \in Nat
    BY <1>2 DEF Staked, Gathered
  <1>4. a \in Nat
    BY <1>2, LastRatioIsGreatest
  <1>. HIDE DEF e, a
  <1>5. e.sum + a * e.stake \in Nat
    BY <1>3, <1>4
  <1>. QED BY <1>5, DueIs DEF e, a

\* What is due to all is no less than what is due to each.
LEMMA DuesAreWhole ==
    ASSUME NEW c \in States, NEW v \in Operators, NEW D, Counted(c, v, D),
           Timely(c, v, D), Rising(c, v), Staked(c, v, D)
    PROVE  /\ Dues(c, v, D) \in Nat
           /\ \A x \in D : Due(c, v, x) \in Nat /\ Due(c, v, x) <= Dues(c, v, D)
  <1>. DEFINE f == [x \in Delegators |-> IF x \in D THEN Due(c, v, x) ELSE 0]
  <1>1. \A x \in D : Due(c, v, x) \in Nat
    BY DueIsNatural
  <1>2. D \subseteq Delegators /\ IsFiniteSet(Delegators)
    BY ChainAssumption DEF Counted
  <1>3. f \in [Delegators -> Nat] /\ \A x \in D : f[x] = Due(c, v, x)
    BY <1>1, <1>2
  <1>4. Dues(c, v, D) = SumFunction(f)
    BY DEF Dues
  <1>. HIDE DEF f
  <1>5. SumFunction(f) \in Nat /\ \A x \in Delegators : f[x] <= SumFunction(f)
    BY <1>2, <1>3, SumOfNaturals
  <1>. QED BY <1>1, <1>2, <1>3, <1>4, <1>5

\* What the delegations hold is a number, no smaller than what each holds.
LEMMA HeldIsNatural ==
    ASSUME NEW c \in States, NEW v \in Operators
    PROVE  Held(c, v) \in Nat /\ \A x \in Delegators : c.dels[x][v] <= Held(c, v)
  <1>. DEFINE f == [x \in Delegators |-> c.dels[x][v]]
  <1>1. f \in [Delegators -> Nat] /\ \A x \in Delegators : f[x] = c.dels[x][v]
    BY DEF States
  <1>2. Held(c, v) = SumFunction(f) /\ IsFiniteSet(Delegators)
    BY ChainAssumption DEF Held
  <1>. HIDE DEF f
  <1>. QED BY <1>1, <1>2, SumOfNaturals

-----------------------------------------------------------------------------
(* The stakes of all delegations *)

Stakes(c, v, D) ==
    SumFunction([x \in Delegators |-> IF x \in D THEN Gathering(c, v, x).stake ELSE 0])

\* All stakes together are worth no more than the tokens.
LEMMA StakesAreCovered ==
    ASSUME NEW c \in States, NEW v \in Operators, NEW D \in SUBSET Delegators,
           Staked(c, v, D), Held(c, v) <= c.vals[v].shares, c.vals[v].shares > 0
    PROVE  Stakes(c, v, D) \in Nat /\ Stakes(c, v, D) <= c.vals[v].tokens
  <1>. DEFINE f == [x \in Delegators |-> IF x \in D THEN Gathering(c, v, x).stake ELSE 0]
              g == [x \in Delegators |-> c.dels[x][v]]
              z == [x \in Delegators |-> 0]
              s == c.vals[v].shares
              t == c.vals[v].tokens
              fs == [x \in Delegators |-> s * f[x]]
              gt == [x \in Delegators |-> t * g[x]]
  <1>0. IsFiniteSet(Delegators)
    BY ChainAssumption
  <1>1. s \in Nat /\ t \in Nat /\ s > 0
    BY DEF States, Vals
  <1>2. \A x \in D : LET k == Gathering(c, v, x).stake IN k \in Nat /\ k * s <= c.dels[x][v] * t
    <2>1. \A x \in D : c.start[x][v] \in Infos
      BY DEF States
    <2>2. \A x \in D : Gathering(c, v, x) \in Gathered
      BY <2>1, OverSlashesGathers DEF Gathering
    <2>. QED BY <2>2 DEF Staked, Gathered
  <1>3. f \in [Delegators -> Nat] /\ \A x \in D : f[x] = Gathering(c, v, x).stake
    BY <1>2
  <1>4. g \in [Delegators -> Nat] /\ \A x \in Delegators : g[x] = c.dels[x][v]
    BY DEF States
  <1>5. \A x \in Delegators \ D : f[x] = 0
    OBVIOUS
  <1>6. Stakes(c, v, D) = SumFunction(f) /\ Held(c, v) = SumFunction(g)
    BY DEF Stakes, Held
  <1>7. z \in [Delegators -> Int] /\ SumFunction(z) = 0
    <2>1. z \in [Delegators -> Int] /\ \A x \in Delegators : z[x] = 0
      OBVIOUS
    <2>. HIDE DEF z
    <2>. QED BY <1>0, <2>1, SumOfZeros
  <1>8. \A x \in Delegators : z[x] = 0
    OBVIOUS
  <1>. HIDE DEF f, g, z, s, t
  <1>9. fs \in [Delegators -> Int] /\ gt \in [Delegators -> Int]
    BY <1>1, <1>3, <1>4
  <1>10. \A x \in Delegators : fs[x] = z[x] + s * f[x] /\ gt[x] = z[x] + t * g[x]
    BY <1>1, <1>3, <1>4, <1>8
  <1>11. \A x \in Delegators : fs[x] <= gt[x]
    <2>1. ASSUME NEW x \in D PROVE s * f[x] <= t * g[x]
      <3>1. f[x] * s <= g[x] * t /\ f[x] \in Nat /\ g[x] \in Nat
        BY <1>2, <1>3, <1>4
      <3>. QED BY <1>1, <3>1
    <2>2. ASSUME NEW x \in Delegators \ D PROVE s * f[x] <= t * g[x]
      <3>1. f[x] = 0 /\ g[x] \in Nat
        BY <1>4, <1>5
      <3>. QED BY <1>1, <3>1
    <2>. QED BY <2>1, <2>2
  <1>. HIDE DEF fs, gt
  <1>12. f \in [Delegators -> Int] /\ g \in [Delegators -> Int]
    BY <1>3, <1>4
  <1>13. SumFunction(fs) = s * SumFunction(f) /\ SumFunction(gt) = t * SumFunction(g)
    <2>1. SumFunction(fs) = SumFunction(z) + s * SumFunction(f)
      BY <1>0, <1>1, <1>7, <1>9, <1>10, <1>12, SumIsLinear
    <2>2. SumFunction(gt) = SumFunction(z) + t * SumFunction(g)
      BY <1>0, <1>1, <1>7, <1>9, <1>10, <1>12, SumIsLinear
    <2>3. SumFunction(f) \in Int /\ SumFunction(g) \in Int
      BY <1>0, <1>12, SumIsWhole
    <2>4. s * SumFunction(f) \in Int /\ t * SumFunction(g) \in Int
      BY <1>1, <2>3
    <2>. QED BY <1>7, <2>1, <2>2, <2>4
  <1>14. SumFunction(fs) <= SumFunction(gt)
    BY <1>0, <1>9, <1>11, SumIsMonotone
  <1>15. SumFunction(f) \in Nat /\ SumFunction(g) \in Nat
    BY <1>0, <1>3, <1>4, SumOfNaturals
  <1>16. SumFunction(g) <= s
    BY <1>6 DEF s
  <1>17. ASSUME NEW a \in Nat, NEW b \in Nat, b <= s, s * a <= t * b PROVE a <= t
    <2>1. t * b <= t * s
      BY <1>1, <1>17
    <2>2. s * a <= s * t
      BY <1>1, <1>17, <2>1
    <2>. QED BY <1>1, <2>2
  <1>18. SumFunction(f) <= t
    BY <1>13, <1>14, <1>15, <1>16, <1>17
  <1>. QED BY <1>6, <1>15, <1>18 DEF t

\* When the rewards per token grow by k, what is due grows by k for every stake.
LEMMA DuesGrow ==
    ASSUME NEW c \in States, NEW d \in States, NEW v \in Operators,
           NEW D \in SUBSET Delegators, NEW k \in Int,
           Timely(c, v, D), Timely(d, v, D), SameBooks(c, d, v, D),
           LastRatio(d, v) = LastRatio(c, v) + k
    PROVE  /\ Dues(c, v, D) \in Int /\ Stakes(c, v, D) \in Int
           /\ \A x \in D : Due(d, v, x) = Due(c, v, x) + k * Gathering(c, v, x).stake
           /\ Dues(d, v, D) = Dues(c, v, D) + k * Stakes(c, v, D)
  <1>. DEFINE f == [x \in Delegators |-> IF x \in D THEN Due(c, v, x) ELSE 0]
              g == [x \in Delegators |-> IF x \in D THEN Due(d, v, x) ELSE 0]
              h == [x \in Delegators |-> IF x \in D THEN Gathering(c, v, x).stake ELSE 0]
  <1>1. IsFiniteSet(Delegators)
    BY ChainAssumption
  <1>2. LastRatio(c, v) \in Int /\ c.dist[v].period - 1 \in Int
    <2>1. c.dist[v].period - 1 \in Int
      BY DEF States, Records
    <2>. QED BY <2>1, HistIsARecord DEF LastRatio, Record
  <1>3. ASSUME NEW x \in D
        PROVE  /\ Due(c, v, x) \in Int /\ Gathering(c, v, x).stake \in Int
               /\ Due(d, v, x) = Due(c, v, x) + k * Gathering(c, v, x).stake
    <2>. DEFINE e == Gathering(c, v, x)
                a == Hist(c, v, e.from).ratio
    <2>1. e \in Gathered /\ e.from \in Marks(c, v, D) /\ Gathering(d, v, x) = e
      BY GathersFromMarks, GatherTheSame
    <2>2. e.from \in Int /\ e.stake \in Int /\ e.sum \in Int
      BY <2>1 DEF Gathered
    <2>3. a \in Int
      <3>. HIDE DEF e
      <3>. QED BY <2>2, HistIsARecord DEF Record
    <2>4. Hist(d, v, e.from).ratio = a
      <3>. HIDE DEF e
      <3>. QED BY <2>1 DEF SameBooks, SameRatio
    <2>5. /\ Due(c, v, x) = e.sum + (LastRatio(c, v) - a) * e.stake
          /\ Due(d, v, x) = e.sum + (LastRatio(d, v) - a) * e.stake
      BY <2>1, <2>4, DueIs
    <2>. HIDE DEF e, a
    <2>6. (LastRatio(d, v) - a) * e.stake = (LastRatio(c, v) - a) * e.stake + k * e.stake
      BY <1>2, <2>2, <2>3
    <2>7. (LastRatio(c, v) - a) * e.stake \in Int /\ k * e.stake \in Int
      BY <1>2, <2>2, <2>3
    <2>. QED BY <2>2, <2>5, <2>6, <2>7 DEF e
  <1>4. /\ f \in [Delegators -> Int] /\ g \in [Delegators -> Int] /\ h \in [Delegators -> Int]
        /\ \A x \in Delegators : g[x] = f[x] + k * h[x]
    <2>1. \A x \in D : k * Gathering(c, v, x).stake \in Int
      BY <1>3
    <2>2. \A x \in D : Due(d, v, x) \in Int
      BY <1>3, <2>1
    <2>3. f \in [Delegators -> Int]
      BY <1>3
    <2>4. g \in [Delegators -> Int]
      BY <2>2
    <2>5. h \in [Delegators -> Int]
      BY <1>3
    <2>6. \A x \in Delegators : g[x] = f[x] + k * h[x]
      <3>1. \A x \in D : g[x] = f[x] + k * h[x]
        BY <1>3
      <3>2. \A x \in Delegators \ D : g[x] = 0 /\ f[x] = 0 /\ h[x] = 0
        OBVIOUS
      <3>. HIDE DEF f, g, h
      <3>. QED BY <3>1, <3>2
    <2>. QED BY <2>3, <2>4, <2>5, <2>6
  <1>5. /\ Dues(c, v, D) = SumFunction(f) /\ Dues(d, v, D) = SumFunction(g)
        /\ Stakes(c, v, D) = SumFunction(h)
    BY DEF Dues, Stakes
  <1>. HIDE DEF f, g, h
  <1>6. SumFunction(g) = SumFunction(f) + k * SumFunction(h)
    BY <1>1, <1>4, SumIsLinear
  <1>7. SumFunction(f) \in Int /\ SumFunction(h) \in Int
    BY <1>1, <1>4, SumIsWhole
  <1>. QED BY <1>3, <1>5, <1>6, <1>7

\* What is due has grown by what the ended period brought.
DuesGrown(c, d, v, D) ==
    \A x \in D : /\ Gathering(d, v, x) = Gathering(c, v, x)
                 /\ Due(d, v, x) = Due(c, v, x) + PerToken(c, v) * Gathering(c, v, x).stake

\* The end of a period: its rewards go to those who had tokens.
LEMMA PeriodBalances ==
    ASSUME NEW c \in States, NEW d, NEW v \in Operators, NEW D,
           PeriodEnded(c, d, v, D), Balanced(c, v, D)
    PROVE  /\ Balanced(d, v, D) /\ Open(d, v, D) /\ Marks(d, v, D) = Marks(c, v, D)
           /\ DuesGrown(c, d, v, D)
  <1>. DEFINE r == c.dist[v]
              s == d.dist[v]
              M == Marks(c, v, D)
              k == PerToken(c, v)
  <1>1. /\ d \in States /\ d.height = c.height /\ d.start = c.start /\ d.dels = c.dels
        /\ d.vals = c.vals /\ s.slashes = r.slashes /\ D \in SUBSET Delegators
    BY SMTT(30) DEF PeriodEnded, OnlyLedger, SameStaking, Balanced, Counted
  <1>2. r.period \in Int /\ r.period >= 1 /\ s.period = r.period + 1
        /\ \A p \in M : p \in 0 .. (r.period - 1)
    BY DEF Balanced, Counted, States, Records, PeriodEnded
  <1>3. Marks(d, v, D) = M
    BY <1>1 DEF Marks, SlashedAt
  <1>4. Counted(d, v, D) /\ Open(d, v, D)
    <2>1. \A p \in M : p \in 0 .. (s.period - 1) /\ p # s.period - 1
      BY <1>2
    <2>2. s.period - 1 = r.period /\ s.period >= 1
      BY <1>2
    <2>3. /\ DOMAIN s.hist = M \cup {r.period} /\ \A p \in M : s.hist[p].refs = 1
          /\ s.hist[r.period].refs = 1
      BY DEF PeriodEnded
    <2>. HIDE DEF M
    <2>. QED BY <1>1, <1>3, <2>1, <2>2, <2>3 DEF Counted, Open
  <1>5. Apart(d, v, D)
    BY <1>1, ApartStays DEF Balanced
  <1>6. Timely(d, v, D)
    <2>1. c.height <= d.height
      BY <1>1 DEF States
    <2>. QED BY <1>1, <2>1, TimelyStays DEF Balanced
  <1>7. /\ LastRatio(c, v) \in Nat /\ k \in Nat
        /\ \A p \in M : r.hist[p].ratio \in Nat /\ r.hist[p].ratio <= LastRatio(c, v)
        /\ s.hist[r.period].ratio = LastRatio(c, v) + k
    <2>1. c.dist[v].rewards \in Nat /\ c.vals[v].tokens \in Nat
      BY DEF Balanced, Solvent, States, Records, Vals
    <2>2. k \in Nat
      BY <2>1, QuotientFits DEF PerToken
    <2>3. M \subseteq DOMAIN r.hist
      BY DEF Balanced, Counted
    <2>. QED BY <2>2, <2>3, LastRatioIsGreatest DEF Balanced, PeriodEnded
  <1>8. Rising(d, v)
    <2>1. /\ DOMAIN s.hist = M \cup {r.period}
          /\ \A p \in M : s.hist[p].ratio = r.hist[p].ratio
      BY DEF PeriodEnded
    <2>2. \A p, q \in M : p <= q => r.hist[p].ratio <= r.hist[q].ratio
      BY DEF Balanced, Counted, Rising
    <2>3. \A p \in M : p < r.period /\ p \in Int
      BY <1>2
    <2>4. \A p \in M : s.hist[p].ratio \in Nat /\ s.hist[p].ratio <= s.hist[r.period].ratio
      BY <1>7, <2>1
    <2>5. s.hist[r.period].ratio \in Nat
      BY <1>7
    <2>. HIDE DEF M, r, s
    <2>6. \A p \in DOMAIN s.hist : s.hist[p].ratio >= 0
      BY <2>1, <2>4, <2>5
    <2>7. \A p, q \in DOMAIN s.hist : p <= q => s.hist[p].ratio <= s.hist[q].ratio
      <3>1. ASSUME NEW p \in M, NEW q \in M, p <= q PROVE s.hist[p].ratio <= s.hist[q].ratio
        BY <2>1, <2>2, <3>1
      <3>2. ASSUME NEW p \in M PROVE ~(r.period <= p)
        BY <1>2, <2>3
      <3>. QED BY <2>1, <2>4, <2>5, <3>1, <3>2
    <2>. QED BY SMTT(30), <2>6, <2>7 DEF Rising, s
  <1>9. SameBooks(c, d, v, D)
    <2>1. \A p \in M : p \in DOMAIN r.hist /\ p \in DOMAIN s.hist /\ s.hist[p].ratio = r.hist[p].ratio
      BY DEF Balanced, Counted, PeriodEnded
    <2>. QED BY SMTT(30), <1>1, <2>1 DEF SameBooks, SameRatio, Hist
  <1>10. LastRatio(d, v) = LastRatio(c, v) + k
    <2>1. LastRatio(d, v) = s.hist[s.period - 1].ratio
      BY <1>1, <1>4, <1>8, LastRatioIsGreatest
    <2>. QED BY <1>2, <1>7, <2>1
  <1>11. \A x \in D : Gathering(d, v, x) = Gathering(c, v, x)
    BY <1>1, <1>6, <1>9, GatherTheSame DEF Balanced
  <1>12. Staked(d, v, D)
    BY <1>1, <1>11 DEF Balanced, Staked
  <1>13. /\ Dues(c, v, D) \in Int /\ Stakes(c, v, D) \in Int
         /\ \A x \in D : Due(d, v, x) = Due(c, v, x) + k * Gathering(c, v, x).stake
         /\ Dues(d, v, D) = Dues(c, v, D) + k * Stakes(c, v, D)
    BY <1>1, <1>6, <1>7, <1>9, <1>10, DuesGrow DEF Balanced
  <1>14. Solvent(d, v, D)
    <2>1. /\ s.rewards = 0 /\ s.commission = r.commission
          /\ s.outstanding = r.outstanding - Donated(c, v)
      BY DEF PeriodEnded
    <2>2. /\ r.rewards \in Nat /\ r.commission \in Nat /\ r.outstanding \in Int
          /\ c.vals[v].tokens \in Nat /\ c.vals[v].shares \in Int
          /\ Dues(c, v, D) + r.rewards + r.commission <= r.outstanding
          /\ Held(c, v) <= c.vals[v].shares
          /\ c.vals[v].tokens > 0 <=> c.vals[v].shares > 0
      BY DEF Balanced, Solvent, States, Records, Vals
    <2>3. Held(d, v) = Held(c, v)
      BY <1>1 DEF Held
    <2>4. k * Stakes(c, v, D) + Donated(c, v) <= r.rewards /\ k * Stakes(c, v, D) \in Int
          /\ Donated(c, v) \in Int
      <3>1. CASE c.vals[v].tokens > 0
        <4>1. Stakes(c, v, D) \in Nat /\ Stakes(c, v, D) <= c.vals[v].tokens
          BY <1>1, <2>2, <3>1, StakesAreCovered DEF Balanced
        <4>2. k * c.vals[v].tokens <= r.rewards
          BY <2>2, <3>1, QuotientFits DEF PerToken
        <4>3. k * Stakes(c, v, D) <= k * c.vals[v].tokens
          BY <1>7, <2>2, <4>1
        <4>4. k * Stakes(c, v, D) \in Int /\ k * c.vals[v].tokens \in Int
          BY <1>7, <2>2, <4>1
        <4>. HIDE DEF k, r
        <4>. QED BY <2>2, <3>1, <4>2, <4>3, <4>4 DEF Donated
      <3>2. CASE ~(c.vals[v].tokens > 0)
        <4>1. k = 0 /\ Donated(c, v) = r.rewards
          BY <3>2 DEF PerToken, Donated
        <4>. QED BY <1>13, <2>2, <4>1
      <3>. QED BY <3>1, <3>2
    <2>. HIDE DEF k, r, s
    <2>5. Dues(d, v, D) + s.rewards + s.commission <= s.outstanding
      BY <1>13, <2>1, <2>2, <2>4
    <2>. QED BY <1>1, <2>1, <2>2, <2>3, <2>5 DEF Solvent, s
  <1>. QED BY <1>3, <1>4, <1>5, <1>6, <1>8, <1>11, <1>12, <1>13, <1>14 DEF Balanced, DuesGrown


-----------------------------------------------------------------------------
(* Calls that leave the reward records alone *)

\* The records, and where the delegations in D started, are those of c.
KeepsBooks(c, d, v, D) ==
    LET r == c.dist[v]
        s == d.dist[v]
    IN  /\ s.hist = r.hist /\ s.period = r.period /\ s.slashes = r.slashes
        /\ \A x \in D : d.start[x][v] = c.start[x][v]
        /\ c.height <= d.height

\* The part of a balance the shares and the fees are not in.
Recorded(c, v, D) == Counted(c, v, D) /\ Apart(c, v, D) /\ Timely(c, v, D) /\ Rising(c, v)

LEMMA DuesAreTheSame ==
    ASSUME NEW c, NEW d, NEW v, NEW D, \A x \in D : Due(d, v, x) = Due(c, v, x)
    PROVE  Dues(d, v, D) = Dues(c, v, D)
  <1>. DEFINE f == [x \in Delegators |-> IF x \in D THEN Due(c, v, x) ELSE 0]
              g == [x \in Delegators |-> IF x \in D THEN Due(d, v, x) ELSE 0]
  <1>1. f = g
    OBVIOUS
  <1>. QED BY <1>1 DEF Dues

LEMMA BooksStay ==
    ASSUME NEW c \in States, NEW d \in States, NEW v \in Operators, NEW D,
           Recorded(c, v, D), KeepsBooks(c, d, v, D)
    PROVE  /\ Recorded(d, v, D) /\ Marks(d, v, D) = Marks(c, v, D)
           /\ \A x \in D : Gathering(d, v, x) = Gathering(c, v, x) /\ Due(d, v, x) = Due(c, v, x)
           /\ Dues(d, v, D) = Dues(c, v, D)
  <1>1. D \in SUBSET Delegators
    BY DEF Recorded, Counted
  <1>2. Marks(d, v, D) = Marks(c, v, D)
    BY DEF KeepsBooks, Marks, SlashedAt
  <1>3. Counted(d, v, D)
    BY <1>2 DEF Recorded, KeepsBooks, Counted
  <1>4. Apart(d, v, D)
    BY ApartStays DEF Recorded, KeepsBooks
  <1>5. Timely(d, v, D)
    BY <1>1, TimelyStays DEF Recorded, KeepsBooks
  <1>6. Rising(d, v)
    BY DEF Recorded, KeepsBooks, Rising
  <1>7. \A p : Hist(d, v, p) = Hist(c, v, p)
    BY DEF Hist, KeepsBooks
  <1>8. SameBooks(c, d, v, D)
    BY <1>7 DEF SameBooks, SameRatio, KeepsBooks
  <1>9. \A x \in D : Gathering(d, v, x) = Gathering(c, v, x)
    BY <1>1, <1>5, <1>8, GatherTheSame DEF Recorded
  <1>10. \A x \in D : Due(d, v, x) = Due(c, v, x)
    BY <1>7, <1>9 DEF Due, RewardsUpTo, KeepsBooks
  <1>. QED BY <1>2, <1>3, <1>4, <1>5, <1>6, <1>9, <1>10, DuesAreTheSame DEF Recorded

\* The tokens and shares, and the delegations.
SameShares(c, d, v) ==
    /\ d.vals[v].tokens = c.vals[v].tokens /\ d.vals[v].shares = c.vals[v].shares
    /\ \A x \in Delegators : d.dels[x][v] = c.dels[x][v]

LEMMA SharesStay ==
    ASSUME NEW c \in States, NEW d \in States, NEW v \in Operators, NEW D,
           Balanced(c, v, D), KeepsBooks(c, d, v, D), SameShares(c, d, v)
    PROVE  /\ Recorded(d, v, D) /\ Staked(d, v, D) /\ Dues(d, v, D) = Dues(c, v, D)
           /\ Held(d, v) = Held(c, v)
  <1>1. Recorded(c, v, D) /\ D \subseteq Delegators
    BY DEF Balanced, Recorded, Counted
  <1>2. /\ Recorded(d, v, D) /\ Dues(d, v, D) = Dues(c, v, D)
        /\ \A x \in D : Gathering(d, v, x) = Gathering(c, v, x)
    BY <1>1, BooksStay
  <1>3. \A x \in D : d.dels[x][v] = c.dels[x][v]
    BY <1>1 DEF SameShares
  <1>4. Staked(d, v, D)
    BY <1>2, <1>3 DEF Balanced, Staked, SameShares
  <1>5. Held(d, v) = Held(c, v)
    BY DEF Held, SameShares
  <1>. QED BY <1>2, <1>4, <1>5

\* All of the ledger.
SameLedger(c, d, v) ==
    /\ d.dist[v] = c.dist[v] /\ \A x \in Delegators : d.start[x][v] = c.start[x][v]
    /\ SameShares(c, d, v) /\ c.height <= d.height

LEMMA LedgerStays ==
    ASSUME NEW c \in States, NEW d \in States, NEW v \in Operators, NEW D,
           SameLedger(c, d, v), Balanced(c, v, D)
    PROVE  Balanced(d, v, D) /\ Marks(d, v, D) = Marks(c, v, D)
  <1>1. D \subseteq Delegators
    BY DEF Balanced, Counted
  <1>2. KeepsBooks(c, d, v, D) /\ SameShares(c, d, v)
    BY <1>1 DEF SameLedger, KeepsBooks
  <1>3. /\ Recorded(d, v, D) /\ Staked(d, v, D) /\ Dues(d, v, D) = Dues(c, v, D)
        /\ Held(d, v) = Held(c, v)
    BY <1>2, SharesStay
  <1>4. Solvent(d, v, D)
    BY <1>3 DEF Balanced, Solvent, SameLedger, SameShares
  <1>5. Marks(d, v, D) = Marks(c, v, D)
    BY <1>2, BooksStay DEF Balanced, Recorded
  <1>. QED BY <1>3, <1>4, <1>5 DEF Balanced, Recorded

\* Fees come in.
LEMMA AllocationBalances ==
    ASSUME NEW c \in States, NEW v \in Operators, NEW D, Balanced(c, v, D)
    PROVE  Balanced(AllocateTokensToValidator(c, v), v, D)
  <1>. DEFINE d == AllocateTokensToValidator(c, v)
  <1>1. d \in States
    BY AllocateDistributes DEF Distributes
  <1>2. c.dist[v] \in Records /\ Reward \in Int /\ Commission \in 0 .. Reward /\ c.height \in Int
    BY ChainAssumption DEF States
  <1>3. /\ d.height = c.height /\ d.start = c.start /\ d.vals = c.vals /\ d.dels = c.dels
        /\ d.dist[v].hist = c.dist[v].hist /\ d.dist[v].period = c.dist[v].period
        /\ d.dist[v].slashes = c.dist[v].slashes
        /\ d.dist[v].outstanding = c.dist[v].outstanding + Reward
        /\ d.dist[v].commission = c.dist[v].commission + Commission
        /\ d.dist[v].rewards = c.dist[v].rewards + (Reward - Commission)
    BY <1>2 DEF AllocateTokensToValidator, States, Records
  <1>. HIDE DEF d
  <1>4. KeepsBooks(c, d, v, D) /\ SameShares(c, d, v)
    BY <1>2, <1>3 DEF KeepsBooks, SameShares
  <1>5. /\ Recorded(d, v, D) /\ Staked(d, v, D) /\ Dues(d, v, D) = Dues(c, v, D)
        /\ Held(d, v) = Held(c, v)
    BY <1>1, <1>4, SharesStay
  <1>6. Dues(c, v, D) \in Int
    BY DuesAreWhole DEF Balanced, Counted
  <1>7. Solvent(d, v, D)
    BY <1>2, <1>3, <1>5, <1>6 DEF Balanced, Solvent, Records
  <1>8. Balanced(d, v, D)
    BY <1>5, <1>7 DEF Balanced, Recorded
  <1>. QED BY <1>8 DEF d

\* The commission is paid.
LEMMA CommissionBalances ==
    ASSUME NEW c \in States, NEW v \in Operators, NEW D, Balanced(c, v, D)
    PROVE  Balanced(WithdrawValidatorCommission(c, v), v, D)
  <1>. DEFINE d == WithdrawValidatorCommission(c, v)
  <1>1. d \in States
    BY CommissionDistributes DEF Distributes
  <1>2. c.dist[v] \in Records /\ c.height \in Int
    BY DEF States
  <1>3. /\ d.height = c.height /\ d.start = c.start /\ d.vals = c.vals /\ d.dels = c.dels
        /\ d.dist[v].hist = c.dist[v].hist /\ d.dist[v].period = c.dist[v].period
        /\ d.dist[v].slashes = c.dist[v].slashes
        /\ d.dist[v].outstanding = c.dist[v].outstanding - c.dist[v].commission
        /\ d.dist[v].commission = 0
        /\ d.dist[v].rewards = c.dist[v].rewards
    BY <1>2 DEF WithdrawValidatorCommission, States, Records
  <1>. HIDE DEF d
  <1>4. KeepsBooks(c, d, v, D) /\ SameShares(c, d, v)
    BY <1>2, <1>3 DEF KeepsBooks, SameShares
  <1>5. /\ Recorded(d, v, D) /\ Staked(d, v, D) /\ Dues(d, v, D) = Dues(c, v, D)
        /\ Held(d, v) = Held(c, v)
    BY <1>1, <1>4, SharesStay
  <1>6. Dues(c, v, D) \in Int
    BY DuesAreWhole DEF Balanced, Counted
  <1>7. Solvent(d, v, D)
    BY <1>2, <1>3, <1>5, <1>6 DEF Balanced, Solvent, Records
  <1>8. Balanced(d, v, D)
    BY <1>5, <1>7 DEF Balanced, Recorded
  <1>. QED BY <1>8 DEF d

-----------------------------------------------------------------------------
(* What a delegation can withdraw *)

\* What it is due with the rewards of the current period, but nothing in the block
\* it started in.
Claim(c, v, x) ==
    IF c.start[x][v].height = c.height THEN 0
    ELSE Due(c, v, x) + PerToken(c, v) * Gathering(c, v, x).stake

SameClaims(c, d, v, E) == \A y \in E : Claim(d, v, y) = Claim(c, v, y)

\* The end of a period takes nothing from anybody.
LEMMA ClaimsOutlastThePeriod ==
    ASSUME NEW c \in States, NEW d, NEW v \in Operators, NEW D,
           PeriodEnded(c, d, v, D), Balanced(c, v, D)
    PROVE  SameClaims(c, d, v, D) /\ c.pool <= d.pool
  <1>1. /\ d \in States /\ d.height = c.height /\ d.start = c.start /\ d.dist[v].rewards = 0
        /\ d.vals = c.vals /\ DuesGrown(c, d, v, D) /\ Balanced(d, v, D) /\ D \in SUBSET Delegators
        /\ d.pool = c.pool + Donated(c, v)
    <2>1. DuesGrown(c, d, v, D) /\ Balanced(d, v, D)
      BY PeriodBalances
    <2>2. D \in SUBSET Delegators
      BY DEF Balanced, Counted
    <2>. QED BY <2>1, <2>2 DEF PeriodEnded, OnlyLedger, SameStaking
  <1>2. PerToken(d, v) = 0
    <2>1. d.vals[v].tokens \in Nat
      BY <1>1 DEF States, Vals
    <2>. QED BY <1>1, <2>1 DEF PerToken
  <1>3. ASSUME NEW y \in D PROVE Claim(d, v, y) = Claim(c, v, y)
    <2>1. Due(d, v, y) \in Int /\ Gathering(d, v, y).stake \in Int
      BY <1>1, DueIsNatural, GathersFromMarks DEF Balanced, Gathered
    <2>2. Due(d, v, y) + PerToken(d, v) * Gathering(d, v, y).stake = Due(d, v, y)
      BY <1>2, <2>1
    <2>. QED BY <1>1, <2>2 DEF Claim, DuesGrown
  <1>4. c.pool <= d.pool
    <2>1. c.pool \in Int /\ c.dist[v].rewards \in Int /\ c.dist[v].rewards >= 0
      BY DEF States, Records, Balanced, Solvent
    <2>. QED BY <1>1, <2>1 DEF Donated
  <1>. QED BY SMTT(30), <1>3, <1>4 DEF SameClaims

-----------------------------------------------------------------------------
(* A delegation starts *)

\* In the period that begins, and refers to the record of the one before.
DelegationStarted(c, d, v, x) ==
    LET r == c.dist[v]
        s == d.dist[v]
        p == r.period - 1
    IN  /\ OnlyLedger(c, d, v) /\ SameAccounts(c, d)
        /\ s.outstanding = r.outstanding /\ s.rewards = r.rewards
        /\ s.commission = r.commission /\ s.period = r.period /\ s.slashes = r.slashes
        /\ DOMAIN s.hist = DOMAIN r.hist
        /\ \A q \in DOMAIN r.hist :
              /\ s.hist[q].ratio = r.hist[q].ratio
              /\ s.hist[q].refs = IF q = p THEN 2 ELSE r.hist[q].refs
        /\ d.start[x][v] = [period |-> p, stake |-> TokensFromShares(c, v, c.dels[x][v]),
                            height |-> c.height]
        /\ \A y \in Delegators \ {x} : d.start[y][v] = c.start[y][v]

LEMMA DelegationIsStarted ==
    ASSUME NEW c \in States, NEW v \in Operators, NEW x \in Delegators, NEW D,
           ~c.panic, Counted(c, v, D), Open(c, v, D)
    PROVE  DelegationStarted(c, InitializeDelegation(c, x, v), v, x)
  <1>. DEFINE r == c.dist[v]
              p == r.period - 1
              e == IncrementReferenceCount(c, v, p)
              info == [period |-> p, stake |-> TokensFromShares(c, v, c.dels[x][v]),
                       height |-> c.height]
              d == InitializeDelegation(c, x, v)
  <1>1. p \in DOMAIN r.hist /\ r.hist[p].refs = 1
    BY DEF Counted, Open
  <1>2. /\ OnlyHistory(c, e, v) /\ DOMAIN e.dist[v].hist = DOMAIN r.hist
        /\ \A q \in DOMAIN r.hist :
              /\ e.dist[v].hist[q].ratio = r.hist[q].ratio
              /\ e.dist[v].hist[q].refs = IF q = p THEN 2 ELSE r.hist[q].refs
    <2>1. p \in DOMAIN c.dist[v].hist /\ c.dist[v].hist[p].refs <= 2
      BY <1>1
    <2>2. r.hist[p].refs + 1 = 2
      BY <1>1
    <2>. HIDE DEF p
    <2>. QED BY <2>1, <2>2, Incremented
  <1>3. e \in States /\ ~e.panic /\ e.vals = c.vals /\ e.dels = c.dels /\ e.height = c.height
        /\ e.start = c.start
    BY <1>2 DEF OnlyHistory, OnlyLedger, SameStaking
  <1>4. d = [e EXCEPT !.start[x][v] = info]
    BY <1>3 DEF InitializeDelegation, Then
  <1>5. Distributes(c, d)
    BY InitializeDelegationDistributes
  <1>. HIDE DEF info, e, d
  <1>6. /\ d.start = [e.start EXCEPT ![x] = [e.start[x] EXCEPT ![v] = info]]
        /\ d.dist = e.dist /\ d.panic = e.panic
        /\ d.pool = e.pool /\ d.distribution = e.distribution
    BY <1>3, <1>4 DEF States
  <1>7. /\ d.start[x][v] = info
        /\ \A y \in Delegators, w \in Operators :
              y # x \/ w # v => d.start[y][w] = c.start[y][w]
    <2>1. c.start \in [Delegators -> [Operators -> Infos]]
      BY DEF States
    <2>. QED BY <1>3, <1>6, <2>1
  <1>8. OnlyLedger(c, d, v)
    BY <1>2, <1>5, <1>6, <1>7 DEF OnlyLedger, OnlyHistory, Distributes
  <1>9. DelegationStarted(c, d, v, x)
    BY <1>2, <1>6, <1>7, <1>8 DEF DelegationStarted, OnlyHistory, SameAccounts, info
  <1>. QED BY <1>9 DEF d

\* Its balance: nothing is due yet.
LEMMA StartBalances ==
    ASSUME NEW c \in States, NEW d, NEW v \in Operators, NEW x \in Delegators, NEW D,
           x \notin D, Balanced(c, v, D), Open(c, v, D), DelegationStarted(c, d, v, x)
    PROVE  Balanced(d, v, D \cup {x}) /\ SameClaims(c, d, v, D)
  <1>. DEFINE r == c.dist[v]
              s == d.dist[v]
              p == r.period - 1
              E == D \cup {x}
              M == Marks(c, v, D)
              info == d.start[x][v]
  <1>1. /\ d \in States /\ d.height = c.height /\ d.dels = c.dels /\ d.vals = c.vals
        /\ s.slashes = r.slashes /\ s.period = r.period /\ D \in SUBSET Delegators
        /\ \A y \in D : d.start[y][v] = c.start[y][v]
    BY DEF DelegationStarted, OnlyLedger, SameStaking, Balanced, Counted
  <1>2. /\ r.period \in Int /\ r.period >= 1 /\ p \in DOMAIN r.hist /\ DOMAIN r.hist = M \cup {p}
        /\ p \notin M /\ \A q \in M : q \in 0 .. (r.period - 1)
    BY DEF Balanced, Counted, States, Records, Open
  <1>3. info.period = p /\ info.height = c.height /\ info \in Infos
        /\ info.stake = TokensFromShares(c, v, c.dels[x][v])
    <2>1. info \in Infos
      BY <1>1 DEF States
    <2>. QED BY <2>1 DEF DelegationStarted
  <1>4. SlashedAt(d, v) = SlashedAt(c, v)
    BY <1>1 DEF SlashedAt
  <1>5. Marks(d, v, E) = M \cup {p}
    <2>1. {d.start[y][v].period : y \in E} = {c.start[y][v].period : y \in D} \cup {p}
      BY <1>1, <1>3
    <2>. QED BY <1>4, <2>1 DEF Marks
  <1>6. Counted(d, v, E)
    <2>1. E \subseteq Delegators /\ s.period >= 1
      BY <1>1, <1>2
    <2>2. DOMAIN s.hist = M \cup {p} /\ s.period - 1 = p
      BY <1>1, <1>2 DEF DelegationStarted
    <2>3. \A q \in M \cup {p} : q \in 0 .. (s.period - 1)
      BY <1>1, <1>2
    <2>4. \A q \in M \cup {p} :
             s.hist[q].refs = (IF q = p THEN 1 ELSE 0) + 1
      <3>1. \A q \in M : r.hist[q].refs = 1
        BY <1>2 DEF Balanced, Counted
      <3>. QED BY <1>2, <3>1 DEF DelegationStarted
    <2>. HIDE DEF M, p, E, s
    <2>. QED BY <1>5, <2>1, <2>2, <2>3, <2>4 DEF Counted, s
  <1>7. Apart(d, v, E)
    <2>1. Apart(d, v, D)
      BY <1>1, ApartStays DEF Balanced
    <2>2. \A y \in D : d.start[y][v].period # p
      BY <1>1, <1>2 DEF Marks
    <2>3. p \notin SlashedAt(d, v)
      BY <1>2, <1>4 DEF Marks
    <2>4. \A y, z \in E : d.start[y][v].period = d.start[z][v].period => y = z
      BY <1>3, <2>1, <2>2 DEF Apart
    <2>. QED BY <1>3, <2>1, <2>3, <2>4 DEF Apart
  <1>8. Timely(d, v, D) /\ Timely(d, v, E)
    <2>1. c.height <= d.height /\ c.height \in Int
      BY <1>1 DEF States
    <2>2. Timely(d, v, D)
      BY <1>1, <2>1, TimelyStays DEF Balanced
    <2>3. \A i \in DOMAIN s.slashes : ~(s.slashes[i].period > p) /\ s.slashes[i].height <= d.height
      <3>. TAKE i \in DOMAIN s.slashes
      <3>1. s.slashes[i].period \in M /\ s.slashes[i].height <= d.height
        BY <1>1, <2>2 DEF Timely, Marks, SlashedAt
      <3>. QED BY <1>2, <3>1
    <2>4. InTime(d, v, info)
      BY <1>3, <2>3 DEF InTime
    <2>5. info.height <= d.height
      BY <1>1, <1>3, <2>1
    <2>. QED BY <2>2, <2>4, <2>5 DEF Timely
  <1>9. Rising(d, v)
    BY DEF Balanced, Rising, DelegationStarted
  <1>10. \A q \in Int : SameRatio(c, d, v, q)
    BY DEF DelegationStarted, SameRatio, Hist
  <1>11. /\ \A y \in D : Gathering(d, v, y) = Gathering(c, v, y)
    <2>1. M \subseteq Int
      BY <1>2
    <2>2. SameBooks(c, d, v, D)
      BY <1>1, <1>10, <2>1 DEF SameBooks
    <2>. QED BY <1>1, <1>8, <2>2, GatherTheSame DEF Balanced
  <1>12. \A y \in D : Due(d, v, y) = Due(c, v, y)
    <2>. TAKE y \in D
    <2>1. Gathering(c, v, y).from \in Int
      BY <1>1, GathersFromMarks DEF Balanced, Gathered
    <2>. QED BY <1>1, <1>2, <1>10, <1>11, <2>1 DEF Due, RewardsUpTo, SameRatio
  <1>13. Gathering(d, v, x) = AtStart(info)
    <2>1. \A q \in SlashedAt(d, v) : ~(q > info.period)
      BY <1>2, <1>3, <1>4 DEF Marks
    <2>. QED BY <1>1, <1>3, <2>1, OverNoSlashes DEF Gathering
  <1>14. Due(d, v, x) = 0
    <2>1. Hist(d, v, p).ratio \in Int
      <3>1. p \in Int /\ d \in States
        BY <1>1, <1>2
      <3>. HIDE DEF p
      <3>. QED BY <3>1, HistIsARecord DEF Record
    <2>2. info.stake \in Int
      BY <1>3 DEF Infos
    <2>3. Due(d, v, x) = 0 + (Hist(d, v, p).ratio - Hist(d, v, p).ratio) * info.stake
      BY <1>1, <1>3, <1>13 DEF Due, RewardsUpTo, AtStart
    <2>. HIDE DEF p, info
    <2>. QED BY <2>1, <2>2, <2>3
  <1>15. Staked(d, v, E)
    <2>1. c.dels[x][v] \in Nat /\ c.vals[v].tokens \in Nat /\ c.vals[v].shares \in Int
          /\ Held(c, v) <= c.vals[v].shares
      BY DEF States, Vals, Balanced, Solvent
    <2>2. info.stake \in Nat /\ info.stake * c.vals[v].shares <= c.dels[x][v] * c.vals[v].tokens
      <3>. DEFINE w == c.dels[x][v] * c.vals[v].tokens
      <3>1. w \in Nat
        BY <2>1
      <3>2. CASE c.vals[v].shares > 0
        <4>. HIDE DEF w
        <4>1. (w \div c.vals[v].shares) \in Nat
              /\ (w \div c.vals[v].shares) * c.vals[v].shares <= w
          BY <2>1, <3>1, <3>2, QuotientFits
        <4>2. info.stake = w \div c.vals[v].shares
          BY <1>3, <3>2 DEF TokensFromShares, w
        <4>. QED BY <4>1, <4>2 DEF w
      <3>3. CASE ~(c.vals[v].shares > 0)
        <4>1. Held(c, v) \in Nat
          BY HeldIsNatural
        <4>2. c.vals[v].shares = 0 /\ info.stake = 0
          BY <1>3, <2>1, <3>3, <4>1 DEF TokensFromShares
        <4>. QED BY <3>1, <4>2
      <3>. QED BY <3>2, <3>3
    <2>3. ~Gathering(d, v, x).panic /\ Gathering(d, v, x).sum = 0
          /\ Gathering(d, v, x).stake = info.stake
      BY <1>13 DEF AtStart
    <2>4. Staked(d, v, D)
      BY <1>1, <1>11 DEF Balanced, Staked
    <2>. HIDE DEF info
    <2>. QED BY <1>1, <2>2, <2>3, <2>4 DEF Staked
  <1>16. Dues(d, v, E) = Dues(c, v, D)
    <2>. DEFINE f == [y \in Delegators |-> IF y \in D THEN Due(c, v, y) ELSE 0]
                g == [y \in Delegators |-> IF y \in E THEN Due(d, v, y) ELSE 0]
    <2>1. \A y \in Delegators : f[y] = g[y]
      BY <1>12, <1>14
    <2>2. f = g
      BY <2>1
    <2>. QED BY <2>2 DEF Dues
  <1>17. Held(d, v) = Held(c, v)
    BY <1>1 DEF Held
  <1>18. Solvent(d, v, E)
    BY <1>1, <1>16, <1>17 DEF Balanced, Solvent, DelegationStarted
  <1>19. SameClaims(c, d, v, D)
    <2>1. PerToken(d, v) = PerToken(c, v)
      BY <1>1 DEF PerToken, DelegationStarted
    <2>. QED BY <1>1, <1>11, <1>12, <2>1 DEF SameClaims, Claim
  <1>. QED BY <1>6, <1>7, <1>8, <1>9, <1>15, <1>18, <1>19 DEF Balanced

-----------------------------------------------------------------------------
(* A delegation is paid *)

\* The record it started after goes.
DelegationPaid(c, d, v, x, amount) ==
    LET r == c.dist[v]
        s == d.dist[v]
        q == c.start[x][v].period
    IN  /\ OnlyLedger(c, d, v)
        /\ d.pool = c.pool /\ d.distribution = c.distribution - amount
        /\ s.outstanding = r.outstanding - amount /\ s.rewards = r.rewards
        /\ s.commission = r.commission /\ s.period = r.period /\ s.slashes = r.slashes
        /\ DOMAIN s.hist = DOMAIN r.hist \ {q}
        /\ \A p \in DOMAIN s.hist :
              s.hist[p].ratio = r.hist[p].ratio /\ s.hist[p].refs = r.hist[p].refs
        /\ d.start[x][v] = NoInfo
        /\ \A y \in Delegators \ {x} : d.start[y][v] = c.start[y][v]

\* Its balance, after the period has ended.
LEMMA PaymentBalances ==
    ASSUME NEW c \in States, NEW d, NEW v \in Operators, NEW D, NEW x \in D, NEW amount \in Nat,
           Balanced(c, v, D), Open(c, v, D), DelegationPaid(c, d, v, x, amount),
           amount <= Due(c, v, x)
    PROVE  Balanced(d, v, D \ {x}) /\ Open(d, v, D \ {x}) /\ SameClaims(c, d, v, D \ {x})
  <1>. DEFINE r == c.dist[v]
              s == d.dist[v]
              p == r.period - 1
              q == c.start[x][v].period
              E == D \ {x}
              M == Marks(c, v, D)
  <1>1. /\ d \in States /\ d.height = c.height /\ d.dels = c.dels /\ d.vals = c.vals
        /\ s.slashes = r.slashes /\ s.period = r.period /\ D \in SUBSET Delegators
        /\ E \in SUBSET D /\ \A y \in E : d.start[y][v] = c.start[y][v]
    BY DEF DelegationPaid, OnlyLedger, SameStaking, Balanced, Counted
  <1>2. /\ r.period \in Int /\ r.period >= 1 /\ p \in DOMAIN r.hist /\ DOMAIN r.hist = M \cup {p}
        /\ p \notin M /\ \A m \in M : m \in 0 .. (r.period - 1)
        /\ q \in M /\ q # p
    <2>1. q \in M
      BY DEF Marks
    <2>. QED BY <2>1 DEF Balanced, Counted, States, Records, Open
  <1>3. SlashedAt(d, v) = SlashedAt(c, v)
    BY <1>1 DEF SlashedAt
  <1>4. Marks(d, v, E) = M \ {q}
    <2>1. \A y \in E : c.start[y][v].period # q
      BY DEF Balanced, Apart
    <2>2. q \notin SlashedAt(c, v)
      BY DEF Balanced, Apart
    <2>3. {d.start[y][v].period : y \in E} = {c.start[y][v].period : y \in D} \ {q}
      BY <1>1, <2>1
    <2>. QED BY <1>3, <2>2, <2>3 DEF Marks
  <1>5. Counted(d, v, E) /\ Open(d, v, E)
    <2>1. E \subseteq Delegators /\ s.period >= 1
      BY <1>1, <1>2
    <2>2. DOMAIN s.hist = (M \ {q}) \cup {p} /\ s.period - 1 = p
      BY <1>1, <1>2 DEF DelegationPaid
    <2>3. \A m \in M \ {q} : m \in 0 .. (s.period - 1)
      BY <1>1, <1>2
    <2>4. \A m \in (M \ {q}) \cup {p} : s.hist[m].refs = 1
      <3>1. \A m \in M \cup {p} : r.hist[m].refs = 1
        BY <1>2 DEF Balanced, Counted
      <3>. QED BY <2>2, <3>1 DEF DelegationPaid
    <2>. HIDE DEF M, p, q, E, s
    <2>. QED BY <1>2, <1>4, <2>1, <2>2, <2>3, <2>4 DEF Counted, Open, s
  <1>6. Apart(d, v, E)
    BY <1>1, ApartStays DEF Balanced
  <1>7. Timely(d, v, E)
    <2>1. c.height <= d.height
      BY <1>1 DEF States
    <2>. QED BY <1>1, <2>1, TimelyStays DEF Balanced
  <1>8. Rising(d, v)
    BY DEF Balanced, Rising, DelegationPaid
  <1>9. /\ \A m \in Marks(c, v, E) : SameRatio(c, d, v, m)
        /\ LastRatio(d, v) = LastRatio(c, v)
    <2>1. \A m \in DOMAIN s.hist : m \in DOMAIN r.hist /\ SameRatio(c, d, v, m)
      BY DEF DelegationPaid, SameRatio, Hist
    <2>2. p \in DOMAIN s.hist
      BY <1>2 DEF DelegationPaid
    <2>3. Marks(c, v, E) = Marks(d, v, E)
      BY <1>1, <1>3 DEF Marks
    <2>4. Marks(d, v, E) \subseteq DOMAIN s.hist
      BY <1>5 DEF Counted
    <2>5. LastRatio(d, v) = Hist(d, v, p).ratio /\ LastRatio(c, v) = Hist(c, v, p).ratio
      BY <1>1 DEF LastRatio
    <2>6. SameRatio(c, d, v, p)
      BY <2>1, <2>2
    <2>7. Hist(d, v, p).ratio = Hist(c, v, p).ratio
      BY <2>6 DEF SameRatio
    <2>. QED BY <2>1, <2>3, <2>4, <2>5, <2>7
  <1>10. SameBooks(c, d, v, E) /\ Timely(c, v, E)
    <2>1. Timely(c, v, E)
      BY <1>1 DEF Balanced, Timely
    <2>. QED BY <1>1, <1>9, <2>1 DEF SameBooks
  <1>11. \A y \in E : Gathering(d, v, y) = Gathering(c, v, y)
    BY <1>1, <1>7, <1>10, GatherTheSame
  <1>12. Staked(d, v, E)
    BY <1>1, <1>11 DEF Balanced, Staked
  <1>13. \A y \in E : Due(d, v, y) = Due(c, v, y)
    <2>1. LastRatio(c, v) \in Int
      BY <1>1, LastRatioIsGreatest DEF Balanced
    <2>2. LastRatio(d, v) = LastRatio(c, v) + 0
      BY <1>9, <2>1
    <2>3. \A y \in E : Due(d, v, y) = Due(c, v, y) + 0 * Gathering(c, v, y).stake
      BY <1>1, <1>7, <1>10, <2>2, DuesGrow
    <2>4. \A y \in E : Gathering(c, v, y).stake \in Int /\ Due(c, v, y) \in Int
      BY <1>1, GathersFromMarks, DueIsNatural DEF Balanced, Gathered
    <2>. QED BY <2>3, <2>4
  <1>14. Dues(d, v, E) = Dues(c, v, D) - Due(c, v, x)
    <2>. DEFINE f == [y \in Delegators |-> IF y \in D THEN Due(c, v, y) ELSE 0]
                g == [y \in Delegators |-> IF y \in E THEN Due(d, v, y) ELSE 0]
    <2>1. \A y \in D : Due(c, v, y) \in Int
      BY DueIsNatural DEF Balanced
    <2>2. f \in [Delegators -> Int]
      BY <2>1
    <2>3. g \in [Delegators -> Int]
      BY <1>13, <2>1
    <2>4. \A y \in Delegators \ {x} : g[y] = f[y]
      BY <1>13
    <2>5. g[x] = 0 /\ f[x] = Due(c, v, x) /\ x \in Delegators /\ IsFiniteSet(Delegators)
      BY <1>1, ChainAssumption
    <2>6. Dues(c, v, D) = SumFunction(f) /\ Dues(d, v, E) = SumFunction(g)
      BY DEF Dues
    <2>. HIDE DEF f, g
    <2>7. SumFunction(g) = SumFunction(f) + (g[x] - f[x]) /\ SumFunction(f) \in Int
      BY <2>2, <2>3, <2>4, <2>5, SumChange, SumIsWhole
    <2>. QED BY <2>1, <2>5, <2>6, <2>7
  <1>15. Held(d, v) = Held(c, v)
    BY <1>1 DEF Held
  <1>16. Solvent(d, v, E)
    <2>1. Dues(c, v, D) \in Int /\ Due(c, v, x) \in Int
      BY DuesAreWhole DEF Balanced
    <2>2. r.outstanding \in Int /\ r.rewards \in Int /\ r.commission \in Int
      BY DEF States, Records
    <2>3. /\ s.outstanding = r.outstanding - amount /\ s.rewards = r.rewards
          /\ s.commission = r.commission
      BY DEF DelegationPaid
    <2>4. /\ r.rewards >= 0 /\ r.commission >= 0 /\ Held(c, v) <= c.vals[v].shares
          /\ Dues(c, v, D) + r.rewards + r.commission <= r.outstanding
          /\ c.vals[v].tokens > 0 <=> c.vals[v].shares > 0
      BY DEF Balanced, Solvent
    <2>. HIDE DEF r, s, E
    <2>5. Dues(d, v, E) + s.rewards + s.commission <= s.outstanding
      BY <1>14, <2>1, <2>2, <2>3, <2>4
    <2>. QED BY <1>1, <1>15, <2>3, <2>4, <2>5 DEF Solvent, s
  <1>17. SameClaims(c, d, v, E)
    <2>1. PerToken(d, v) = PerToken(c, v)
      BY <1>1 DEF PerToken, DelegationPaid
    <2>. QED BY <1>1, <1>11, <1>13, <2>1 DEF SameClaims, Claim
  <1>. QED BY <1>5, <1>6, <1>7, <1>8, <1>12, <1>16, <1>17 DEF Balanced

\* What the keeper calculates is what is due, when the period has just ended.
LEMMA RewardsAreDue ==
    ASSUME NEW c \in States, NEW v \in Operators, NEW D, NEW x \in D,
           Balanced(c, v, D), c.dels[x][v] > 0
    PROVE  DelegationRewards(c, x, v, c.dist[v].period - 1) =
             IF c.start[x][v].height = c.height THEN 0 ELSE Due(c, v, x)
  <1>. DEFINE s == c.start[x][v]
              e == OverSlashes(c, v, s)
              p == c.dist[v].period - 1
              total == RewardsUpTo(c, v, e, p)
  <1>1. x \in Delegators /\ e = Gathering(c, v, x) /\ total.sum = Due(c, v, x)
    BY DEF Balanced, Counted, Gathering, Due
  <1>2. /\ e \in Gathered /\ e.from \in DOMAIN c.dist[v].hist /\ ~e.panic /\ e.stake \in Nat
        /\ e.stake * c.vals[v].shares <= c.dels[x][v] * c.vals[v].tokens
    <2>1. D \in SUBSET Delegators /\ Marks(c, v, D) \subseteq DOMAIN c.dist[v].hist
      BY DEF Balanced, Counted
    <2>2. e \in Gathered /\ e.from \in Marks(c, v, D)
      BY <1>1, <2>1, GathersFromMarks DEF Balanced
    <2>. HIDE DEF e
    <2>. QED BY <1>1, <2>1, <2>2 DEF Balanced, Staked, Gathered
  <1>3. ~total.panic
    <2>1. e.from <= p /\ Hist(c, v, e.from).ratio <= Hist(c, v, p).ratio
          /\ Hist(c, v, e.from).ratio \in Nat /\ Hist(c, v, p).ratio \in Nat
      BY <1>2, LastRatioIsGreatest DEF Balanced, LastRatio
    <2>2. e.from \in Int /\ p \in Int
      BY <1>2 DEF Gathered, States, Records
    <2>3. total.panic = (e.panic \/ e.from > p
                         \/ Hist(c, v, p).ratio < Hist(c, v, e.from).ratio)
      BY DEF RewardsUpTo
    <2>4. ~(e.from > p) /\ ~(Hist(c, v, p).ratio < Hist(c, v, e.from).ratio)
      <3>. HIDE DEF e, p
      <3>. QED BY <2>1, <2>2
    <2>. QED BY <1>2, <2>3, <2>4
  <1>4. ~(e.stake > TokensFromShares(c, v, c.dels[x][v]))
    <2>. DEFINE w == c.dels[x][v] * c.vals[v].tokens
                sh == c.vals[v].shares
    <2>1. c.dels[x][v] \in Nat /\ c.vals[v].tokens \in Nat /\ sh \in Int
      BY <1>1 DEF States, Vals
    <2>2. c.dels[x][v] <= Held(c, v) /\ Held(c, v) <= sh /\ Held(c, v) \in Nat
      BY <1>1, HeldIsNatural DEF Balanced, Solvent
    <2>3. sh > 0
      BY <2>1, <2>2
    <2>4. w \in Nat /\ TokensFromShares(c, v, c.dels[x][v]) = w \div sh
      BY <2>1, <2>3 DEF TokensFromShares
    <2>. HIDE DEF w, e, sh
    <2>5. e.stake * sh <= w
      BY <1>2 DEF w, sh
    <2>6. e.stake <= w \div sh /\ w \div sh \in Nat
      BY <1>2, <2>1, <2>3, <2>4, <2>5, QuotientIsGreatest, QuotientFits
    <2>. QED BY <1>2, <2>4, <2>6
  <1>. HIDE DEF e, total
  <1>5. DelegationRewards(c, x, v, p) = IF s.height = c.height THEN 0 ELSE total.sum
    BY <1>3, <1>4 DEF DelegationRewards, e, total
  <1>. QED BY <1>1, <1>5

\* One ledger after the other.
LEMMA OnlyLedgerTwice ==
    ASSUME NEW c, NEW d, NEW e, NEW v, OnlyLedger(c, d, v), OnlyLedger(d, e, v)
    PROVE  OnlyLedger(c, e, v)
  BY DEF OnlyLedger, SameStaking

LEMMA MinIsFirst ==
    ASSUME NEW a \in Int, NEW b \in Int, a <= b
    PROVE  Min({a, b}) = a
  <1>1. \A S : Min(S) = CHOOSE x \in S : \A y \in S : x <= y
    BY DEF Min
  <1>2. a \in {a, b} /\ \A y \in {a, b} : a <= y
    OBVIOUS
  <1>3. Min({a, b}) \in {a, b} /\ \A y \in {a, b} : Min({a, b}) <= y
    BY SMTT(30), <1>1, <1>2
  <1>. QED BY <1>3

\* The payment itself.
PaysOut(c, e, d, v, x, amount) ==
    /\ e = DecrementReferenceCount(Pay(c, v, amount), v, c.start[x][v].period)
    /\ d = [e EXCEPT !.start[x][v] = NoInfo]

LEMMA DelegationIsPaid ==
    ASSUME NEW c \in States, NEW v \in Operators, NEW D, NEW x \in D, NEW amount \in Nat,
           ~c.panic, Counted(c, v, D), Apart(c, v, D), Open(c, v, D),
           NEW e, NEW d \in States, PaysOut(c, e, d, v, x, amount)
    PROVE  DelegationPaid(c, d, v, x, amount) /\ ~e.panic
  <1>. DEFINE r == c.dist[v]
              q == c.start[x][v].period
              p == Pay(c, v, amount)
  <1>0. amount \in Int
    OBVIOUS
  <1>1. p \in States /\ SameStaking(c, p)
    BY <1>0, PayDistributes DEF Distributes
  <1>2. /\ p.panic = c.panic /\ p.pool = c.pool /\ p.start = c.start
        /\ p.distribution = c.distribution - amount
        /\ p.dist = [c.dist EXCEPT ![v] = [r EXCEPT !.outstanding = @ - amount]]
    BY DEF Pay, States
  <1>3. r \in Records
    BY DEF States
  <1>4. /\ p.dist[v].outstanding = r.outstanding - amount
        /\ p.dist[v].rewards = r.rewards /\ p.dist[v].commission = r.commission
        /\ p.dist[v].period = r.period /\ p.dist[v].slashes = r.slashes
        /\ p.dist[v].hist = r.hist
        /\ \A w \in Operators \ {v} : p.dist[w] = c.dist[w]
    <2>1. p.dist[v] = [r EXCEPT !.outstanding = @ - amount]
      BY <1>2 DEF States
    <2>2. \A w \in Operators \ {v} : p.dist[w] = c.dist[w]
      BY <1>2 DEF States
    <2>. QED BY <1>3, <2>1, <2>2 DEF Records
  <1>5. q \in DOMAIN r.hist /\ r.hist[q].refs = 1 /\ x \in Delegators
    <2>1. q \in Marks(c, v, D) /\ r.period - 1 \notin Marks(c, v, D)
      BY DEF Marks, Open
    <2>. HIDE DEF r, q
    <2>2. q # r.period - 1
      BY <2>1
    <2>3. q \in DOMAIN r.hist /\ r.hist[q].refs = 0 + 1 /\ x \in Delegators
      BY <2>1, <2>2 DEF Counted, r
    <2>. QED BY <2>3
  <1>. HIDE DEF p
  <1>6. /\ OnlyHistory(p, e, v)
        /\ DOMAIN e.dist[v].hist = DOMAIN r.hist \ {q}
        /\ \A m \in DOMAIN e.dist[v].hist :
              e.dist[v].hist[m].ratio = r.hist[m].ratio /\ e.dist[v].hist[m].refs = r.hist[m].refs
    <2>1. q \in DOMAIN p.dist[v].hist /\ p.dist[v].hist[q].refs = 1
      <3>. HIDE DEF q, r
      <3>. QED BY <1>4, <1>5
    <2>2. p.dist[v].hist[q].refs >= 1
      BY SMTT(30), <2>1
    <2>3. e = DecrementReferenceCount(p, v, q)
      BY DEF p, PaysOut
    <2>. HIDE DEF q
    <2>4. /\ OnlyHistory(p, e, v)
          /\ DOMAIN e.dist[v].hist = DOMAIN p.dist[v].hist
                                     \ (IF p.dist[v].hist[q].refs = 1 THEN {q} ELSE {})
          /\ \A m \in DOMAIN e.dist[v].hist :
                /\ e.dist[v].hist[m].ratio = p.dist[v].hist[m].ratio
                /\ e.dist[v].hist[m].refs = IF m = q THEN p.dist[v].hist[q].refs - 1
                                            ELSE p.dist[v].hist[m].refs
      BY <1>1, <2>1, <2>2, <2>3, Decremented
    <2>5. DOMAIN e.dist[v].hist = DOMAIN r.hist \ {q}
      BY <1>4, <2>1, <2>4
    <2>6. p.dist[v].hist = r.hist
      BY <1>4
    <2>. QED BY <2>4, <2>5, <2>6
  <1>7. /\ e \in States /\ SameStaking(p, e) /\ e.panic = p.panic
        /\ \A w \in Operators \ {v} : e.dist[w] = p.dist[w]
        /\ e.pool = p.pool /\ e.distribution = p.distribution /\ e.start = p.start
        /\ e.dist[v].outstanding = p.dist[v].outstanding /\ e.dist[v].rewards = p.dist[v].rewards
        /\ e.dist[v].commission = p.dist[v].commission /\ e.dist[v].period = p.dist[v].period
        /\ e.dist[v].slashes = p.dist[v].slashes
    BY <1>6 DEF OnlyHistory, OnlyLedger, SameAccounts
  <1>8. /\ d.start = [e.start EXCEPT ![x] = [e.start[x] EXCEPT ![v] = NoInfo]]
        /\ d.dist = e.dist /\ d.panic = e.panic /\ SameStaking(e, d)
        /\ d.pool = e.pool /\ d.distribution = e.distribution
    BY <1>7 DEF States, SameStaking, PaysOut
  <1>9. /\ d.start[x][v] = NoInfo
        /\ \A y \in Delegators, w \in Operators :
              y # x \/ w # v => d.start[y][w] = c.start[y][w]
    <2>1. c.start \in [Delegators -> [Operators -> Infos]] /\ e.start = c.start
      BY <1>2, <1>7 DEF States
    <2>. QED BY <1>5, <1>8, <2>1
  <1>10. OnlyLedger(c, d, v)
    BY <1>1, <1>2, <1>4, <1>7, <1>8, <1>9 DEF OnlyLedger, SameStaking
  <1>. QED BY <1>2, <1>4, <1>6, <1>7, <1>8, <1>9, <1>10 DEF DelegationPaid

\* A delegation that is paid leaves the rest in balance.
DelegationSettled(c, d, v, D, x) ==
    /\ OnlyLedger(c, d, v) /\ Balanced(d, v, D \ {x}) /\ Open(d, v, D \ {x})
    /\ d.start[x][v] = NoInfo /\ \A y \in Delegators \ {x} : d.start[y][v] = c.start[y][v]
    /\ Claim(c, v, x) \in Nat /\ d.distribution = c.distribution - Claim(c, v, x)
    /\ SameClaims(c, d, v, D \ {x}) /\ c.pool <= d.pool

LEMMA DelegationSettles ==
    ASSUME NEW c \in States, NEW v \in Operators, NEW D, NEW x \in D,
           ~c.panic, Exists(c, v), Balanced(c, v, D), c.dels[x][v] > 0
    PROVE  DelegationSettled(c, PayDelegation(c, x, v), v, D, x)
  <1>. DEFINE a == IncrementValidatorPeriod(c, v)
              owed == DelegationRewards(a, x, v, c.dist[v].period)
              e == DecrementReferenceCount(Pay(a, v, owed), v, c.start[x][v].period)
              d == [e EXCEPT !.start[x][v] = NoInfo]
  <1>1. x \in Delegators
    BY DEF Balanced, Counted
  <1>2. PeriodEnded(c, a, v, D)
    BY PeriodEnds DEF Balanced
  <1>. HIDE DEF a
  <1>3. /\ Balanced(a, v, D) /\ Open(a, v, D)
        /\ Due(a, v, x) = Due(c, v, x) + PerToken(c, v) * Gathering(c, v, x).stake
        /\ SameClaims(c, a, v, D) /\ c.pool <= a.pool
    <2>1. Balanced(a, v, D) /\ Open(a, v, D) /\ DuesGrown(c, a, v, D)
      BY <1>2, PeriodBalances
    <2>2. SameClaims(c, a, v, D) /\ c.pool <= a.pool
      BY <1>2, ClaimsOutlastThePeriod
    <2>. QED BY <2>1, <2>2 DEF DuesGrown
  <1>4. /\ a \in States /\ ~a.panic /\ OnlyLedger(c, a, v) /\ a.start = c.start
        /\ a.dels = c.dels /\ a.height = c.height /\ a.distribution = c.distribution
        /\ a.dist[v].period - 1 = c.dist[v].period
    <2>1. c.dist[v].period \in Int
      BY DEF States, Records
    <2>2. a.dist[v].period - 1 = c.dist[v].period
      BY <1>2, <2>1 DEF PeriodEnded
    <2>. QED BY <1>2, <2>2 DEF PeriodEnded, OnlyLedger, SameStaking
  <1>5. owed = Claim(c, v, x)
    BY <1>3, <1>4, RewardsAreDue DEF Claim
  <1>6. owed \in Nat /\ owed <= Due(a, v, x) /\ owed <= a.dist[v].outstanding
    <2>1. Due(a, v, x) \in Nat /\ Due(a, v, x) <= Dues(a, v, D) /\ Dues(a, v, D) \in Nat
      BY <1>3, <1>4, DuesAreWhole DEF Balanced
    <2>2. Due(a, v, x) <= a.dist[v].outstanding /\ a.dist[v].outstanding \in Int
      BY <1>3, <1>4, <2>1 DEF Balanced, Solvent, States, Records
    <2>. HIDE DEF owed
    <2>3. owed = 0 \/ owed = Due(a, v, x)
      BY <1>3, <1>5 DEF Claim
    <2>. QED BY <2>1, <2>2, <2>3
  <1>. HIDE DEF owed
  <1>7. Min({owed, a.dist[v].outstanding}) = owed
    <2>1. a.dist[v].outstanding \in Int
      BY SMTT(30), <1>4 DEF States, Records
    <2>. QED BY <1>6, <2>1, MinIsFirst
  <1>8. e.panic \/ PayDelegation(c, x, v) = d
    <2>. DEFINE paid == IF owed < 0 THEN Panic(a)
                        ELSE DecrementReferenceCount(
                                 Pay(a, v, Min({owed, a.dist[v].outstanding})),
                                 v, c.start[x][v].period)
                b == IF a.panic THEN a ELSE paid
    <2>1. PayDelegation(c, x, v) = IF b.panic THEN b ELSE [b EXCEPT !.start[x][v] = NoInfo]
      BY Zenon DEF PayDelegation, Then, owed, a
    <2>2. b = e
      BY <1>4, <1>6, <1>7
    <2>. HIDE DEF b
    <2>. QED BY <2>1, <2>2
  <1>9. d \in States
    <2>1. owed \in Int /\ c.start[x][v].period \in Int
      BY <1>1, <1>6 DEF States, Infos
    <2>2. Pay(a, v, owed) \in States
      BY <1>4, <2>1, PayDistributes DEF Distributes
    <2>3. e \in States
      BY <2>1, <2>2, DecrementDistributes DEF Distributes
    <2>4. NoInfo \in Infos
      BY DEF NoInfo, Infos
    <2>. HIDE DEF e
    <2>. QED BY <1>1, <2>3, <2>4, StartingInfoDistributes DEF Distributes
  <1>10. DelegationPaid(a, d, v, x, owed) /\ ~e.panic
    <2>1. PaysOut(a, e, d, v, x, owed)
      BY <1>4 DEF PaysOut
    <2>. HIDE DEF e, d
    <2>. QED BY <1>3, <1>4, <1>6, <1>9, <2>1, DelegationIsPaid DEF Balanced
  <1>. HIDE DEF d, e
  <1>11. /\ Balanced(d, v, D \ {x}) /\ Open(d, v, D \ {x})
         /\ SameClaims(c, d, v, D \ {x}) /\ c.pool <= d.pool
    <2>1. Balanced(d, v, D \ {x}) /\ Open(d, v, D \ {x}) /\ SameClaims(a, d, v, D \ {x})
      BY <1>3, <1>4, <1>6, <1>10, PaymentBalances
    <2>2. d.pool = a.pool
      BY <1>10 DEF DelegationPaid
    <2>3. SameClaims(c, d, v, D \ {x})
      BY <1>3, <2>1 DEF SameClaims
    <2>. QED BY <1>3, <2>1, <2>2, <2>3
  <1>12. DelegationSettled(c, d, v, D, x)
    BY <1>1, <1>4, <1>5, <1>6, <1>10, <1>11, OnlyLedgerTwice DEF DelegationSettled, DelegationPaid
  <1>. QED BY <1>8, <1>10, <1>12

\* The stake of one more delegation counts.
DelegationAdded(c, d, v, D, x) ==
    /\ OnlyLedger(c, d, v) /\ Balanced(d, v, D \cup {x})
    /\ d.start[x][v] # NoInfo /\ \A y \in Delegators \ {x} : d.start[y][v] = c.start[y][v]
    /\ d.distribution = c.distribution
    /\ SameClaims(c, d, v, D) /\ c.pool <= d.pool

LEMMA DelegationIsAdded ==
    ASSUME NEW c \in States, NEW v \in Operators, NEW x \in Delegators, NEW D,
           x \notin D, ~c.panic, Balanced(c, v, D), Open(c, v, D)
    PROVE  DelegationAdded(c, InitializeDelegation(c, x, v), v, D, x)
  <1>. DEFINE d == InitializeDelegation(c, x, v)
  <1>1. DelegationStarted(c, d, v, x)
    BY DelegationIsStarted DEF Balanced
  <1>. HIDE DEF d
  <1>2. Balanced(d, v, D \cup {x}) /\ SameClaims(c, d, v, D)
    BY <1>1, StartBalances
  <1>2a. d.pool = c.pool /\ c.pool \in Int
    BY <1>1 DEF DelegationStarted, SameAccounts, States
  <1>3. c.dist[v].period \in Int /\ c.dist[v].period >= 1
    BY DEF Balanced, Counted, States, Records
  <1>4. d.start[x][v].period = c.dist[v].period - 1
    BY <1>1 DEF DelegationStarted
  <1>5. d.start[x][v] # NoInfo
    BY <1>3, <1>4 DEF NoInfo
  <1>6. DelegationAdded(c, d, v, D, x)
    BY <1>1, <1>2, <1>2a, <1>5 DEF DelegationAdded, DelegationStarted, SameAccounts
  <1>. QED BY <1>6 DEF d

\* A delegation that withdraws its rewards starts anew.
LEMMA WithdrawalBalances ==
    ASSUME NEW c \in States, NEW v \in Operators, NEW D, NEW x \in D,
           ~c.panic, Exists(c, v), Balanced(c, v, D), c.dels[x][v] > 0, c.start[x][v] # NoInfo
    PROVE  LET d == WithdrawDelegationRewards(c, x, v) IN
           /\ OnlyLedger(c, d, v) /\ Balanced(d, v, D) /\ d.start[x][v] # NoInfo
           /\ \A y \in Delegators \ {x} : d.start[y][v] = c.start[y][v]
           /\ Claim(c, v, x) \in Nat /\ d.distribution = c.distribution - Claim(c, v, x)
           /\ SameClaims(c, d, v, D \ {x}) /\ c.pool <= d.pool
  <1>. DEFINE a == PayDelegation(c, x, v)
              d == InitializeDelegation(a, x, v)
  <1>1. DelegationSettled(c, a, v, D, x)
    BY DelegationSettles
  <1>. HIDE DEF a
  <1>2. a \in States /\ ~a.panic /\ x \in Delegators /\ x \notin D \ {x}
    BY <1>1 DEF DelegationSettled, OnlyLedger, Balanced, Counted
  <1>3. DelegationAdded(a, d, v, D \ {x}, x)
    BY <1>1, <1>2, DelegationIsAdded DEF DelegationSettled
  <1>4. WithdrawDelegationRewards(c, x, v) = d
    BY <1>2 DEF WithdrawDelegationRewards, Then, a
  <1>. HIDE DEF d
  <1>5. (D \ {x}) \cup {x} = D
    OBVIOUS
  <1>6. SameClaims(c, d, v, D \ {x}) /\ c.pool <= d.pool
    <2>1. SameClaims(c, d, v, D \ {x})
      BY <1>1, <1>3 DEF DelegationSettled, DelegationAdded, SameClaims
    <2>2. c.pool \in Int /\ a.pool \in Int /\ d.pool \in Int /\ c.pool <= a.pool /\ a.pool <= d.pool
      BY SMTT(30), <1>1, <1>2, <1>3 DEF DelegationSettled, DelegationAdded, OnlyLedger, States
    <2>. QED BY <2>1, <2>2
  <1>. QED BY <1>1, <1>3, <1>4, <1>5, <1>6, OnlyLedgerTwice DEF DelegationSettled, DelegationAdded

\* The period ends and a delegation starts.
LEMMA DelegationStartBalances ==
    ASSUME NEW c \in States, NEW v \in Operators, NEW x \in Delegators, NEW D,
           x \notin D, ~c.panic, Exists(c, v), Balanced(c, v, D)
    PROVE  DelegationAdded(c, StartDelegation(c, <<x, v>>), v, D, x)
  <1>. DEFINE a == IncrementValidatorPeriod(c, v)
              d == InitializeDelegation(a, x, v)
  <1>1. PeriodEnded(c, a, v, D)
    BY PeriodEnds DEF Balanced
  <1>. HIDE DEF a
  <1>2. a \in States /\ ~a.panic /\ Balanced(a, v, D) /\ Open(a, v, D)
    BY <1>1, PeriodBalances DEF PeriodEnded, OnlyLedger
  <1>3. DelegationAdded(a, d, v, D, x)
    BY <1>2, DelegationIsAdded
  <1>4. StartDelegation(c, <<x, v>>) = d
    BY <1>2 DEF StartDelegation, Then, a
  <1>. HIDE DEF d
  <1>5. SameClaims(c, d, v, D) /\ c.pool <= d.pool
    <2>1. SameClaims(c, a, v, D) /\ c.pool <= a.pool
      BY <1>1, ClaimsOutlastThePeriod
    <2>2. SameClaims(c, d, v, D)
      BY <1>3, <2>1 DEF DelegationAdded, SameClaims
    <2>3. c.pool \in Int /\ a.pool \in Int /\ d.pool \in Int /\ a.pool <= d.pool
      BY <1>2, <1>3 DEF DelegationAdded, OnlyLedger, States
    <2>. QED BY <2>1, <2>2, <2>3
  <1>. QED BY <1>1, <1>3, <1>4, <1>5, OnlyLedgerTwice DEF DelegationAdded, PeriodEnded

-----------------------------------------------------------------------------
(* A validator whose records are set up *)

NothingRecorded(c, v) == DOMAIN c.dist[v].hist = {} /\ c.dist[v].slashes = << >>

LEMMA InitialBalance ==
    ASSUME NEW c \in States, NEW v \in Operators, NothingRecorded(c, v),
           Held(c, v) <= c.vals[v].shares,
           c.vals[v].tokens > 0 <=> c.vals[v].shares > 0
    PROVE  LET d == InitializeValidator(c, v) IN
           OnlyLedger(c, d, v) /\ Balanced(d, v, {}) /\ d.start = c.start
  <1>. DEFINE d == InitializeValidator(c, v)
              r == c.dist[v]
              s == d.dist[v]
              g == With(r.hist, 0, [ratio |-> 0, refs |-> 1])
  <1>1. d \in States /\ SameStaking(c, d) /\ d.panic = c.panic /\ d.start = c.start
    BY InitializeSurplus
  <1>2. /\ s = [r EXCEPT !.outstanding = 0, !.rewards = 0, !.commission = 0, !.period = 1,
                         !.hist = g]
        /\ \A w \in Operators \ {v} : d.dist[w] = c.dist[w]
    BY DEF InitializeValidator, States
  <1>3. r \in Records
    BY DEF States
  <1>4. DOMAIN g = {0} /\ g[0] = [ratio |-> 0, refs |-> 1]
    BY DEF With, NothingRecorded
  <1>. HIDE DEF g, d
  <1>5. /\ s.outstanding = 0 /\ s.rewards = 0 /\ s.commission = 0 /\ s.period = 1 /\ s.hist = g
        /\ s.slashes = r.slashes
    BY <1>2, <1>3 DEF Records
  <1>6. OnlyLedger(c, d, v)
    BY <1>1, <1>2 DEF OnlyLedger
  <1>7. s.slashes = << >> /\ DOMAIN s.slashes = {} /\ SlashedAt(d, v) = {} /\ Marks(d, v, {}) = {}
    BY <1>5 DEF NothingRecorded, SlashedAt, Marks
  <1>8. Counted(d, v, {})
    BY <1>4, <1>5, <1>7 DEF Counted
  <1>9. Apart(d, v, {}) /\ Timely(d, v, {}) /\ Staked(d, v, {})
    BY <1>7 DEF Apart, Timely, Staked
  <1>10. Rising(d, v)
    BY <1>4, <1>5 DEF Rising
  <1>11. Dues(d, v, {}) = 0
    <2>. DEFINE f == [x \in Delegators |-> IF x \in {} THEN Due(d, v, x) ELSE 0]
    <2>1. f \in [Delegators -> Int] /\ \A x \in Delegators : f[x] = 0
      OBVIOUS
    <2>2. Dues(d, v, {}) = SumFunction(f)
      BY DEF Dues
    <2>. HIDE DEF f
    <2>. QED BY <2>1, <2>2, SumOfZeros, ChainAssumption
  <1>12. Held(d, v) = Held(c, v) /\ d.vals = c.vals
    BY <1>1 DEF Held, SameStaking
  <1>13. Solvent(d, v, {})
    BY <1>5, <1>11, <1>12 DEF Solvent
  <1>14. Balanced(d, v, {})
    BY <1>8, <1>9, <1>10, <1>13 DEF Balanced
  <1>. QED BY <1>1, <1>6, <1>14 DEF d

-----------------------------------------------------------------------------
(* Shares that are bought and sold *)

\* No stake that was covered is not.
WorthAsMuch(c, d, v, D) ==
    \A y \in D, st \in Nat :
        st * c.vals[v].shares <= c.dels[y][v] * c.vals[v].tokens =>
            st * d.vals[v].shares <= d.dels[y][v] * d.vals[v].tokens

SameFunds(c, d, v) ==
    /\ d.dist[v].outstanding = c.dist[v].outstanding /\ d.dist[v].rewards = c.dist[v].rewards
    /\ d.dist[v].commission = c.dist[v].commission

LEMMA SharesChange ==
    ASSUME NEW c \in States, NEW d \in States, NEW v \in Operators, NEW D,
           Balanced(c, v, D), KeepsBooks(c, d, v, D), SameFunds(c, d, v),
           WorthAsMuch(c, d, v, D), Held(d, v) <= d.vals[v].shares,
           d.vals[v].tokens > 0 <=> d.vals[v].shares > 0
    PROVE  Balanced(d, v, D) /\ (Open(c, v, D) => Open(d, v, D))
  <1>1. Recorded(c, v, D) /\ D \in SUBSET Delegators
    BY DEF Balanced, Recorded, Counted
  <1>2. /\ Recorded(d, v, D) /\ Dues(d, v, D) = Dues(c, v, D) /\ Marks(d, v, D) = Marks(c, v, D)
        /\ \A x \in D : Gathering(d, v, x) = Gathering(c, v, x)
    BY <1>1, BooksStay
  <1>3. Staked(d, v, D)
    <2>1. \A x \in D : Gathering(c, v, x).stake \in Nat
      BY <1>1, GathersFromMarks DEF Balanced, Staked, Gathered
    <2>. QED BY <1>2, <2>1 DEF Balanced, Staked, WorthAsMuch
  <1>4. Solvent(d, v, D)
    BY <1>2 DEF Balanced, Solvent, SameFunds
  <1>5. Open(c, v, D) => Open(d, v, D)
    BY <1>2 DEF Open, KeepsBooks
  <1>. QED BY <1>2, <1>3, <1>4, <1>5 DEF Balanced, Recorded

\* What AddShares does.
SharesAdded(c, d, v, x, amount, shares) ==
    /\ d \in States /\ SameButShares(c, d)
    /\ d.vals[v].tokens = c.vals[v].tokens + amount
    /\ d.vals[v].shares = c.vals[v].shares + shares
    /\ d.vals[v].status = c.vals[v].status /\ d.vals[v].jailed = c.vals[v].jailed
    /\ d.dels[x][v] = c.dels[x][v] + shares
    /\ \A y \in Delegators, w \in Operators : y # x \/ w # v => d.dels[y][w] = c.dels[y][w]
    /\ \A w \in Operators \ {v} : d.vals[w] = c.vals[w]

LEMMA SharesAdd ==
    ASSUME NEW c \in States, NEW x \in Delegators, NEW v \in Operators,
           NEW amount \in Int, NEW shares \in Int,
           c.vals[v].tokens + amount \in Nat, c.dels[x][v] + shares \in Nat
    PROVE  SharesAdded(c, AddShares(c, x, v, amount, shares), v, x, amount, shares)
  <1>. DEFINE d == AddShares(c, x, v, amount, shares)
              y == [c.vals[v] EXCEPT !.tokens = @ + amount, !.shares = @ + shares]
  <1>1. d \in States /\ SameButShares(c, d)
    BY SharesAreAdded
  <1>2. /\ d.vals = [c.vals EXCEPT ![v] = y]
        /\ d.dels = [c.dels EXCEPT ![x] = [c.dels[x] EXCEPT ![v] = @ + shares]]
    BY DEF AddShares, States
  <1>3. c.vals \in [Operators -> Vals] /\ c.dels \in [Delegators -> [Operators -> Nat]]
    BY DEF States
  <1>4. /\ y.tokens = c.vals[v].tokens + amount /\ y.shares = c.vals[v].shares + shares
        /\ y.status = c.vals[v].status /\ y.jailed = c.vals[v].jailed
    BY <1>3 DEF Vals
  <1>. HIDE DEF y, d
  <1>5. d.vals[v] = y /\ \A w \in Operators \ {v} : d.vals[w] = c.vals[w]
    BY <1>2, <1>3
  <1>6. /\ d.dels[x][v] = c.dels[x][v] + shares
        /\ \A z \in Delegators, w \in Operators : z # x \/ w # v => d.dels[z][w] = c.dels[z][w]
    BY <1>2, <1>3
  <1>7. SharesAdded(c, d, v, x, amount, shares)
    BY <1>1, <1>4, <1>5, <1>6 DEF SharesAdded
  <1>. QED BY <1>7 DEF d

LEMMA HeldChanges ==
    ASSUME NEW c \in States, NEW d, NEW v \in Operators, NEW x \in Delegators,
           NEW m \in Int, NEW k \in Int, SharesAdded(c, d, v, x, m, k)
    PROVE  Held(d, v) = Held(c, v) + k
  <1>. DEFINE f == [y \in Delegators |-> c.dels[y][v]]
              g == [y \in Delegators |-> d.dels[y][v]]
  <1>1. f \in [Delegators -> Int] /\ g \in [Delegators -> Int] /\ IsFiniteSet(Delegators)
    <2>1. d \in States /\ IsFiniteSet(Delegators)
      BY ChainAssumption DEF SharesAdded
    <2>2. \A y \in Delegators : c.dels[y][v] \in Int
      BY DEF States
    <2>3. \A y \in Delegators : d.dels[y][v] \in Int
      BY <2>1 DEF States
    <2>. QED BY <2>1, <2>2, <2>3
  <1>2. \A y \in Delegators \ {x} : g[y] = f[y]
    BY DEF SharesAdded
  <1>3. g[x] = f[x] + k /\ f[x] \in Int /\ g[x] \in Int
    BY <1>1 DEF SharesAdded
  <1>4. Held(c, v) = SumFunction(f) /\ Held(d, v) = SumFunction(g)
    BY DEF Held
  <1>. HIDE DEF f, g
  <1>5. SumFunction(g) = SumFunction(f) + (g[x] - f[x]) /\ SumFunction(f) \in Int
    BY <1>1, <1>2, SumChange, SumIsWhole
  <1>. QED BY <1>3, <1>4, <1>5

LEMMA AddedBooks ==
    ASSUME NEW c \in States, NEW d, NEW v \in Operators, NEW x \in Delegators, NEW D,
           NEW m, NEW k, SharesAdded(c, d, v, x, m, k)
    PROVE  KeepsBooks(c, d, v, D) /\ SameFunds(c, d, v)
  <1>1. d.dist = c.dist /\ d.start = c.start /\ d.height = c.height /\ c.height \in Int
    BY DEF SharesAdded, SameButShares, States
  <1>. QED BY <1>1 DEF KeepsBooks, SameFunds

\* A delegation, started or not, buys shares.
LEMMA BuyingBalances ==
    ASSUME NEW c \in States, NEW v \in Operators, NEW x \in Delegators, NEW D,
           x \notin D, Balanced(c, v, D), \A y \in D : c.dels[y][v] > 0,
           NEW m \in Nat \ {0}
    PROVE  LET k == SharesFromTokens(c, v, m)
               d == AddShares(c, x, v, m, k)
           IN  /\ SharesAdded(c, d, v, x, m, k) /\ k \in Nat
               /\ Balanced(d, v, D) /\ (Open(c, v, D) => Open(d, v, D))
               /\ \A R \in Nat \ {0}, j \in Nat :
                     m = R * j /\ c.vals[v].tokens <= R * c.vals[v].shares =>
                        j <= k /\ d.vals[v].tokens <= R * d.vals[v].shares
  <1>. DEFINE t == c.vals[v].tokens
              s == c.vals[v].shares
              k == SharesFromTokens(c, v, m)
              d == AddShares(c, x, v, m, k)
  <1>1. t \in Nat /\ s \in Int /\ \A y \in Delegators : c.dels[y][v] \in Nat
    BY DEF States, Vals
  <1>2. /\ Held(c, v) \in Nat /\ Held(c, v) <= s /\ \A y \in Delegators : c.dels[y][v] <= Held(c, v)
        /\ t > 0 <=> s > 0
    BY HeldIsNatural DEF Balanced, Solvent
  <1>3. s \in Nat /\ D \subseteq Delegators
    BY <1>1, <1>2 DEF Balanced, Counted
  <1>4. k \in Nat /\ (s > 0 => k * t <= m * s) /\ (s = 0 => k = m /\ t = 0)
    <2>1. CASE s > 0
      <3>1. t > 0 /\ m * s \in Nat
        BY <1>1, <1>2, <1>3, <2>1
      <3>2. k = (m * s) \div t
        BY <2>1 DEF SharesFromTokens
      <3>3. k \in Nat /\ k * t <= m * s
        BY <1>1, <3>1, <3>2, QuotientFits
      <3>. QED BY <2>1, <3>3
    <2>2. CASE ~(s > 0)
      <3>1. k = m /\ s = 0 /\ t = 0
        BY <1>1, <1>2, <1>3, <2>2 DEF SharesFromTokens
      <3>. QED BY <3>1
    <2>. QED BY <2>1, <2>2
  <1>. HIDE DEF k
  <1>5. SharesAdded(c, d, v, x, m, k)
    <2>1. m \in Int /\ k \in Int /\ c.vals[v].tokens + m \in Nat /\ c.dels[x][v] + k \in Nat
      BY <1>1, <1>4
    <2>. QED BY <2>1, SharesAdd
  <1>. HIDE DEF d
  <1>6. d \in States /\ d.vals[v].tokens = t + m /\ d.vals[v].shares = s + k
        /\ \A y \in D : d.dels[y][v] = c.dels[y][v]
    BY <1>3, <1>5 DEF SharesAdded
  <1>7. Held(d, v) = Held(c, v) + k
    BY <1>4, <1>5, HeldChanges
  <1>8. Held(d, v) <= d.vals[v].shares
    BY <1>2, <1>3, <1>4, <1>6, <1>7
  <1>9. d.vals[v].tokens > 0 <=> d.vals[v].shares > 0
    BY <1>1, <1>2, <1>3, <1>4, <1>6
  <1>10. WorthAsMuch(c, d, v, D)
    <2>1. ASSUME NEW y \in D, NEW st \in Nat, st * s <= c.dels[y][v] * t
          PROVE  st * (s + k) <= c.dels[y][v] * (t + m)
      <3>1. s > 0 /\ c.dels[y][v] \in Nat
        BY <1>1, <1>2, <1>3
      <3>. HIDE DEF s, t
      <3>. QED BY <1>1, <1>3, <1>4, <2>1, <3>1, StakeAfterBuying
    <2>. QED BY <1>6, <2>1 DEF WorthAsMuch
  <1>11. KeepsBooks(c, d, v, D) /\ SameFunds(c, d, v)
    BY <1>5, AddedBooks
  <1>12. Balanced(d, v, D) /\ (Open(c, v, D) => Open(d, v, D))
    BY <1>6, <1>8, <1>9, <1>10, <1>11, SharesChange
  <1>13. ASSUME NEW R \in Nat \ {0}, NEW j \in Nat, m = R * j, t <= R * s
         PROVE  j <= k /\ t + m <= R * (s + k)
    <2>1. j <= k
      <3>1. CASE s > 0
        <4>1. t \in Nat \ {0}
          BY <1>1, <1>2, <3>1
        <4>2. k = (m * s) \div t
          BY <3>1 DEF k, SharesFromTokens, s, t
        <4>. HIDE DEF s, t
        <4>. QED BY <1>3, <1>13, <4>1, <4>2, EnoughShares
      <3>2. CASE ~(s > 0)
        <4>1. k = R * j
          BY <1>1, <1>3, <1>4, <1>13, <3>2
        <4>2. j <= R * j
          OBVIOUS
        <4>. QED BY <4>1, <4>2
      <3>. QED BY <3>1, <3>2
    <2>. HIDE DEF s, t
    <2>. QED BY <1>1, <1>3, <1>4, <1>13, <2>1, RateAfterBuying
  <1>. HIDE DEF t, s
  <1>14. \A R \in Nat \ {0}, j \in Nat :
            m = R * j /\ t <= R * s => j <= k /\ d.vals[v].tokens <= R * d.vals[v].shares
    BY <1>6, <1>13
  <1>. QED BY <1>4, <1>5, <1>12, <1>14 DEF k, d, t, s

\* A delegation that is paid sells all its shares.
LEMMA SellingBalances ==
    ASSUME NEW c \in States, NEW v \in Operators, NEW x \in Delegators, NEW D,
           x \notin D, Balanced(c, v, D), c.dels[x][v] > 0
    PROVE  LET m == TokensFromShares(c, v, c.dels[x][v])
               d == AddShares(c, x, v, -m, -c.dels[x][v])
           IN  /\ m \in Nat /\ m <= c.vals[v].tokens
               /\ SharesAdded(c, d, v, x, -m, -c.dels[x][v])
               /\ Balanced(d, v, D)
               /\ \A R \in Nat \ {0} : c.vals[v].tokens <= R * c.vals[v].shares =>
                                       d.vals[v].tokens <= R * d.vals[v].shares
  <1>. DEFINE t == c.vals[v].tokens
              s == c.vals[v].shares
              a == c.dels[x][v]
              m == TokensFromShares(c, v, a)
              d == AddShares(c, x, v, -m, -a)
  <1>1. t \in Nat /\ s \in Int /\ a \in Nat /\ \A y \in Delegators : c.dels[y][v] \in Nat
    BY DEF States, Vals
  <1>2. /\ Held(c, v) \in Nat /\ Held(c, v) <= s /\ a <= Held(c, v)
        /\ t > 0 <=> s > 0
    BY HeldIsNatural DEF Balanced, Solvent
  <1>3. s \in Nat \ {0} /\ t \in Nat \ {0} /\ a <= s /\ D \subseteq Delegators
    BY <1>1, <1>2 DEF Balanced, Counted
  <1>4. m = (a * t) \div s /\ a * t \in Nat
    BY <1>1, <1>3 DEF TokensFromShares
  <1>. HIDE DEF m, t, s, a
  <1>5. m \in Nat /\ m * s <= a * t /\ a * t < m * s + s
    BY <1>3, <1>4, QuotientFits
  <1>6. m <= t /\ (a < s => m < t) /\ (a = s => m = t)
    <2>1. CASE a < s
      <3>1. m < t
        BY <1>1, <1>3, <1>4, <2>1, SomethingLeft
      <3>. QED BY <1>1, <1>5, <2>1, <3>1
    <2>2. CASE a = s
      <3>1. m * s <= t * s /\ t * s < (m + 1) * s
        BY <1>1, <1>3, <1>5, <2>2
      <3>2. m <= t /\ t < m + 1
        BY <1>3, <1>5, <3>1
      <3>. QED BY <1>3, <1>5, <2>2, <3>2
    <2>. QED BY <1>1, <1>3, <2>1, <2>2
  <1>7. SharesAdded(c, d, v, x, -m, -a)
    <2>1. -m \in Int /\ -a \in Int /\ t + (-m) \in Nat /\ a + (-a) \in Nat
      BY <1>1, <1>3, <1>5, <1>6
    <2>2. c.vals[v].tokens + (-m) \in Nat /\ c.dels[x][v] + (-a) \in Nat
      BY <2>1 DEF t, a
    <2>. QED BY <2>1, <2>2, SharesAdd
  <1>. HIDE DEF d
  <1>8. d \in States /\ d.vals[v].tokens = t - m /\ d.vals[v].shares = s - a
        /\ \A y \in D : d.dels[y][v] = c.dels[y][v]
    <2>1. t + (-m) = t - m /\ s + (-a) = s - a
      BY <1>1, <1>3, <1>5
    <2>. QED BY <1>3, <1>7, <2>1 DEF SharesAdded, t, s
  <1>9. Held(d, v) = Held(c, v) - a
    <2>1. -m \in Int /\ -a \in Int
      BY <1>1, <1>5
    <2>2. Held(d, v) = Held(c, v) + (-a)
      BY <1>7, <2>1, HeldChanges
    <2>. QED BY <1>1, <1>2, <2>2
  <1>10. Held(d, v) <= d.vals[v].shares
    BY <1>1, <1>2, <1>3, <1>8, <1>9 DEF s
  <1>11. d.vals[v].tokens > 0 <=> d.vals[v].shares > 0
    BY <1>1, <1>3, <1>5, <1>6, <1>8
  <1>12. WorthAsMuch(c, d, v, D)
    <2>1. ASSUME NEW y \in D, NEW st \in Nat, st * s <= c.dels[y][v] * t
          PROVE  st * (s - a) <= c.dels[y][v] * (t - m)
      <3>1. c.dels[y][v] \in Nat /\ s > 0
        BY <1>1, <1>3
      <3>. QED BY <1>1, <1>3, <1>5, <1>6, <2>1, <3>1, StakeAfterSelling
    <2>. QED BY <1>8, <2>1 DEF WorthAsMuch, s, t
  <1>13. KeepsBooks(c, d, v, D) /\ SameFunds(c, d, v)
    BY <1>7, AddedBooks
  <1>14. Balanced(d, v, D)
    BY <1>8, <1>10, <1>11, <1>12, <1>13, SharesChange
  <1>15. \A R \in Nat \ {0} : t <= R * s => t - m <= R * (s - a)
    <2>1. s > 0 /\ s \in Nat /\ t \in Nat
      BY <1>3
    <2>. QED BY <1>1, <1>3, <1>5, <1>6, <2>1, RateAfterSelling
  <1>. QED BY <1>5, <1>6, <1>7, <1>8, <1>14, <1>15 DEF m, d, t, s, a

-----------------------------------------------------------------------------
(* A validator is slashed *)

\* At the end of its last period, which the slash refers to from now on.
Slashed(c, d, v) ==
    LET r == c.dist[v]
        s == d.dist[v]
        p == r.period - 1
    IN  /\ d \in States /\ d.start = c.start /\ d.dels = c.dels /\ d.height = c.height
        /\ s.outstanding = r.outstanding /\ s.rewards = r.rewards
        /\ s.commission = r.commission /\ s.period = r.period
        /\ s.slashes = Append(r.slashes, [height |-> c.height, period |-> p])
        /\ DOMAIN s.hist = DOMAIN r.hist
        /\ \A q \in DOMAIN r.hist :
              /\ s.hist[q].ratio = r.hist[q].ratio
              /\ s.hist[q].refs = IF q = p THEN 2 ELSE r.hist[q].refs
        /\ d.vals[v].tokens = c.vals[v].tokens - (c.vals[v].tokens \div 2)
        /\ d.vals[v].shares = c.vals[v].shares

\* The events of d are those of c and one more.
OneMore(c, d, v, e) ==
    LET n == Len(c.dist[v].slashes) IN
    /\ n \in Nat /\ DOMAIN d.dist[v].slashes = 1 .. (n + 1)
    /\ DOMAIN c.dist[v].slashes = 1 .. n
    /\ d.dist[v].slashes[n + 1] = e
    /\ \A i \in 1 .. n : d.dist[v].slashes[i] = c.dist[v].slashes[i]
    /\ SlashedAt(d, v) = SlashedAt(c, v) \cup {e.period}

LEMMA OneMoreSlash ==
    ASSUME NEW c \in States, NEW d, NEW v \in Operators,
           NEW e \in [height : Int, period : Int],
           d.dist[v].slashes = Append(c.dist[v].slashes, e)
    PROVE  OneMore(c, d, v, e)
  <1>. DEFINE T == [height : Int, period : Int]
              q == c.dist[v].slashes
              a == Append(q, e)
              n == Len(q)
  <1>1. q \in Seq(T) /\ e \in T
    BY DEF States, Records, SlashEvents
  <1>2. d.dist[v].slashes = a
    OBVIOUS
  <1>. HIDE DEF T, q
  <1>3. /\ n \in Nat /\ DOMAIN a = 1 .. (n + 1) /\ DOMAIN q = 1 .. n /\ a[n + 1] = e
        /\ \A i \in 1 .. n : a[i] = q[i]
    BY <1>1
  <1>. HIDE DEF a, n
  <1>4. {a[i].period : i \in 1 .. (n + 1)} = {q[i].period : i \in 1 .. n} \cup {e.period}
    <2>1. 1 .. (n + 1) = (1 .. n) \cup {n + 1}
      BY <1>3
    <2>2. {a[i].period : i \in (1 .. n) \cup {n + 1}}
             = {a[i].period : i \in 1 .. n} \cup {a[n + 1].period}
      OBVIOUS
    <2>3. {a[i].period : i \in 1 .. n} = {q[i].period : i \in 1 .. n}
      BY <1>3
    <2>. QED BY <1>3, <2>1, <2>2, <2>3
  <1>5. SlashedAt(d, v) = SlashedAt(c, v) \cup {e.period}
    BY <1>2, <1>3, <1>4 DEF SlashedAt, q
  <1>. QED BY <1>2, <1>3, <1>5 DEF n, q, OneMore

LEMMA SlashBalances ==
    ASSUME NEW c \in States, NEW d, NEW v \in Operators, NEW D,
           Balanced(c, v, D), Open(c, v, D), Slashed(c, d, v)
    PROVE  Balanced(d, v, D)
  <1>. DEFINE r == c.dist[v]
              s == d.dist[v]
              p == r.period - 1
              M == Marks(c, v, D)
              e == [height |-> c.height, period |-> p]
              n == Len(r.slashes)
  <1>1. /\ d \in States /\ d.height = c.height /\ d.dels = c.dels /\ d.start = c.start
        /\ s.period = r.period /\ D \in SUBSET Delegators
        /\ s.slashes = Append(r.slashes, e) /\ DOMAIN s.hist = DOMAIN r.hist
        /\ \A q \in DOMAIN r.hist :
              /\ s.hist[q].ratio = r.hist[q].ratio
              /\ s.hist[q].refs = IF q = p THEN 2 ELSE r.hist[q].refs
        /\ d.vals[v].tokens = c.vals[v].tokens - (c.vals[v].tokens \div 2)
        /\ d.vals[v].shares = c.vals[v].shares
    BY SMTT(30) DEF Slashed, Balanced, Counted
  <1>2. /\ r.period \in Int /\ r.period >= 1 /\ p \in Int /\ p >= 0 /\ c.height \in Int
        /\ p \in DOMAIN r.hist /\ DOMAIN r.hist = M \cup {p}
        /\ p \notin M /\ \A q \in M : q \in Int /\ q >= 0 /\ q < p
    <2>1. r.period \in Int /\ c.height \in Int
      BY DEF States, Records
    <2>2. /\ r.period >= 1 /\ DOMAIN r.hist = M \cup {p} /\ M \subseteq 0 .. p
      BY DEF Balanced, Counted
    <2>3. p \notin M /\ p \in Int /\ p >= 0 /\ p \in 0 .. p
      BY <2>1, <2>2 DEF Open
    <2>. HIDE DEF M, r, p
    <2>4. \A q \in 0 .. p : q \in Int /\ q >= 0 /\ q <= p
      BY <2>3
    <2>5. \A q \in M : q # p
      BY <2>3
    <2>6. ASSUME NEW q \in M PROVE q \in Int /\ q >= 0 /\ q < p
      <3>1. q \in 0 .. p
        BY <2>2
      <3>2. q \in Int /\ q >= 0 /\ q <= p /\ q # p
        BY <3>1, <2>4, <2>5
      <3>. QED BY <3>2, <2>3
    <2>7. p \in DOMAIN r.hist
      BY <2>2
    <2>. QED BY <2>1, <2>2, <2>3, <2>6, <2>7
  <1>3. e \in [height : Int, period : Int] /\ e.period = p /\ e.height = c.height
    BY <1>2
  <1>. HIDE DEF e, p
  <1>4. /\ n \in Nat /\ DOMAIN s.slashes = 1 .. (n + 1) /\ DOMAIN r.slashes = 1 .. n
        /\ s.slashes[n + 1] = e /\ \A i \in 1 .. n : s.slashes[i] = r.slashes[i]
        /\ SlashedAt(d, v) = SlashedAt(c, v) \cup {p}
    <2>1. d.dist[v].slashes = Append(c.dist[v].slashes, e)
      BY <1>1
    <2>2. OneMore(c, d, v, e)
      BY <1>3, <2>1, OneMoreSlash
    <2>. QED BY <1>3, <2>2 DEF OneMore
  <1>. HIDE DEF n
  <1>4a. \A i \in 1 .. (n + 1) : i \in 1 .. n \/ i = n + 1
    BY <1>4
  <1>5. Marks(d, v, D) = M \cup {p}
    BY <1>1, <1>4 DEF Marks
  <1>6. Counted(d, v, D)
    <2>1. D \subseteq Delegators /\ s.period >= 1 /\ s.period - 1 = p
      BY <1>1, <1>2 DEF p
    <2>2. \A q \in M \cup {p} : q \in 0 .. p
      BY <1>2
    <2>3. \A q \in M \cup {p} : s.hist[q].refs = (IF q = p THEN 1 ELSE 0) + 1
      <3>1. \A q \in M : r.hist[q].refs = 1
        BY <1>2 DEF Balanced, Counted, p
      <3>. HIDE DEF M, r, s
      <3>. QED BY <1>1, <1>2, <3>1
    <2>. HIDE DEF M, s, r
    <2>. QED BY <1>1, <1>2, <1>5, <2>1, <2>2, <2>3 DEF Counted, s
  <1>7. Apart(d, v, D)
    <2>1. \A i, j \in 1 .. n : i < j => r.slashes[i].period < r.slashes[j].period
      BY <1>4 DEF Balanced, Apart
    <2>2. \A i \in 1 .. n : r.slashes[i].period < p
      BY <1>2, <1>4 DEF Marks, SlashedAt
    <2>3. ASSUME NEW i \in 1 .. (n + 1), NEW j \in 1 .. (n + 1), i < j
          PROVE  s.slashes[i].period < s.slashes[j].period
      <3>1. i \in 1 .. n
        BY <1>4, <2>3
      <3>2. CASE j \in 1 .. n
        BY <1>4, <2>1, <2>3, <3>1, <3>2
      <3>3. CASE j = n + 1
        BY <1>3, <1>4, <2>2, <3>1, <3>3
      <3>. QED BY <1>4a, <3>2, <3>3
    <2>4. \A x \in D : c.start[x][v].period \in M
      BY DEF Marks
    <2>5. \A x \in D : c.start[x][v].period \notin SlashedAt(d, v)
      BY <1>2, <1>4, <2>4 DEF Balanced, Apart
    <2>6. \A x, y \in D : x # y => d.start[x][v].period # d.start[y][v].period
      BY <1>1 DEF Balanced, Apart
    <2>7. \A x \in D : d.start[x][v].period \notin SlashedAt(d, v)
      BY <1>1, <2>5
    <2>8. \A i, j \in DOMAIN s.slashes : i < j => s.slashes[i].period < s.slashes[j].period
      BY <1>4, <2>3
    <2>. QED BY <2>6, <2>7, <2>8 DEF Apart
  <1>8. Timely(d, v, D)
    <2>1. \A i \in 1 .. (n + 1) : s.slashes[i].height <= d.height
      <3>1. \A i \in 1 .. n : r.slashes[i].height <= c.height
        BY <1>4 DEF Balanced, Timely
      <3>2. \A i \in 1 .. n : s.slashes[i].height <= d.height
        BY <1>1, <1>4, <3>1
      <3>3. s.slashes[n + 1].height <= d.height
        BY SMTT(30), <1>1, <1>2, <1>3, <1>4
      <3>. QED BY <1>4a, <3>2, <3>3
    <2>2. ASSUME NEW x \in D PROVE c.start[x][v].height <= d.height /\ InTime(d, v, c.start[x][v])
      <3>1. c.start[x][v].height <= c.height /\ InTime(c, v, c.start[x][v])
        BY DEF Balanced, Timely
      <3>2. \A i \in 1 .. (n + 1) : s.slashes[i].period > c.start[x][v].period =>
                                      c.start[x][v].height <= s.slashes[i].height
        <4>1. \A i \in 1 .. n : r.slashes[i].period > c.start[x][v].period =>
                                    c.start[x][v].height <= r.slashes[i].height
          BY <1>4, <3>1 DEF InTime
        <4>2. \A i \in 1 .. n : s.slashes[i].period > c.start[x][v].period =>
                                    c.start[x][v].height <= s.slashes[i].height
          BY <1>4, <4>1
        <4>3. c.start[x][v].height <= s.slashes[n + 1].height
          BY <1>3, <1>4, <3>1
        <4>. QED BY <1>4a, <4>2, <4>3
      <3>. QED BY <1>1, <1>4, <2>1, <3>1, <3>2 DEF InTime
    <2>. QED BY <1>1, <1>4, <2>1, <2>2 DEF Timely
  <1>9. Rising(d, v)
    BY SMTT(30), <1>1 DEF Balanced, Rising
  <1>10. \A q \in Int : SameRatio(c, d, v, q)
    BY <1>1 DEF SameRatio, Hist
  <1>11. ASSUME NEW x \in D
         PROVE  LET a == Gathering(c, v, x)
                    b == Gathering(d, v, x)
                IN  /\ b.from = p /\ b.stake = a.stake \div 2 /\ b.sum = Due(c, v, x)
                    /\ ~b.panic /\ a.stake \in Nat
    <2>. DEFINE i == c.start[x][v]
                a == OverSlashes(c, v, i)
                b == OverSlashes(d, v, i)
                u == RewardsUpTo(d, v, a, p)
    <2>1. i \in Infos /\ InTime(c, v, i) /\ InTime(d, v, i) /\ i.height <= c.height
          /\ i.period \in M
      BY <1>1, <1>8 DEF Balanced, Timely, States, Marks
    <2>2. a = Gathering(c, v, x) /\ b = Gathering(d, v, x)
      BY SMTT(30), <1>1 DEF Gathering
    <2>3. /\ a \in Gathered /\ a.from \in M /\ ~a.panic /\ a.stake \in Nat
      BY <1>1, <2>2, GathersFromMarks DEF Balanced, Staked, Gathered
    <2>4. {i.period} \cup SlashedAt(c, v) \subseteq Int
      BY SMTT(30), <1>2, <2>1 DEF Marks
    <2>. HIDE DEF i
    <2>5. b = CutBySlash(d, v, i, a, e)
      BY <1>1, <1>3, <1>10, <2>1, <2>4, OverOneMoreSlash
    <2>6. i.height <= e.height /\ e.height <= d.height /\ e.period > i.period
      BY <1>1, <1>2, <1>3, <2>1
    <2>7. b = [u EXCEPT !.stake = a.stake \div 2]
      BY <1>3, <2>5, <2>6 DEF CutBySlash
    <2>8. u \in Gathered /\ u.from = p /\ u.sum = Due(c, v, x)
      <3>1. Hist(d, v, p).ratio = Hist(c, v, p).ratio
            /\ Hist(d, v, a.from).ratio = Hist(c, v, a.from).ratio
        BY <1>2, <1>10, <2>3 DEF SameRatio
      <3>2. u.sum = Due(c, v, x) /\ u.from = p
        BY <2>2, <3>1 DEF RewardsUpTo, Due, p
      <3>3. u \in Gathered
        <4>. HIDE DEF a
        <4>. QED BY <1>1, <1>2, <2>3, RewardsUpToGathers
      <3>. QED BY <3>2, <3>3
    <2>9. ~u.panic
      <3>1. a.from \in DOMAIN c.dist[v].hist /\ a.from \in Int /\ a.from < p
        BY <1>2, <2>3
      <3>2. Hist(c, v, a.from).ratio \in Nat /\ Hist(c, v, p).ratio \in Nat
            /\ Hist(c, v, a.from).ratio <= Hist(c, v, p).ratio
        <4>. HIDE DEF a
        <4>. QED BY <1>2, <3>1, LastRatioIsGreatest DEF Balanced, LastRatio, p
      <3>3. SameRatio(c, d, v, a.from) /\ SameRatio(c, d, v, p)
        BY <1>2, <1>10, <3>1
      <3>4. u.panic = (a.panic \/ a.from > p \/ Hist(d, v, p).ratio < Hist(d, v, a.from).ratio)
        BY DEF RewardsUpTo
      <3>. HIDE DEF a
      <3>5. ~(a.from > p) /\ ~(Hist(d, v, p).ratio < Hist(d, v, a.from).ratio)
        BY <1>2, <3>1, <3>2, <3>3 DEF SameRatio
      <3>. QED BY <2>3, <3>4, <3>5
    <2>. HIDE DEF a, b, u
    <2>10. b.from = p /\ b.stake = a.stake \div 2 /\ b.sum = Due(c, v, x) /\ ~b.panic
      BY <2>7, <2>8, <2>9 DEF Gathered
    <2>. QED BY <2>2, <2>3, <2>10
  <1>12. \A x \in D : Due(d, v, x) = Due(c, v, x) /\ Due(c, v, x) \in Nat
    <2>. TAKE x \in D
    <2>. DEFINE b == Gathering(d, v, x)
    <2>1. b.from = p /\ b.sum = Due(c, v, x) /\ b.stake \in Int /\ Due(c, v, x) \in Nat
      <3>1. Gathering(c, v, x).stake \div 2 \in Int
        BY <1>11
      <3>. QED BY <1>11, <3>1, DueIsNatural DEF Balanced
    <2>2. LastRatio(d, v) = Hist(d, v, p).ratio /\ Hist(d, v, p).ratio \in Int
      <3>1. d.dist[v].period - 1 = p
        BY <1>1 DEF p
      <3>. QED BY <1>1, <1>2, <3>1, HistIsARecord DEF LastRatio, Record
    <2>3. Due(d, v, x) = b.sum + (LastRatio(d, v) - Hist(d, v, b.from).ratio) * b.stake
      BY <1>1, DueIs
    <2>. HIDE DEF b
    <2>. QED BY <2>1, <2>2, <2>3
  <1>13. Dues(d, v, D) = Dues(c, v, D)
    BY <1>12, DuesAreTheSame
  <1>14. Held(d, v) = Held(c, v)
    BY <1>1 DEF Held
  <1>15. c.vals[v].tokens \in Nat /\ c.vals[v].shares \in Nat
    <2>1. c.vals[v].tokens \in Nat /\ c.vals[v].shares \in Int /\ Held(c, v) <= c.vals[v].shares
      BY DEF States, Vals, Balanced, Solvent
    <2>. QED BY <2>1, HeldIsNatural
  <1>16. Staked(d, v, D)
    <2>1. ASSUME NEW x \in D
          PROVE  LET b == Gathering(d, v, x) IN
                 /\ ~b.panic /\ b.sum >= 0 /\ b.stake >= 0
                 /\ b.stake * d.vals[v].shares <= d.dels[x][v] * d.vals[v].tokens
      <3>1. LET a == Gathering(c, v, x)
                b == Gathering(d, v, x)
            IN  b.stake = a.stake \div 2 /\ b.sum = Due(c, v, x) /\ ~b.panic /\ a.stake \in Nat
                /\ a.stake * c.vals[v].shares <= c.dels[x][v] * c.vals[v].tokens
        BY <1>11 DEF Balanced, Staked
      <3>2. c.dels[x][v] \in Nat
        BY <1>1 DEF States
      <3>3. (Gathering(c, v, x).stake \div 2) * c.vals[v].shares
               <= c.dels[x][v] * (c.vals[v].tokens - (c.vals[v].tokens \div 2))
        BY <1>15, <3>1, <3>2, StakeAfterSlash
      <3>4. Gathering(c, v, x).stake \div 2 >= 0
        BY <3>1
      <3>. QED BY <1>1, <1>12, <3>1, <3>3, <3>4
    <2>. QED BY <2>1 DEF Staked
  <1>17. Solvent(d, v, D)
    <2>1. d.vals[v].tokens > 0 <=> c.vals[v].tokens > 0
      BY <1>1, <1>15
    <2>2. /\ s.outstanding = r.outstanding /\ s.rewards = r.rewards
          /\ s.commission = r.commission
      BY DEF Slashed
    <2>. QED BY <1>1, <1>13, <1>14, <2>1, <2>2 DEF Balanced, Solvent
  <1>. QED BY <1>6, <1>7, <1>8, <1>9, <1>16, <1>17 DEF Balanced

-----------------------------------------------------------------------------
(* What is kept for every operator *)

\* Who delegates has started, and where nothing has been recorded nobody does.
\* The records hold numbers; those of a validator that is there are balanced, and
\* its tokens are worth no more than R a share.
WellKept(c, v) ==
    LET r == c.dist[v] IN
    /\ r.outstanding >= 0 /\ r.rewards >= 0 /\ r.commission >= 0 /\ c.vals[v].shares >= 0
    /\ \A p \in DOMAIN r.hist : p >= 0 /\ r.hist[p].ratio >= 0 /\ r.hist[p].refs \in 1 .. 3

Delegated(c, v) ==
    \A x \in Delegators : c.dels[x][v] > 0 <=> c.start[x][v] # NoInfo

Good(c, v, R) ==
    /\ Delegated(c, v) /\ WellKept(c, v)
    /\ c.dist[v].period = 0 => \A x \in Delegators : c.dels[x][v] = 0
    /\ Exists(c, v) => /\ Balanced(c, v, Started(c, v))
                       /\ c.vals[v].tokens <= R * c.vals[v].shares

Kept(c, R) == c.pool >= 0 /\ \A v \in Operators : Good(c, v, R)

\* The ledger of v is the same, and whether v is there.
Unmoved(c, d, v) == SameLedger(c, d, v) /\ (Exists(d, v) <=> Exists(c, v))

\* A call about v alone.
Elsewhere(c, d, v) == d \in States /\ \A w \in Operators \ {v} : Unmoved(c, d, w)

\* A balanced ledger holds numbers.
LEMMA BalancedIsWellKept ==
    ASSUME NEW c \in States, NEW v \in Operators, NEW D, Balanced(c, v, D)
    PROVE  WellKept(c, v) /\ c.dist[v].period # 0
  <1>1. /\ c.dist[v].outstanding \in Int /\ c.dist[v].rewards \in Int
        /\ c.dist[v].commission \in Int /\ c.vals[v].shares \in Int /\ c.dist[v].period \in Int
    BY DEF States, Records, Vals
  <1>2. Dues(c, v, D) \in Nat
    BY DuesAreWhole DEF Balanced
  <1>3. Held(c, v) \in Nat
    BY HeldIsNatural
  <1>4. /\ c.dist[v].outstanding >= 0 /\ c.dist[v].rewards >= 0 /\ c.dist[v].commission >= 0
        /\ c.vals[v].shares >= 0
    BY <1>1, <1>2, <1>3 DEF Balanced, Solvent
  <1>5. ASSUME NEW p \in DOMAIN c.dist[v].hist
        PROVE  p >= 0 /\ c.dist[v].hist[p].ratio >= 0 /\ c.dist[v].hist[p].refs \in 1 .. 3
    <2>1. c.dist[v].hist[p].ratio >= 0
      BY DEF Balanced, Rising
    <2>2. p \in Marks(c, v, D) \/ p = c.dist[v].period - 1
      BY DEF Balanced, Counted
    <2>3. p >= 0
      BY <1>1, <2>2 DEF Balanced, Counted
    <2>4. c.dist[v].hist[p].refs \in 1 .. 3
      BY <2>2 DEF Balanced, Counted
    <2>. QED BY <2>1, <2>3, <2>4
  <1>6. c.dist[v].period # 0
    BY <1>1 DEF Balanced, Counted
  <1>. QED BY <1>4, <1>5, <1>6 DEF WellKept

\* A validator whose ledger is balanced is well kept.
LEMMA GoodFromBalance ==
    ASSUME NEW c \in States, NEW v \in Operators, NEW R, Delegated(c, v),
           Balanced(c, v, Started(c, v)), c.vals[v].tokens <= R * c.vals[v].shares
    PROVE  Good(c, v, R)
  BY BalancedIsWellKept DEF Good

\* Where nothing has moved, what was kept is.
LEMMA GoodStays ==
    ASSUME NEW c \in States, NEW d \in States, NEW v \in Operators, NEW R,
           Good(c, v, R), Unmoved(c, d, v)
    PROVE  Good(d, v, R)
  <1>1. /\ d.dist[v] = c.dist[v] /\ \A x \in Delegators : d.start[x][v] = c.start[x][v]
        /\ \A x \in Delegators : d.dels[x][v] = c.dels[x][v]
        /\ d.vals[v].tokens = c.vals[v].tokens /\ d.vals[v].shares = c.vals[v].shares
        /\ Exists(d, v) <=> Exists(c, v)
    BY DEF Unmoved, SameLedger, SameShares
  <1>2. Started(d, v) = Started(c, v)
    BY <1>1 DEF Started
  <1>3. ASSUME Exists(d, v)
        PROVE  Balanced(d, v, Started(d, v))
    <2>1. Balanced(c, v, Started(c, v)) /\ SameLedger(c, d, v)
      BY <1>1, <1>3 DEF Good, Unmoved
    <2>2. Balanced(d, v, Started(c, v))
      BY <2>1, LedgerStays
    <2>. QED BY <1>2, <2>2
  <1>4. Delegated(d, v) /\ WellKept(d, v)
    BY <1>1 DEF Good, Delegated, WellKept
  <1>. QED BY <1>1, <1>3, <1>4 DEF Good

LEMMA KeptElsewhere ==
    ASSUME NEW c \in States, NEW d, NEW v \in Operators, NEW R,
           Kept(c, R), Elsewhere(c, d, v), Good(d, v, R), c.pool <= d.pool
    PROVE  Kept(d, R)
  <1>1. d \in States /\ d.pool >= 0
    BY DEF Elsewhere, Kept, States
  <1>2. ASSUME NEW w \in Operators
        PROVE  Good(d, w, R)
    BY <1>1, GoodStays DEF Elsewhere, Kept
  <1>. QED BY <1>1, <1>2 DEF Kept

\* Where nothing moves at all.
LEMMA KeptStays ==
    ASSUME NEW c \in States, NEW d \in States, NEW R, Kept(c, R),
           \A w \in Operators : Unmoved(c, d, w), c.pool <= d.pool
    PROVE  Kept(d, R)
  <1>1. d.pool >= 0
    BY DEF Kept, States
  <1>2. ASSUME NEW w \in Operators
        PROVE  Good(d, w, R)
    BY GoodStays DEF Kept
  <1>. QED BY <1>1, <1>2 DEF Kept

LEMMA UnmovedTwice ==
    ASSUME NEW c \in States, NEW d \in States, NEW e \in States, NEW v,
           Unmoved(c, d, v), Unmoved(d, e, v)
    PROVE  Unmoved(c, e, v)
  <1>1. c.height \in Nat /\ d.height \in Nat /\ e.height \in Nat
    BY DEF States
  <1>. QED BY <1>1 DEF Unmoved, SameLedger, SameShares

LEMMA ElsewhereTwice ==
    ASSUME NEW c \in States, NEW d, NEW e, NEW v \in Operators,
           Elsewhere(c, d, v), Elsewhere(d, e, v)
    PROVE  Elsewhere(c, e, v)
  BY UnmovedTwice DEF Elsewhere

\* A call of the distribution keeper about v.
LEMMA LedgerIsElsewhere ==
    ASSUME NEW c \in States, NEW d, NEW v \in Operators, OnlyLedger(c, d, v)
    PROVE  Elsewhere(c, d, v)
  <1>1. c.height \in Nat
    BY DEF States
  <1>. QED BY <1>1 DEF OnlyLedger, SameStaking, Elsewhere, Unmoved, SameLedger, SameShares, Exists

-----------------------------------------------------------------------------
(* Calls about one validator *)

\* A call of the distribution keeper after which the ledger of v is balanced.
LEMMA LedgerKept ==
    ASSUME NEW c \in States, NEW d, NEW v \in Operators, NEW R, Kept(c, R), Exists(c, v),
           OnlyLedger(c, d, v), Balanced(d, v, Started(d, v)), Delegated(d, v), c.pool <= d.pool
    PROVE  Kept(d, R)
  <1>1. d \in States /\ d.vals = c.vals
    BY DEF OnlyLedger, SameStaking
  <1>2. c.vals[v].tokens <= R * c.vals[v].shares
    BY DEF Kept, Good
  <1>3. Good(d, v, R)
    BY <1>1, <1>2, GoodFromBalance
  <1>. QED BY <1>3, KeptElsewhere, LedgerIsElsewhere

\* A delegation withdraws its rewards.
LEMMA WithdrawalKept ==
    ASSUME NEW c \in States, NEW x \in Delegators, NEW v \in Operators, NEW R,
           Kept(c, R), ~c.panic, Exists(c, v), c.dels[x][v] > 0
    PROVE  LET d == WithdrawDelegationRewards(c, x, v) IN
           /\ Kept(d, R) /\ OnlyLedger(c, d, v) /\ ~d.panic
           /\ Claim(c, v, x) \in Nat /\ d.distribution = c.distribution - Claim(c, v, x)
           /\ SameClaims(c, d, v, Started(c, v) \ {x})
  <1>. DEFINE d == WithdrawDelegationRewards(c, x, v)
              D == Started(c, v)
  <1>1. Good(c, v, R)
    BY DEF Kept
  <1>2. Balanced(c, v, D) /\ Delegated(c, v)
    BY <1>1 DEF Good
  <1>3. c.start[x][v] # NoInfo /\ x \in D
    BY <1>2 DEF Delegated, Started
  <1>. HIDE DEF D
  <1>4. /\ OnlyLedger(c, d, v) /\ Balanced(d, v, D) /\ d.start[x][v] # NoInfo
        /\ \A y \in Delegators \ {x} : d.start[y][v] = c.start[y][v]
        /\ Claim(c, v, x) \in Nat /\ d.distribution = c.distribution - Claim(c, v, x)
        /\ SameClaims(c, d, v, D \ {x}) /\ c.pool <= d.pool
    BY <1>2, <1>3, WithdrawalBalances
  <1>. HIDE DEF d
  <1>5. d.dels = c.dels /\ ~d.panic
    BY <1>4 DEF OnlyLedger, SameStaking
  <1>6. Delegated(d, v)
    BY <1>2, <1>3, <1>4, <1>5 DEF Delegated
  <1>7. Started(d, v) = D
    BY <1>3, <1>4 DEF Started, D
  <1>8. Kept(d, R)
    BY <1>4, <1>6, <1>7, LedgerKept
  <1>. QED BY <1>4, <1>5, <1>8 DEF d, D

\* A validator withdraws its commission.
LEMMA CommissionKept ==
    ASSUME NEW c \in States, NEW v \in Operators, NEW R, Kept(c, R), Exists(c, v)
    PROVE  LET d == WithdrawValidatorCommission(c, v) IN
           Kept(d, R) /\ OnlyLedger(c, d, v)
  <1>. DEFINE d == WithdrawValidatorCommission(c, v)
  <1>1. d \in States /\ SameStaking(c, d)
    BY CommissionDistributes DEF Distributes
  <1>2. /\ d.start = c.start /\ d.pool = c.pool /\ d.panic = c.panic
        /\ \A w \in Operators \ {v} : d.dist[w] = c.dist[w]
    BY DEF WithdrawValidatorCommission, States
  <1>3. Balanced(c, v, Started(c, v)) /\ Delegated(c, v)
    BY DEF Kept, Good
  <1>4. Balanced(d, v, Started(c, v))
    BY <1>3, CommissionBalances
  <1>. HIDE DEF d
  <1>5. OnlyLedger(c, d, v)
    BY <1>1, <1>2 DEF OnlyLedger
  <1>6. Started(d, v) = Started(c, v) /\ Delegated(d, v)
    BY <1>1, <1>2, <1>3 DEF Started, Delegated, SameStaking
  <1>7. c.pool <= d.pool
    BY <1>2 DEF States
  <1>8. Kept(d, R)
    BY <1>4, <1>5, <1>6, <1>7, LedgerKept
  <1>. QED BY <1>5, <1>8 DEF d

\* The fees of a block.
LEMMA AllocationKept ==
    ASSUME NEW c \in States, NEW v \in Operators, NEW R, Kept(c, R)
    PROVE  Kept(AllocateTokensToValidator(c, v), R)
  <1>. DEFINE d == AllocateTokensToValidator(c, v)
  <1>1. d \in States /\ SameStaking(c, d) /\ d.panic = c.panic
    BY AllocateDistributes DEF Distributes
  <1>2. c.dist[v] \in Records /\ Reward \in Nat /\ Commission \in 0 .. Reward
    BY ChainAssumption DEF States
  <1>3. /\ d.start = c.start /\ d.pool = c.pool
        /\ \A w \in Operators \ {v} : d.dist[w] = c.dist[w]
        /\ d.dist[v].hist = c.dist[v].hist /\ d.dist[v].period = c.dist[v].period
        /\ d.dist[v].outstanding = c.dist[v].outstanding + Reward
        /\ d.dist[v].commission = c.dist[v].commission + Commission
        /\ d.dist[v].rewards = c.dist[v].rewards + (Reward - Commission)
    BY <1>2 DEF AllocateTokensToValidator, States, Records
  <1>4. Good(c, v, R) /\ c.pool <= d.pool
    BY <1>3 DEF Kept, States
  <1>5. Exists(c, v) => Balanced(d, v, Started(c, v))
    BY <1>4, AllocationBalances DEF Good
  <1>. HIDE DEF d
  <1>6. OnlyLedger(c, d, v)
    BY <1>1, <1>3 DEF OnlyLedger
  <1>7. Started(d, v) = Started(c, v) /\ Delegated(d, v) /\ d.vals = c.vals /\ d.dels = c.dels
    BY <1>1, <1>3, <1>4 DEF Started, Delegated, SameStaking, Good
  <1>8. WellKept(d, v)
    <2>1. /\ c.dist[v].outstanding \in Int /\ c.dist[v].rewards \in Int
          /\ c.dist[v].commission \in Int
      BY <1>2 DEF Records
    <2>. QED BY <1>2, <1>3, <1>4, <1>7, <2>1 DEF WellKept, Good
  <1>9. Good(d, v, R)
    BY <1>3, <1>4, <1>5, <1>7, <1>8 DEF Good, Exists
  <1>10. Kept(d, R)
    BY <1>4, <1>6, <1>9, KeptElsewhere, LedgerIsElsewhere
  <1>. QED BY <1>10 DEF d

\* The begin blocker.
LEMMA BeginBlockKept ==
    ASSUME NEW c \in States, NEW R, Kept(c, R)
    PROVE  Kept(BeginBlock(c), R)
  <1>. DEFINE e == [c EXCEPT !.height = @ + 1]
              V == {d \in States : Kept(d, R)}
  <1>1. e \in States /\ c.height \in Nat /\ e.height = c.height + 1 /\ Kept(e, R)
    <2>0. c.height \in Nat /\ c.height + 1 \in Nat
      BY DEF States
    <2>1. e \in States /\ c.height \in Nat /\ e.height = c.height + 1
      BY <2>0 DEF States
    <2>2. \A w \in Operators : Unmoved(c, e, w)
      BY <2>1 DEF Unmoved, SameLedger, SameShares, Exists, States
    <2>3. e.pool = c.pool /\ c.pool <= e.pool
      BY DEF States
    <2>. QED BY <2>1, <2>2, <2>3, KeptStays
  <1>. HIDE DEF e
  <1>2. c.last \subseteq Operators /\ IsFiniteSet(c.last) /\ e.last = c.last
    <2>1. c.last \subseteq Operators /\ e.last = c.last
      BY DEF States, e
    <2>. QED BY <2>1, ChainAssumption, FS_Subset
  <1>3. ASSUME NEW v \in c.last, NEW d \in V
        PROVE  AllocateStep(v, d) \in V
    <2>1. v \in Operators /\ d \in States /\ Kept(d, R)
      BY <1>2, <1>3
    <2>2. AllocateTokensToValidator(d, v) \in V
      BY <2>1, AllocationKept, AllocateDistributes DEF Distributes
    <2>. QED BY <1>3, <2>2 DEF AllocateStep, Then
  <1>4. Allocating!Fold(e, c.last) \in V
    <2>1. Allocating!IsFiniteSet(c.last)
      BY <1>2 DEF IsFiniteSet, Allocating!IsFiniteSet
    <2>2. e \in V
      BY <1>1
    <2>. HIDE DEF V
    <2>. QED BY <1>3, <2>1, <2>2, Allocating!FoldKeeps
  <1>5. BeginBlock(c) = Allocating!Fold(e, c.last)
    BY <1>2, AllocateIsAFold DEF BeginBlock, AllocateTokens, e
  <1>. QED BY <1>4, <1>5

\* Nothing a ledger is made of changes.
SameBeside(c, d) ==
    /\ d.dist = c.dist /\ d.start = c.start /\ d.dels = c.dels /\ d.pool = c.pool
    /\ c.height <= d.height
    /\ \A w \in Operators : /\ d.vals[w].tokens = c.vals[w].tokens
                            /\ d.vals[w].shares = c.vals[w].shares
                            /\ Exists(d, w) <=> Exists(c, w)

LEMMA KeptBeside ==
    ASSUME NEW c \in States, NEW d \in States, NEW R, Kept(c, R), SameBeside(c, d)
    PROVE  Kept(d, R)
  <1>1. \A w \in Operators : Unmoved(c, d, w)
    BY DEF SameBeside, Unmoved, SameLedger, SameShares
  <1>2. c.pool <= d.pool
    BY DEF SameBeside, States
  <1>. QED BY <1>1, <1>2, KeptStays

\* A validator without tokens and shares is removed: nobody delegates to it.
LEMMA RemovalKept ==
    ASSUME NEW c \in States, NEW v \in Operators, NEW R, Kept(c, R), ~c.panic, Exists(c, v),
           c.vals[v].shares = 0
    PROVE  LET d == RemoveValidator(c, v) IN
           /\ d \in States /\ Kept(d, R) /\ ~d.panic
           /\ d.vals = [c.vals EXCEPT ![v] = NoValidator] /\ d.power = c.power \ {v}
  <1>. DEFINE a == WithdrawValidatorCommission(c, v)
              d == [a EXCEPT !.vals[v] = NoValidator, !.power = @ \ {v},
                             !.pool = @ + a.dist[v].outstanding, !.dist[v] = NoRecords]
  <1>1. Balanced(c, v, Started(c, v)) /\ Delegated(c, v)
    BY DEF Kept, Good
  <1>2. c.vals[v].tokens \in Nat /\ ~(c.vals[v].tokens > 0)
    BY <1>1 DEF Balanced, Solvent, States, Vals
  <1>3. Kept(a, R) /\ OnlyLedger(c, a, v)
    BY CommissionKept
  <1>4. RemoveValidator(c, v) = d
    <2>1. ~a.panic
      BY <1>3 DEF OnlyLedger
    <2>. HIDE DEF a
    <2>. QED BY <1>2, <2>1 DEF RemoveValidator, Then, a
  <1>. HIDE DEF a
  <1>5. a \in States /\ ~a.panic /\ a.vals = c.vals /\ a.dels = c.dels /\ a.power = c.power
        /\ a.height = c.height
    BY <1>3 DEF OnlyLedger, SameStaking
  <1>6. \A x \in Delegators : c.dels[x][v] = 0
    <2>1. Held(c, v) \in Nat /\ \A x \in Delegators : c.dels[x][v] <= Held(c, v)
      BY HeldIsNatural
    <2>2. Held(c, v) <= 0
      BY <1>1 DEF Balanced, Solvent
    <2>3. \A x \in Delegators : c.dels[x][v] \in Nat
      BY DEF States
    <2>. QED BY <2>1, <2>2, <2>3
  <1>7. WellKept(a, v) /\ Delegated(a, v)
    BY <1>3 DEF Kept, Good
  <1>8. a.dist[v].outstanding \in Int /\ a.pool \in Int
    BY <1>5 DEF States, Records
  <1>9. d \in States /\ d.panic = a.panic
    <2>1. NoValidator \in Vals /\ NoRecords \in Records
      BY NoRecordsAreRecords DEF NoValidator, Vals, Statuses
    <2>2. a.pool + a.dist[v].outstanding \in Int
      BY <1>8
    <2>. QED BY <1>5, <2>1, <2>2 DEF States
  <1>10. /\ d.vals = [a.vals EXCEPT ![v] = NoValidator] /\ d.power = a.power \ {v}
         /\ d.pool = a.pool + a.dist[v].outstanding /\ d.dist = [a.dist EXCEPT ![v] = NoRecords]
         /\ d.start = a.start /\ d.dels = a.dels /\ d.height = a.height
    BY <1>5 DEF States
  <1>. HIDE DEF d
  <1>11. d.dist[v] = NoRecords /\ d.vals[v] = NoValidator
         /\ \A w \in Operators \ {v} : d.dist[w] = a.dist[w] /\ d.vals[w] = a.vals[w]
    BY <1>5, <1>10 DEF States
  <1>12. Elsewhere(a, d, v)
    <2>1. a.height \in Nat
      BY <1>5 DEF States
    <2>. QED BY <1>9, <1>10, <1>11, <2>1 DEF Elsewhere, Unmoved, SameLedger, SameShares, Exists
  <1>13. a.pool <= d.pool
    BY <1>7, <1>8, <1>10 DEF WellKept
  <1>14. Good(d, v, R)
    <2>1. Delegated(d, v)
      BY <1>7, <1>10 DEF Delegated
    <2>2. WellKept(d, v)
      BY <1>11 DEF WellKept, NoRecords, NoValidator
    <2>3. ~Exists(d, v)
      BY <1>11 DEF Exists, NoValidator
    <2>. QED BY <1>5, <1>6, <1>10, <2>1, <2>2, <2>3 DEF Good
  <1>15. Kept(d, R)
    BY <1>3, <1>5, <1>12, <1>13, <1>14, KeptElsewhere
  <1>. QED BY <1>4, <1>5, <1>9, <1>10, <1>15

\* One more, or fewer, shares of v.
LEMMA SharesAreElsewhere ==
    ASSUME NEW c \in States, NEW d, NEW v \in Operators, NEW x \in Delegators, NEW m, NEW k,
           SharesAdded(c, d, v, x, m, k)
    PROVE  Elsewhere(c, d, v) /\ (Exists(d, v) <=> Exists(c, v))
  <1>1. c.height \in Nat
    BY DEF States
  <1>. QED BY <1>1 DEF SharesAdded, SameButShares, Elsewhere, Unmoved, SameLedger, SameShares, Exists

\* Nothing but the pools moves.
LEMMA PoolsMoveNothing ==
    ASSUME NEW c \in States, NEW d \in States, SameButPools(c, d)
    PROVE  SameBeside(c, d) /\ \A w \in Operators : Unmoved(c, d, w)
  <1>1. c.height \in Nat
    BY DEF States
  <1>2. SameBeside(c, d)
    BY <1>1 DEF SameButPools, SameBeside, Exists
  <1>. QED BY <1>2 DEF SameBeside, Unmoved, SameLedger, SameShares

LEMMA LedgerIsTheSame ==
    ASSUME NEW c \in States, NEW d \in States, NEW v \in Operators, NEW D, Unmoved(c, d, v),
           Balanced(c, v, D)
    PROVE  Balanced(d, v, D) /\ (Open(c, v, D) => Open(d, v, D))
  <1>1. SameLedger(c, d, v)
    BY DEF Unmoved
  <1>2. Balanced(d, v, D) /\ Marks(d, v, D) = Marks(c, v, D)
    BY <1>1, LedgerStays
  <1>. QED BY <1>1, <1>2 DEF Open, SameLedger

-----------------------------------------------------------------------------
(* Delegations *)

\* The first thing a delegation or an undelegation does: the delegation is paid, if
\* there is one, and the period of the validator ends.
Settled(c, d, v, D) ==
    /\ OnlyLedger(c, d, v) /\ Balanced(d, v, D) /\ Open(d, v, D) /\ c.pool <= d.pool
    /\ \A y \in D : d.start[y][v] = c.start[y][v]
    /\ \A y \in Delegators \ D : d.start[y][v] = NoInfo

LEMMA Settles ==
    ASSUME NEW c \in States, NEW x \in Delegators, NEW v \in Operators, NEW R,
           Kept(c, R), ~c.panic, Exists(c, v)
    PROVE  Settled(c, IF c.dels[x][v] > 0 THEN PayDelegation(c, x, v)
                      ELSE IncrementValidatorPeriod(c, v),
                   v, Started(c, v) \ {x})
  <1>. DEFINE D == Started(c, v)
              a == PayDelegation(c, x, v)
              b == IncrementValidatorPeriod(c, v)
  <1>1. Balanced(c, v, D) /\ Delegated(c, v)
    BY DEF Kept, Good
  <1>2. /\ \A y \in Delegators : c.dels[y][v] > 0 <=> y \in D
        /\ \A y \in Delegators \ D : c.start[y][v] = NoInfo
        /\ D \subseteq Delegators
    BY <1>1 DEF Delegated, Started
  <1>. HIDE DEF D
  <1>3. CASE c.dels[x][v] > 0
    <2>1. DelegationSettled(c, a, v, D, x)
      BY <1>1, <1>2, <1>3, DelegationSettles
    <2>. HIDE DEF a
    <2>2. Settled(c, a, v, D \ {x})
      BY <1>2, <2>1 DEF DelegationSettled, Settled
    <2>. QED BY <1>3, <2>2 DEF a, D
  <1>4. CASE ~(c.dels[x][v] > 0)
    <2>1. D \ {x} = D
      BY <1>2, <1>4
    <2>2. PeriodEnded(c, b, v, D)
      BY <1>1, PeriodEnds DEF Balanced
    <2>. HIDE DEF b
    <2>3. Balanced(b, v, D) /\ Open(b, v, D) /\ c.pool <= b.pool
      BY <1>1, <2>2, PeriodBalances, ClaimsOutlastThePeriod
    <2>4. OnlyLedger(c, b, v) /\ b.start = c.start
      BY <2>2 DEF PeriodEnded
    <2>5. Settled(c, b, v, D \ {x})
      BY <1>2, <2>1, <2>3, <2>4 DEF Settled
    <2>. QED BY <1>4, <2>5 DEF b, D
  <1>. QED BY <1>3, <1>4

\* Someone delegates R a share, j times.
LEMMA DelegationKept ==
    ASSUME NEW c \in States, NEW x \in Delegators, NEW v \in Operators, NEW R \in Nat \ {0},
           Kept(c, R), ~c.panic, Exists(c, v),
           NEW m \in Nat \ {0}, NEW j \in Nat \ {0}, m = R * j
    PROVE  LET d == Delegate(c, x, v, m) IN Kept(d, R) /\ ~d.panic
  <1>. DEFINE a == IF c.dels[x][v] > 0 THEN PayDelegation(c, x, v)
                   ELSE IncrementValidatorPeriod(c, v)
              b == Move(a, IsBonded(c, v), m)
              k == SharesFromTokens(c, v, m)
              e == AddShares(b, x, v, m, k)
              d == InitializeDelegation(e, x, v)
              D == Started(c, v) \ {x}
  <1>1. Good(c, v, R)
    BY DEF Kept
  <1>2. Balanced(c, v, Started(c, v)) /\ Delegated(c, v) /\ c.vals[v].tokens <= R * c.vals[v].shares
    BY <1>1 DEF Good
  <1>3. ~InvalidExRate(c, v)
    BY <1>2 DEF Balanced, Solvent, InvalidExRate, States, Vals
  <1>4. Settled(c, a, v, D)
    BY Settles
  <1>. HIDE DEF a
  <1>5. a \in States /\ ~a.panic /\ a.vals = c.vals /\ a.dels = c.dels
    BY <1>4 DEF Settled, OnlyLedger, SameStaking
  <1>6. Delegate(c, x, v, m) = d
    <2>1. Delegate(c, x, v, m) = IF InvalidExRate(c, v) THEN Panic(c)
                                 ELSE IF a.panic THEN a ELSE d
      BY DEF Delegate, Then, a
    <2>. HIDE DEF d
    <2>. QED BY <1>3, <1>5, <2>1
  <1>7. b \in States /\ OnlyBalances(a, b)
    <2>1. IsBonded(c, v) \in BOOLEAN /\ m \in Int
      BY DEF IsBonded
    <2>. QED BY <1>5, <2>1, Moves
  <1>8. k = SharesFromTokens(b, v, m)
    BY <1>5, <1>7 DEF SharesFromTokens, OnlyBalances, SameButPools
  <1>. HIDE DEF b
  <1>9. b.vals = c.vals /\ b.dels = c.dels /\ b.start = a.start /\ ~b.panic /\ b.pool = a.pool
    BY <1>5, <1>7 DEF OnlyBalances, SameButPools
  <1>10. Balanced(b, v, D) /\ Open(b, v, D) /\ x \notin D
         /\ \A w \in Operators : Unmoved(a, b, w)
    BY <1>4, <1>5, <1>7, PoolsMoveNothing, LedgerIsTheSame DEF OnlyBalances, Settled
  <1>11. \A y \in D : b.dels[y][v] > 0
    BY <1>2, <1>9 DEF Delegated, Started
  <1>12. /\ SharesAdded(b, e, v, x, m, k) /\ k \in Nat
         /\ Balanced(e, v, D) /\ (Open(b, v, D) => Open(e, v, D))
         /\ \A S \in Nat \ {0}, i \in Nat :
               m = S * i /\ b.vals[v].tokens <= S * b.vals[v].shares =>
                  i <= k /\ e.vals[v].tokens <= S * e.vals[v].shares
    BY <1>7, <1>8, <1>10, <1>11, BuyingBalances
  <1>. HIDE DEF e, k, D
  <1>13. j <= k /\ e.vals[v].tokens <= R * e.vals[v].shares
    BY <1>2, <1>9, <1>12
  <1>14. e \in States /\ ~e.panic /\ e.start = a.start /\ e.pool = a.pool
    BY <1>9, <1>12 DEF SharesAdded, SameButShares
  <1>15. DelegationAdded(e, d, v, D, x)
    BY <1>10, <1>12, <1>14, DelegationIsAdded
  <1>. HIDE DEF d
  <1>16. d \in States /\ ~d.panic /\ d.vals = e.vals /\ d.dels = e.dels
    BY <1>14, <1>15 DEF DelegationAdded, OnlyLedger, SameStaking
  <1>17. /\ d.start[x][v] # NoInfo
         /\ \A y \in D : d.start[y][v] = c.start[y][v]
         /\ \A y \in Delegators \ (D \cup {x}) : d.start[y][v] = NoInfo
    <2>1. \A y \in Delegators \ {x} : d.start[y][v] = a.start[y][v]
      BY <1>14, <1>15 DEF DelegationAdded
    <2>2. D \subseteq Delegators \ {x}
      BY DEF D, Started
    <2>3. \A y \in Delegators \ (D \cup {x}) : a.start[y][v] = NoInfo
      BY <1>4 DEF Settled
    <2>. QED BY <1>4, <1>15, <2>1, <2>2, <2>3 DEF DelegationAdded, Settled
  <1>18. d.dels[x][v] > 0 /\ \A y \in Delegators \ {x} : d.dels[y][v] = c.dels[y][v]
    <2>1. c.dels[x][v] \in Nat
      BY DEF States
    <2>2. d.dels[x][v] = c.dels[x][v] + k
      BY <1>9, <1>12, <1>16 DEF SharesAdded
    <2>3. \A y \in Delegators \ {x} : d.dels[y][v] = c.dels[y][v]
      BY <1>9, <1>12, <1>16 DEF SharesAdded
    <2>. QED BY <1>12, <1>13, <2>1, <2>2, <2>3
  <1>19. Started(d, v) = D \cup {x} /\ Delegated(d, v)
    <2>1. \A y \in D : c.start[y][v] # NoInfo /\ y \in Delegators
      BY DEF D, Started
    <2>2. \A y \in Delegators : y \in Started(c, v) <=> c.dels[y][v] > 0
      BY <1>2 DEF Delegated, Started
    <2>3. \A y \in Delegators \ {x} : y \in D <=> c.dels[y][v] > 0
      BY <2>2 DEF D
    <2>. QED BY <1>17, <1>18, <2>1, <2>3 DEF Started, Delegated
  <1>20. Good(d, v, R)
    BY <1>13, <1>15, <1>16, <1>19, GoodFromBalance DEF DelegationAdded
  <1>21. Elsewhere(c, d, v)
    <2>1. Elsewhere(c, a, v)
      BY <1>4, LedgerIsElsewhere DEF Settled
    <2>2. Elsewhere(a, b, v)
      BY <1>7, <1>10 DEF Elsewhere
    <2>3. Elsewhere(b, e, v)
      BY <1>7, <1>12, SharesAreElsewhere
    <2>4. Elsewhere(e, d, v)
      BY <1>14, <1>15, LedgerIsElsewhere DEF DelegationAdded
    <2>5. Elsewhere(c, b, v)
      BY <2>1, <2>2, ElsewhereTwice
    <2>6. Elsewhere(c, e, v)
      BY <2>3, <2>5, ElsewhereTwice
    <2>. QED BY <2>4, <2>6, ElsewhereTwice
  <1>22. c.pool <= d.pool
    <2>1. c.pool \in Int /\ a.pool \in Int /\ d.pool \in Int
      BY <1>5, <1>16 DEF States
    <2>. QED BY <1>4, <1>14, <1>15, <2>1 DEF Settled, DelegationAdded
  <1>23. Kept(d, R)
    BY <1>20, <1>21, <1>22, KeptElsewhere
  <1>. QED BY <1>6, <1>16, <1>23

\* Someone takes a whole delegation out, if the pool has the tokens for it.
LEMMA UnbondingKept ==
    ASSUME NEW c \in States, NEW x \in Delegators, NEW v \in Operators, NEW R \in Nat \ {0},
           Kept(c, R), ~c.panic, Exists(c, v), c.dels[x][v] > 0
    PROVE  LET d == Unbond(c, x, v) IN
           ~d.panic => /\ d \in States /\ Kept(d, R)
                       /\ \A w \in Operators \ {v} : Exists(d, w) <=> Exists(c, w)
  <1>. DEFINE a == PayDelegation(c, x, v)
              n == c.dels[x][v]
              m == TokensFromShares(c, v, n)
              e == AddShares(a, x, v, -m, -n)
              b == Burn(e, IsBonded(c, v), m)
              D == Started(c, v) \ {x}
              d == Unbond(c, x, v)
  <1>1. Balanced(c, v, Started(c, v)) /\ Delegated(c, v) /\ c.vals[v].tokens <= R * c.vals[v].shares
    BY DEF Kept, Good
  <1>2. Settled(c, a, v, D)
    <2>1. Settled(c, IF c.dels[x][v] > 0 THEN PayDelegation(c, x, v)
                     ELSE IncrementValidatorPeriod(c, v), v, D)
      BY Settles
    <2>. HIDE DEF D
    <2>. QED BY <2>1
  <1>3. d = LET f == IF a.panic THEN a ELSE IF m > c.vals[v].tokens THEN Panic(c) ELSE b
            IN  IF f.panic THEN f
                ELSE IF f.vals[v].shares = 0 /\ f.vals[v].status = "Unbonded"
                     THEN RemoveValidator(f, v) ELSE f
    BY DEF Unbond, Then
  <1>. HIDE DEF a, d
  <1>4. a \in States /\ ~a.panic /\ a.vals = c.vals /\ a.dels = c.dels
    BY <1>2 DEF Settled, OnlyLedger, SameStaking
  <1>5. m = TokensFromShares(a, v, a.dels[x][v]) /\ n = a.dels[x][v] /\ n \in Nat
    <2>1. a.dels[x][v] \in Nat
      BY <1>4 DEF States
    <2>. QED BY <1>4, <2>1 DEF TokensFromShares
  <1>6. /\ m \in Nat /\ m <= a.vals[v].tokens /\ SharesAdded(a, e, v, x, -m, -n)
        /\ Balanced(e, v, D)
        /\ \A S \in Nat \ {0} : a.vals[v].tokens <= S * a.vals[v].shares =>
                                e.vals[v].tokens <= S * e.vals[v].shares
    <2>1. x \notin D /\ Balanced(a, v, D)
      BY <1>2 DEF Settled
    <2>. HIDE DEF D
    <2>. QED BY <1>4, <1>5, <2>1, SellingBalances
  <1>. HIDE DEF e, m, n
  <1>7. e \in States /\ ~e.panic /\ e.start = a.start /\ e.pool = a.pool
    BY <1>4, <1>6 DEF SharesAdded, SameButShares
  <1>8. b \in States /\ SameButPools(e, b)
    <2>1. IsBonded(c, v) \in BOOLEAN
      BY DEF IsBonded
    <2>. QED BY <1>6, <1>7, <2>1, Burns
  <1>9. ~(m > c.vals[v].tokens)
    BY <1>4, <1>6 DEF States, Vals
  <1>. HIDE DEF b
  <1>. SUFFICES ASSUME ~d.panic
                PROVE  /\ d \in States /\ Kept(d, R)
                       /\ \A w \in Operators \ {v} : Exists(d, w) <=> Exists(c, w)
    BY DEF d
  <1>10. /\ ~b.panic
         /\ d = IF b.vals[v].shares = 0 /\ b.vals[v].status = "Unbonded"
                THEN RemoveValidator(b, v) ELSE b
    BY <1>3, <1>4, <1>9
  <1>11. /\ \A w \in Operators : Unmoved(e, b, w)
         /\ b.start = a.start /\ b.pool = a.pool /\ b.dels = e.dels /\ b.vals = e.vals
    BY <1>7, <1>8, PoolsMoveNothing DEF SameButPools
  <1>12. Balanced(b, v, D)
    BY <1>6, <1>7, <1>8, <1>11, LedgerIsTheSame
  <1>13. b.dels[x][v] = 0 /\ \A y \in Delegators \ {x} : b.dels[y][v] = c.dels[y][v]
    <2>1. b.dels[x][v] = n + -n
      BY <1>5, <1>6, <1>11 DEF SharesAdded
    <2>2. \A y \in Delegators \ {x} : b.dels[y][v] = c.dels[y][v]
      BY <1>4, <1>6, <1>11 DEF SharesAdded
    <2>. QED BY <1>5, <2>1, <2>2
  <1>14. Started(b, v) = D /\ Delegated(b, v)
    <2>1. \A y \in D : b.start[y][v] # NoInfo /\ y \in Delegators
      BY <1>2, <1>11 DEF D, Started, Settled
    <2>2. \A y \in Delegators \ D : b.start[y][v] = NoInfo
      BY <1>2, <1>11 DEF Settled
    <2>3. \A y \in Delegators : y \in Started(c, v) <=> c.dels[y][v] > 0
      BY <1>1 DEF Delegated, Started
    <2>4. \A y \in Delegators : y \in D <=> b.dels[y][v] > 0
      BY <1>13, <2>3 DEF D
    <2>. HIDE DEF D
    <2>. QED BY <2>1, <2>2, <2>4 DEF Started, Delegated
  <1>15. Good(b, v, R)
    <2>1. b.vals[v].tokens <= R * b.vals[v].shares
      BY <1>1, <1>4, <1>6, <1>11
    <2>. QED BY <1>8, <1>12, <1>14, <2>1, GoodFromBalance
  <1>16. Elsewhere(c, b, v)
    <2>1. Elsewhere(c, a, v)
      BY <1>2, LedgerIsElsewhere DEF Settled
    <2>2. Elsewhere(a, e, v)
      BY <1>4, <1>6, SharesAreElsewhere
    <2>3. Elsewhere(e, b, v)
      BY <1>8, <1>11 DEF Elsewhere
    <2>4. Elsewhere(c, e, v)
      BY <2>1, <2>2, ElsewhereTwice
    <2>. QED BY <2>3, <2>4, ElsewhereTwice
  <1>17. Kept(b, R)
    <2>1. c.pool <= b.pool
      BY <1>2, <1>11 DEF Settled
    <2>. QED BY <1>15, <1>16, <2>1, KeptElsewhere
  <1>18. Exists(b, v)
    BY <1>4, <1>6, <1>11, SharesAreElsewhere DEF Exists
  <1>21. \A w \in Operators \ {v} : Exists(b, w) <=> Exists(c, w)
    BY <1>16 DEF Elsewhere, Unmoved
  <1>19. CASE b.vals[v].shares = 0 /\ b.vals[v].status = "Unbonded"
    <2>1. d \in States /\ Kept(d, R) /\ d.vals = [b.vals EXCEPT ![v] = NoValidator]
      BY <1>8, <1>10, <1>17, <1>18, <1>19, RemovalKept
    <2>2. \A w \in Operators \ {v} : d.vals[w] = b.vals[w]
      BY <1>8, <2>1 DEF States
    <2>. QED BY <1>21, <2>1, <2>2 DEF Exists
  <1>20. CASE ~(b.vals[v].shares = 0 /\ b.vals[v].status = "Unbonded")
    BY <1>8, <1>10, <1>17, <1>20, <1>21
  <1>. QED BY <1>19, <1>20

\* An undelegation.
LEMMA UndelegationKept ==
    ASSUME NEW c \in States, NEW x \in Delegators, NEW v \in Operators, NEW R \in Nat \ {0},
           Kept(c, R), ~c.panic, Exists(c, v), c.dels[x][v] > 0
    PROVE  LET d == Undelegate(c, x, v) IN ~d.panic => Kept(d, R)
  <1>. DEFINE a == Unbond(c, x, v)
              m == TokensFromShares(c, v, c.dels[x][v])
              u == [id |-> c.ids, del |-> x, val |-> v, amount |-> m, height |-> c.height]
              b == Move(a, FALSE, m)
              e == [b EXCEPT !.ids = @ + 1, !.ubds = @ \cup {u}]
              d == Undelegate(c, x, v)
  <1>1. d = IF a.panic THEN a ELSE IF c.vals[v].status = "Unbonded" THEN a ELSE e
    BY DEF Undelegate, Then
  <1>2. d \in States
    BY UndelegateKeeps DEF Keeps
  <1>3. ~a.panic => a \in States /\ Kept(a, R)
    BY UnbondingKept
  <1>4. m \in Int
    <2>1. c.dels[x][v] \in Nat
      BY DEF States
    <2>. QED BY <2>1, TokensAreNatural
  <1>. HIDE DEF a, d, m, u
  <1>5. CASE ~a.panic /\ d = e
    <2>1. b \in States /\ OnlyBalances(a, b)
      BY <1>3, <1>4, <1>5, MovesFree
    <2>. HIDE DEF b
    <2>2. /\ e.dist = b.dist /\ e.start = b.start /\ e.dels = b.dels /\ e.pool = b.pool
          /\ e.height = b.height /\ e.vals = b.vals
      BY <2>1 DEF States
    <2>. HIDE DEF e
    <2>3. a.height \in Nat /\ e \in States
      BY <1>2, <1>3, <1>5 DEF States
    <2>4. SameBeside(a, e)
      BY <2>1, <2>2, <2>3 DEF OnlyBalances, SameButPools, SameBeside, Exists
    <2>5. Kept(e, R)
      BY <1>3, <1>5, <2>3, <2>4, KeptBeside
    <2>. QED BY <1>5, <2>5 DEF d
  <1>6. CASE d = a
    BY <1>3, <1>6 DEF d
  <1>. QED BY <1>1, <1>5, <1>6

\* A redelegation, to a validator with tokens.
LEMMA RedelegationKept ==
    ASSUME NEW c \in States, NEW x \in Delegators, NEW v \in Operators,
           NEW w \in Operators \ {v},
           Kept(c, 1), ~c.panic, Exists(c, v), Exists(c, w), c.dels[x][v] > 0
    PROVE  LET d == Redelegate(c, x, v, w) IN ~d.panic => Kept(d, 1)
  <1>. DEFINE a == Unbond(c, x, v)
              m == TokensFromShares(c, v, c.dels[x][v])
              u == [id |-> c.ids, del |-> x, val |-> v, amount |-> m, height |-> c.height]
              b == Delegate(a, x, w, m)
              e == [b EXCEPT !.ids = @ + 1, !.reds = @ \cup {u}]
              d == Redelegate(c, x, v, w)
  <1>1. d = IF m = 0 THEN Panic(c)
            ELSE LET f == IF a.panic THEN a ELSE b IN
                 IF f.panic THEN f ELSE IF c.vals[v].status = "Unbonded" THEN f ELSE e
    BY DEF Redelegate, Then
  <1>2. d \in States
    BY RedelegateKeeps DEF Keeps
  <1>3. ~a.panic => a \in States /\ Kept(a, 1) /\ Exists(a, w)
    BY UnbondingKept
  <1>4. m \in Nat
    <2>1. c.dels[x][v] \in Nat
      BY DEF States
    <2>. QED BY <2>1, TokensAreNatural
  <1>5. Panic(c).panic
    BY PanicDistributes
  <1>. SUFFICES ASSUME ~d.panic PROVE Kept(d, 1)
    BY DEF d
  <1>. HIDE DEF a, d, m, u
  <1>6. ~a.panic /\ m # 0
    BY <1>1, <1>5
  <1>7. Kept(b, 1)
    <2>1. m \in Nat \ {0} /\ m = 1 * m
      BY <1>4, <1>6
    <2>. QED BY <1>3, <1>6, <2>1, DelegationKept
  <1>8. b \in States
    BY <1>3, <1>4, <1>6, DelegateKeeps DEF Keeps
  <1>. HIDE DEF b
  <1>9. CASE d = e
    <2>1. /\ e.dist = b.dist /\ e.start = b.start /\ e.dels = b.dels /\ e.pool = b.pool
          /\ e.height = b.height /\ e.vals = b.vals
      BY <1>8 DEF States
    <2>. HIDE DEF e
    <2>2. b.height \in Nat /\ e \in States
      BY <1>2, <1>8, <1>9 DEF States
    <2>3. SameBeside(b, e)
      BY <2>1, <2>2 DEF SameBeside, Exists
    <2>. QED BY <1>7, <1>8, <1>9, <2>2, <2>3, KeptBeside
  <1>10. CASE d = b
    BY <1>7, <1>10
  <1>. QED BY <1>1, <1>6, <1>9, <1>10

-----------------------------------------------------------------------------
(* Slashes *)

\* A burn that the pool has the tokens for.
LEMMA BurnSucceeds ==
    ASSUME NEW c \in States, NEW b \in BOOLEAN, NEW m \in Nat, ~c.panic,
           m <= IF b THEN c.bonded ELSE c.notBonded
    PROVE  LET d == Burn(c, b, m) IN
           /\ d \in States /\ SameButPools(c, d) /\ ~d.panic
           /\ d.bonded = c.bonded - (IF b THEN m ELSE 0)
           /\ d.notBonded = c.notBonded - (IF b THEN 0 ELSE m)
  <1>1. c.bonded \in Int /\ c.notBonded \in Int
    BY DEF States
  <1>2. Burn(c, b, m) = Move(c, b, -m)
    BY <1>1 DEF Burn
  <1>3. -m \in Int
    OBVIOUS
  <1>4. /\ Move(c, b, -m) \in States /\ OnlyBalances(c, Move(c, b, -m))
        /\ b => /\ Move(c, b, -m).bonded = c.bonded + -m
                /\ Move(c, b, -m).notBonded = c.notBonded
        /\ ~b => /\ Move(c, b, -m).bonded = c.bonded
                 /\ Move(c, b, -m).notBonded = c.notBonded + -m
    BY <1>3, Moves
  <1>. QED BY <1>1, <1>2, <1>4 DEF OnlyBalances

\* The validators, v with fewer tokens and in jail.
WithJailed(c, v, lost) ==
    [c.vals EXCEPT ![v] = [c.vals[v] EXCEPT !.tokens = c.vals[v].tokens - lost, !.jailed = TRUE]]

\* The event, after the period has ended and its record is referred to.
SlashedBy(b, d, v, p, lost) ==
    /\ d.start = b.start /\ d.dels = b.dels /\ d.height = b.height /\ d.pool = b.pool
    /\ d.dist = [b.dist EXCEPT ![v].slashes =
                    Append(@, [height |-> b.height, period |-> p])]
    /\ d.vals = WithJailed(b, v, lost)
    /\ d.power = b.power \ {v} /\ d.queue = b.queue /\ d.last = b.last
    /\ d.ubds = b.ubds /\ d.signing = b.signing

LEMMA EventIsRecorded ==
    ASSUME NEW b \in States, ~b.panic, NEW v \in Operators, NEW p \in Int, NEW bonded \in BOOLEAN,
           NEW lost \in Nat, lost <= b.vals[v].tokens,
           lost <= IF bonded THEN b.bonded ELSE b.notBonded
    PROVE  LET d == Burn(Jail(RecordSlash(b, v, p), v, lost), bonded, lost) IN
           /\ d \in States /\ ~d.panic /\ SlashedBy(b, d, v, p, lost)
           /\ d.bonded = b.bonded - (IF bonded THEN lost ELSE 0)
           /\ d.notBonded = b.notBonded - (IF bonded THEN 0 ELSE lost)
  <1>. DEFINE e == RecordSlash(b, v, p)
              f == Jail(e, v, lost)
              d == Burn(f, bonded, lost)
  <1>1. /\ e \in States /\ SameStaking(b, e) /\ e.panic = b.panic
        /\ e.start = b.start /\ e.pool = b.pool
        /\ e.dist = [b.dist EXCEPT ![v].slashes =
                        Append(@, [height |-> b.height, period |-> p])]
    <2>1. e \in States /\ SameStaking(b, e)
      BY RecordSlashDistributes DEF Distributes
    <2>2. /\ e.panic = b.panic /\ e.start = b.start /\ e.pool = b.pool
          /\ e.dist = [b.dist EXCEPT ![v].slashes =
                          Append(@, [height |-> b.height, period |-> p])]
      BY DEF RecordSlash, States
    <2>. QED BY <2>1, <2>2
  <1>. HIDE DEF e
  <1>2. /\ f \in States /\ f.panic = e.panic /\ f.start = e.start /\ f.dels = e.dels
        /\ f.height = e.height /\ f.pool = e.pool /\ f.dist = e.dist
        /\ f.vals = WithJailed(e, v, lost)
        /\ f.power = e.power \ {v} /\ f.queue = e.queue /\ f.last = e.last
        /\ f.bonded = e.bonded /\ f.notBonded = e.notBonded
        /\ f.ubds = e.ubds /\ f.signing = e.signing
    <2>1. e.vals[v] \in Vals /\ e.vals[v].tokens - lost \in Nat
      BY <1>1 DEF SameStaking, States, Vals
    <2>2. [e.vals[v] EXCEPT !.tokens = @ - lost, !.jailed = TRUE] \in Vals
      BY <2>1 DEF Vals
    <2>3. f \in States
      BY <1>1, <2>2 DEF Jail, States
    <2>4. f.vals = WithJailed(e, v, lost)
      BY <1>1 DEF Jail, States, WithJailed
    <2>. QED BY <1>1, <2>3, <2>4 DEF Jail, States
  <1>. HIDE DEF f
  <1>3. f.bonded = b.bonded /\ f.notBonded = b.notBonded /\ ~f.panic
    BY <1>1, <1>2 DEF SameStaking
  <1>4. /\ d \in States /\ SameButPools(f, d) /\ ~d.panic
        /\ d.bonded = f.bonded - (IF bonded THEN lost ELSE 0)
        /\ d.notBonded = f.notBonded - (IF bonded THEN 0 ELSE lost)
    BY <1>2, <1>3, BurnSucceeds
  <1>. HIDE DEF d
  <1>5. SlashedBy(b, d, v, p, lost)
    BY <1>1, <1>2, <1>4 DEF SameStaking, SameButPools, SlashedBy, WithJailed
  <1>. QED BY <1>3, <1>4, <1>5 DEF d, f, e

\* A slash of a validator whose pool has its tokens goes well.
LEMMA SlashKept ==
    ASSUME NEW c \in States, NEW v \in Operators, NEW R \in Nat \ {0},
           Kept(c, R), ~c.panic, Exists(c, v),
           c.vals[v].tokens <= IF IsBonded(c, v) THEN c.bonded ELSE c.notBonded
    PROVE  LET d == Slash(c, v) IN
           /\ d \in States /\ Kept(d, R) /\ ~d.panic
           /\ \E lost \in Nat :
                 /\ d.vals = WithJailed(c, v, lost)
                 /\ d.bonded = c.bonded - (IF IsBonded(c, v) THEN lost ELSE 0)
                 /\ lost <= c.vals[v].tokens
           /\ d.power = c.power \ {v} /\ d.queue = c.queue /\ d.last = c.last
           /\ d.signing = c.signing /\ d.height = c.height
  <1>. DEFINE p == c.dist[v].period
              t == c.vals[v].tokens
              lost == t \div 2
              a == IncrementValidatorPeriod(c, v)
              b == IncrementReferenceCount(a, v, p)
              d == Burn(Jail(RecordSlash(b, v, p), v, lost), IsBonded(c, v), lost)
              D == Started(c, v)
  <1>1. Balanced(c, v, D) /\ Delegated(c, v) /\ t <= R * c.vals[v].shares
    BY DEF Kept, Good
  <1>2. p \in Int /\ t \in Nat /\ lost \in Nat /\ lost <= t
    <2>1. p \in Int /\ t \in Nat
      BY DEF States, Records, Vals
    <2>. HIDE DEF t, p
    <2>. QED BY <2>1
  <1>. HIDE DEF D
  <1>3. PeriodEnded(c, a, v, D)
    BY <1>1, PeriodEnds DEF Balanced
  <1>4. Slash(c, v) = IF (IF a.panic THEN a ELSE b).panic THEN (IF a.panic THEN a ELSE b) ELSE d
    BY DEF Slash, Then
  <1>. HIDE DEF a, lost, d
  <1>5. /\ a \in States /\ ~a.panic /\ SameStaking(c, a) /\ a.start = c.start
        /\ a.dist[v].period - 1 = p /\ p \in DOMAIN a.dist[v].hist
        /\ a.dist[v].hist[p].refs = 1
    BY <1>2, <1>3 DEF PeriodEnded, OnlyLedger
  <1>6. Balanced(a, v, D) /\ Open(a, v, D) /\ c.pool <= a.pool
    BY <1>1, <1>3, PeriodBalances, ClaimsOutlastThePeriod
  <1>7. /\ OnlyHistory(a, b, v) /\ DOMAIN b.dist[v].hist = DOMAIN a.dist[v].hist
        /\ \A q \in DOMAIN a.dist[v].hist :
              /\ b.dist[v].hist[q].ratio = a.dist[v].hist[q].ratio
              /\ b.dist[v].hist[q].refs = IF q = p THEN a.dist[v].hist[p].refs + 1
                                          ELSE a.dist[v].hist[q].refs
    <2>1. a \in States /\ v \in Operators /\ p \in DOMAIN a.dist[v].hist /\ a.dist[v].hist[p].refs <= 2
      BY <1>5
    <2>. HIDE DEF p
    <2>. QED BY <2>1, Incremented
  <1>. HIDE DEF b, p
  <1>8. /\ b \in States /\ ~b.panic /\ SameStaking(a, b) /\ b.start = a.start /\ b.pool = a.pool
    BY <1>5, <1>7 DEF OnlyHistory, OnlyLedger, SameAccounts
  <1>9. /\ b.vals = c.vals /\ b.dels = c.dels /\ b.height = c.height /\ b.power = c.power
        /\ b.queue = c.queue /\ b.last = c.last /\ b.signing = c.signing
        /\ b.bonded = c.bonded /\ b.notBonded = c.notBonded
    BY <1>5, <1>8 DEF SameStaking
  <1>10. lost <= b.vals[v].tokens /\ lost <= IF IsBonded(c, v) THEN b.bonded ELSE b.notBonded
    <2>1. c.bonded \in Int /\ c.notBonded \in Int
      BY DEF States
    <2>. QED BY <1>2, <1>9, <2>1
  <1>11. /\ d \in States /\ ~d.panic /\ SlashedBy(b, d, v, p, lost)
         /\ d.bonded = b.bonded - (IF IsBonded(c, v) THEN lost ELSE 0)
    <2>1. IsBonded(c, v) \in BOOLEAN
      BY DEF IsBonded
    <2>. QED BY <1>2, <1>8, <1>10, <2>1, EventIsRecorded DEF d
  <1>12. Slash(c, v) = d
    BY <1>4, <1>5, <1>8
  <1>13. /\ d.vals[v].tokens = c.vals[v].tokens - lost /\ d.vals[v].shares = c.vals[v].shares
         /\ Exists(d, v) /\ \A w \in Operators \ {v} : d.vals[w] = c.vals[w]
    BY <1>9, <1>11 DEF SlashedBy, WithJailed, States, Vals, Exists
  <1>14. /\ d.dist[v] = [b.dist[v] EXCEPT !.slashes =
                            Append(b.dist[v].slashes, [height |-> b.height, period |-> p])]
         /\ \A w \in Operators \ {v} : d.dist[w] = b.dist[w]
    BY <1>8, <1>11 DEF SlashedBy, States
  <1>15. Slashed(a, d, v)
    <2>1. b.dist[v] \in Records
      BY <1>8 DEF States
    <2>2. /\ d.dist[v].outstanding = b.dist[v].outstanding /\ d.dist[v].rewards = b.dist[v].rewards
          /\ d.dist[v].commission = b.dist[v].commission /\ d.dist[v].period = b.dist[v].period
          /\ d.dist[v].slashes = Append(b.dist[v].slashes, [height |-> b.height, period |-> p])
          /\ d.dist[v].hist = b.dist[v].hist
      BY <1>14, <2>1 DEF Records
    <2>3. /\ d.start = a.start /\ d.dels = a.dels /\ d.height = a.height
          /\ a.vals = c.vals /\ a.height = b.height
      BY <1>5, <1>8, <1>11 DEF SlashedBy, SameStaking
    <2>4. /\ b.dist[v].outstanding = a.dist[v].outstanding /\ b.dist[v].rewards = a.dist[v].rewards
          /\ b.dist[v].commission = a.dist[v].commission /\ b.dist[v].period = a.dist[v].period
          /\ b.dist[v].slashes = a.dist[v].slashes
      BY <1>7 DEF OnlyHistory
    <2>5. \A q \in DOMAIN a.dist[v].hist :
             /\ d.dist[v].hist[q].ratio = a.dist[v].hist[q].ratio
             /\ d.dist[v].hist[q].refs = IF q = p THEN 2 ELSE a.dist[v].hist[q].refs
      BY <1>5, <1>7, <2>2
    <2>6. d.vals[v].tokens = a.vals[v].tokens - (a.vals[v].tokens \div 2)
      BY <1>13, <2>3 DEF lost
    <2>. QED BY <1>5, <1>7, <1>11, <1>13, <2>2, <2>3, <2>4, <2>5, <2>6 DEF Slashed
  <1>16. Balanced(d, v, D)
    BY <1>5, <1>6, <1>15, SlashBalances
  <1>17. d.start = c.start /\ d.dels = c.dels /\ d.pool = a.pool /\ d.height = c.height
    BY <1>5, <1>8, <1>9, <1>11 DEF SlashedBy
  <1>18. Started(d, v) = D /\ Delegated(d, v)
    BY <1>1, <1>17 DEF Started, Delegated, D
  <1>19. Good(d, v, R)
    <2>1. c.vals[v].shares \in Int
      BY DEF States, Vals
    <2>2. R * c.vals[v].shares \in Int
      BY <2>1
    <2>3. d.vals[v].tokens <= R * d.vals[v].shares
      BY <1>1, <1>2, <1>13, <2>2
    <2>. QED BY <1>11, <1>16, <1>18, <2>3, GoodFromBalance
  <1>20. Elsewhere(c, d, v)
    <2>1. \A w \in Operators \ {v} : d.dist[w] = c.dist[w]
      BY <1>3, <1>7, <1>14 DEF PeriodEnded, OnlyHistory, OnlyLedger
    <2>2. c.height \in Nat
      BY DEF States
    <2>. QED BY <1>11, <1>13, <1>17, <2>1, <2>2
         DEF Elsewhere, Unmoved, SameLedger, SameShares, Exists
  <1>21. Kept(d, R)
    BY <1>6, <1>17, <1>19, <1>20, KeptElsewhere
  <1>22. d.vals = WithJailed(c, v, lost)
    BY <1>9, <1>11 DEF SlashedBy, WithJailed
  <1>. QED BY <1>2, <1>9, <1>11, <1>12, <1>17, <1>21, <1>22 DEF SlashedBy

=============================================================================

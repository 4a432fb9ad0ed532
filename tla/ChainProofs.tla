----------------------------- MODULE ChainProofs -----------------------------
(***************************************************************************)
(* What the tools do to the accounts of a chain, for every set of           *)
(* operators and delegators, every stake and reward.                        *)
(***************************************************************************)
EXTENDS ChainTools, FiniteSetTheorems, TLAPS

-----------------------------------------------------------------------------
(* Folds: one instance for every keeper call made for all of a set *)

AllocateStep(x, d) == Then(d, LAMBDA e : AllocateTokensToValidator(e, x))
BondStep(x, d) == Then(d, LAMBDA e : Bond(e, x))
UnbondStep(x, d) == Then(d, LAMBDA e : BeginUnbonding(e, x))
InitStep(x, d) == Then(d, LAMBDA e : InitializeValidator(e, x))
StartStep(x, d) == Then(d, LAMBDA e : StartDelegation(e, x))
CommissionStep(x, d) == Then(d, LAMBDA e : WithdrawValidatorCommission(e, x))
RewardsStep(x, d) == Then(d, LAMBDA e : WithdrawRewardsOf(e, x))
ReinitStep(x, d) == Then(d, LAMBDA e : ReinitValidator(e, x))

Allocating == INSTANCE SetFolds WITH Op <- AllocateStep
Bonding == INSTANCE SetFolds WITH Op <- BondStep
Unbonding == INSTANCE SetFolds WITH Op <- UnbondStep
Initializing == INSTANCE SetFolds WITH Op <- InitStep
Starting == INSTANCE SetFolds WITH Op <- StartStep
Commissions == INSTANCE SetFolds WITH Op <- CommissionStep
Rewards == INSTANCE SetFolds WITH Op <- RewardsStep
Reinitializing == INSTANCE SetFolds WITH Op <- ReinitStep

\* The folds of the model are those the instances are about.
LEMMA AllocateIsAFold == \A c, S : ForAll(AllocateTokensToValidator, c, S) = Allocating!Fold(c, S)
  BY DEF ForAll, FoldSet, MapThenFoldSet, Allocating!Fold, AllocateStep, Then

LEMMA BondIsAFold == \A c, S : ForAll(Bond, c, S) = Bonding!Fold(c, S)
  BY DEF ForAll, FoldSet, MapThenFoldSet, Bonding!Fold, BondStep, Then

LEMMA UnbondIsAFold == \A c, S : ForAll(BeginUnbonding, c, S) = Unbonding!Fold(c, S)
  BY DEF ForAll, FoldSet, MapThenFoldSet, Unbonding!Fold, UnbondStep, Then

LEMMA InitIsAFold == \A c, S : ForAll(InitializeValidator, c, S) = Initializing!Fold(c, S)
  BY DEF ForAll, FoldSet, MapThenFoldSet, Initializing!Fold, InitStep, Then

LEMMA StartIsAFold == \A c, S : ForAll(StartDelegation, c, S) = Starting!Fold(c, S)
  BY DEF ForAll, FoldSet, MapThenFoldSet, Starting!Fold, StartStep, Then

LEMMA CommissionIsAFold ==
    \A c, S : ForAll(WithdrawValidatorCommission, c, S) = Commissions!Fold(c, S)
  BY DEF ForAll, FoldSet, MapThenFoldSet, Commissions!Fold, CommissionStep, Then

LEMMA RewardsIsAFold == \A c, S : ForAll(WithdrawRewardsOf, c, S) = Rewards!Fold(c, S)
  BY DEF ForAll, FoldSet, MapThenFoldSet, Rewards!Fold, RewardsStep, Then

LEMMA ReinitIsAFold == \A c, S : ForAll(ReinitValidator, c, S) = Reinitializing!Fold(c, S)
  BY DEF ForAll, FoldSet, MapThenFoldSet, Reinitializing!Fold, ReinitStep, Then

\* Induction over the subsets of a finite set.
LEMMA Induction ==
    ASSUME NEW S, IsFiniteSet(S), NEW G,
           \A T \in SUBSET S : (\A R \in SUBSET T : R # T => R \in G) => T \in G
    PROVE  \A T \in SUBSET S : T \in G
  <1>1. Allocating!IsFiniteSet(S)
    BY DEF IsFiniteSet, Allocating!IsFiniteSet
  <1>. QED BY <1>1, Allocating!SubsetInduction

-----------------------------------------------------------------------------
(* Sums *)

Chosen(s) == CHOOSE x \in s : TRUE

\* The sums of f over the subsets of its domain.
Sums(f) ==
    CHOOSE h : h = [s \in SUBSET (DOMAIN f) |->
        IF s = {} THEN 0 ELSE f[Chosen(s)] + h[s \ {Chosen(s)}]]

LEMMA SumFunctionIsASum == \A f : SumFunction(f) = Sums(f)[DOMAIN f]
  BY DEF SumFunction, SumFunctionOnSet, FoldFunctionOnSet, MapThenFoldSet, Sums, Chosen

\* CHOOSE picks an element.
LEMMA ChosenIsIn == \A s : s # {} => Chosen(s) \in s
  BY DEF Chosen

AddsUp(h, f, S) ==
    /\ h \in [SUBSET S -> Int]
    /\ \A s \in SUBSET S : h[s] = IF s = {} THEN 0 ELSE f[Chosen(s)] + h[s \ {Chosen(s)}]

\* The sum over a set is that over the set without one of its elements, and that
\* element.
LEMMA SumsAddUp ==
    ASSUME NEW S, IsFiniteSet(S), NEW f \in [S -> Int]
    PROVE  AddsUp(Sums(f), f, S)
  <1>. DEFINE G == [p \in S \X Int |-> f[p[1]] + p[2]]
              pick == [s \in SUBSET S |-> Chosen(s)]
              Sum(h) == h = [s \in SUBSET (DOMAIN f) |->
                               IF s = {} THEN 0 ELSE f[Chosen(s)] + h[s \ {Chosen(s)}]]
  <1>1. Allocating!IsFiniteSet(S)
    BY DEF IsFiniteSet, Allocating!IsFiniteSet
  <1>2. G \in [S \X Int -> Int] /\ 0 \in Int
    OBVIOUS
  <1>3. Allocating!Picks(pick, S)
    BY ChosenIsIn DEF Allocating!Picks
  <1>4. PICK h : Allocating!Computes(h, S, Int, 0, G, pick)
    <2>. HIDE DEF G, pick
    <2>. QED BY <1>1, <1>2, <1>3, Allocating!Computable
  <1>5. /\ h \in [SUBSET S -> Int]
        /\ \A s \in SUBSET S : h[s] = IF s = {} THEN 0 ELSE G[<<Chosen(s), h[s \ {Chosen(s)}]>>]
    BY <1>4 DEF Allocating!Computes
  <1>6. ASSUME NEW s \in SUBSET S
        PROVE  h[s] = IF s = {} THEN 0 ELSE f[Chosen(s)] + h[s \ {Chosen(s)}]
    <2>1. s # {} => Chosen(s) \in S /\ h[s \ {Chosen(s)}] \in Int
      BY <1>5, ChosenIsIn
    <2>. QED BY <1>5, <2>1
  <1>7. Sum(h)
    <2>1. h = [s \in SUBSET S |-> h[s]] /\ DOMAIN f = S
      BY <1>5
    <2>. HIDE DEF G, pick
    <2>. QED BY <1>6, <2>1
  <1>8. Sum(Sums(f))
    <2>1. \E g : Sum(g)
      BY <1>7
    <2>. QED BY <2>1 DEF Sums
  <1>9. \A s \in SUBSET S :
           Sums(f)[s] = IF s = {} THEN 0 ELSE f[Chosen(s)] + Sums(f)[s \ {Chosen(s)}]
    BY <1>8
  <1>10. Sums(f) \in [SUBSET S -> Int]
    <2>. DEFINE Whole == {s \in SUBSET S : Sums(f)[s] \in Int}
    <2>1. ASSUME NEW s \in SUBSET S, \A q \in SUBSET s : q # s => q \in Whole
          PROVE  s \in Whole
      <3>1. s # {} => Chosen(s) \in s /\ s \ {Chosen(s)} \in Whole
        BY <2>1, ChosenIsIn
      <3>2. s # {} => f[Chosen(s)] \in Int
        BY <3>1
      <3>3. Sums(f)[s] = IF s = {} THEN 0 ELSE f[Chosen(s)] + Sums(f)[s \ {Chosen(s)}]
        BY <1>9
      <3>4. s # {} => Sums(f)[s \ {Chosen(s)}] \in Int
        BY <3>1
      <3>. HIDE DEF G, pick, Sum
      <3>. QED BY <3>2, <3>3, <3>4
    <2>2. \A s \in SUBSET S : s \in Whole
      <3>. HIDE DEF Whole
      <3>. QED BY <2>1, Induction
    <2>3. Sums(f) = [s \in SUBSET S |-> Sums(f)[s]]
      <3>1. DOMAIN f = S
        OBVIOUS
      <3>2. Sums(f) = [s \in SUBSET S |->
                          IF s = {} THEN 0 ELSE f[Chosen(s)] + Sums(f)[s \ {Chosen(s)}]]
        BY <1>8, <3>1
      <3>. DEFINE value(s) == IF s = {} THEN 0 ELSE f[Chosen(s)] + Sums(f)[s \ {Chosen(s)}]
      <3>3. Sums(f) = [s \in SUBSET S |-> value(s)]
        BY <3>2
      <3>4. \A s \in SUBSET S : Sums(f)[s] = value(s)
        BY <1>9
      <3>. HIDE DEF value
      <3>. QED BY <3>3, <3>4
    <2>. QED BY <2>2, <2>3
  <1>. QED BY <1>9, <1>10 DEF AddsUp

\* Sums of integers are integers.
LEMMA SumIsWhole ==
    ASSUME NEW S, IsFiniteSet(S), NEW f \in [S -> Int]
    PROVE  SumFunction(f) \in Int /\ SumFunction(f) = Sums(f)[S]
  <1>1. DOMAIN f = S
    OBVIOUS
  <1>2. AddsUp(Sums(f), f, S)
    BY SumsAddUp
  <1>. QED BY <1>1, <1>2, SumFunctionIsASum DEF AddsUp

\* A sum changes by as much as the one number that changes.
LEMMA SumChange ==
    ASSUME NEW S, IsFiniteSet(S), NEW f \in [S -> Int], NEW g \in [S -> Int],
           NEW v \in S, \A x \in S \ {v} : g[x] = f[x]
    PROVE  SumFunction(g) = SumFunction(f) + (g[v] - f[v])
  <1>. DEFINE Off == {s \in SUBSET S :
                 Sums(g)[s] = Sums(f)[s] + (IF v \in s THEN g[v] - f[v] ELSE 0)}
  <1>0. AddsUp(Sums(f), f, S) /\ AddsUp(Sums(g), g, S)
    BY SumsAddUp
  <1>1. ASSUME NEW s \in SUBSET S, \A q \in SUBSET s : q # s => q \in Off
        PROVE  s \in Off
    <2>1. CASE s = {}
      <3>1. Sums(f)[s] = 0 /\ Sums(g)[s] = 0 /\ v \notin s
        BY <2>1, <1>0 DEF AddsUp
      <3>. QED BY <3>1
    <2>2. CASE s # {}
      <3>. DEFINE q == s \ {Chosen(s)}
      <3>1. Chosen(s) \in s /\ Chosen(s) \in S /\ q \in SUBSET S /\ q \in Off
        BY <2>2, <1>1, ChosenIsIn
      <3>2. /\ Sums(f)[s] = f[Chosen(s)] + Sums(f)[q]
            /\ Sums(g)[s] = g[Chosen(s)] + Sums(g)[q]
        BY <2>2, <1>0 DEF AddsUp
      <3>3. Sums(f)[q] \in Int /\ Sums(g)[q] \in Int /\ f[v] \in Int /\ g[v] \in Int
            /\ f[Chosen(s)] \in Int /\ g[Chosen(s)] \in Int
        BY <3>1, <1>0 DEF AddsUp
      <3>4. CASE v = Chosen(s)
        <4>1. v \in s /\ v \notin q
          BY <3>1, <3>4
        <4>2. Sums(g)[q] = Sums(f)[q]
          BY <3>1, <3>3, <4>1
        <4>. HIDE DEF q
        <4>. QED BY <3>2, <3>3, <3>4, <4>1, <4>2
      <3>5. CASE v # Chosen(s)
        <4>1. (v \in s <=> v \in q) /\ g[Chosen(s)] = f[Chosen(s)]
          BY <3>1, <3>5
        <4>2. Sums(g)[q] = Sums(f)[q] + (IF v \in q THEN g[v] - f[v] ELSE 0)
          BY <3>1
        <4>. HIDE DEF q
        <4>. QED BY <3>2, <3>3, <4>1, <4>2
      <3>. QED BY <3>4, <3>5
    <2>. QED BY <2>1, <2>2
  <1>2. \A s \in SUBSET S : s \in Off
    <2>. HIDE DEF Off
    <2>. QED BY <1>1, Induction
  <1>. QED BY <1>2, SumIsWhole

\* A sum of zeros.
LEMMA SumOfZeros ==
    ASSUME NEW S, IsFiniteSet(S), NEW f \in [S -> Int], \A x \in S : f[x] = 0
    PROVE  SumFunction(f) = 0
  <1>. DEFINE Zero == {s \in SUBSET S : Sums(f)[s] = 0}
  <1>0. AddsUp(Sums(f), f, S)
    BY SumsAddUp
  <1>1. ASSUME NEW s \in SUBSET S, \A q \in SUBSET s : q # s => q \in Zero
        PROVE  s \in Zero
    <2>1. s # {} => Chosen(s) \in s /\ s \ {Chosen(s)} \in Zero
      BY <1>1, ChosenIsIn
    <2>2. s # {} => f[Chosen(s)] = 0 /\ Sums(f)[s \ {Chosen(s)}] = 0
      BY <2>1
    <2>3. Sums(f)[s] = IF s = {} THEN 0 ELSE f[Chosen(s)] + Sums(f)[s \ {Chosen(s)}]
      BY <1>0 DEF AddsUp
    <2>. QED BY <2>2, <2>3
  <1>2. \A s \in SUBSET S : s \in Zero
    <2>. HIDE DEF Zero
    <2>. QED BY <1>1, Induction
  <1>. QED BY <1>2, SumIsWhole

\* Any element of a set may be added last.
LEMMA SumTakesOut ==
    ASSUME NEW S, IsFiniteSet(S), NEW f \in [S -> Int]
    PROVE  \A s \in SUBSET S : \A y \in s : Sums(f)[s] = f[y] + Sums(f)[s \ {y}]
  <1>. DEFINE Out == {s \in SUBSET S : \A y \in s : Sums(f)[s] = f[y] + Sums(f)[s \ {y}]}
  <1>0. AddsUp(Sums(f), f, S)
    BY SumsAddUp
  <1>1. ASSUME NEW s \in SUBSET S, \A q \in SUBSET s : q # s => q \in Out
        PROVE  s \in Out
    <2>1. ASSUME NEW y \in s PROVE Sums(f)[s] = f[y] + Sums(f)[s \ {y}]
      <3>. DEFINE a == Chosen(s)
                  q == s \ {a}
                  r == s \ {y}
                  b == s \ {a, y}
      <3>1. a \in s /\ Sums(f)[s] = f[a] + Sums(f)[q]
        BY <1>0, <2>1, ChosenIsIn DEF AddsUp
      <3>2. CASE y = a
        BY <3>1, <3>2
      <3>3. CASE y # a
        <4>1. q \in Out /\ y \in q /\ q \ {y} = b
          BY <1>1, <3>1, <3>3
        <4>2. r \in Out /\ a \in r /\ r \ {a} = b
          BY <1>1, <3>1, <3>3
        <4>3. Sums(f)[q] = f[y] + Sums(f)[b]
          <5>. HIDE DEF q, b, a
          <5>. QED BY <4>1
        <4>4. Sums(f)[r] = f[a] + Sums(f)[b]
          <5>. HIDE DEF r, b, a
          <5>. QED BY <4>2
        <4>5. f[a] \in Int /\ f[y] \in Int /\ Sums(f)[b] \in Int
          BY <1>0, <3>1 DEF AddsUp
        <4>. HIDE DEF a, q, r, b
        <4>6. Sums(f)[s] = f[y] + Sums(f)[r]
          BY <3>1, <4>3, <4>4, <4>5
        <4>. QED BY <4>6 DEF r
      <3>. QED BY <3>2, <3>3
    <2>. QED BY <2>1
  <1>2. \A s \in SUBSET S : s \in Out
    <2>. HIDE DEF Out
    <2>. QED BY <1>1, Induction
  <1>. QED BY <1>2

\* A sum with one more element.
LEMMA SumWithOneMore ==
    ASSUME NEW S, IsFiniteSet(S), NEW x, x \notin S, NEW f \in [S -> Int],
           NEW g \in [S \cup {x} -> Int], \A y \in S : g[y] = f[y]
    PROVE  SumFunction(g) = SumFunction(f) + g[x]
  <1>. DEFINE R == S \cup {x}
              Same == {s \in SUBSET S : Sums(g)[s] = Sums(f)[s]}
  <1>0. IsFiniteSet(R) /\ g \in [R -> Int]
    BY FS_AddElement
  <1>1. AddsUp(Sums(f), f, S) /\ AddsUp(Sums(g), g, R)
    <2>. HIDE DEF R
    <2>. QED BY <1>0, SumsAddUp
  <1>2. ASSUME NEW s \in SUBSET S, \A q \in SUBSET s : q # s => q \in Same
        PROVE  s \in Same
    <2>1. s # {} => Chosen(s) \in S /\ s \ {Chosen(s)} \in Same
      BY <1>2, ChosenIsIn
    <2>2. s \in SUBSET R
      OBVIOUS
    <2>3. /\ Sums(f)[s] = IF s = {} THEN 0 ELSE f[Chosen(s)] + Sums(f)[s \ {Chosen(s)}]
          /\ Sums(g)[s] = IF s = {} THEN 0 ELSE g[Chosen(s)] + Sums(g)[s \ {Chosen(s)}]
      BY <1>1, <2>2 DEF AddsUp
    <2>. QED BY <2>1, <2>3
  <1>3. \A s \in SUBSET S : s \in Same
    <2>. HIDE DEF Same
    <2>. QED BY <1>2, Induction
  <1>4. Sums(g)[S] = Sums(f)[S] /\ R \ {x} = S /\ x \in R
    BY <1>3
  <1>5. Sums(g)[R] = g[x] + Sums(g)[R \ {x}]
    <2>. HIDE DEF R
    <2>. QED BY <1>0, <1>4, SumTakesOut
  <1>6. SumFunction(f) = Sums(f)[S] /\ SumFunction(f) \in Int
    BY SumIsWhole
  <1>7. SumFunction(g) = Sums(g)[R] /\ g[x] \in Int
    <2>. HIDE DEF R
    <2>. QED BY <1>0, <1>4, SumIsWhole
  <1>8. Sums(g)[R \ {x}] = Sums(f)[S]
    BY <1>4
  <1>9. SumFunction(g) = g[x] + SumFunction(f)
    <2>. HIDE DEF R
    <2>. QED BY <1>5, <1>6, <1>7, <1>8
  <1>. QED BY <1>6, <1>7, <1>9

\* A sum over other names of the same things.
SameUnder(name, f, g, S, R) ==
    /\ \A y \in R : \E x \in S : y = name[x]
    /\ \A x, y \in S : name[x] = name[y] => x = y
    /\ \A x \in S : g[name[x]] = f[x]

\* Renaming what is added up does not change the sum.
LEMMA SumOfImages ==
    ASSUME NEW S, IsFiniteSet(S), NEW R, NEW name \in [S -> R],
           NEW f \in [S -> Int], NEW g \in [R -> Int], SameUnder(name, f, g, S, R)
    PROVE  SumFunction(g) = SumFunction(f)
  <1>. DEFINE image(s) == {name[x] : x \in s}
              Same == {s \in SUBSET S : Sums(g)[image(s)] = Sums(f)[s]}
  <1>1. /\ \A y \in R : \E x \in S : y = name[x]
        /\ \A x, y \in S : name[x] = name[y] => x = y
        /\ \A x \in S : g[name[x]] = f[x]
    BY DEF SameUnder
  <1>2. R = image(S)
    BY <1>1
  <1>3. IsFiniteSet(R)
    <2>1. name \in Surjection(S, R)
      BY <1>1 DEF Surjection
    <2>. QED BY <2>1, FS_Surjection
  <1>4. AddsUp(Sums(f), f, S) /\ AddsUp(Sums(g), g, R)
    BY <1>3, SumsAddUp
  <1>5. ASSUME NEW s \in SUBSET S, \A q \in SUBSET s : q # s => q \in Same
        PROVE  s \in Same
    <2>1. CASE s = {}
      <3>1. image(s) = {} /\ {} \in SUBSET R /\ {} \in SUBSET S
        BY <2>1
      <3>2. Sums(g)[{}] = 0 /\ Sums(f)[{}] = 0
        BY <1>4, <3>1 DEF AddsUp
      <3>. QED BY <2>1, <3>1, <3>2
    <2>2. CASE s # {}
      <3>. DEFINE a == Chosen(s)
                  q == s \ {a}
      <3>1. a \in s /\ q \in Same /\ q \in SUBSET S
        BY <2>2, <1>5, ChosenIsIn
      <3>2. Sums(f)[s] = f[a] + Sums(f)[q]
        BY <2>2, <1>4 DEF AddsUp
      <3>. HIDE DEF a
      <3>3. image(s) \in SUBSET R /\ name[a] \in image(s) /\ g[name[a]] = f[a]
        BY <1>1, <1>2, <3>1
      <3>4. image(s) \ {name[a]} = image(q)
        BY <1>1, <3>1
      <3>5. Sums(g)[image(s)] = g[name[a]] + Sums(g)[image(s) \ {name[a]}]
        <4>. DEFINE im == image(s)
                    y == name[a]
        <4>1. im \in SUBSET R /\ y \in im
          BY <3>3
        <4>. HIDE DEF im, y
        <4>2. Sums(g)[im] = g[y] + Sums(g)[im \ {y}]
          BY <1>3, <4>1, SumTakesOut
        <4>. QED BY <4>2 DEF im, y
      <3>6. Sums(g)[image(q)] = Sums(f)[q]
        BY <3>1
      <3>. HIDE DEF image, q
      <3>7. Sums(g)[image(s)] = Sums(f)[s]
        BY <3>2, <3>3, <3>4, <3>5, <3>6
      <3>. QED BY <3>7 DEF image
    <2>. QED BY <2>1, <2>2
  <1>6. \A s \in SUBSET S : s \in Same
    <2>. HIDE DEF Same
    <2>. QED BY <1>5, Induction
  <1>7. Sums(g)[R] = Sums(f)[S]
    BY <1>2, <1>6
  <1>. QED BY <1>3, <1>7, SumIsWhole

\* A sum in which the elements of T count k and the others nothing.
LEMMA SumOfEquals ==
    ASSUME NEW S, IsFiniteSet(S), NEW T \in SUBSET S, NEW k \in Int,
           NEW f \in [S -> Int], \A x \in S : f[x] = IF x \in T THEN k ELSE 0
    PROVE  SumFunction(f) = k * Cardinality(T)
  <1>. DEFINE Equal == {s \in SUBSET S : Sums(f)[s] = k * Cardinality(s \cap T)}
  <1>0. AddsUp(Sums(f), f, S)
    BY SumsAddUp
  <1>1. ASSUME NEW s \in SUBSET S, \A q \in SUBSET s : q # s => q \in Equal
        PROVE  s \in Equal
    <2>1. CASE s = {}
      <3>1. Sums(f)[s] = 0 /\ s \cap T = {}
        BY <2>1, <1>0 DEF AddsUp
      <3>2. k * Cardinality(s \cap T) = 0
        <4>1. Cardinality(s \cap T) = 0
          BY <3>1, FS_EmptySet
        <4>. QED BY <4>1
      <3>. QED BY <3>1, <3>2
    <2>2. CASE s # {}
      <3>. DEFINE a == Chosen(s)
                  q == s \ {a}
                  n == Cardinality(s \cap T)
                  m == Cardinality(q \cap T)
      <3>1. a \in s
        BY <2>2, ChosenIsIn
      <3>1a. q \in Equal
        BY <3>1, <1>1
      <3>2. Sums(f)[s] = f[a] + Sums(f)[q]
        BY <2>2, <1>0 DEF AddsUp
      <3>3. IsFiniteSet(s \cap T) /\ IsFiniteSet(q \cap T)
        BY FS_Subset
      <3>4. n \in Nat /\ m \in Nat
        BY <3>3, FS_CardinalityType
      <3>5. Sums(f)[q] = k * m
        BY <3>1a
      <3>. HIDE DEF a
      <3>6. CASE a \in T
        <4>1. q \cap T = (s \cap T) \ {a} /\ a \in s \cap T
          BY <3>1, <3>6
        <4>2. Cardinality((s \cap T) \ {a}) = Cardinality(s \cap T) - 1
          BY <3>3, <4>1, FS_RemoveElement
        <4>2a. m = n - 1
          <5>. HIDE DEF q
          <5>. QED BY <4>1, <4>2
        <4>3. f[a] = k
          BY <3>1, <3>6
        <4>. HIDE DEF n, m, q
        <4>4. Sums(f)[s] = k * n
          BY <3>2, <3>4, <3>5, <4>2a, <4>3
        <4>. QED BY <4>4 DEF n
      <3>7. CASE a \notin T
        <4>1. q \cap T = s \cap T
          BY <3>7
        <4>2. f[a] = 0 /\ m = n
          BY <3>1, <3>7, <4>1
        <4>. HIDE DEF n, m, q
        <4>3. Sums(f)[s] = k * n
          BY <3>2, <3>4, <3>5, <4>2
        <4>. QED BY <4>3 DEF n
      <3>. QED BY <3>6, <3>7
    <2>. QED BY <2>1, <2>2
  <1>2. \A s \in SUBSET S : s \in Equal
    <2>. HIDE DEF Equal
    <2>. QED BY <1>1, Induction
  <1>3. S \cap T = T
    OBVIOUS
  <1>. QED BY <1>2, <1>3, SumIsWhole

-----------------------------------------------------------------------------
(* States *)

Record == [ratio : Int, refs : Int]
Histories == UNION {[P -> Record] : P \in SUBSET Int}
SlashEvents == Seq([height : Int, period : Int])
Records == [outstanding : Int, rewards : Int, commission : Int, period : Int,
            hist : Histories, slashes : SlashEvents]

Vals == [status : Statuses, tokens : Nat, shares : Int, jailed : BOOLEAN,
         unbondingHeight : Nat]

Infos == [period : Int, stake : Nat, height : Int]
Entries == [id : Nat, del : Delegators, val : Operators, amount : Nat, height : Nat]

\* The states of a chain, with rewards, shares and pools any integers.
States ==
    [height : Nat, panic : BOOLEAN, ids : Nat,
     vals : [Operators -> Vals],
     power : SUBSET Operators, last : SUBSET Operators, queue : SUBSET Operators,
     dels : [Delegators -> [Operators -> Nat]],
     ubds : SUBSET Entries, reds : SUBSET Entries,
     dist : [Operators -> Records],
     start : [Delegators -> [Operators -> Infos]],
     pool : Int, distribution : Int, bonded : Int, notBonded : Int,
     signing : UNION {[K -> Int] : K \in SUBSET Int}]

\* What the staking module and the bank keep is the same.
SameStaking(c, d) ==
    /\ d.height = c.height /\ d.ids = c.ids /\ d.vals = c.vals
    /\ d.power = c.power /\ d.last = c.last /\ d.queue = c.queue
    /\ d.dels = c.dels /\ d.ubds = c.ubds /\ d.reds = c.reds
    /\ d.bonded = c.bonded /\ d.notBonded = c.notBonded /\ d.signing = c.signing

\* What the distribution account holds beyond what it owes.
Surplus(c) == c.distribution - Outstanding(c) - c.pool

\* A call of the distribution keeper: it moves fees, and makes or loses none.
Distributes(c, d) == d \in States /\ SameStaking(c, d) /\ Surplus(d) = Surplus(c)

\* What is owed, and what is held beyond it, are integers.
LEMMA OutstandingIsWhole == \A c \in States : Outstanding(c) \in Int /\ Surplus(c) \in Int
  <1>. TAKE c \in States
  <1>. DEFINE f == [v \in Operators |-> c.dist[v].outstanding]
  <1>1. IsFiniteSet(Operators) /\ f \in [Operators -> Int]
    BY ChainAssumption DEF States, Records
  <1>2. SumFunction(f) \in Int
    <2>. HIDE DEF f
    <2>. QED BY <1>1, SumIsWhole
  <1>. QED BY <1>2 DEF Outstanding, Surplus, States

\* The outstanding rewards of one validator change.
LEMMA OutstandingChanges ==
    ASSUME NEW c \in States, NEW d \in States, NEW v \in Operators,
           \A w \in Operators \ {v} : d.dist[w].outstanding = c.dist[w].outstanding
    PROVE  Outstanding(d) = Outstanding(c) + (d.dist[v].outstanding - c.dist[v].outstanding)
  <1>. DEFINE f == [w \in Operators |-> c.dist[w].outstanding]
              g == [w \in Operators |-> d.dist[w].outstanding]
  <1>1. /\ IsFiniteSet(Operators) /\ f \in [Operators -> Int] /\ g \in [Operators -> Int]
        /\ \A w \in Operators \ {v} : g[w] = f[w]
        /\ f[v] = c.dist[v].outstanding /\ g[v] = d.dist[v].outstanding
        /\ Outstanding(c) = SumFunction(f) /\ Outstanding(d) = SumFunction(g)
    BY ChainAssumption DEF States, Records, Outstanding
  <1>. HIDE DEF f, g
  <1>2. SumFunction(g) = SumFunction(f) + (g[v] - f[v])
    BY <1>1, SumChange
  <1>. QED BY <1>1, <1>2

\* Rewards, pool and account as they were.
LEMMA SameFees ==
    ASSUME NEW c \in States, NEW d \in States, SameStaking(c, d),
           \A v \in Operators : d.dist[v].outstanding = c.dist[v].outstanding,
           d.pool = c.pool, d.distribution = c.distribution
    PROVE  Distributes(c, d)
  <1>1. [v \in Operators |-> d.dist[v].outstanding] = [v \in Operators |-> c.dist[v].outstanding]
    OBVIOUS
  <1>. QED BY <1>1 DEF Distributes, Surplus, Outstanding

\* Two calls of the distribution keeper, one after the other.
LEMMA DistributesTwice ==
    ASSUME NEW c, NEW d, NEW e, Distributes(c, d), Distributes(d, e)
    PROVE  Distributes(c, e)
  BY DEF Distributes, SameStaking

\* A call that panics leaves the fees alone.
LEMMA PanicDistributes == \A c \in States : Distributes(c, Panic(c)) /\ Panic(c).panic
  <1>. TAKE c \in States
  <1>1. Panic(c) \in States
    BY DEF States, Panic
  <1>2. /\ SameStaking(c, Panic(c)) /\ Panic(c).dist = c.dist /\ Panic(c).panic
        /\ Panic(c).pool = c.pool /\ Panic(c).distribution = c.distribution
    BY DEF States, Panic, SameStaking
  <1>. QED BY <1>1, <1>2, SameFees

-----------------------------------------------------------------------------
(* The calls of the distribution keeper *)

\* A record that is not there reads as a record too.
LEMMA HistIsARecord ==
    ASSUME NEW c \in States, NEW v \in Operators, NEW p \in Int
    PROVE  Hist(c, v, p) \in Record
  <1>1. c.dist[v].hist \in Histories
    BY DEF States, Records
  <1>2. NoHist \in Record
    BY DEF NoHist, Record
  <1>3. PICK P \in SUBSET Int : c.dist[v].hist \in [P -> Record]
    BY <1>1 DEF Histories
  <1>4. CASE p \in DOMAIN c.dist[v].hist
    <2>1. c.dist[v].hist[p] \in Record
      BY <1>3, <1>4
    <2>2. Hist(c, v, p) = c.dist[v].hist[p]
      BY <1>4 DEF Hist
    <2>. QED BY <2>1, <2>2
  <1>5. CASE p \notin DOMAIN c.dist[v].hist
    <2>1. Hist(c, v, p) = NoHist
      BY <1>5 DEF Hist
    <2>. QED BY <2>1, <1>2
  <1>. QED BY <1>4, <1>5

LEMMA WithIsAHistory ==
    ASSUME NEW f \in Histories, NEW p \in Int, NEW r \in Record
    PROVE  With(f, p, r) \in Histories
  <1>1. PICK P \in SUBSET Int : f \in [P -> Record]
    BY DEF Histories
  <1>2. DOMAIN f \cup {p} = P \cup {p} /\ \A q \in P : f[q] \in Record
    BY <1>1
  <1>3. With(f, p, r) \in [P \cup {p} -> Record]
    <2>1. \A q \in P \cup {p} : (IF q = p THEN r ELSE f[q]) \in Record
      BY <1>2
    <2>. QED BY <1>2, <2>1 DEF With
  <1>. QED BY <1>3 DEF Histories

\* A change of the history of one validator.
LEMMA HistoryDistributes ==
    ASSUME NEW c \in States, NEW v \in Operators, NEW h \in Histories
    PROVE  Distributes(c, [c EXCEPT !.dist[v].hist = h])
  <1>. DEFINE d == [c EXCEPT !.dist[v].hist = h]
  <1>1. c.dist[v] \in Records
    BY DEF States
  <1>2. [c.dist[v] EXCEPT !.hist = h] \in Records
    BY <1>1 DEF Records
  <1>3. d \in States
    BY <1>2 DEF States
  <1>4. /\ SameStaking(c, d) /\ d.pool = c.pool /\ d.distribution = c.distribution
        /\ \A w \in Operators : d.dist[w].outstanding = c.dist[w].outstanding
    BY <1>1 DEF States, SameStaking, Records
  <1>5. Distributes(c, d)
    <2>. HIDE DEF d
    <2>. QED BY <1>3, <1>4, SameFees
  <1>. QED BY <1>5

\* The calls that count references.
LEMMA DecrementDistributes ==
    ASSUME NEW c \in States, NEW v \in Operators, NEW p \in Int
    PROVE  Distributes(c, DecrementReferenceCount(c, v, p))
  <1>. DEFINE h == Hist(c, v, p)
              f == c.dist[v].hist
              less == [q \in DOMAIN f \ {p} |-> f[q]]
              lower == [h EXCEPT !.refs = @ - 1]
  <1>1. h \in Record /\ f \in Histories
    BY HistIsARecord DEF States, Records
  <1>2. less \in Histories
    <2>1. PICK P \in SUBSET Int : f \in [P -> Record]
      BY <1>1 DEF Histories
    <2>2. DOMAIN f \ {p} \in SUBSET Int /\ \A q \in DOMAIN f \ {p} : f[q] \in Record
      BY <2>1
    <2>. HIDE DEF f
    <2>3. less \in [DOMAIN f \ {p} -> Record]
      BY <2>2
    <2>. QED BY <2>2, <2>3 DEF Histories
  <1>3. lower \in Record
    <2>1. h.refs - 1 \in Int
      BY <1>1 DEF Record
    <2>. HIDE DEF h
    <2>. QED BY <1>1, <2>1 DEF Record
  <1>4. With(f, p, lower) \in Histories
    BY <1>1, <1>3, WithIsAHistory
  <1>5. /\ Distributes(c, [c EXCEPT !.dist[v].hist = less])
        /\ Distributes(c, [c EXCEPT !.dist[v].hist = With(f, p, lower)])
        /\ Distributes(c, Panic(c))
    BY <1>2, <1>4, HistoryDistributes, PanicDistributes
  <1>. QED BY <1>5 DEF DecrementReferenceCount

LEMMA IncrementDistributes ==
    ASSUME NEW c \in States, NEW v \in Operators, NEW p \in Int
    PROVE  Distributes(c, IncrementReferenceCount(c, v, p))
  <1>. DEFINE h == Hist(c, v, p)
              f == c.dist[v].hist
              higher == [h EXCEPT !.refs = @ + 1]
  <1>1. h \in Record /\ f \in Histories
    BY HistIsARecord DEF States, Records
  <1>2. higher \in Record
    <2>1. h.refs + 1 \in Int
      BY <1>1 DEF Record
    <2>. HIDE DEF h
    <2>. QED BY <1>1, <2>1 DEF Record
  <1>3. With(f, p, higher) \in Histories
    BY <1>1, <1>2, WithIsAHistory
  <1>4. /\ Distributes(c, [c EXCEPT !.dist[v].hist = With(f, p, higher)])
        /\ Distributes(c, Panic(c))
    BY <1>3, HistoryDistributes, PanicDistributes
  <1>. QED BY <1>4 DEF IncrementReferenceCount

\* Another record of one validator; the difference goes to the pool, to the
\* account, or to both.
LEMMA RecordsDistribute ==
    ASSUME NEW c \in States, NEW v \in Operators, NEW r \in Records, NEW d \in States,
           SameStaking(c, d), d.dist = [c.dist EXCEPT ![v] = r],
           d.distribution - d.pool - r.outstanding
               = c.distribution - c.pool - c.dist[v].outstanding
    PROVE  Distributes(c, d)
  <1>1. /\ \A w \in Operators \ {v} : d.dist[w].outstanding = c.dist[w].outstanding
        /\ d.dist[v] = r /\ r.outstanding \in Int /\ c.dist[v].outstanding \in Int
        /\ {c.pool, d.pool, c.distribution, d.distribution} \subseteq Int
    BY DEF States, Records
  <1>2. Outstanding(d) = Outstanding(c) + (d.dist[v].outstanding - c.dist[v].outstanding)
    BY <1>1, OutstandingChanges
  <1>3. Outstanding(c) \in Int /\ Outstanding(d) \in Int
    BY OutstandingIsWhole
  <1>4. Surplus(d) = Surplus(c)
    <2>. DEFINE a1 == Outstanding(c)   a2 == Outstanding(d)
                o1 == c.dist[v].outstanding   o2 == r.outstanding
    <2>1. /\ a1 \in Int /\ a2 \in Int /\ o1 \in Int /\ o2 \in Int
          /\ c.pool \in Int /\ d.pool \in Int
          /\ c.distribution \in Int /\ d.distribution \in Int
          /\ a2 = a1 + (o2 - o1) /\ d.distribution - d.pool - o2 = c.distribution - c.pool - o1
      BY <1>1, <1>2, <1>3
    <2>2. Surplus(c) = c.distribution - a1 - c.pool /\ Surplus(d) = d.distribution - a2 - d.pool
      BY DEF Surplus
    <2>. HIDE DEF a1, a2, o1, o2
    <2>. QED BY <2>1, <2>2
  <1>. QED BY <1>4 DEF Distributes

\* A new period: what is donated goes from the outstanding rewards to the pool.
LEMMA StartPeriodDistributes ==
    ASSUME NEW c \in States, NEW v \in Operators, NEW ratio \in Int, NEW donated \in Int
    PROVE  Distributes(c, StartPeriod(c, v, ratio, donated))
  <1>. DEFINE history == With(c.dist[v].hist, c.dist[v].period, [ratio |-> ratio, refs |-> 1])
              new == [c.dist[v] EXCEPT !.outstanding = @ - donated, !.rewards = 0,
                                       !.period = @ + 1, !.hist = history]
              d == [c EXCEPT !.pool = @ + donated, !.dist[v] = new]
  <1>1. /\ c.dist[v] \in Records /\ c.dist[v].hist \in Histories
        /\ c.pool \in Int /\ c.distribution \in Int /\ c.pool + donated \in Int
        /\ c.dist[v].outstanding \in Int /\ c.dist[v].outstanding - donated \in Int
        /\ c.dist[v].period \in Int /\ c.dist[v].period + 1 \in Int /\ 0 \in Int
    BY DEF States, Records
  <1>2. [ratio |-> ratio, refs |-> 1] \in Record
    BY DEF Record
  <1>3. history \in Histories
    BY <1>1, <1>2, WithIsAHistory
  <1>4. StartPeriod(c, v, ratio, donated) = d
    BY DEF StartPeriod
  <1>. HIDE DEF history
  <1>5. new \in Records /\ new.outstanding = c.dist[v].outstanding - donated
    BY <1>1, <1>3 DEF Records
  <1>. HIDE DEF new
  <1>6. d \in States /\ SameStaking(c, d) /\ d.dist = [c.dist EXCEPT ![v] = new]
        /\ d.pool = c.pool + donated /\ d.distribution = c.distribution
    BY <1>1, <1>5 DEF States, SameStaking
  <1>. HIDE DEF d
  <1>7. d.distribution - d.pool - new.outstanding
            = c.distribution - c.pool - c.dist[v].outstanding
    BY <1>1, <1>5, <1>6
  <1>. QED BY <1>4, <1>5, <1>6, <1>7, RecordsDistribute

\* The period of a validator ends, or the call panics.
LEMMA PeriodDistributes ==
    ASSUME NEW c \in States, NEW v \in Operators
    PROVE  Distributes(c, IncrementValidatorPeriod(c, v))
  <1>. DEFINE p == c.dist[v].period - 1
              d == DecrementReferenceCount(c, v, p)
              e == StartPeriod(d, v, EndRatio(c, v), Donated(c, v))
  <1>1. /\ p \in Int /\ c.dist[v].rewards \in Int /\ c.vals[v].tokens \in Nat
    BY DEF States, Records, Vals
  <1>2. Donated(c, v) \in Int
    BY <1>1 DEF Donated
  <1>3. EndRatio(c, v) \in Int
    <2>1. Hist(c, v, p).ratio \in Int
      <3>. HIDE DEF p
      <3>. QED BY <1>1, HistIsARecord DEF Record
    <2>2. c.vals[v].tokens > 0 => c.dist[v].rewards \div c.vals[v].tokens \in Int
      BY <1>1
    <2>. QED BY <2>1, <2>2 DEF EndRatio
  <1>4. Distributes(c, d)
    <2>. HIDE DEF p
    <2>. QED BY <1>1, DecrementDistributes
  <1>. HIDE DEF d
  <1>5. Distributes(d, e)
    BY <1>2, <1>3, <1>4, StartPeriodDistributes DEF Distributes
  <1>6. IncrementValidatorPeriod(c, v) = IF ~Exists(c, v) THEN Panic(c)
                                         ELSE IF d.panic THEN d ELSE e
    BY DEF IncrementValidatorPeriod, Then, d
  <1>. HIDE DEF e
  <1>7. Distributes(c, e) /\ Distributes(c, Panic(c))
    BY <1>4, <1>5, DistributesTwice, PanicDistributes
  <1>. QED BY <1>4, <1>6, <1>7

\* New records forget what was outstanding: the account holds that much too
\* much.
LEMMA InitializeSurplus ==
    ASSUME NEW c \in States, NEW v \in Operators
    PROVE  LET d == InitializeValidator(c, v) IN
           /\ d \in States /\ SameStaking(c, d) /\ d.panic = c.panic
           /\ d.pool = c.pool /\ d.distribution = c.distribution
           /\ Surplus(d) = Surplus(c) + c.dist[v].outstanding
           /\ \A w \in Operators \ {v} : d.dist[w].outstanding = c.dist[w].outstanding
           /\ d.dist[v].outstanding = 0 /\ d.start = c.start
           /\ \A w \in Operators : d.dist[w].slashes = c.dist[w].slashes
  <1>. DEFINE history == With(c.dist[v].hist, 0, [ratio |-> 0, refs |-> 1])
              new == [c.dist[v] EXCEPT !.outstanding = 0, !.rewards = 0, !.commission = 0,
                                       !.period = 1, !.hist = history]
              d == [c EXCEPT !.dist[v] = new]
  <1>1. /\ c.dist[v] \in Records /\ c.dist[v].hist \in Histories
        /\ 0 \in Int /\ 1 \in Int /\ [ratio |-> 0, refs |-> 1] \in Record
    BY DEF States, Records, Record
  <1>2. history \in Histories
    <2>. HIDE DEF Histories, Record
    <2>. QED BY <1>1, WithIsAHistory
  <1>3. InitializeValidator(c, v) = d
    BY DEF InitializeValidator
  <1>. HIDE DEF history
  <1>4. new \in Records /\ new.outstanding = 0 /\ new.slashes = c.dist[v].slashes
    BY <1>1, <1>2 DEF Records
  <1>. HIDE DEF new
  <1>5. /\ d \in States /\ SameStaking(c, d) /\ d.panic = c.panic
        /\ d.pool = c.pool /\ d.distribution = c.distribution
        /\ d.dist = [c.dist EXCEPT ![v] = new] /\ d.start = c.start
    BY <1>4 DEF States, SameStaking
  <1>. HIDE DEF d
  <1>6. /\ \A w \in Operators \ {v} : d.dist[w].outstanding = c.dist[w].outstanding
        /\ d.dist[v].outstanding = 0
        /\ \A w \in Operators : d.dist[w].slashes = c.dist[w].slashes
    BY <1>4, <1>5 DEF States
  <1>7. Outstanding(d) = Outstanding(c) + (d.dist[v].outstanding - c.dist[v].outstanding)
    BY <1>5, <1>6, OutstandingChanges
  <1>8. /\ Outstanding(c) \in Int /\ c.dist[v].outstanding \in Int
        /\ c.pool \in Int /\ c.distribution \in Int
    BY OutstandingIsWhole DEF States, Records
  <1>9. Surplus(d) = Surplus(c) + c.dist[v].outstanding
    BY <1>5, <1>6, <1>7, <1>8 DEF Surplus
  <1>. QED BY <1>3, <1>5, <1>6, <1>9

LEMMA TokensAreNatural ==
    ASSUME NEW c \in States, NEW v \in Operators, NEW s \in Nat
    PROVE  TokensFromShares(c, v, s) \in Nat
  <1>1. c.vals[v].tokens \in Nat /\ c.vals[v].shares \in Int
    BY DEF States, Vals
  <1>2. s * c.vals[v].tokens \in Nat
    BY <1>1
  <1>3. c.vals[v].shares > 0 => (s * c.vals[v].tokens) \div c.vals[v].shares \in Nat
    BY <1>1, <1>2
  <1>. QED BY <1>3 DEF TokensFromShares

LEMMA InitializeDelegationDistributes ==
    ASSUME NEW c \in States, NEW del \in Delegators, NEW v \in Operators
    PROVE  Distributes(c, InitializeDelegation(c, del, v))
  <1>. DEFINE p == c.dist[v].period - 1
              d == IncrementReferenceCount(c, v, p)
              stake == TokensFromShares(c, v, c.dels[del][v])
              info == [period |-> p, stake |-> stake, height |-> c.height]
              e == [d EXCEPT !.start[del][v] = info]
  <1>1. p \in Int /\ c.dels[del][v] \in Nat /\ c.height \in Int
    BY DEF States, Records
  <1>2. stake \in Nat
    BY <1>1, TokensAreNatural
  <1>3. Distributes(c, d)
    <2>. HIDE DEF p
    <2>. QED BY <1>1, IncrementDistributes
  <1>4. InitializeDelegation(c, del, v) = IF d.panic THEN d ELSE e
    BY DEF InitializeDelegation, Then
  <1>. HIDE DEF p, stake, d
  <1>5. info \in Infos
    BY <1>1, <1>2 DEF Infos
  <1>. HIDE DEF info
  <1>6. d \in States /\ d.start \in [Delegators -> [Operators -> Infos]]
    BY <1>3 DEF Distributes, States
  <1>7. /\ e \in States /\ SameStaking(d, e) /\ e.dist = d.dist
        /\ e.pool = d.pool /\ e.distribution = d.distribution
    BY <1>5, <1>6 DEF States, SameStaking
  <1>. HIDE DEF e
  <1>8. Distributes(d, e)
    BY <1>6, <1>7, SameFees
  <1>. QED BY <1>3, <1>4, <1>8, DistributesTwice

\* The period ends and the delegation starts in the next one.
LEMMA StartDistributes ==
    ASSUME NEW c \in States, NEW dv \in Delegators \X Operators
    PROVE  Distributes(c, StartDelegation(c, dv))
  <1>. DEFINE d == IncrementValidatorPeriod(c, dv[2])
              e == InitializeDelegation(d, dv[1], dv[2])
  <1>1. Distributes(c, d)
    BY PeriodDistributes
  <1>2. StartDelegation(c, dv) = IF d.panic THEN d ELSE e
    BY DEF StartDelegation, Then
  <1>. HIDE DEF d
  <1>3. Distributes(d, e)
    BY <1>1, InitializeDelegationDistributes DEF Distributes
  <1>. HIDE DEF e
  <1>. QED BY <1>1, <1>2, <1>3, DistributesTwice

\* The greatest of finitely many numbers is one of them, and the least.
LEMMA MaxIsIn ==
    ASSUME NEW S \in SUBSET Nat, IsFiniteSet(S), S # {}
    PROVE  Max(S) \in S /\ \A n \in S : Max(S) >= n
  <1>. DEFINE Has == {T \in SUBSET S : T = {} \/ \E m \in T : \A n \in T : m >= n}
  <1>1. ASSUME NEW T \in SUBSET S, \A R \in SUBSET T : R # T => R \in Has
        PROVE  T \in Has
    <2>1. CASE T = {}
      BY <2>1
    <2>2. CASE T # {}
      <3>1. PICK x \in T : TRUE
        BY <2>2
      <3>2. T \ {x} \in Has
        BY <1>1, <3>1
      <3>3. CASE T \ {x} = {}
        <4>1. \A n \in T : x >= n
          BY <3>1, <3>3
        <4>. QED BY <3>1, <4>1
      <3>4. CASE T \ {x} # {}
        <4>1. PICK m \in T \ {x} : \A n \in T \ {x} : m >= n
          BY <3>2, <3>4
        <4>2. CASE x >= m
          <5>1. \A n \in T : x >= n
            BY <3>1, <4>1, <4>2
          <5>. QED BY <3>1, <5>1
        <4>3. CASE ~(x >= m)
          <5>1. \A n \in T : m >= n
            BY <3>1, <4>1, <4>3
          <5>. QED BY <4>1, <5>1
        <4>. QED BY <4>2, <4>3
      <3>. QED BY <3>3, <3>4
    <2>. QED BY <2>1, <2>2
  <1>2. \A T \in SUBSET S : T \in Has
    <2>. HIDE DEF Has
    <2>. QED BY <1>1, Induction
  <1>3. \E m \in S : \A n \in S : m >= n
    BY <1>2
  <1>. QED BY <1>3 DEF Max

LEMMA LeastIsIn ==
    ASSUME NEW S \in SUBSET Nat, IsFiniteSet(S), S # {}
    PROVE  Min(S) \in S /\ \A n \in S : Min(S) <= n
  <1>. DEFINE Has == {T \in SUBSET S : T = {} \/ \E m \in T : \A n \in T : m <= n}
  <1>1. ASSUME NEW T \in SUBSET S, \A R \in SUBSET T : R # T => R \in Has
        PROVE  T \in Has
    <2>1. CASE T = {}
      BY <2>1
    <2>2. CASE T # {}
      <3>1. PICK x \in T : TRUE
        BY <2>2
      <3>2. T \ {x} \in Has
        BY <1>1, <3>1
      <3>3. CASE T \ {x} = {}
        <4>1. \A n \in T : x <= n
          BY <3>1, <3>3
        <4>. QED BY <3>1, <4>1
      <3>4. CASE T \ {x} # {}
        <4>1. PICK m \in T \ {x} : \A n \in T \ {x} : m <= n
          BY <3>2, <3>4
        <4>2. CASE x <= m
          <5>1. \A n \in T : x <= n
            BY <3>1, <4>1, <4>2
          <5>. QED BY <3>1, <5>1
        <4>3. CASE ~(x <= m)
          <5>1. \A n \in T : m <= n
            BY <3>1, <4>1, <4>3
          <5>. QED BY <4>1, <5>1
        <4>. QED BY <4>2, <4>3
      <3>. QED BY <3>3, <3>4
    <2>. QED BY <2>1, <2>2
  <1>2. \A T \in SUBSET S : T \in Has
    <2>. HIDE DEF Has
    <2>. QED BY <1>1, Induction
  <1>3. \E m \in S : \A n \in S : m <= n
    BY <1>2
  <1>. QED BY <1>3 DEF Min

LEMMA MinIsInt == \A a, b \in Int : Min({a, b}) \in Int
  <1>. TAKE a, b \in Int
  <1>1. \E m \in {a, b} : \A n \in {a, b} : m <= n
    <2>1. CASE a <= b
      BY <2>1
    <2>2. CASE b <= a
      BY <2>2
    <2>. QED BY <2>1, <2>2
  <1>2. Min({a, b}) \in {a, b}
    BY <1>1 DEF Min
  <1>. QED BY <1>2

\* What is gathered over the slashes of a validator.
Gathered == [from : Int, stake : Int, sum : Int, panic : BOOLEAN]

\* What is gathered while the rewards of a delegation are calculated.
LEMMA RewardsUpToGathers ==
    ASSUME NEW c \in States, NEW v \in Operators, NEW acc \in Gathered, NEW p \in Int
    PROVE  RewardsUpTo(c, v, acc, p) \in Gathered
  <1>. DEFINE a == Hist(c, v, acc.from).ratio
              b == Hist(c, v, p).ratio
  <1>1. a \in Int /\ b \in Int
    BY HistIsARecord DEF Gathered, Record
  <1>2. acc.stake \in Int /\ acc.sum \in Int
    BY DEF Gathered
  <1>. HIDE DEF a, b
  <1>3. acc.sum + (b - a) * acc.stake \in Int
    BY <1>1, <1>2
  <1>. QED BY <1>3, <1>2 DEF RewardsUpTo, Gathered, a, b

LEMMA CutGathers ==
    ASSUME NEW c \in States, NEW v \in Operators, NEW s, NEW acc \in Gathered,
           NEW e \in [height : Int, period : Int]
    PROVE  CutBySlash(c, v, s, acc, e) \in Gathered
  <1>. DEFINE next == RewardsUpTo(c, v, acc, e.period)
  <1>1. next \in Gathered
    BY RewardsUpToGathers
  <1>2. acc.stake \div 2 \in Int
    BY DEF Gathered
  <1>. HIDE DEF next
  <1>3. [next EXCEPT !.stake = acc.stake \div 2] \in Gathered
    BY <1>1, <1>2 DEF Gathered
  <1>. QED BY <1>3 DEF CutBySlash, next

\* What is gathered over the slashes in t, the first of them.
GathersOver(c, v, s, h) ==
    LET e == c.dist[v].slashes
        D == DOMAIN e
    IN  /\ h \in [SUBSET D -> Gathered]
        /\ h[{}] = [from |-> s.period, stake |-> s.stake, sum |-> 0, panic |-> FALSE]
        /\ \A t \in SUBSET D : t # {} =>
              h[t] = CutBySlash(c, v, s, h[t \ {Max(t)}], e[Max(t)])
        /\ OverSlashes(c, v, s) = h[D]

LEMMA SlashesGather ==
    ASSUME NEW c \in States, NEW v \in Operators, NEW s \in Infos
    PROVE  \E h : GathersOver(c, v, s, h)
  <1>. DEFINE seq == c.dist[v].slashes
              base == [from |-> s.period, stake |-> s.stake, sum |-> 0, panic |-> FALSE]
              D == DOMAIN seq
              G == [p \in D \X Gathered |-> CutBySlash(c, v, s, p[2], seq[p[1]])]
              pick == [t \in SUBSET D |-> Max(t)]
              IsFold(h) == h = [t \in SUBSET D |->
                  IF t = {} THEN base ELSE CutBySlash(c, v, s, h[t \ {Max(t)}], seq[Max(t)])]
  <1>0. base \in Gathered
    BY DEF Infos, Gathered
  <1>1. D = 1 .. Len(seq) /\ Len(seq) \in Nat
        /\ \A i \in D : seq[i] \in [height : Int, period : Int]
    <2>. DEFINE T == [height : Int, period : Int]
    <2>1. seq \in Seq(T)
      BY DEF States, Records, SlashEvents
    <2>. HIDE DEF T, seq
    <2>2. D = 1 .. Len(seq) /\ Len(seq) \in Nat /\ \A i \in D : seq[i] \in T
      BY <2>1
    <2>. QED BY <2>2 DEF T
  <1>. HIDE DEF D, base, seq
  <1>2. IsFiniteSet(D) /\ D \in SUBSET Nat
    <2>1. D \in SUBSET Nat
      BY <1>1
    <2>2. IsFiniteSet(1 .. Len(seq))
      BY <1>1, FS_Interval
    <2>. QED BY <1>1, <2>1, <2>2
  <1>3. \A t \in SUBSET D : t # {} => Max(t) \in t
    BY <1>2, FS_Subset, MaxIsIn
  <1>4. \A i \in D : \A acc \in Gathered : CutBySlash(c, v, s, acc, seq[i]) \in Gathered
    BY <1>1, CutGathers
  <1>5. G \in [D \X Gathered -> Gathered]
    BY <1>4
  <1>6. PICK f : Allocating!Computes(f, D, Gathered, base, G, pick)
    <2>1. Allocating!IsFiniteSet(D)
      BY <1>2 DEF IsFiniteSet, Allocating!IsFiniteSet
    <2>2. Allocating!Picks(pick, D)
      BY <1>3 DEF Allocating!Picks
    <2>. HIDE DEF G, pick
    <2>. QED BY <1>0, <1>5, <2>1, <2>2, Allocating!Computable
  <1>7. /\ f \in [SUBSET D -> Gathered]
        /\ \A t \in SUBSET D :
              f[t] = IF t = {} THEN base ELSE G[<<Max(t), f[t \ {Max(t)}]>>]
    BY <1>6 DEF Allocating!Computes
  <1>8. IsFold(f)
    <2>1. ASSUME NEW t \in SUBSET D
          PROVE  f[t] = IF t = {} THEN base
                        ELSE CutBySlash(c, v, s, f[t \ {Max(t)}], seq[Max(t)])
      <3>1. t # {} => Max(t) \in D /\ f[t \ {Max(t)}] \in Gathered
        BY <1>3, <1>7
      <3>2. t # {} => G[<<Max(t), f[t \ {Max(t)}]>>]
                        = CutBySlash(c, v, s, f[t \ {Max(t)}], seq[Max(t)])
        BY <3>1
      <3>. HIDE DEF G, pick, IsFold
      <3>. QED BY <1>7, <3>2
    <2>2. f = [t \in SUBSET D |-> f[t]]
      BY <1>7
    <2>. HIDE DEF G, pick
    <2>. QED BY <2>1, <2>2
  <1>9. ASSUME NEW h, IsFold(h) PROVE h \in [SUBSET D -> Gathered]
    <2>. DEFINE Good == {t \in SUBSET D : h[t] \in Gathered}
    <2>1. ASSUME NEW t \in SUBSET D, \A q \in SUBSET t : q # t => q \in Good
          PROVE  t \in Good
      <3>1. h[t] = IF t = {} THEN base
                   ELSE CutBySlash(c, v, s, h[t \ {Max(t)}], seq[Max(t)])
        BY <1>9
      <3>2. t # {} => Max(t) \in D /\ h[t \ {Max(t)}] \in Gathered
        BY <1>3, <2>1
      <3>3. t # {} => CutBySlash(c, v, s, h[t \ {Max(t)}], seq[Max(t)]) \in Gathered
        BY <1>4, <3>2
      <3>. HIDE DEF G, pick, IsFold
      <3>. QED BY <1>0, <3>1, <3>3
    <2>2. \A t \in SUBSET D : t \in Good
      <3>. HIDE DEF Good
      <3>. QED BY <1>2, <2>1, Induction
    <2>3. h = [t \in SUBSET D |-> h[t]]
      BY <1>9
    <2>. HIDE DEF G, pick, IsFold
    <2>. QED BY <2>2, <2>3
  <1>10. IsFold(CHOOSE h : IsFold(h))
    <2>1. \E h : IsFold(h)
      BY <1>8
    <2>. HIDE DEF IsFold
    <2>. QED BY <2>1
  <1>11. OverSlashes(c, v, s) = (CHOOSE h : IsFold(h))[D]
    BY DEF OverSlashes, FoldLeft, MapThenFoldSet, D, base, seq
  <1>. DEFINE h == CHOOSE h : IsFold(h)
  <1>12. h \in [SUBSET D -> Gathered] /\ OverSlashes(c, v, s) = h[D]
    <2>. HIDE DEF IsFold
    <2>. QED BY <1>9, <1>10, <1>11
  <1>13. \A t \in SUBSET D :
            h[t] = IF t = {} THEN base ELSE CutBySlash(c, v, s, h[t \ {Max(t)}], seq[Max(t)])
    <2>. HIDE DEF h
    <2>. QED BY <1>10 DEF h
  <1>. HIDE DEF h, G, pick, IsFold
  <1>14. /\ h[{}] = base
         /\ \A t \in SUBSET D : t # {} =>
               h[t] = CutBySlash(c, v, s, h[t \ {Max(t)}], seq[Max(t)])
    BY <1>13
  <1>15. GathersOver(c, v, s, h)
    BY <1>12, <1>14 DEF GathersOver, D, base, seq
  <1>. QED BY <1>15

LEMMA OverSlashesGathers ==
    ASSUME NEW c \in States, NEW v \in Operators, NEW s \in Infos
    PROVE  OverSlashes(c, v, s) \in Gathered
  <1>1. PICK h : GathersOver(c, v, s, h)
    BY SlashesGather
  <1>. QED BY <1>1 DEF GathersOver

\* The rewards of a delegation are an integer, -1 when the keeper panics.
LEMMA RewardsAreWhole ==
    ASSUME NEW c \in States, NEW del \in Delegators, NEW v \in Operators, NEW ending \in Int
    PROVE  DelegationRewards(c, del, v, ending) \in Int
  <1>. DEFINE s == c.start[del][v]
              end == OverSlashes(c, v, s)
              total == RewardsUpTo(c, v, end, ending)
  <1>1. s \in Infos
    BY DEF States
  <1>3. end \in Gathered
    <2>. HIDE DEF s
    <2>. QED BY <1>1, OverSlashesGathers
  <1>4. total \in Gathered
    <2>. HIDE DEF end
    <2>. QED BY <1>3, RewardsUpToGathers
  <1>5. DelegationRewards(c, del, v, ending) \in {0, -1, total.sum}
    BY DEF DelegationRewards
  <1>. HIDE DEF total
  <1>6. total.sum \in Int
    BY <1>4 DEF Gathered
  <1>. QED BY <1>5, <1>6

\* A payment leaves the account and the outstanding rewards alike.
LEMMA PayDistributes ==
    ASSUME NEW c \in States, NEW v \in Operators, NEW amount \in Int
    PROVE  Distributes(c, Pay(c, v, amount))
  <1>. DEFINE new == [c.dist[v] EXCEPT !.outstanding = @ - amount]
              d == [c EXCEPT !.distribution = @ - amount, !.dist[v] = new]
  <1>1. /\ c.dist[v] \in Records /\ c.dist[v].outstanding \in Int
        /\ c.dist[v].outstanding - amount \in Int /\ c.pool \in Int
        /\ c.distribution \in Int /\ c.distribution - amount \in Int
    BY DEF States, Records
  <1>2. Pay(c, v, amount) = d
    BY DEF Pay
  <1>3. new \in Records /\ new.outstanding = c.dist[v].outstanding - amount
    BY <1>1 DEF Records
  <1>. HIDE DEF new
  <1>4. d \in States /\ SameStaking(c, d) /\ d.dist = [c.dist EXCEPT ![v] = new]
        /\ d.pool = c.pool /\ d.distribution = c.distribution - amount
    BY <1>1, <1>3 DEF States, SameStaking
  <1>. HIDE DEF d
  <1>5. d.distribution - d.pool - new.outstanding
            = c.distribution - c.pool - c.dist[v].outstanding
    BY <1>1, <1>3, <1>4
  <1>. QED BY <1>2, <1>3, <1>4, <1>5, RecordsDistribute

LEMMA StartingInfoDistributes ==
    ASSUME NEW c \in States, NEW del \in Delegators, NEW v \in Operators, NEW info \in Infos
    PROVE  Distributes(c, [c EXCEPT !.start[del][v] = info])
  <1>. DEFINE e == [c EXCEPT !.start[del][v] = info]
  <1>1. c.start \in [Delegators -> [Operators -> Infos]]
    BY DEF States
  <1>2. /\ e \in States /\ SameStaking(c, e) /\ e.dist = c.dist
        /\ e.pool = c.pool /\ e.distribution = c.distribution
    BY <1>1 DEF States, SameStaking
  <1>. HIDE DEF e
  <1>3. Distributes(c, e)
    BY <1>2, SameFees
  <1>. QED BY <1>3 DEF e

\* The end of the period, the payment, and the reference that goes.
LEMMA PayDelegationDistributes ==
    ASSUME NEW c \in States, NEW del \in Delegators, NEW v \in Operators
    PROVE  Distributes(c, PayDelegation(c, del, v))
  <1>. DEFINE d == IncrementValidatorPeriod(c, v)
              owed == DelegationRewards(d, del, v, c.dist[v].period)
              paid == Pay(d, v, Min({owed, d.dist[v].outstanding}))
              less == DecrementReferenceCount(paid, v, c.start[del][v].period)
              e == IF owed < 0 THEN Panic(d) ELSE less
              f == IF d.panic THEN d ELSE e
              g == [f EXCEPT !.start[del][v] = NoInfo]
  <1>1. PayDelegation(c, del, v) = IF f.panic THEN f ELSE g
    BY DEF PayDelegation, Then
  <1>2. Distributes(c, d)
    BY PeriodDistributes
  <1>3. /\ c.dist[v].period \in Int /\ c.start[del][v].period \in Int /\ NoInfo \in Infos
    BY DEF States, Records, Infos, NoInfo
  <1>. HIDE DEF d
  <1>4. d \in States /\ d.dist[v].outstanding \in Int
    BY <1>2 DEF Distributes, States, Records
  <1>5. owed \in Int
    BY <1>3, <1>4, RewardsAreWhole
  <1>. HIDE DEF owed
  <1>6. Distributes(d, paid)
    BY <1>4, <1>5, MinIsInt, PayDistributes
  <1>. HIDE DEF paid
  <1>7. Distributes(paid, less)
    BY <1>3, <1>6, DecrementDistributes DEF Distributes
  <1>. HIDE DEF less
  <1>8. Distributes(d, less) /\ Distributes(d, Panic(d))
    BY <1>4, <1>6, <1>7, DistributesTwice, PanicDistributes
  <1>9. Distributes(c, f)
    <2>1. Distributes(c, less) /\ Distributes(c, Panic(d))
      BY <1>2, <1>8, DistributesTwice
    <2>. QED BY <2>1, <1>2
  <1>. HIDE DEF f
  <1>10. Distributes(f, g)
    BY <1>3, <1>9, StartingInfoDistributes DEF Distributes
  <1>. HIDE DEF g
  <1>11. Distributes(c, g)
    BY <1>9, <1>10, DistributesTwice
  <1>. QED BY <1>1, <1>9, <1>11

\* A withdrawal, with an error, a panic or a payment.
LEMMA WithdrawRewardsDistributes ==
    ASSUME NEW c \in States, NEW del \in Delegators, NEW v \in Operators
    PROVE  Distributes(c, WithdrawDelegationRewards(c, del, v))
  <1>. DEFINE d == PayDelegation(c, del, v)
              e == InitializeDelegation(d, del, v)
  <1>1. WithdrawDelegationRewards(c, del, v) \in {c, d, e}
    BY DEF WithdrawDelegationRewards, Then
  <1>2. Distributes(c, d)
    BY PayDelegationDistributes
  <1>. HIDE DEF d
  <1>3. Distributes(d, e)
    BY <1>2, InitializeDelegationDistributes DEF Distributes
  <1>. HIDE DEF e
  <1>4. Distributes(c, e) /\ Distributes(c, c)
    BY <1>2, <1>3, DistributesTwice DEF Distributes, SameStaking
  <1>. QED BY <1>1, <1>2, <1>4

\* The withdrawal of a commission.
LEMMA CommissionDistributes ==
    ASSUME NEW c \in States, NEW v \in Operators
    PROVE  Distributes(c, WithdrawValidatorCommission(c, v))
  <1>. DEFINE fee == c.dist[v].commission
              new == [c.dist[v] EXCEPT !.commission = 0, !.outstanding = @ - fee]
              d == [c EXCEPT !.distribution = @ - fee, !.dist[v] = new]
  <1>1. /\ c.dist[v] \in Records /\ c.dist[v].outstanding \in Int /\ fee \in Int
        /\ c.dist[v].outstanding - fee \in Int /\ c.pool \in Int /\ 0 \in Int
        /\ c.distribution \in Int /\ c.distribution - fee \in Int
    BY DEF States, Records
  <1>2. WithdrawValidatorCommission(c, v) = d
    BY DEF WithdrawValidatorCommission
  <1>. HIDE DEF fee
  <1>3. new \in Records /\ new.outstanding = c.dist[v].outstanding - fee
    BY <1>1 DEF Records
  <1>. HIDE DEF new
  <1>4. d \in States /\ SameStaking(c, d) /\ d.dist = [c.dist EXCEPT ![v] = new]
        /\ d.pool = c.pool /\ d.distribution = c.distribution - fee
    BY <1>1, <1>3 DEF States, SameStaking
  <1>. HIDE DEF d
  <1>5. d.distribution - d.pool - new.outstanding
            = c.distribution - c.pool - c.dist[v].outstanding
    BY <1>1, <1>3, <1>4
  <1>. QED BY <1>2, <1>3, <1>4, <1>5, RecordsDistribute

\* The fees of a block are put into the account and owed to the validator.
LEMMA AllocateDistributes ==
    ASSUME NEW c \in States, NEW v \in Operators
    PROVE  /\ Distributes(c, AllocateTokensToValidator(c, v))
           /\ AllocateTokensToValidator(c, v).panic = c.panic
  <1>. DEFINE new == [c.dist[v] EXCEPT !.outstanding = @ + Reward,
                                       !.commission = @ + Commission,
                                       !.rewards = @ + (Reward - Commission)]
              d == [c EXCEPT !.distribution = @ + Reward, !.dist[v] = new]
  <1>0. Reward \in Int /\ Commission \in Int /\ Reward - Commission \in Int
    BY ChainAssumption
  <1>1. /\ c.dist[v] \in Records /\ c.dist[v].outstanding \in Int
        /\ c.dist[v].outstanding + Reward \in Int /\ c.pool \in Int
        /\ c.dist[v].commission + Commission \in Int
        /\ c.dist[v].rewards + (Reward - Commission) \in Int
        /\ c.distribution \in Int /\ c.distribution + Reward \in Int
    BY <1>0 DEF States, Records
  <1>2. AllocateTokensToValidator(c, v) = d
    BY DEF AllocateTokensToValidator
  <1>3. new \in Records /\ new.outstanding = c.dist[v].outstanding + Reward
    BY <1>1 DEF Records
  <1>. HIDE DEF new
  <1>4. d \in States /\ SameStaking(c, d) /\ d.dist = [c.dist EXCEPT ![v] = new]
        /\ d.pool = c.pool /\ d.distribution = c.distribution + Reward
        /\ d.panic = c.panic
    BY <1>1, <1>3 DEF States, SameStaking
  <1>. HIDE DEF d
  <1>5. d.distribution - d.pool - new.outstanding
            = c.distribution - c.pool - c.dist[v].outstanding
    BY <1>0, <1>1, <1>3, <1>4
  <1>. QED BY <1>2, <1>3, <1>4, <1>5, RecordsDistribute

\* The export donates what is outstanding before it makes new records.
LEMMA ReinitDistributes ==
    ASSUME NEW c \in States, NEW v \in Operators
    PROVE  Distributes(c, ReinitValidator(c, v)) /\ ReinitValidator(c, v).panic = c.panic
  <1>. DEFINE d == [c EXCEPT !.pool = @ + c.dist[v].outstanding]
              e == InitializeValidator(d, v)
  <1>1. c.dist[v].outstanding \in Int /\ c.pool \in Int /\ c.distribution \in Int
        /\ c.pool + c.dist[v].outstanding \in Int
    BY DEF States, Records
  <1>2. /\ d \in States /\ SameStaking(c, d) /\ d.dist = c.dist /\ d.panic = c.panic
        /\ d.pool = c.pool + c.dist[v].outstanding /\ d.distribution = c.distribution
    BY <1>1 DEF States, SameStaking
  <1>3. ReinitValidator(c, v) = e
    BY DEF ReinitValidator
  <1>. HIDE DEF d
  <1>4. /\ e \in States /\ SameStaking(d, e) /\ e.panic = d.panic
        /\ Surplus(e) = Surplus(d) + d.dist[v].outstanding
    BY <1>2, InitializeSurplus
  <1>. HIDE DEF e
  <1>5. Outstanding(d) = Outstanding(c) /\ Outstanding(c) \in Int
    BY <1>2, OutstandingIsWhole DEF Outstanding
  <1>6. Surplus(e) = Surplus(c)
    BY <1>1, <1>2, <1>4, <1>5 DEF Surplus
  <1>. QED BY <1>2, <1>3, <1>4, <1>6 DEF Distributes, SameStaking

-----------------------------------------------------------------------------
(* The same calls, for all of a set *)

\* Where a chain gets from c when the distribution keeper is called.
Distributed(c) == {d \in States : Distributes(c, d)}

LEMMA DistributesNothing == \A c \in States : Distributes(c, c) /\ c \in Distributed(c)
  BY DEF Distributes, SameStaking, Distributed

LEMMA AllocatesToAll ==
    ASSUME NEW c \in States, NEW S \in SUBSET (Operators)
    PROVE  /\ Distributes(c, ForAll(AllocateTokensToValidator, c, S))
           /\ ForAll(AllocateTokensToValidator, c, S).panic = c.panic
  <1>. DEFINE Same == {d \in Distributed(c) : d.panic = c.panic}
  <1>1. IsFiniteSet(S)
    BY ChainAssumption, FS_Subset
  <1>2. ASSUME NEW x \in S, NEW d \in Same
        PROVE  AllocateStep(x, d) \in Same
    <2>. DEFINE e == AllocateTokensToValidator(d, x)
    <2>1. AllocateStep(x, d) = IF d.panic THEN d ELSE e
      BY DEF AllocateStep, Then
    <2>2. Distributes(d, e) /\ e.panic = d.panic
      BY AllocateDistributes DEF Distributed
    <2>. HIDE DEF e
    <2>3. Distributes(c, e)
      BY <2>2, DistributesTwice DEF Distributed
    <2>. QED BY <2>1, <2>2, <2>3 DEF Distributed, Distributes
  <1>3. Allocating!Fold(c, S) \in Same
    <2>1. Allocating!IsFiniteSet(S)
      BY <1>1 DEF IsFiniteSet, Allocating!IsFiniteSet
    <2>2. c \in Same
      BY DistributesNothing
    <2>. HIDE DEF Same
    <2>. QED BY <1>2, <2>1, <2>2, Allocating!FoldKeeps
  <1>. QED BY <1>3, AllocateIsAFold DEF Distributed

\* The export withdraws every commission.
LEMMA CommissionsOfAll ==
    ASSUME NEW c \in States, NEW S \in SUBSET (Operators)
    PROVE  Distributes(c, ForAll(WithdrawValidatorCommission, c, S))
  <1>1. IsFiniteSet(S)
    BY ChainAssumption, FS_Subset
  <1>2. ASSUME NEW x \in S, NEW d \in Distributed(c)
        PROVE  CommissionStep(x, d) \in Distributed(c)
    <2>. DEFINE e == WithdrawValidatorCommission(d, x)
    <2>1. CommissionStep(x, d) = IF d.panic THEN d ELSE e
      BY DEF CommissionStep, Then
    <2>2. Distributes(d, e)
      BY CommissionDistributes DEF Distributed
    <2>. HIDE DEF e
    <2>3. Distributes(c, e)
      BY <2>2, DistributesTwice DEF Distributed
    <2>. QED BY <2>1, <2>3 DEF Distributed, Distributes
  <1>3. Commissions!Fold(c, S) \in Distributed(c)
    <2>1. Commissions!IsFiniteSet(S)
      BY <1>1 DEF IsFiniteSet, Commissions!IsFiniteSet
    <2>. QED BY <1>2, <2>1, DistributesNothing, Commissions!FoldKeeps
  <1>. QED BY <1>3, CommissionIsAFold DEF Distributed

\* The export withdraws the reward of every delegation.
LEMMA RewardsOfAll ==
    ASSUME NEW c \in States, NEW S \in SUBSET (Delegators \X Operators)
    PROVE  Distributes(c, ForAll(WithdrawRewardsOf, c, S))
  <1>1. IsFiniteSet(S)
    BY ChainAssumption, FS_Product, FS_Subset
  <1>2. ASSUME NEW x \in S, NEW d \in Distributed(c)
        PROVE  RewardsStep(x, d) \in Distributed(c)
    <2>. DEFINE e == WithdrawRewardsOf(d, x)
    <2>1. RewardsStep(x, d) = IF d.panic THEN d ELSE e
      BY DEF RewardsStep, Then
    <2>2. Distributes(d, e)
      BY WithdrawRewardsDistributes DEF Distributed, WithdrawRewardsOf
    <2>. HIDE DEF e
    <2>3. Distributes(c, e)
      BY <2>2, DistributesTwice DEF Distributed
    <2>. QED BY <2>1, <2>3 DEF Distributed, Distributes
  <1>3. Rewards!Fold(c, S) \in Distributed(c)
    <2>1. Rewards!IsFiniteSet(S)
      BY <1>1 DEF IsFiniteSet, Rewards!IsFiniteSet
    <2>. QED BY <1>2, <2>1, DistributesNothing, Rewards!FoldKeeps
  <1>. QED BY <1>3, RewardsIsAFold DEF Distributed

\* The export makes new records for every validator.
LEMMA ReinitAll ==
    ASSUME NEW c \in States, NEW S \in SUBSET (Operators)
    PROVE  Distributes(c, ForAll(ReinitValidator, c, S))
  <1>1. IsFiniteSet(S)
    BY ChainAssumption, FS_Subset
  <1>2. ASSUME NEW x \in S, NEW d \in Distributed(c)
        PROVE  ReinitStep(x, d) \in Distributed(c)
    <2>. DEFINE e == ReinitValidator(d, x)
    <2>1. ReinitStep(x, d) = IF d.panic THEN d ELSE e
      BY DEF ReinitStep, Then
    <2>2. Distributes(d, e)
      BY ReinitDistributes DEF Distributed
    <2>. HIDE DEF e
    <2>3. Distributes(c, e)
      BY <2>2, DistributesTwice DEF Distributed
    <2>. QED BY <2>1, <2>3 DEF Distributed, Distributes
  <1>3. Reinitializing!Fold(c, S) \in Distributed(c)
    <2>1. Reinitializing!IsFiniteSet(S)
      BY <1>1 DEF IsFiniteSet, Reinitializing!IsFiniteSet
    <2>. QED BY <1>2, <2>1, DistributesNothing, Reinitializing!FoldKeeps
  <1>. QED BY <1>3, ReinitIsAFold DEF Distributed

\* The export, and the first genesis, start every delegation.
LEMMA StartsAll ==
    ASSUME NEW c \in States, NEW S \in SUBSET (Delegators \X Operators)
    PROVE  Distributes(c, ForAll(StartDelegation, c, S))
  <1>1. IsFiniteSet(S)
    BY ChainAssumption, FS_Product, FS_Subset
  <1>2. ASSUME NEW x \in S, NEW d \in Distributed(c)
        PROVE  StartStep(x, d) \in Distributed(c)
    <2>. DEFINE e == StartDelegation(d, x)
    <2>1. StartStep(x, d) = IF d.panic THEN d ELSE e
      BY DEF StartStep, Then
    <2>2. Distributes(d, e)
      BY StartDistributes DEF Distributed
    <2>. HIDE DEF e
    <2>3. Distributes(c, e)
      BY <2>2, DistributesTwice DEF Distributed
    <2>. QED BY <2>1, <2>3 DEF Distributed, Distributes
  <1>3. Starting!Fold(c, S) \in Distributed(c)
    <2>1. Starting!IsFiniteSet(S)
      BY <1>1 DEF IsFiniteSet, Starting!IsFiniteSet
    <2>. QED BY <1>2, <2>1, DistributesNothing, Starting!FoldKeeps
  <1>. QED BY <1>3, StartIsAFold DEF Distributed

-----------------------------------------------------------------------------
(* The calls of the staking keeper *)

\* What the staking module relies on: its entries can be told apart, a validator
\* that is not there has no tokens, and the power index has every validator that
\* is not jailed, and none that is not there.
Whole(c) ==
    /\ IsFiniteSet(c.ubds)
    /\ \A u \in c.ubds : u.id < c.ids
    /\ \A u, w \in c.ubds : u.id = w.id => u = w
    /\ \A v \in Operators : ~Exists(c, v) => c.vals[v].tokens = 0
    /\ c.power \subseteq Existing(c)
    /\ \A v \in Existing(c) : ~c.vals[v].jailed => v \in c.power

\* The power index of d is that of c, but for v, that is now x.
PowerFollows(c, d, v, x) ==
    d.power \ {v} = c.power \ {v} /\ (~x.jailed => v \in d.power)

\* The active set.
LastIsBonded(c) == \A v \in c.last : IsBonded(c, v)

\* What the pools hold beyond what they have to.
BondedSurplus(c) == c.bonded - BondedTokens(c)
NotBondedSurplus(c) == c.notBonded - NotBondedTokens(c)

SameStakes(c, d) ==
    BondedSurplus(d) = BondedSurplus(c) /\ NotBondedSurplus(d) = NotBondedSurplus(c)

\* A call of the staking keeper: it makes or loses no fees and, unless it
\* panics, no stakes, and leaves what it relies on.
Keeps(c, d) ==
    /\ d \in States /\ Surplus(d) = Surplus(c)
    /\ Whole(c) /\ ~d.panic => Whole(d) /\ SameStakes(c, d)

KeepsActive(c, d) == LastIsBonded(c) /\ ~d.panic => LastIsBonded(d)

BondedPart(x) == IF x.status = "Bonded" THEN x.tokens ELSE 0
FreePart(x) == IF x.status = "Bonded" THEN 0 ELSE x.tokens

Free(c) ==
    SumFunction([v \in Operators |-> IF IsBonded(c, v) THEN 0 ELSE c.vals[v].tokens])

Owed(c) == SumFunction([u \in c.ubds |-> u.amount])

LEMMA OwedIsWhole == \A c \in States : IsFiniteSet(c.ubds) => Owed(c) \in Int
  <1>. SUFFICES ASSUME NEW c \in States, IsFiniteSet(c.ubds) PROVE Owed(c) \in Int
    OBVIOUS
  <1>. DEFINE f == [u \in c.ubds |-> u.amount]
  <1>1. f \in [c.ubds -> Int]
    BY DEF States, Entries
  <1>2. SumFunction(f) \in Int
    <2>. HIDE DEF f
    <2>. QED BY <1>1, SumIsWhole
  <1>. QED BY <1>2 DEF Owed

\* What the pools have to hold are integers.
LEMMA StakesAreWhole ==
    ASSUME NEW c \in States, IsFiniteSet(c.ubds)
    PROVE  /\ BondedTokens(c) \in Int /\ NotBondedTokens(c) \in Int /\ Free(c) \in Int
           /\ NotBondedTokens(c) = Free(c) + Owed(c)
  <1>. DEFINE f == [v \in Operators |-> IF IsBonded(c, v) THEN c.vals[v].tokens ELSE 0]
              g == [v \in Operators |-> IF IsBonded(c, v) THEN 0 ELSE c.vals[v].tokens]
  <1>1. IsFiniteSet(Operators) /\ \A v \in Operators : c.vals[v].tokens \in Int
    BY ChainAssumption DEF States, Vals
  <1>2. f \in [Operators -> Int] /\ g \in [Operators -> Int]
    BY <1>1
  <1>3. SumFunction(f) \in Int /\ SumFunction(g) \in Int
    <2>. HIDE DEF f, g
    <2>. QED BY <1>1, <1>2, SumIsWhole
  <1>4. BondedTokens(c) \in Int /\ Free(c) \in Int
    BY <1>3 DEF BondedTokens, Free
  <1>5. NotBondedTokens(c) = Free(c) + Owed(c)
    BY DEF NotBondedTokens, Free, Owed
  <1>. QED BY <1>4, <1>5, OwedIsWhole

\* One validator changes.
LEMMA StakesChange ==
    ASSUME NEW c \in States, NEW d \in States, NEW v \in Operators, NEW x \in Vals,
           d.vals = [c.vals EXCEPT ![v] = x]
    PROVE  /\ BondedTokens(d) = BondedTokens(c) + (BondedPart(x) - BondedPart(c.vals[v]))
           /\ Free(d) = Free(c) + (FreePart(x) - FreePart(c.vals[v]))
  <1>. DEFINE b(e) == [w \in Operators |-> IF IsBonded(e, w) THEN e.vals[w].tokens ELSE 0]
              f(e) == [w \in Operators |-> IF IsBonded(e, w) THEN 0 ELSE e.vals[w].tokens]
  <1>1. /\ IsFiniteSet(Operators) /\ d.vals[v] = x
        /\ \A w \in Operators : c.vals[w].tokens \in Int /\ d.vals[w].tokens \in Int
        /\ \A w \in Operators \ {v} : d.vals[w] = c.vals[w]
    BY ChainAssumption DEF States, Vals
  <1>2. /\ b(c) \in [Operators -> Int] /\ b(d) \in [Operators -> Int]
        /\ f(c) \in [Operators -> Int] /\ f(d) \in [Operators -> Int]
    BY <1>1
  <1>3. \A w \in Operators \ {v} : b(d)[w] = b(c)[w] /\ f(d)[w] = f(c)[w]
    BY <1>1 DEF IsBonded
  <1>4. /\ b(c)[v] = BondedPart(c.vals[v]) /\ b(d)[v] = BondedPart(x)
        /\ f(c)[v] = FreePart(c.vals[v]) /\ f(d)[v] = FreePart(x)
    BY <1>1 DEF IsBonded, BondedPart, FreePart
  <1>5. /\ BondedTokens(c) = SumFunction(b(c)) /\ BondedTokens(d) = SumFunction(b(d))
        /\ Free(c) = SumFunction(f(c)) /\ Free(d) = SumFunction(f(d))
    BY DEF BondedTokens, Free
  <1>. HIDE DEF b, f
  <1>6. SumFunction(b(d)) = SumFunction(b(c)) + (b(d)[v] - b(c)[v])
    BY <1>1, <1>2, <1>3, SumChange
  <1>7. SumFunction(f(d)) = SumFunction(f(c)) + (f(d)[v] - f(c)[v])
    BY <1>1, <1>2, <1>3, SumChange
  <1>. QED BY <1>4, <1>5, <1>6, <1>7

LEMMA PartsAreWhole == \A x \in Vals : BondedPart(x) \in Int /\ FreePart(x) \in Int
  BY DEF BondedPart, FreePart, Vals

\* A validator changes, and the pools follow it.
LEMMA StakesFollow ==
    ASSUME NEW c \in States, NEW d \in States, NEW v \in Operators, NEW x \in Vals,
           IsFiniteSet(c.ubds), d.vals = [c.vals EXCEPT ![v] = x], d.ubds = c.ubds,
           d.bonded = c.bonded + (BondedPart(x) - BondedPart(c.vals[v])),
           d.notBonded = c.notBonded + (FreePart(x) - FreePart(c.vals[v]))
    PROVE  SameStakes(c, d)
  <1>1. c.vals[v] \in Vals
    BY DEF States
  <1>2. Owed(d) = Owed(c) /\ Owed(c) \in Int
    BY OwedIsWhole DEF Owed
  <1>. DEFINE b == BondedPart(x) - BondedPart(c.vals[v])
              f == FreePart(x) - FreePart(c.vals[v])
  <1>3. b \in Int /\ f \in Int
    BY <1>1, PartsAreWhole
  <1>4. BondedTokens(d) = BondedTokens(c) + b /\ Free(d) = Free(c) + f
    BY StakesChange
  <1>5. /\ BondedTokens(c) \in Int /\ Free(c) \in Int
        /\ NotBondedTokens(c) = Free(c) + Owed(c)
        /\ NotBondedTokens(d) = Free(d) + Owed(d)
    BY StakesAreWhole
  <1>6. c.bonded \in Int /\ c.notBonded \in Int /\ d.bonded = c.bonded + b
        /\ d.notBonded = c.notBonded + f
    BY DEF States
  <1>. HIDE DEF b, f
  <1>7. BondedSurplus(d) = BondedSurplus(c)
    BY <1>3, <1>4, <1>5, <1>6 DEF BondedSurplus
  <1>8. NotBondedSurplus(d) = NotBondedSurplus(c)
    BY <1>2, <1>3, <1>4, <1>5, <1>6 DEF NotBondedSurplus
  <1>. QED BY <1>7, <1>8 DEF SameStakes

\* As above, for a validator that is there and stays.
LEMMA ValidatorChanges ==
    ASSUME NEW c \in States, NEW d \in States, NEW v \in Operators, NEW x \in Vals,
           Whole(c), Exists(c, v), x.status # "Absent",
           d.vals = [c.vals EXCEPT ![v] = x], d.ubds = c.ubds, d.ids = c.ids,
           PowerFollows(c, d, v, x),
           d.bonded = c.bonded + (BondedPart(x) - BondedPart(c.vals[v])),
           d.notBonded = c.notBonded + (FreePart(x) - FreePart(c.vals[v]))
    PROVE  Whole(d) /\ SameStakes(c, d)
  <1>1. /\ d.vals[v] = x /\ c.vals[v] \in Vals
        /\ \A w \in Operators \ {v} : d.vals[w] = c.vals[w]
    BY DEF States
  <1>2. \A w \in Operators : Exists(d, w) <=> Exists(c, w)
    BY <1>1 DEF Exists
  <1>3. \A w \in Operators : ~Exists(d, w) => d.vals[w].tokens = 0
    BY <1>1, <1>2 DEF Whole
  <1>4. /\ d.power \subseteq Existing(d)
        /\ \A w \in Existing(d) : ~d.vals[w].jailed => w \in d.power
    BY <1>1, <1>2 DEF Existing, Whole, PowerFollows
  <1>5. Whole(d)
    BY <1>3, <1>4 DEF Whole
  <1>6. SameStakes(c, d)
    BY StakesFollow DEF Whole
  <1>. QED BY <1>5, <1>6

\* A validator that is as jailed as it was needs no change of the power index.
LEMMA PowerIsRight ==
    ASSUME NEW c, NEW d, NEW v \in Operators, NEW x, Whole(c), Exists(c, v),
           x.jailed = c.vals[v].jailed, d.power = c.power
    PROVE  PowerFollows(c, d, v, x)
  BY DEF Whole, Existing, PowerFollows

\* The surplus depends on the records, the pool and the account alone.
LEMMA SameDistribution ==
    ASSUME NEW c, NEW d, d.dist = c.dist, d.pool = c.pool, d.distribution = c.distribution
    PROVE  Surplus(d) = Surplus(c)
  BY DEF Surplus, Outstanding

\* Calls of the distribution keeper are of no concern to staking.
LEMMA DistributesKeeps ==
    ASSUME NEW c \in States, NEW d, Distributes(c, d)
    PROVE  Keeps(c, d) /\ KeepsActive(c, d)
  <1>1. /\ d \in States /\ d.ubds = c.ubds /\ d.ids = c.ids /\ d.vals = c.vals
        /\ d.power = c.power /\ d.last = c.last /\ d.bonded = c.bonded
        /\ d.notBonded = c.notBonded /\ Surplus(d) = Surplus(c)
    BY DEF Distributes, SameStaking
  <1>2. \A v : (Exists(d, v) <=> Exists(c, v)) /\ (IsBonded(d, v) <=> IsBonded(c, v))
    BY <1>1 DEF Exists, IsBonded
  <1>3. Whole(c) => Whole(d)
    BY <1>1, <1>2 DEF Whole, Existing
  <1>4. BondedTokens(d) = BondedTokens(c) /\ NotBondedTokens(d) = NotBondedTokens(c)
    BY <1>1 DEF BondedTokens, NotBondedTokens, IsBonded
  <1>5. SameStakes(c, d)
    BY <1>1, <1>4 DEF SameStakes, BondedSurplus, NotBondedSurplus
  <1>6. KeepsActive(c, d)
    BY <1>1, <1>2 DEF KeepsActive, LastIsBonded
  <1>. QED BY <1>1, <1>3, <1>5, <1>6 DEF Keeps

\* Two calls of the staking keeper, the first of which does not panic.
LEMMA KeepsTwice ==
    ASSUME NEW c, NEW d, NEW e, Keeps(c, d), Keeps(d, e), ~d.panic
    PROVE  Keeps(c, e)
  BY DEF Keeps, SameStakes

LEMMA KeepsActiveTwice ==
    ASSUME NEW c, NEW d, NEW e, KeepsActive(c, d), KeepsActive(d, e), ~d.panic
    PROVE  KeepsActive(c, e)
  BY DEF KeepsActive

\* Nothing but the pools changes, and perhaps the call panics.
SameButPools(c, d) ==
    /\ d.height = c.height /\ d.ids = c.ids /\ d.vals = c.vals
    /\ d.power = c.power /\ d.last = c.last /\ d.queue = c.queue /\ d.dels = c.dels
    /\ d.ubds = c.ubds /\ d.reds = c.reds /\ d.dist = c.dist /\ d.start = c.start
    /\ d.pool = c.pool /\ d.distribution = c.distribution /\ d.signing = c.signing

OnlyBalances(c, d) == SameButPools(c, d) /\ d.panic = c.panic

\* Tokens come into one of the pools.
LEMMA Moves ==
    ASSUME NEW c \in States, NEW b \in BOOLEAN, NEW a \in Int
    PROVE  /\ Move(c, b, a) \in States /\ OnlyBalances(c, Move(c, b, a))
           /\ b => /\ Move(c, b, a).bonded = c.bonded + a
                   /\ Move(c, b, a).notBonded = c.notBonded
           /\ ~b => /\ Move(c, b, a).bonded = c.bonded
                    /\ Move(c, b, a).notBonded = c.notBonded + a
  <1>. DEFINE x == IF b THEN a ELSE 0
              y == IF b THEN 0 ELSE a
  <1>1. c.bonded + x \in Int /\ c.notBonded + y \in Int
    BY DEF States
  <1>2. Move(c, b, a) = [c EXCEPT !.bonded = @ + x, !.notBonded = @ + y]
    BY DEF Move
  <1>. HIDE DEF x, y
  <1>3. /\ Move(c, b, a) \in States /\ OnlyBalances(c, Move(c, b, a))
        /\ Move(c, b, a).bonded = c.bonded + x /\ Move(c, b, a).notBonded = c.notBonded + y
    BY <1>1, <1>2 DEF States, OnlyBalances, SameButPools
  <1>4. c.bonded \in Int /\ c.notBonded \in Int
    BY DEF States
  <1>. QED BY <1>3, <1>4 DEF x, y

LEMMA MovesBonded ==
    ASSUME NEW c \in States, NEW a \in Int, NEW d, d = Move(c, TRUE, a)
    PROVE  d \in States /\ OnlyBalances(c, d) /\ d.bonded = c.bonded + a
           /\ d.notBonded = c.notBonded
  <1>1. TRUE \in BOOLEAN
    OBVIOUS
  <1>. QED BY <1>1, Moves

LEMMA MovesFree ==
    ASSUME NEW c \in States, NEW a \in Int, NEW d, d = Move(c, FALSE, a)
    PROVE  d \in States /\ OnlyBalances(c, d) /\ d.bonded = c.bonded
           /\ d.notBonded = c.notBonded + a
  <1>1. FALSE \in BOOLEAN
    OBVIOUS
  <1>. QED BY <1>1, Moves

\* Tokens go from a pool, or there are not enough of them.
LEMMA Burns ==
    ASSUME NEW c \in States, NEW b \in BOOLEAN, NEW a \in Nat
    PROVE  LET d == Burn(c, b, a) IN
           /\ d \in States /\ SameButPools(c, d)
           /\ \/ d.panic
              \/ b /\ d.bonded = c.bonded - a /\ d.notBonded = c.notBonded
              \/ ~b /\ d.bonded = c.bonded /\ d.notBonded = c.notBonded - a
           /\ c.panic => d.panic
  <1>. DEFINE d == Burn(c, b, a)
  <1>1. d = Panic(c) \/ d = Move(c, b, -a)
    BY DEF Burn
  <1>. HIDE DEF d
  <1>2. CASE d = Panic(c)
    <2>1. d \in States /\ d.panic
      BY <1>2, PanicDistributes DEF Distributes
    <2>2. SameButPools(c, d)
      BY <1>2 DEF Panic, States, SameButPools
    <2>. QED BY <2>1, <2>2 DEF d
  <1>3. CASE d = Move(c, b, -a)
    <2>1. -a \in Int /\ c.bonded \in Int /\ c.notBonded \in Int
      BY DEF States
    <2>2. /\ d \in States /\ OnlyBalances(c, d)
          /\ b => d.bonded = c.bonded + (-a) /\ d.notBonded = c.notBonded
          /\ ~b => d.bonded = c.bonded /\ d.notBonded = c.notBonded + (-a)
      BY <1>3, <2>1, Moves
    <2>3. d.bonded \in Int /\ d.notBonded \in Int /\ a \in Int
      BY <2>2 DEF States
    <2>4. CASE b
      <3>1. d.bonded = c.bonded - a /\ d.notBonded = c.notBonded
        BY <2>1, <2>2, <2>3, <2>4
      <3>. QED BY <2>2, <2>4, <3>1 DEF OnlyBalances, d
    <2>5. CASE ~b
      <3>1. d.bonded = c.bonded /\ d.notBonded = c.notBonded - a
        BY <2>1, <2>2, <2>3, <2>5
      <3>. QED BY <2>2, <2>5, <3>1 DEF OnlyBalances, d
    <2>. QED BY <2>4, <2>5
  <1>. QED BY <1>1, <1>2, <1>3

\* A panic keeps what there is.
LEMMA PanicKeeps == \A c \in States : Keeps(c, Panic(c)) /\ KeepsActive(c, Panic(c))
  BY PanicDistributes, DistributesKeeps

\* Only the status of validators changes, the pools and perhaps the active set.
SameButActive(c, d) ==
    /\ d.height = c.height /\ d.ids = c.ids /\ d.power = c.power /\ d.dels = c.dels
    /\ d.ubds = c.ubds /\ d.reds = c.reds /\ d.dist = c.dist /\ d.start = c.start
    /\ d.pool = c.pool /\ d.distribution = c.distribution /\ d.signing = c.signing
    /\ \A v \in Operators : /\ d.vals[v].tokens = c.vals[v].tokens
                            /\ d.vals[v].shares = c.vals[v].shares
                            /\ d.vals[v].jailed = c.vals[v].jailed
                            /\ Exists(d, v) <=> Exists(c, v)

SameButStatus(c, d) == SameButActive(c, d) /\ d.last = c.last

SameButValidators(c, d) ==
    /\ d.height = c.height /\ d.panic = c.panic /\ d.ids = c.ids
    /\ d.power = c.power /\ d.last = c.last /\ d.dels = c.dels
    /\ d.ubds = c.ubds /\ d.reds = c.reds /\ d.dist = c.dist /\ d.start = c.start
    /\ d.pool = c.pool /\ d.distribution = c.distribution /\ d.signing = c.signing
    /\ d.bonded = c.bonded /\ d.notBonded = c.notBonded

\* The tokens of v, that is now x, go to the other pool.
TokensMoved(c, v, x, e, d) ==
    \/ /\ IsBonded(c, v) /\ x.status # "Bonded"
       /\ d = Move(Burn(e, TRUE, c.vals[v].tokens), FALSE, c.vals[v].tokens)
    \/ /\ ~IsBonded(c, v) /\ x.status = "Bonded"
       /\ d = Move(Burn(e, FALSE, c.vals[v].tokens), TRUE, c.vals[v].tokens)

\* The tokens of a validator whose status changes go from one pool to the other.
LEMMA TokensMove ==
    ASSUME NEW c \in States, NEW v \in Operators, NEW x \in Vals, Exists(c, v),
           x.status # "Absent", x.tokens = c.vals[v].tokens, x.jailed = c.vals[v].jailed,
           x.shares = c.vals[v].shares,
           NEW e \in States, e.vals = [c.vals EXCEPT ![v] = x], SameButValidators(c, e),
           NEW d, TokensMoved(c, v, x, e, d)
    PROVE  Keeps(c, d) /\ SameButStatus(c, d) /\ d.vals = [c.vals EXCEPT ![v] = x]
  <1>. DEFINE t == c.vals[v].tokens
  <1>1. /\ t \in Nat /\ t \in Int /\ c.vals[v] \in Vals
        /\ e.bonded \in Int /\ e.notBonded \in Int
    BY DEF States, Vals
  <1>2. /\ d \in States /\ SameButPools(e, d)
        /\ \/ d.panic
           \/ /\ IsBonded(c, v) /\ x.status # "Bonded"
              /\ d.bonded = e.bonded - t /\ d.notBonded = e.notBonded + t
           \/ /\ ~IsBonded(c, v) /\ x.status = "Bonded"
              /\ d.bonded = e.bonded + t /\ d.notBonded = e.notBonded - t
    <2>1. CASE IsBonded(c, v)
      <3>. DEFINE b == Burn(e, TRUE, t)
      <3>1. d = Move(b, FALSE, t) /\ x.status # "Bonded"
        BY <2>1 DEF TokensMoved
      <3>. HIDE DEF t
      <3>2. /\ b \in States /\ SameButPools(e, b)
            /\ b.panic \/ (b.bonded = e.bonded - t /\ b.notBonded = e.notBonded)
        BY <1>1, Burns
      <3>. HIDE DEF b
      <3>3. /\ d \in States /\ OnlyBalances(b, d)
            /\ d.bonded = b.bonded /\ d.notBonded = b.notBonded + t
        BY <1>1, <3>1, <3>2, Moves
      <3>. QED BY <2>1, <3>1, <3>2, <3>3 DEF OnlyBalances, SameButPools
    <2>2. CASE ~IsBonded(c, v)
      <3>. DEFINE b == Burn(e, FALSE, t)
      <3>1. d = Move(b, TRUE, t) /\ x.status = "Bonded"
        BY <2>2 DEF TokensMoved
      <3>. HIDE DEF t
      <3>2. /\ b \in States /\ SameButPools(e, b)
            /\ b.panic \/ (b.bonded = e.bonded /\ b.notBonded = e.notBonded - t)
        BY <1>1, Burns
      <3>. HIDE DEF b
      <3>3. /\ d \in States /\ OnlyBalances(b, d)
            /\ d.bonded = b.bonded + t /\ d.notBonded = b.notBonded
        BY <1>1, <3>1, <3>2, Moves
      <3>. QED BY <2>2, <3>1, <3>2, <3>3 DEF OnlyBalances, SameButPools
    <2>. QED BY <2>1, <2>2
  <1>3. d.vals = [c.vals EXCEPT ![v] = x]
    BY <1>2 DEF SameButPools
  <1>4. SameButStatus(c, d)
    <2>1. \A w \in Operators : /\ d.vals[w].tokens = c.vals[w].tokens
                               /\ d.vals[w].jailed = c.vals[w].jailed
                               /\ Exists(d, w) <=> Exists(c, w)
      <3>1. c.vals \in [Operators -> Vals]
        BY DEF States
      <3>. QED BY <1>3, <3>1 DEF Exists
    <2>2. /\ e.height = c.height /\ e.ids = c.ids
          /\ e.power = c.power /\ e.last = c.last /\ e.dels = c.dels
          /\ e.ubds = c.ubds /\ e.reds = c.reds /\ e.dist = c.dist /\ e.start = c.start
          /\ e.pool = c.pool /\ e.distribution = c.distribution /\ e.signing = c.signing
      BY DEF SameButValidators
    <2>3. SameButPools(e, d)
      BY <1>2
    <2>. QED BY <2>1, <2>2, <2>3 DEF SameButStatus, SameButActive, SameButPools
  <1>5. Surplus(d) = Surplus(c)
    BY <1>4, SameDistribution DEF SameButStatus, SameButActive
  <1>6. ASSUME Whole(c), ~d.panic PROVE Whole(d) /\ SameStakes(c, d)
    <2>1. d.ubds = c.ubds /\ d.ids = c.ids /\ d.power = c.power
      BY <1>4 DEF SameButStatus, SameButActive
    <2>2. PowerFollows(c, d, v, x)
      BY <1>6, <2>1, PowerIsRight
    <2>3. e.bonded = c.bonded /\ e.notBonded = c.notBonded
      BY DEF SameButValidators
    <2>4. /\ d.bonded = c.bonded + (BondedPart(x) - BondedPart(c.vals[v]))
          /\ d.notBonded = c.notBonded + (FreePart(x) - FreePart(c.vals[v]))
      <3>1. CASE IsBonded(c, v)
        <4>1. /\ BondedPart(x) = 0 /\ FreePart(x) = t
              /\ BondedPart(c.vals[v]) = t /\ FreePart(c.vals[v]) = 0
          BY <3>1, <1>2, <1>6 DEF BondedPart, FreePart, IsBonded
        <4>2. d.bonded = e.bonded - t /\ d.notBonded = e.notBonded + t
          BY <3>1, <1>2, <1>6
        <4>. HIDE DEF t
        <4>. QED BY <1>1, <2>3, <4>1, <4>2
      <3>2. CASE ~IsBonded(c, v)
        <4>1. /\ BondedPart(x) = t /\ FreePart(x) = 0
              /\ BondedPart(c.vals[v]) = 0 /\ FreePart(c.vals[v]) = t
          BY <3>2, <1>2, <1>6 DEF BondedPart, FreePart, IsBonded
        <4>2. d.bonded = e.bonded + t /\ d.notBonded = e.notBonded - t
          BY <3>2, <1>2, <1>6
        <4>. HIDE DEF t
        <4>. QED BY <1>1, <2>3, <4>1, <4>2
      <3>. QED BY <3>1, <3>2
    <2>. QED BY <1>2, <1>3, <1>6, <2>1, <2>2, <2>4, ValidatorChanges
  <1>. QED BY <1>2, <1>3, <1>4, <1>5, <1>6 DEF Keeps

\* A bonded validator begins to unbond.
LEMMA BeginUnbondingKeeps ==
    ASSUME NEW c \in States, NEW v \in Operators
    PROVE  /\ Keeps(c, BeginUnbonding(c, v)) /\ SameButStatus(c, BeginUnbonding(c, v))
           /\ \A w \in Operators \ {v} : BeginUnbonding(c, v).vals[w] = c.vals[w]
  <1>. DEFINE x == [c.vals[v] EXCEPT !.status = "Unbonding", !.unbondingHeight = c.height]
              e == [c EXCEPT !.vals[v] = x, !.queue = @ \cup {v}]
              d == Move(Burn(e, TRUE, c.vals[v].tokens), FALSE, c.vals[v].tokens)
  <1>1. CASE ~IsBonded(c, v)
    <2>1. BeginUnbonding(c, v) = Panic(c)
      BY <1>1 DEF BeginUnbonding
    <2>2. SameButStatus(c, Panic(c)) /\ Panic(c).vals = c.vals
      BY DEF States, SameButStatus, SameButActive, Exists, Panic
    <2>. QED BY <2>1, <2>2, PanicKeeps
  <1>2. CASE IsBonded(c, v)
    <2>1. BeginUnbonding(c, v) = d
      BY <1>2 DEF BeginUnbonding
    <2>2. c.vals[v] \in Vals /\ c.height \in Nat /\ Exists(c, v)
      BY <1>2 DEF States, Exists, IsBonded
    <2>3. /\ x \in Vals /\ x.status = "Unbonding" /\ x.tokens = c.vals[v].tokens
          /\ x.jailed = c.vals[v].jailed /\ x.shares = c.vals[v].shares
      BY <2>2 DEF Vals, Statuses
    <2>. HIDE DEF x
    <2>4. e \in States /\ e.vals = [c.vals EXCEPT ![v] = x] /\ SameButValidators(c, e)
      BY <2>3 DEF States, SameButValidators
    <2>. HIDE DEF e
    <2>5. TokensMoved(c, v, x, e, d) /\ x.status # "Absent"
      BY <1>2, <2>3 DEF TokensMoved
    <2>. HIDE DEF d
    <2>6. Keeps(c, d) /\ SameButStatus(c, d) /\ d.vals = [c.vals EXCEPT ![v] = x]
      BY <1>2, <2>2, <2>3, <2>4, <2>5, TokensMove
    <2>. QED BY <2>1, <2>6 DEF States
  <1>. QED BY <1>1, <1>2

\* A validator is bonded.
LEMMA BondKeeps ==
    ASSUME NEW c \in States, NEW v \in Operators, Exists(c, v)
    PROVE  /\ Keeps(c, Bond(c, v)) /\ SameButStatus(c, Bond(c, v))
           /\ IsBonded(Bond(c, v), v)
           /\ \A w \in Operators \ {v} : Bond(c, v).vals[w] = c.vals[w]
           /\ Bond(c, v).vals[v].unbondingHeight = c.vals[v].unbondingHeight
  <1>. DEFINE x == [c.vals[v] EXCEPT !.status = "Bonded"]
              e == [c EXCEPT !.vals[v].status = "Bonded", !.queue = @ \ {v}]
              d == Move(Burn(e, FALSE, c.vals[v].tokens), TRUE, c.vals[v].tokens)
  <1>1. CASE IsBonded(c, v)
    <2>1. Bond(c, v) = c
      BY <1>1 DEF Bond
    <2>2. SameButStatus(c, c)
      BY DEF SameButStatus, SameButActive
    <2>. QED BY <1>1, <2>1, <2>2, DistributesNothing, DistributesKeeps
  <1>2. CASE ~IsBonded(c, v)
    <2>1. Bond(c, v) = d
      BY <1>2 DEF Bond
    <2>2. c.vals[v] \in Vals
      BY DEF States
    <2>3. /\ x \in Vals /\ x.status = "Bonded" /\ x.tokens = c.vals[v].tokens
          /\ x.jailed = c.vals[v].jailed /\ x.shares = c.vals[v].shares
          /\ x.unbondingHeight = c.vals[v].unbondingHeight
      BY <2>2 DEF Vals, Statuses
    <2>4. e = [c EXCEPT !.vals[v] = x, !.queue = @ \ {v}]
      BY DEF States
    <2>. HIDE DEF x, e
    <2>5. e \in States /\ e.vals = [c.vals EXCEPT ![v] = x] /\ SameButValidators(c, e)
      BY <2>3, <2>4 DEF States, SameButValidators
    <2>6. TokensMoved(c, v, x, e, d) /\ x.status # "Absent"
      BY <1>2, <2>3 DEF TokensMoved
    <2>. HIDE DEF d
    <2>7. Keeps(c, d) /\ SameButStatus(c, d) /\ d.vals = [c.vals EXCEPT ![v] = x]
      BY <1>2, <2>2, <2>3, <2>5, <2>6, TokensMove
    <2>. QED BY <2>1, <2>3, <2>7 DEF States, IsBonded
  <1>. QED BY <1>1, <1>2

SameTwice(c, d, e) == SameButStatus(c, d) /\ SameButStatus(d, e) => SameButStatus(c, e)

LEMMA SameButStatusTwice == \A c, d, e : SameTwice(c, d, e)
  BY DEF SameTwice, SameButStatus, SameButActive

LEMMA ForNobody == \A c : ForAll(BeginUnbonding, c, {}) = c
  <1>. TAKE c
  <1>1. Unbonding!IsFiniteSet({})
    BY FS_EmptySet DEF IsFiniteSet, Unbonding!IsFiniteSet
  <1>2. Unbonding!Fold(c, {}) \in {c}
    BY <1>1, Unbonding!FoldKeeps
  <1>. QED BY <1>2, UnbondIsAFold

\* The power index is read from its top.
LEMMA ReachedInPower == \A c \in States : Reached(c) \subseteq c.power
  <1>. SUFFICES ASSUME NEW c \in States PROVE Reached(c) \subseteq c.power
    OBVIOUS
  <1>. DEFINE none == {v \in c.power : Exists(c, v) /\ c.vals[v].tokens = 0}
  <1>1. none # {} => Min(none) \in none
    <2>1. none \in SUBSET Nat /\ IsFiniteSet(none)
      <3>1. none \in SUBSET Operators
        BY DEF States
      <3>. QED BY <3>1, ChainAssumption, FS_Subset
    <2>. HIDE DEF none
    <2>. QED BY <2>1, LeastIsIn
  <1>. QED BY <1>1 DEF Reached

\* The active set are the validators that are reached and have tokens.
LEMMA ApplyKeeps ==
    ASSUME NEW c \in States, NEW d, d = ApplyValidatorSetUpdates(c),
           NEW top, top = {v \in Reached(c) : c.vals[v].tokens > 0}
    PROVE  /\ Keeps(c, d)
           /\ ~d.panic => /\ SameButActive(c, d) /\ d.last = top /\ LastIsBonded(d)
                          /\ \A v \in Reached(c) : Exists(c, v) /\ ~c.vals[v].jailed
                          /\ c.last \subseteq top =>
                                \A v \in Operators : d.vals[v].unbondingHeight
                                                         = c.vals[v].unbondingHeight
  <1>. DEFINE b == ForAll(Bond, c, top)
              e == ForAll(BeginUnbonding, b, c.last \ top)
  <1>1. CASE \E v \in Reached(c) : ~Exists(c, v) \/ c.vals[v].jailed
    <2>1. d = Panic(c)
      BY <1>1 DEF ApplyValidatorSetUpdates
    <2>. QED BY <2>1, PanicKeeps, PanicDistributes
  <1>2. CASE \A v \in Reached(c) : Exists(c, v) /\ ~c.vals[v].jailed
    <2>1. d = IF e.panic THEN e ELSE [e EXCEPT !.last = top]
      BY <1>2 DEF ApplyValidatorSetUpdates, Then
    <2>2. top \in SUBSET Operators /\ c.last \in SUBSET Operators
      <3>1. Reached(c) \subseteq c.power
        BY ReachedInPower
      <3>. QED BY <3>1 DEF States
    <2>3. IsFiniteSet(top) /\ IsFiniteSet(c.last \ top)
      BY <2>2, ChainAssumption, FS_Subset
    <2>. DEFINE Bonded(T) == {s \in States :
                   /\ Keeps(c, s) /\ SameButStatus(c, s)
                   /\ \A v \in Operators : s.vals[v].unbondingHeight = c.vals[v].unbondingHeight
                   /\ ~s.panic => \A v \in T : IsBonded(s, v)}
                V == [T \in SUBSET top |-> Bonded(T)]
    <2>4. Bonding!Fold(c, top) \in Bonded(top)
      <3>1. Bonding!IsFiniteSet(top)
        BY <2>3 DEF IsFiniteSet, Bonding!IsFiniteSet
      <3>2. V \in [SUBSET top -> SUBSET States]
        OBVIOUS
      <3>3. c \in V[{}]
        <4>1. Keeps(c, c) /\ SameButStatus(c, c)
          BY DistributesNothing, DistributesKeeps DEF SameButStatus, SameButActive
        <4>. QED BY <4>1
      <3>4. ASSUME NEW T \in SUBSET top, NEW x \in T, NEW s \in V[T \ {x}]
            PROVE  BondStep(x, s) \in V[T]
        <4>. DEFINE r == Bond(s, x)
        <4>0. V[T] = Bonded(T) /\ V[T \ {x}] = Bonded(T \ {x})
          OBVIOUS
        <4>. HIDE DEF V
        <4>1. BondStep(x, s) = IF s.panic THEN s ELSE r
          BY DEF BondStep, Then
        <4>2. /\ s \in States /\ Keeps(c, s) /\ SameButStatus(c, s) /\ x \in Operators
              /\ \A v \in Operators : s.vals[v].unbondingHeight = c.vals[v].unbondingHeight
              /\ ~s.panic => \A v \in T \ {x} : IsBonded(s, v)
          BY <2>2, <4>0
        <4>3. Exists(s, x)
          BY <1>2, <4>2 DEF SameButStatus, SameButActive
        <4>4. /\ Keeps(s, r) /\ SameButStatus(s, r) /\ IsBonded(r, x)
              /\ \A w \in Operators \ {x} : r.vals[w] = s.vals[w]
              /\ r.vals[x].unbondingHeight = s.vals[x].unbondingHeight
          BY <4>2, <4>3, BondKeeps
        <4>. HIDE DEF r
        <4>5. CASE s.panic
          BY <4>0, <4>1, <4>2, <4>5
        <4>6. CASE ~s.panic
          <5>1. Keeps(c, r) /\ SameButStatus(c, r) /\ r \in States
            <6>1. Keeps(c, r)
              BY <4>2, <4>4, <4>6, KeepsTwice
            <6>2. SameTwice(c, s, r)
              BY SameButStatusTwice
            <6>. QED BY <4>2, <4>4, <6>1, <6>2 DEF SameTwice, Keeps
          <5>2. \A v \in Operators : r.vals[v].unbondingHeight = c.vals[v].unbondingHeight
            BY <4>2, <4>4
          <5>3. \A v \in T : IsBonded(r, v)
            BY <2>2, <4>2, <4>4, <4>6 DEF IsBonded
          <5>4. r \in Bonded(T)
            BY <5>1, <5>2, <5>3
          <5>5. BondStep(x, s) = r
            BY <4>1, <4>6
          <5>6. r \in V[T]
            BY <4>0, <5>4
          <5>. QED BY <5>5, <5>6
        <4>. QED BY <4>5, <4>6
      <3>5. V[top] = Bonded(top)
        OBVIOUS
      <3>. HIDE DEF V, Bonded
      <3>6. \A T \in SUBSET top : \A x \in T : \A s \in V[T \ {x}] : BondStep(x, s) \in V[T]
        BY <3>4
      <3>7. Bonding!Fold(c, top) \in V[top]
        BY <3>1, <3>2, <3>3, <3>6, Bonding!FoldReaches
      <3>. QED BY <3>5, <3>7
    <2>5. /\ b \in States /\ Keeps(c, b) /\ SameButStatus(c, b)
          /\ \A v \in Operators : b.vals[v].unbondingHeight = c.vals[v].unbondingHeight
          /\ ~b.panic => \A v \in top : IsBonded(b, v)
      BY <2>4, BondIsAFold
    <2>. HIDE DEF b, Bonded, V
    <2>. DEFINE W == {s \in States : /\ Keeps(b, s) /\ SameButStatus(b, s)
                                     /\ \A v \in top : s.vals[v] = b.vals[v]
                                     /\ b.panic => s.panic}
    <2>6. Unbonding!Fold(b, c.last \ top) \in W
      <3>1. Unbonding!IsFiniteSet(c.last \ top)
        BY <2>3 DEF IsFiniteSet, Unbonding!IsFiniteSet
      <3>2. b \in W
        <4>1. Keeps(b, b) /\ SameButStatus(b, b)
          BY <2>5, DistributesNothing, DistributesKeeps DEF SameButStatus, SameButActive
        <4>. QED BY <2>5, <4>1
      <3>3. ASSUME NEW x \in c.last \ top, NEW s \in W PROVE UnbondStep(x, s) \in W
        <4>. DEFINE r == BeginUnbonding(s, x)
        <4>1. UnbondStep(x, s) = IF s.panic THEN s ELSE r
          BY DEF UnbondStep, Then
        <4>2. /\ Keeps(s, r) /\ SameButStatus(s, r)
              /\ \A w \in Operators \ {x} : r.vals[w] = s.vals[w]
          BY <2>2, BeginUnbondingKeeps
        <4>. HIDE DEF r
        <4>3. CASE ~s.panic
          <5>1. Keeps(b, r) /\ SameButStatus(b, r) /\ r \in States /\ ~b.panic
            BY <4>2, <4>3, KeepsTwice, SameButStatusTwice DEF SameTwice, Keeps
          <5>2. \A v \in top : r.vals[v] = b.vals[v]
            BY <2>2, <4>2
          <5>. QED BY <4>1, <4>3, <5>1, <5>2
        <4>. QED BY <4>1, <4>3
      <3>. HIDE DEF W
      <3>. QED BY <3>1, <3>2, <3>3, Unbonding!FoldKeeps
    <2>7. /\ e \in States /\ Keeps(b, e) /\ SameButStatus(b, e)
          /\ \A v \in top : e.vals[v] = b.vals[v]
          /\ b.panic => e.panic
      BY <2>6, UnbondIsAFold
    <2>8. c.last \subseteq top => e = b
      <3>1. c.last \subseteq top => c.last \ top = {}
        OBVIOUS
      <3>. QED BY <3>1, ForNobody
    <2>. HIDE DEF e, W
    <2>9. CASE e.panic
      <3>1. d = e
        BY <2>1, <2>9
      <3>2. Keeps(c, d)
        BY <2>5, <2>7, <2>9, <3>1 DEF Keeps
      <3>. QED BY <2>9, <3>1, <3>2
    <2>10. CASE ~e.panic
      <3>1. d = [e EXCEPT !.last = top]
        BY <2>1, <2>10
      <3>2. Keeps(c, e) /\ SameButStatus(c, e)
        BY <2>5, <2>7, <2>7, <2>10, KeepsTwice, SameButStatusTwice DEF SameTwice
      <3>3. /\ d \in States /\ d.last = top /\ d.vals = e.vals /\ d.panic = e.panic
            /\ d.height = e.height /\ d.ids = e.ids /\ d.power = e.power /\ d.dels = e.dels
            /\ d.ubds = e.ubds /\ d.reds = e.reds /\ d.dist = e.dist /\ d.start = e.start
            /\ d.pool = e.pool /\ d.distribution = e.distribution /\ d.signing = e.signing
            /\ d.bonded = e.bonded /\ d.notBonded = e.notBonded
        BY <2>2, <2>7, <3>1 DEF States
      <3>4. SameButActive(c, d)
        BY <3>2, <3>3 DEF SameButStatus, SameButActive, Exists
      <3>5. Surplus(d) = Surplus(e)
        BY <3>3, SameDistribution
      <3>6. /\ Whole(e) => Whole(d)
            /\ SameStakes(e, d)
        <4>1. \A v : (Exists(d, v) <=> Exists(e, v)) /\ (IsBonded(d, v) <=> IsBonded(e, v))
          BY <3>3 DEF Exists, IsBonded
        <4>2. Whole(e) => Whole(d)
          BY <3>3, <4>1 DEF Whole, Existing
        <4>3. BondedTokens(d) = BondedTokens(e) /\ NotBondedTokens(d) = NotBondedTokens(e)
          BY <3>3 DEF BondedTokens, NotBondedTokens, IsBonded
        <4>. QED BY <3>3, <4>2, <4>3 DEF SameStakes, BondedSurplus, NotBondedSurplus
      <3>7. Keeps(c, d)
        BY <3>2, <3>3, <3>5, <3>6, <2>10 DEF Keeps, SameStakes
      <3>8. LastIsBonded(d)
        BY <2>5, <2>7, <2>7, <2>10, <3>3 DEF LastIsBonded, IsBonded
      <3>9. c.last \subseteq top =>
               \A v \in Operators : d.vals[v].unbondingHeight = c.vals[v].unbondingHeight
        BY <2>5, <2>8, <3>3
      <3>. QED BY <1>2, <3>3, <3>4, <3>7, <3>8, <3>9
    <2>. QED BY <2>9, <2>10
  <1>. QED BY <1>1, <1>2

Top(c) == {v \in Reached(c) : c.vals[v].tokens > 0}

\* The update of the active set, in the words of the lemmas below.
LEMMA Applies ==
    ASSUME NEW c \in States
    PROVE  LET d == ApplyValidatorSetUpdates(c) IN
           /\ Keeps(c, d)
           /\ ~d.panic => /\ SameButActive(c, d) /\ d.last = Top(c) /\ LastIsBonded(d)
                          /\ \A v \in Reached(c) : Exists(c, v) /\ ~c.vals[v].jailed
                          /\ c.last \subseteq Top(c) =>
                                \A v \in Operators : d.vals[v].unbondingHeight
                                                         = c.vals[v].unbondingHeight
  BY ApplyKeeps DEF Top

\* Everything the two modules have accounts for is the same.
Alike(c, d) ==
    /\ d.dist = c.dist /\ d.pool = c.pool /\ d.distribution = c.distribution
    /\ d.vals = c.vals /\ d.power = c.power /\ d.last = c.last /\ d.ubds = c.ubds
    /\ d.ids = c.ids /\ d.bonded = c.bonded /\ d.notBonded = c.notBonded

\* A state that is alike is as good.
LEMMA AlikeKeeps ==
    ASSUME NEW c \in States, NEW d \in States, Alike(c, d)
    PROVE  /\ Keeps(c, d) /\ KeepsActive(c, d) /\ SameStakes(c, d)
           /\ Whole(c) => Whole(d)
           /\ LastIsBonded(c) => LastIsBonded(d)
  <1>1. \A v : (Exists(d, v) <=> Exists(c, v)) /\ (IsBonded(d, v) <=> IsBonded(c, v))
    BY DEF Alike, Exists, IsBonded
  <1>2. Whole(c) => Whole(d)
    BY <1>1 DEF Alike, Whole, Existing
  <1>3. BondedTokens(d) = BondedTokens(c) /\ NotBondedTokens(d) = NotBondedTokens(c)
    BY DEF Alike, BondedTokens, NotBondedTokens, IsBonded
  <1>4. SameStakes(c, d)
    BY <1>3 DEF Alike, SameStakes, BondedSurplus, NotBondedSurplus
  <1>5. LastIsBonded(c) => LastIsBonded(d)
    BY <1>1 DEF Alike, LastIsBonded
  <1>6. Surplus(d) = Surplus(c)
    BY SameDistribution DEF Alike
  <1>. QED BY <1>2, <1>4, <1>5, <1>6 DEF Keeps, KeepsActive

\* The begin blocker of the distribution module never panics.
LEMMA BeginBlockKeeps ==
    ASSUME NEW c \in States
    PROVE  Keeps(c, BeginBlock(c)) /\ KeepsActive(c, BeginBlock(c))
           /\ BeginBlock(c).panic = c.panic
           /\ BeginBlock(c).vals = c.vals /\ BeginBlock(c).power = c.power
           /\ BeginBlock(c).ubds = c.ubds /\ BeginBlock(c).dels = c.dels
  <1>. DEFINE d == [c EXCEPT !.height = @ + 1]
              e == BeginBlock(c)
  <1>1. c.height + 1 \in Nat
    BY DEF States
  <1>2. /\ d \in States /\ Alike(c, d) /\ d.panic = c.panic /\ d.dels = c.dels
    BY <1>1 DEF States, Alike
  <1>3. e = ForAll(AllocateTokensToValidator, d, d.last)
    BY DEF BeginBlock, AllocateTokens
  <1>. HIDE DEF d
  <1>4. Distributes(d, e) /\ e.panic = c.panic
    BY <1>2, <1>3, AllocatesToAll DEF States
  <1>. HIDE DEF e
  <1>5. Keeps(c, d) /\ KeepsActive(c, d) /\ Keeps(d, e) /\ KeepsActive(d, e)
    BY <1>2, <1>4, AlikeKeeps, DistributesKeeps
  <1>6. Keeps(c, e) /\ KeepsActive(c, e)
    <2>1. /\ Whole(c) => Whole(d)
          /\ LastIsBonded(c) => LastIsBonded(d)
          /\ SameStakes(c, d)
      BY <1>2, AlikeKeeps
    <2>. QED BY <1>5, <2>1 DEF Keeps, KeepsActive, SameStakes
  <1>7. e.vals = c.vals /\ e.power = c.power /\ e.ubds = c.ubds /\ e.dels = c.dels
    BY <1>2, <1>4 DEF Distributes, SameStaking, Alike
  <1>. QED BY <1>4, <1>6, <1>7 DEF e

\* The tokens of a validator change, and the pool of its status follows.
LEMMA TokensChange ==
    ASSUME NEW c \in States, NEW d \in States, NEW v \in Operators, NEW x \in Vals,
           Exists(c, v), x.status = c.vals[v].status, d.vals = [c.vals EXCEPT ![v] = x],
           d.ubds = c.ubds, d.ids = c.ids, d.last = c.last,
           d.dist = c.dist, d.pool = c.pool, d.distribution = c.distribution,
           Whole(c) => PowerFollows(c, d, v, x),
           \/ d.panic
           \/ /\ IsBonded(c, v) /\ d.notBonded = c.notBonded
              /\ d.bonded = c.bonded + (x.tokens - c.vals[v].tokens)
           \/ /\ ~IsBonded(c, v) /\ d.bonded = c.bonded
              /\ d.notBonded = c.notBonded + (x.tokens - c.vals[v].tokens)
    PROVE  Keeps(c, d) /\ KeepsActive(c, d)
  <1>. DEFINE t == c.vals[v].tokens
  <1>1. Surplus(d) = Surplus(c)
    BY SameDistribution
  <1>2. /\ t \in Int /\ x.tokens \in Int /\ c.bonded \in Int /\ c.notBonded \in Int
        /\ c.vals[v] \in Vals /\ c.vals \in [Operators -> Vals]
    BY DEF States, Vals
  <1>3. ASSUME Whole(c), ~d.panic PROVE Whole(d) /\ SameStakes(c, d)
    <2>1. /\ d.bonded = c.bonded + (BondedPart(x) - BondedPart(c.vals[v]))
          /\ d.notBonded = c.notBonded + (FreePart(x) - FreePart(c.vals[v]))
      <3>1. CASE IsBonded(c, v)
        <4>1. /\ BondedPart(x) = x.tokens /\ FreePart(x) = 0
              /\ BondedPart(c.vals[v]) = t /\ FreePart(c.vals[v]) = 0
          BY <3>1 DEF BondedPart, FreePart, IsBonded
        <4>2. d.bonded = c.bonded + (x.tokens - t) /\ d.notBonded = c.notBonded
          BY <1>3, <3>1
        <4>. HIDE DEF t
        <4>. QED BY <1>2, <4>1, <4>2
      <3>2. CASE ~IsBonded(c, v)
        <4>1. /\ BondedPart(x) = 0 /\ FreePart(x) = x.tokens
              /\ BondedPart(c.vals[v]) = 0 /\ FreePart(c.vals[v]) = t
          BY <3>2 DEF BondedPart, FreePart, IsBonded
        <4>2. d.bonded = c.bonded /\ d.notBonded = c.notBonded + (x.tokens - t)
          BY <1>3, <3>2
        <4>. HIDE DEF t
        <4>. QED BY <1>2, <4>1, <4>2
      <3>. QED BY <3>1, <3>2
    <2>2. x.status # "Absent"
      BY DEF Exists
    <2>3. PowerFollows(c, d, v, x)
      BY <1>3
    <2>. QED BY <1>3, <2>1, <2>2, <2>3, ValidatorChanges
  <1>4. KeepsActive(c, d)
    <2>1. \A w \in Operators : IsBonded(d, w) <=> IsBonded(c, w)
      BY <1>2 DEF IsBonded
    <2>. QED BY <2>1 DEF KeepsActive, LastIsBonded, States
  <1>. QED BY <1>1, <1>3, <1>4 DEF Keeps

LEMMA NoRecordsAreRecords == NoRecords \in Records /\ NoRecords.outstanding = 0
  <1>1. << >> \in Histories
    <2>1. << >> \in Seq(Record)
      OBVIOUS
    <2>2. << >> \in [1 .. Len(<< >>) -> Record] /\ Len(<< >>) = 0
      BY <2>1
    <2>3. 1 .. Len(<< >>) \in SUBSET Int
      BY <2>2
    <2>. QED BY <2>2, <2>3 DEF Histories
  <1>2. << >> \in SlashEvents /\ 0 \in Int
    BY DEF SlashEvents
  <1>. QED BY <1>1, <1>2 DEF NoRecords, Records

\* No period of a validator that is not there ends.
LEMMA AbsentPanics ==
    ASSUME NEW c \in States, NEW v \in Operators, ~Exists(c, v)
    PROVE  /\ IncrementValidatorPeriod(c, v).panic
           /\ \A del : PayDelegation(c, del, v).panic
  <1>1. IncrementValidatorPeriod(c, v) = Panic(c) /\ Panic(c).panic
    BY PanicDistributes DEF IncrementValidatorPeriod
  <1>. QED BY <1>1 DEF PayDelegation, Then

\* The accounts of the entries, that only three calls change.
SameEntries(c, d) == d.ubds = c.ubds /\ d.ids = c.ids

\* A validator without tokens is removed.
LEMMA RemoveKeeps ==
    ASSUME NEW c \in States, NEW v \in Operators, ~IsBonded(c, v)
    PROVE  LET d == RemoveValidator(c, v) IN
           /\ Keeps(c, d) /\ KeepsActive(c, d) /\ SameEntries(c, d)
           /\ ~d.panic => /\ c.vals[v].tokens = 0 /\ d.vals = [c.vals EXCEPT ![v] = NoValidator]
                          /\ d.power = c.power \ {v} /\ d.last = c.last
  <1>. DEFINE d == WithdrawValidatorCommission(c, v)
              e == [d EXCEPT !.vals[v] = NoValidator, !.power = @ \ {v},
                             !.pool = @ + d.dist[v].outstanding, !.dist[v] = NoRecords]
              r == RemoveValidator(c, v)
  <1>1. CASE c.vals[v].tokens > 0
    <2>1. r = Panic(c)
      BY <1>1 DEF RemoveValidator
    <2>2. SameEntries(c, Panic(c)) /\ Panic(c).panic
      BY PanicDistributes DEF Distributes, SameStaking, SameEntries
    <2>. QED BY <2>1, <2>2, PanicKeeps
  <1>2. CASE ~(c.vals[v].tokens > 0)
    <2>1. r = IF d.panic THEN d ELSE e
      BY <1>2 DEF RemoveValidator, Then
    <2>2. Distributes(c, d)
      BY CommissionDistributes
    <2>. HIDE DEF d, r
    <2>3. /\ d \in States /\ SameStaking(c, d) /\ Keeps(c, d) /\ KeepsActive(c, d)
          /\ c.vals[v].tokens = 0 /\ c.vals \in [Operators -> Vals]
      <3>1. c.vals[v].tokens \in Nat
        BY DEF States, Vals
      <3>2. c.vals[v].tokens = 0
        BY <1>2, <3>1
      <3>. QED BY <2>2, <3>2, DistributesKeeps DEF Distributes, States
    <2>4. CASE d.panic
      BY <2>1, <2>3, <2>4 DEF r, SameEntries, SameStaking
    <2>5. CASE ~d.panic
      <3>1. NoValidator \in Vals /\ NoValidator.tokens = 0 /\ NoValidator.status = "Absent"
        BY DEF NoValidator, Vals, Statuses
      <3>2. /\ d.dist[v].outstanding \in Int /\ d.pool \in Int /\ d.distribution \in Int
            /\ d.pool + d.dist[v].outstanding \in Int
        BY <2>3 DEF States, Records
      <3>3. /\ e \in States /\ e.vals = [d.vals EXCEPT ![v] = NoValidator]
            /\ e.power = d.power \ {v} /\ e.pool = d.pool + d.dist[v].outstanding
            /\ e.dist = [d.dist EXCEPT ![v] = NoRecords] /\ e.last = d.last
            /\ e.distribution = d.distribution /\ e.ubds = d.ubds /\ e.ids = d.ids
            /\ e.bonded = d.bonded /\ e.notBonded = d.notBonded /\ e.panic = d.panic
        BY <2>3, <3>1, <3>2, NoRecordsAreRecords DEF States
      <3>. HIDE DEF e
      <3>4. Surplus(e) = Surplus(d)
        <4>1. /\ \A w \in Operators \ {v} : e.dist[w].outstanding = d.dist[w].outstanding
              /\ e.dist[v].outstanding = 0
          BY <2>3, <3>3, NoRecordsAreRecords DEF States
        <4>2. Outstanding(e) = Outstanding(d) + (e.dist[v].outstanding - d.dist[v].outstanding)
          <5>1. d \in States /\ e \in States
            BY <2>3, <3>3
          <5>2. \A w \in Operators \ {v} : e.dist[w].outstanding = d.dist[w].outstanding
            BY <4>1
          <5>. QED BY <5>1, <5>2, OutstandingChanges
        <4>3. Outstanding(d) \in Int
          BY <2>3, OutstandingIsWhole
        <4>. QED BY <3>2, <3>3, <4>1, <4>2, <4>3 DEF Surplus
      <3>5. d.vals = c.vals /\ d.last = c.last /\ d.power = c.power
            /\ d.ubds = c.ubds /\ d.ids = c.ids
        BY <2>3 DEF SameStaking
      <3>6. KeepsActive(d, e)
        BY <2>3, <3>3, <3>5 DEF KeepsActive, LastIsBonded, IsBonded, States
      <3>7. ASSUME Whole(d) PROVE Whole(e) /\ SameStakes(d, e)
        <4>1. /\ BondedPart(NoValidator) = 0 /\ FreePart(NoValidator) = 0
              /\ BondedPart(d.vals[v]) = 0 /\ FreePart(d.vals[v]) = 0
          BY <2>3, <3>1, <3>5 DEF BondedPart, FreePart
        <4>2. /\ d.bonded \in Int /\ d.notBonded \in Int /\ IsFiniteSet(d.ubds)
          BY <2>3, <3>7 DEF States, Whole
        <4>3. /\ e.bonded = d.bonded + (BondedPart(NoValidator) - BondedPart(d.vals[v]))
              /\ e.notBonded = d.notBonded + (FreePart(NoValidator) - FreePart(d.vals[v]))
          BY <3>3, <4>1, <4>2
        <4>4. SameStakes(d, e)
          BY <2>3, <3>1, <3>3, <4>2, <4>3, StakesFollow
        <4>5. \A w \in Operators : Exists(e, w) <=> Exists(d, w) /\ w # v
          BY <2>3, <3>1, <3>3, <3>5 DEF Exists
        <4>6. \A w \in Operators : ~Exists(e, w) => e.vals[w].tokens = 0
          BY <2>3, <3>1, <3>3, <3>5, <3>7, <4>5 DEF Whole
        <4>7. /\ e.power \subseteq Existing(e)
              /\ \A w \in Existing(e) : ~e.vals[w].jailed => w \in e.power
          <5>1. /\ d.power \subseteq Existing(d)
                /\ \A w \in Existing(d) : ~d.vals[w].jailed => w \in d.power
            BY <3>7 DEF Whole
          <5>2. \A w \in Operators \ {v} : e.vals[w] = d.vals[w]
            BY <2>3, <3>3, <3>5
          <5>. QED BY <3>3, <4>5, <5>1, <5>2 DEF Existing
        <4>. QED BY <3>3, <3>7, <4>4, <4>6, <4>7 DEF Whole
      <3>8. Keeps(d, e)
        BY <3>3, <3>4, <3>7 DEF Keeps
      <3>9. Keeps(c, e) /\ KeepsActive(c, e)
        BY <2>3, <2>5, <3>6, <3>8, KeepsTwice, KeepsActiveTwice
      <3>10. r = e
        BY <2>1, <2>5
      <3>. QED BY <2>3, <3>3, <3>5, <3>9, <3>10 DEF r, SameEntries
    <2>. QED BY <2>4, <2>5
  <1>. QED BY <1>1, <1>2

\* The active set are the validators with tokens that are not jailed.
Ranked(c) == c.last = {v \in Existing(c) : ~c.vals[v].jailed /\ c.vals[v].tokens > 0}

KeepsRank(c, d) == Ranked(c) /\ ~d.panic => Ranked(d)

\* The unbonding period of a validator is over.
LEMMA UnbondMatureKeeps ==
    ASSUME NEW c \in States, NEW v \in Operators, ~c.panic
    PROVE  LET d == UnbondMature(c, v) IN
           Keeps(c, d) /\ KeepsActive(c, d) /\ (Whole(c) => KeepsRank(c, d))
  <1>. DEFINE x == [c.vals[v] EXCEPT !.status = "Unbonded"]
              e == [c EXCEPT !.vals[v].status = "Unbonded", !.queue = @ \ {v}]
              r == RemoveValidator(e, v)
              d == UnbondMature(c, v)
  <1>1. CASE c.vals[v].status # "Unbonding"
    <2>1. d = Panic(c)
      BY <1>1 DEF UnbondMature
    <2>2. Panic(c).panic
      BY PanicDistributes
    <2>. QED BY <2>1, <2>2, PanicKeeps DEF KeepsRank
  <1>2. CASE c.vals[v].status = "Unbonding"
    <2>1. d \in {e, r}
      BY <1>2 DEF UnbondMature, Then
    <2>2. c.vals[v] \in Vals /\ c.vals \in [Operators -> Vals]
      BY DEF States
    <2>3. /\ x \in Vals /\ x.status = "Unbonded" /\ x.tokens = c.vals[v].tokens
          /\ x.jailed = c.vals[v].jailed /\ x.shares = c.vals[v].shares
      BY <2>2 DEF Vals, Statuses
    <2>4. e = [c EXCEPT !.vals[v] = x, !.queue = @ \ {v}]
      BY DEF States
    <2>. HIDE DEF x, e, d
    <2>5. /\ e \in States /\ e.vals = [c.vals EXCEPT ![v] = x] /\ SameButValidators(c, e)
      BY <2>3, <2>4 DEF States, SameButValidators
    <2>6. \A w \in Operators : /\ e.vals[w].tokens = c.vals[w].tokens
                               /\ e.vals[w].jailed = c.vals[w].jailed
                               /\ Exists(e, w) <=> Exists(c, w)
                               /\ IsBonded(e, w) <=> IsBonded(c, w)
      BY <1>2, <2>2, <2>3, <2>5 DEF IsBonded, Exists
    <2>7. ~IsBonded(e, v) /\ Exists(c, v)
      BY <1>2, <2>6 DEF IsBonded, Exists
    <2>8. Surplus(e) = Surplus(c)
      BY <2>5, SameDistribution DEF SameButValidators
    <2>9. ASSUME Whole(c) PROVE Whole(e) /\ SameStakes(c, e)
      <3>1. /\ BondedPart(x) = 0 /\ BondedPart(c.vals[v]) = 0
            /\ FreePart(x) = c.vals[v].tokens /\ FreePart(c.vals[v]) = c.vals[v].tokens
        BY <1>2, <2>3 DEF BondedPart, FreePart
      <3>2. c.bonded \in Int /\ c.notBonded \in Int /\ c.vals[v].tokens \in Int
        BY DEF States, Vals
      <3>3. /\ e.bonded = c.bonded + (BondedPart(x) - BondedPart(c.vals[v]))
            /\ e.notBonded = c.notBonded + (FreePart(x) - FreePart(c.vals[v]))
        BY <2>5, <3>1, <3>2 DEF SameButValidators
      <3>4. PowerFollows(c, e, v, x)
        BY <2>3, <2>5, <2>7, <2>9, PowerIsRight DEF SameButValidators
      <3>5. e.ubds = c.ubds /\ e.ids = c.ids /\ x.status # "Absent"
        BY <2>3, <2>5 DEF SameButValidators
      <3>. QED BY <2>3, <2>5, <2>7, <2>9, <3>3, <3>4, <3>5, ValidatorChanges
    <2>10. Keeps(c, e) /\ KeepsActive(c, e) /\ KeepsRank(c, e) /\ ~e.panic
      <3>1. Keeps(c, e)
        BY <2>5, <2>8, <2>9 DEF Keeps
      <3>2. e.last = c.last /\ e.power = c.power /\ e.panic = c.panic
        BY <2>5 DEF SameButValidators
      <3>3. c.last \in SUBSET Operators /\ c.power \in SUBSET Operators
        BY DEF States
      <3>4. KeepsActive(c, e) /\ KeepsRank(c, e)
        BY <2>6, <3>2, <3>3 DEF KeepsActive, KeepsRank, LastIsBonded, Ranked, Existing
      <3>. QED BY <3>1, <3>2, <3>4
    <2>11. Keeps(e, r) /\ KeepsActive(e, r)
           /\ (~r.panic => /\ e.vals[v].tokens = 0 /\ r.last = e.last
                           /\ r.vals = [e.vals EXCEPT ![v] = NoValidator]
                           /\ r.power = e.power \ {v})
      BY <2>5, <2>7, RemoveKeeps
    <2>. HIDE DEF r
    <2>12. KeepsRank(e, r)
      <3>1. e.power \in SUBSET Operators /\ e.vals \in [Operators -> Vals]
        BY <2>5 DEF States
      <3>2. ASSUME ~r.panic
            PROVE  /\ \A w \in Operators \ {v} : r.vals[w] = e.vals[w]
                   /\ ~Exists(r, v) /\ ~(e.vals[v].tokens > 0) /\ r.last = e.last
        BY <2>11, <3>1, <3>2 DEF Exists, NoValidator
      <3>. QED BY <3>2 DEF KeepsRank, Ranked, Existing, Exists
    <2>13. Keeps(c, r) /\ KeepsActive(c, r) /\ KeepsRank(c, r)
      BY <2>10, <2>11, <2>12, KeepsTwice, KeepsActiveTwice DEF KeepsRank
    <2>. QED BY <2>1, <2>10, <2>13 DEF d
  <1>. QED BY <1>1, <1>2

\* An unbonding delegation is paid out of the pool it lies in.
LEMMA CompleteUnbondingKeeps ==
    ASSUME NEW c \in States, NEW u \in c.ubds
    PROVE  LET d == CompleteUnbonding(c, u) IN
           Keeps(c, d) /\ KeepsActive(c, d) /\ KeepsRank(c, d)
  <1>. DEFINE b == Burn(c, FALSE, u.amount)
              e == [b EXCEPT !.ubds = @ \ {u}]
              d == CompleteUnbonding(c, u)
  <1>1. d = IF b.panic THEN b ELSE e
    BY DEF CompleteUnbonding, Then
  <1>2. u \in Entries /\ u.amount \in Nat
    BY DEF States, Entries
  <1>3. /\ b \in States /\ SameButPools(c, b)
        /\ b.panic \/ (b.bonded = c.bonded /\ b.notBonded = c.notBonded - u.amount)
    BY <1>2, Burns
  <1>. HIDE DEF b, d
  <1>4. /\ b.vals = c.vals /\ b.power = c.power /\ b.last = c.last /\ b.ubds = c.ubds
        /\ b.ids = c.ids
        /\ b.dist = c.dist /\ b.pool = c.pool /\ b.distribution = c.distribution
    BY <1>3 DEF SameButPools
  <1>5. /\ e \in States /\ e.vals = c.vals /\ e.power = c.power /\ e.last = c.last
        /\ e.ubds = c.ubds \ {u} /\ e.ids = c.ids
        /\ e.dist = c.dist /\ e.pool = c.pool /\ e.distribution = c.distribution
        /\ e.bonded = b.bonded /\ e.notBonded = b.notBonded /\ e.panic = b.panic
    BY <1>3, <1>4 DEF States
  <1>. HIDE DEF e
  <1>6. Surplus(b) = Surplus(c) /\ Surplus(e) = Surplus(c)
    BY <1>4, <1>5, SameDistribution
  <1>7. CASE b.panic
    BY <1>1, <1>3, <1>6, <1>7 DEF Keeps, KeepsActive, KeepsRank, d
  <1>8. CASE ~b.panic
    <2>1. d = e
      BY <1>1, <1>8
    <2>2. \A v : (Exists(e, v) <=> Exists(c, v)) /\ (IsBonded(e, v) <=> IsBonded(c, v))
      BY <1>5 DEF Exists, IsBonded
    <2>3. KeepsActive(c, e) /\ KeepsRank(c, e)
      BY <1>5, <2>2 DEF KeepsActive, KeepsRank, LastIsBonded, Ranked, Existing
    <2>4. ASSUME Whole(c) PROVE Whole(e) /\ SameStakes(c, e)
      <3>1. IsFiniteSet(c.ubds) /\ IsFiniteSet(e.ubds)
        BY <1>5, <2>4, FS_Subset DEF Whole
      <3>2. Whole(e)
        BY <1>5, <2>2, <2>4, <3>1 DEF Whole, Existing
      <3>3. Owed(c) = Owed(e) + u.amount
        <4>. DEFINE S == e.ubds
                    f == [w \in S |-> w.amount]
                    g == [w \in c.ubds |-> w.amount]
        <4>1. c.ubds = S \cup {u} /\ u \notin S /\ IsFiniteSet(S)
          BY <1>5, <3>1
        <4>2. \A w \in c.ubds : w.amount \in Int
          BY DEF States, Entries
        <4>3. f \in [S -> Int] /\ g \in [S \cup {u} -> Int] /\ g[u] = u.amount
              /\ \A w \in S : g[w] = f[w]
          BY <4>1, <4>2
        <4>4. Owed(c) = SumFunction(g) /\ Owed(e) = SumFunction(f)
          BY DEF Owed
        <4>. HIDE DEF f, g, S
        <4>5. SumFunction(g) = SumFunction(f) + g[u]
          BY <4>1, <4>3, SumWithOneMore
        <4>. QED BY <4>3, <4>4, <4>5
      <3>4. /\ Owed(c) \in Int /\ Owed(e) \in Int /\ Free(c) \in Int
            /\ NotBondedTokens(c) = Free(c) + Owed(c)
            /\ NotBondedTokens(e) = Free(e) + Owed(e)
        BY <1>5, <3>1, OwedIsWhole, StakesAreWhole
      <3>5. Free(e) = Free(c) /\ BondedTokens(e) = BondedTokens(c)
        BY <1>5, <2>2 DEF Free, BondedTokens, IsBonded
      <3>6. c.bonded \in Int /\ c.notBonded \in Int /\ u.amount \in Int
        BY <1>2 DEF States
      <3>7. e.notBonded = c.notBonded - u.amount /\ e.bonded = c.bonded
        BY <1>3, <1>5, <1>8
      <3>. QED BY <3>2, <3>3, <3>4, <3>5, <3>6, <3>7
               DEF SameStakes, BondedSurplus, NotBondedSurplus
    <2>5. Keeps(c, e)
      BY <1>5, <1>6, <2>4 DEF Keeps
    <2>. QED BY <2>1, <2>3, <2>5 DEF d
  <1>. QED BY <1>7, <1>8

\* A validator leaves jail and is back in the power index.
LEMMA UnjailKeeps ==
    ASSUME NEW c \in States, NEW v \in Operators, Exists(c, v)
    PROVE  Keeps(c, Unjail(c, v)) /\ KeepsActive(c, Unjail(c, v))
  <1>. DEFINE x == [c.vals[v] EXCEPT !.jailed = FALSE]
              d == Unjail(c, v)
  <1>1. d = [c EXCEPT !.vals[v] = x, !.power = @ \cup {v}]
    BY DEF Unjail, States
  <1>2. c.vals[v] \in Vals
    BY DEF States
  <1>3. /\ x \in Vals /\ x.status = c.vals[v].status /\ x.tokens = c.vals[v].tokens
        /\ x.jailed = FALSE
    BY <1>2 DEF Vals
  <1>. HIDE DEF x, d
  <1>4. /\ d \in States /\ d.vals = [c.vals EXCEPT ![v] = x] /\ d.power = c.power \cup {v}
        /\ d.ubds = c.ubds /\ d.ids = c.ids /\ d.last = c.last
        /\ d.dist = c.dist /\ d.pool = c.pool /\ d.distribution = c.distribution
        /\ d.bonded = c.bonded /\ d.notBonded = c.notBonded
    BY <1>1, <1>3 DEF States
  <1>5. c.bonded \in Int /\ c.notBonded \in Int /\ c.vals[v].tokens \in Int
    BY DEF States, Vals
  <1>6. /\ d.bonded = c.bonded + (x.tokens - c.vals[v].tokens)
        /\ d.notBonded = c.notBonded + (x.tokens - c.vals[v].tokens)
    BY <1>3, <1>4, <1>5
  <1>7. PowerFollows(c, d, v, x)
    BY <1>4 DEF PowerFollows
  <1>8. Keeps(c, d) /\ KeepsActive(c, d)
    BY <1>3, <1>4, <1>6, <1>7, TokensChange
  <1>. QED BY <1>8 DEF d

\* The record of a slash touches no fees.
LEMMA RecordSlashDistributes ==
    ASSUME NEW c \in States, NEW v \in Operators, NEW p \in Int
    PROVE  Distributes(c, RecordSlash(c, v, p))
  <1>. DEFINE event == [height |-> c.height, period |-> p]
              seq == Append(c.dist[v].slashes, event)
              new == [c.dist[v] EXCEPT !.slashes = seq]
              d == RecordSlash(c, v, p)
  <1>1. c.dist[v] \in Records /\ c.height \in Int /\ c.dist \in [Operators -> Records]
    BY DEF States
  <1>2. seq \in SlashEvents
    <2>. DEFINE T == [height : Int, period : Int]
    <2>1. event \in T /\ c.dist[v].slashes \in Seq(T)
      BY <1>1 DEF Records, SlashEvents
    <2>. HIDE DEF T, event
    <2>2. seq \in Seq(T)
      BY <2>1
    <2>. QED BY <2>2 DEF T, SlashEvents
  <1>3. d = [c EXCEPT !.dist[v] = new]
    BY <1>1 DEF RecordSlash, States
  <1>. HIDE DEF seq
  <1>4. new \in Records /\ new.outstanding = c.dist[v].outstanding
    BY <1>1, <1>2 DEF Records
  <1>. HIDE DEF new, d
  <1>5. /\ d \in States /\ SameStaking(c, d) /\ d.dist = [c.dist EXCEPT ![v] = new]
        /\ d.pool = c.pool /\ d.distribution = c.distribution
    BY <1>3, <1>4 DEF States, SameStaking
  <1>6. \A w \in Operators : d.dist[w].outstanding = c.dist[w].outstanding
    BY <1>1, <1>4, <1>5
  <1>. QED BY <1>5, <1>6, SameFees DEF d

\* Calls one after the other.
LEMMA DistributesThen ==
    ASSUME NEW c \in States, NEW d, Distributes(c, d)
    PROVE  d \in States /\ Keeps(c, d) /\ KeepsActive(c, d)
  BY DistributesKeeps DEF Distributes

\* A slash burns tokens of the validator and of the pool that holds them.
LEMMA SlashKeeps ==
    ASSUME NEW c \in States, NEW v \in Operators
    PROVE  Keeps(c, Slash(c, v)) /\ KeepsActive(c, Slash(c, v))
  <1>. DEFINE p == c.dist[v].period
              lost == c.vals[v].tokens \div 2
              d1 == IncrementValidatorPeriod(c, v)
              d2 == IF d1.panic THEN d1 ELSE IncrementReferenceCount(d1, v, p)
              d3 == RecordSlash(d2, v, p)
              x == [d3.vals[v] EXCEPT !.tokens = @ - lost, !.jailed = TRUE]
              e == Jail(d3, v, lost)
              b == Burn(e, IsBonded(c, v), lost)
              r == Slash(c, v)
  <1>1. r = IF d2.panic THEN d2 ELSE b
    BY DEF Slash, Then
  <1>. HIDE DEF r
  <1>2. p \in Int /\ c.vals[v] \in Vals /\ c.vals[v].tokens \in Nat
    BY DEF States, Records, Vals
  <1>3. lost \in Nat /\ c.vals[v].tokens - lost \in Nat
    BY <1>2
  <1>. HIDE DEF lost, p
  <1>4. Distributes(c, d1)
    BY PeriodDistributes
  <1>5. Distributes(c, d2)
    <2>. HIDE DEF d1
    <2>1. Distributes(d1, IncrementReferenceCount(d1, v, p))
      BY <1>2, <1>4, IncrementDistributes DEF Distributes
    <2>. QED BY <1>4, <2>1, DistributesTwice
  <1>5a. ~Exists(c, v) => d2.panic
    BY AbsentPanics
  <1>. HIDE DEF d2
  <1>6. Distributes(c, d3)
    <2>1. Distributes(d2, d3)
      BY <1>2, <1>5, RecordSlashDistributes DEF Distributes
    <2>. QED BY <1>5, <2>1, DistributesTwice
  <1>7. d3.panic = d2.panic
    BY <1>5 DEF RecordSlash, Distributes, States
  <1>. HIDE DEF d3
  <1>8. /\ d2 \in States /\ Keeps(c, d2) /\ KeepsActive(c, d2)
        /\ d3 \in States /\ Keeps(c, d3) /\ KeepsActive(c, d3)
        /\ d3.vals = c.vals /\ d3.power = c.power /\ d3.last = c.last
    BY <1>5, <1>6, DistributesThen DEF Distributes, SameStaking
  <1>9. CASE d2.panic
    BY <1>1, <1>8, <1>9 DEF r
  <1>10. CASE ~d2.panic
    <2>1. Exists(c, v) /\ r = b /\ Exists(d3, v) /\ (IsBonded(d3, v) <=> IsBonded(c, v))
      BY <1>1, <1>5a, <1>8, <1>10 DEF Exists, IsBonded
    <2>2. /\ x \in Vals /\ x.status = d3.vals[v].status /\ x.jailed = TRUE
          /\ x.tokens = d3.vals[v].tokens - lost
      BY <1>2, <1>3, <1>8 DEF Vals
    <2>2a. e = [d3 EXCEPT !.vals[v] = x, !.power = @ \ {v}]
      BY DEF Jail
    <2>. HIDE DEF x, e
    <2>3. /\ e \in States /\ e.vals = [d3.vals EXCEPT ![v] = x] /\ e.power = d3.power \ {v}
          /\ e.ubds = d3.ubds /\ e.ids = d3.ids /\ e.last = d3.last
          /\ e.dist = d3.dist /\ e.pool = d3.pool /\ e.distribution = d3.distribution
          /\ e.bonded = d3.bonded /\ e.notBonded = d3.notBonded
      BY <1>8, <2>2, <2>2a DEF States
    <2>4. IsBonded(c, v) \in BOOLEAN
      BY DEF IsBonded
    <2>5. /\ b \in States /\ SameButPools(e, b)
          /\ \/ b.panic
             \/ IsBonded(c, v) /\ b.bonded = e.bonded - lost /\ b.notBonded = e.notBonded
             \/ ~IsBonded(c, v) /\ b.bonded = e.bonded /\ b.notBonded = e.notBonded - lost
      <3>. HIDE DEF b
      <3>1. CASE IsBonded(c, v)
        <4>1. b = Burn(e, TRUE, lost)
          <5>1. IsBonded(c, v) = TRUE
            BY <2>4, <3>1
          <5>. QED BY <5>1 DEF b
        <4>. QED BY <1>3, <2>3, <3>1, <4>1, Burns
      <3>2. CASE ~IsBonded(c, v)
        <4>1. b = Burn(e, FALSE, lost)
          <5>1. IsBonded(c, v) = FALSE
            BY <2>4, <3>2
          <5>. QED BY <5>1 DEF b
        <4>. QED BY <1>3, <2>3, <3>2, <4>1, Burns
      <3>. QED BY <3>1, <3>2
    <2>. HIDE DEF b
    <2>6. /\ b.vals = [d3.vals EXCEPT ![v] = x] /\ b.power = d3.power \ {v}
          /\ b.ubds = d3.ubds /\ b.ids = d3.ids /\ b.last = d3.last
          /\ b.dist = d3.dist /\ b.pool = d3.pool /\ b.distribution = d3.distribution
      BY <2>3, <2>5 DEF SameButPools
    <2>7. \/ b.panic
          \/ /\ IsBonded(d3, v) /\ b.notBonded = d3.notBonded
             /\ b.bonded = d3.bonded + (x.tokens - d3.vals[v].tokens)
          \/ /\ ~IsBonded(d3, v) /\ b.bonded = d3.bonded
             /\ b.notBonded = d3.notBonded + (x.tokens - d3.vals[v].tokens)
      <3>1. d3.bonded \in Int /\ d3.notBonded \in Int /\ d3.vals[v].tokens \in Int
        BY <1>8 DEF States, Vals
      <3>. QED BY <1>3, <2>1, <2>2, <2>3, <2>5, <3>1
    <2>7a. PowerFollows(d3, b, v, x)
      BY <1>3, <2>2, <2>6 DEF PowerFollows
    <2>8. Keeps(d3, b) /\ KeepsActive(d3, b)
      BY <1>8, <2>1, <2>2, <2>5, <2>6, <2>7, <2>7a, TokensChange
    <2>9. Keeps(c, b) /\ KeepsActive(c, b)
      BY <1>7, <1>8, <1>10, <2>8, KeepsTwice, KeepsActiveTwice
    <2>. QED BY <2>1, <2>9 DEF r
  <1>. QED BY <1>9, <1>10

\* What AddShares leaves.
SameButShares(c, d) ==
    /\ d.height = c.height /\ d.panic = c.panic /\ d.ids = c.ids
    /\ d.power = c.power /\ d.last = c.last /\ d.queue = c.queue
    /\ d.ubds = c.ubds /\ d.reds = c.reds /\ d.dist = c.dist /\ d.start = c.start
    /\ d.pool = c.pool /\ d.distribution = c.distribution /\ d.signing = c.signing
    /\ d.bonded = c.bonded /\ d.notBonded = c.notBonded

\* The validator after it.
IsAdded(c, v, x, amount) ==
    /\ x \in Vals /\ x.status = c.vals[v].status /\ x.jailed = c.vals[v].jailed
    /\ x.tokens = c.vals[v].tokens + amount

LEMMA SharesAreAdded ==
    ASSUME NEW c \in States, NEW del \in Delegators, NEW v \in Operators,
           NEW amount \in Int, NEW shares \in Int,
           c.vals[v].tokens + amount \in Nat, c.dels[del][v] + shares \in Nat
    PROVE  LET d == AddShares(c, del, v, amount, shares) IN
           /\ d \in States /\ SameButShares(c, d)
           /\ \E x : IsAdded(c, v, x, amount) /\ d.vals = [c.vals EXCEPT ![v] = x]
  <1>. DEFINE x == [c.vals[v] EXCEPT !.tokens = @ + amount, !.shares = @ + shares]
              n == c.dels[del][v] + shares
              d == AddShares(c, del, v, amount, shares)
  <1>1. c.vals[v] \in Vals /\ c.vals[v].shares + shares \in Int
    BY DEF States, Vals
  <1>2. IsAdded(c, v, x, amount)
    BY <1>1 DEF Vals, IsAdded
  <1>3. d = [c EXCEPT !.vals[v] = x, !.dels[del][v] = n]
    BY DEF AddShares, States
  <1>4. n \in Nat /\ x \in Vals
    BY <1>2 DEF IsAdded
  <1>. HIDE DEF x, n, d
  <1>5. d \in States /\ SameButShares(c, d) /\ d.vals = [c.vals EXCEPT ![v] = x]
    BY <1>3, <1>4 DEF States, SameButShares
  <1>. QED BY <1>2, <1>5 DEF d

LEMMA SharesAreWhole ==
    ASSUME NEW c \in States, NEW v \in Operators, NEW amount \in Nat, ~InvalidExRate(c, v)
    PROVE  SharesFromTokens(c, v, amount) \in Nat
  <1>1. c.vals[v].tokens \in Nat /\ c.vals[v].shares \in Int
    BY DEF States, Vals
  <1>2. CASE c.vals[v].shares > 0
    <2>1. c.vals[v].tokens > 0
      BY <1>1, <1>2 DEF InvalidExRate
    <2>2. amount * c.vals[v].shares \in Nat
      BY <1>1, <1>2
    <2>3. (amount * c.vals[v].shares) \div c.vals[v].tokens \in Nat
      BY <1>1, <2>1, <2>2
    <2>. QED BY <1>2, <2>3 DEF SharesFromTokens
  <1>3. CASE ~(c.vals[v].shares > 0)
    BY <1>3 DEF SharesFromTokens
  <1>. QED BY <1>2, <1>3

\* A delegation brings its tokens to the validator and to its pool.
LEMMA DelegateKeeps ==
    ASSUME NEW c \in States, NEW del \in Delegators, NEW v \in Operators, NEW amount \in Nat
    PROVE  LET d == Delegate(c, del, v, amount) IN
           Keeps(c, d) /\ KeepsActive(c, d) /\ SameEntries(c, d)
  <1>. DEFINE shares == SharesFromTokens(c, v, amount)
              d1 == IF c.dels[del][v] > 0 THEN PayDelegation(c, del, v)
                    ELSE IncrementValidatorPeriod(c, v)
              d2 == Move(d1, IsBonded(c, v), amount)
              d3 == AddShares(d2, del, v, amount, shares)
              d4 == InitializeDelegation(d3, del, v)
              d == Delegate(c, del, v, amount)
  <1>1. d = IF InvalidExRate(c, v) THEN Panic(c) ELSE IF d1.panic THEN d1 ELSE d4
    BY DEF Delegate, Then
  <1>2. Distributes(c, d1)
    BY PayDelegationDistributes, PeriodDistributes
  <1>3. ~Exists(c, v) => d1.panic
    BY AbsentPanics
  <1>. HIDE DEF d, d1
  <1>4. /\ d1 \in States /\ Keeps(c, d1) /\ KeepsActive(c, d1) /\ SameEntries(c, d1)
        /\ d1.vals = c.vals /\ d1.dels = c.dels
    BY <1>2, DistributesThen DEF Distributes, SameStaking, SameEntries
  <1>5. CASE InvalidExRate(c, v)
    <2>1. d = Panic(c)
      BY <1>1, <1>5
    <2>2. SameEntries(c, Panic(c))
      BY PanicDistributes DEF Distributes, SameStaking, SameEntries
    <2>. QED BY <2>1, <2>2, PanicKeeps DEF d
  <1>6. CASE ~InvalidExRate(c, v) /\ d1.panic
    BY <1>1, <1>4, <1>6 DEF d
  <1>7. CASE ~InvalidExRate(c, v) /\ ~d1.panic
    <2>1. d = d4 /\ Exists(d1, v) /\ (IsBonded(d1, v) <=> IsBonded(c, v))
      BY <1>1, <1>3, <1>4, <1>7 DEF Exists, IsBonded
    <2>2. shares \in Nat
      BY <1>7, SharesAreWhole
    <2>. HIDE DEF shares
    <2>3. /\ d2 \in States /\ OnlyBalances(d1, d2)
          /\ IsBonded(c, v) => d2.bonded = d1.bonded + amount /\ d2.notBonded = d1.notBonded
          /\ ~IsBonded(c, v) => d2.bonded = d1.bonded /\ d2.notBonded = d1.notBonded + amount
      <3>. HIDE DEF d2
      <3>1. CASE IsBonded(c, v)
        <4>1. d2 = Move(d1, TRUE, amount)
          <5>1. IsBonded(c, v) = TRUE
            BY <3>1 DEF IsBonded
          <5>. QED BY <5>1 DEF d2
        <4>2. amount \in Int
          OBVIOUS
        <4>. QED BY <1>4, <3>1, <4>1, <4>2, MovesBonded
      <3>2. CASE ~IsBonded(c, v)
        <4>1. d2 = Move(d1, FALSE, amount)
          <5>1. IsBonded(c, v) = FALSE
            BY <3>2 DEF IsBonded
          <5>. QED BY <5>1 DEF d2
        <4>2. amount \in Int
          OBVIOUS
        <4>. QED BY <1>4, <3>2, <4>1, <4>2, MovesFree
      <3>. QED BY <3>1, <3>2
    <2>. HIDE DEF d2
    <2>4. /\ d2.vals = d1.vals /\ d2.dels = d1.dels
          /\ d2.vals[v].tokens + amount \in Nat /\ d2.dels[del][v] + shares \in Nat
      <3>1. d2.vals[v].tokens \in Nat /\ d2.dels[del][v] \in Nat
        BY <2>3 DEF States, Vals
      <3>. QED BY <2>2, <2>3, <3>1 DEF OnlyBalances, SameButPools
    <2>5. /\ d3 \in States /\ SameButShares(d2, d3)
          /\ \E x : IsAdded(d2, v, x, amount) /\ d3.vals = [d2.vals EXCEPT ![v] = x]
      BY <2>2, <2>3, <2>4, SharesAreAdded
    <2>. HIDE DEF d3
    <2>6. PICK x : IsAdded(d2, v, x, amount) /\ d3.vals = [d2.vals EXCEPT ![v] = x]
      BY <2>5
    <2>7. /\ x \in Vals /\ x.status = d1.vals[v].status /\ x.jailed = d1.vals[v].jailed
          /\ x.tokens = d1.vals[v].tokens + amount /\ d3.vals = [d1.vals EXCEPT ![v] = x]
      BY <2>4, <2>6 DEF IsAdded
    <2>8. /\ d3.power = d1.power /\ d3.last = d1.last /\ d3.ubds = d1.ubds /\ d3.ids = d1.ids
          /\ d3.dist = d1.dist /\ d3.pool = d1.pool /\ d3.distribution = d1.distribution
          /\ d3.bonded = d2.bonded /\ d3.notBonded = d2.notBonded /\ d3.panic = d1.panic
      BY <2>3, <2>5 DEF OnlyBalances, SameButPools, SameButShares
    <2>9. \/ /\ IsBonded(d1, v) /\ d3.notBonded = d1.notBonded
             /\ d3.bonded = d1.bonded + (x.tokens - d1.vals[v].tokens)
          \/ /\ ~IsBonded(d1, v) /\ d3.bonded = d1.bonded
             /\ d3.notBonded = d1.notBonded + (x.tokens - d1.vals[v].tokens)
      <3>1. d1.vals[v].tokens \in Int /\ x.tokens - d1.vals[v].tokens = amount
        <4>1. d1.vals[v].tokens \in Int
          BY <1>4 DEF States, Vals
        <4>. QED BY <2>7, <4>1
      <3>. QED BY <2>1, <2>3, <2>8, <3>1
    <2>10. Whole(d1) => PowerFollows(d1, d3, v, x)
      BY <2>1, <2>7, <2>8, PowerIsRight
    <2>11. Keeps(d1, d3) /\ KeepsActive(d1, d3)
      BY <1>4, <2>1, <2>5, <2>7, <2>8, <2>9, <2>10, TokensChange
    <2>12. Keeps(c, d3) /\ KeepsActive(c, d3) /\ SameEntries(c, d3) /\ ~d3.panic
      BY <1>4, <1>7, <2>8, <2>11, KeepsTwice, KeepsActiveTwice DEF SameEntries
    <2>13. Distributes(d3, d4)
      BY <2>5, InitializeDelegationDistributes
    <2>. HIDE DEF d4
    <2>14. Keeps(d3, d4) /\ KeepsActive(d3, d4) /\ SameEntries(d3, d4)
      BY <2>5, <2>13, DistributesThen DEF Distributes, SameStaking, SameEntries
    <2>15. Keeps(c, d4) /\ KeepsActive(c, d4) /\ SameEntries(c, d4)
      BY <2>12, <2>14, KeepsTwice, KeepsActiveTwice DEF SameEntries
    <2>. QED BY <2>1, <2>15 DEF d
  <1>. QED BY <1>5, <1>6, <1>7

\* A delegation takes its tokens from the validator and from its pool.
LEMMA UnbondKeeps ==
    ASSUME NEW c \in States, NEW del \in Delegators, NEW v \in Operators
    PROVE  LET d == Unbond(c, del, v) IN
           Keeps(c, d) /\ KeepsActive(c, d) /\ SameEntries(c, d)
  <1>. DEFINE n == c.dels[del][v]
              amount == TokensFromShares(c, v, n)
              d1 == PayDelegation(c, del, v)
              d2 == AddShares(d1, del, v, -amount, -n)
              b == Burn(d2, IsBonded(c, v), amount)
              d3 == IF amount > c.vals[v].tokens THEN Panic(c) ELSE b
              d4 == IF d1.panic THEN d1 ELSE d3
              d5 == RemoveValidator(d4, v)
              d == Unbond(c, del, v)
  <1>1. d = IF d4.panic THEN d4
            ELSE IF d4.vals[v].shares = 0 /\ d4.vals[v].status = "Unbonded" THEN d5 ELSE d4
    BY DEF Unbond, Then
  <1>2. Distributes(c, d1)
    BY PayDelegationDistributes
  <1>3. ~Exists(c, v) => d1.panic
    BY AbsentPanics
  <1>. HIDE DEF d, d1
  <1>4. /\ d1 \in States /\ Keeps(c, d1) /\ KeepsActive(c, d1) /\ SameEntries(c, d1)
        /\ d1.vals = c.vals /\ d1.dels = c.dels
    BY <1>2, DistributesThen DEF Distributes, SameStaking, SameEntries
  <1>5. n \in Nat /\ amount \in Nat /\ c.vals[v].tokens \in Nat
    <2>1. n \in Nat /\ c.vals[v].tokens \in Nat
      BY DEF States, Vals
    <2>. HIDE DEF n
    <2>. QED BY <2>1, TokensAreNatural
  <1>. HIDE DEF amount
  <1>6. Keeps(c, d4) /\ KeepsActive(c, d4) /\ SameEntries(c, d4)
    <2>1. CASE d1.panic
      BY <1>4, <2>1
    <2>2. CASE ~d1.panic /\ amount > c.vals[v].tokens
      <3>1. d4 = Panic(c)
        BY <2>2
      <3>2. SameEntries(c, Panic(c))
        BY PanicDistributes DEF Distributes, SameStaking, SameEntries
      <3>. QED BY <3>1, <3>2, PanicKeeps
    <2>3. CASE ~d1.panic /\ ~(amount > c.vals[v].tokens)
      <3>1. d4 = b /\ Exists(d1, v) /\ (IsBonded(d1, v) <=> IsBonded(c, v))
        BY <1>3, <1>4, <2>3 DEF Exists, IsBonded
      <3>. DEFINE less == -amount
                  fewer == -n
      <3>2. /\ d2 = AddShares(d1, del, v, less, fewer) /\ less \in Int /\ fewer \in Int
            /\ d1.vals[v].tokens + less \in Nat /\ d1.dels[del][v] + fewer \in Nat
        <4>1. d1.dels[del][v] = n /\ d1.vals[v].tokens = c.vals[v].tokens
          BY <1>4
        <4>. HIDE DEF n
        <4>. QED BY <1>5, <2>3, <4>1
      <3>. HIDE DEF n, d2, less, fewer
      <3>3. /\ d2 \in States /\ SameButShares(d1, d2)
            /\ \E x : IsAdded(d1, v, x, less) /\ d2.vals = [d1.vals EXCEPT ![v] = x]
        BY <1>4, <3>2, SharesAreAdded
      <3>4. PICK x : IsAdded(d1, v, x, less) /\ d2.vals = [d1.vals EXCEPT ![v] = x]
        BY <3>3
      <3>5. /\ b \in States /\ SameButPools(d2, b)
            /\ \/ b.panic
               \/ IsBonded(c, v) /\ b.bonded = d2.bonded - amount /\ b.notBonded = d2.notBonded
               \/ ~IsBonded(c, v) /\ b.bonded = d2.bonded /\ b.notBonded = d2.notBonded - amount
        <4>. HIDE DEF b
        <4>1. CASE IsBonded(c, v)
          <5>1. b = Burn(d2, TRUE, amount)
            <6>1. IsBonded(c, v) = TRUE
              BY <4>1 DEF IsBonded
            <6>. QED BY <6>1 DEF b
          <5>. QED BY <1>5, <3>3, <4>1, <5>1, Burns
        <4>2. CASE ~IsBonded(c, v)
          <5>1. b = Burn(d2, FALSE, amount)
            <6>1. IsBonded(c, v) = FALSE
              BY <4>2 DEF IsBonded
            <6>. QED BY <6>1 DEF b
          <5>. QED BY <1>5, <3>3, <4>2, <5>1, Burns
        <4>. QED BY <4>1, <4>2
      <3>. HIDE DEF b
      <3>6. /\ x \in Vals /\ x.status = d1.vals[v].status /\ x.jailed = d1.vals[v].jailed
            /\ x.tokens = d1.vals[v].tokens + less /\ b.vals = [d1.vals EXCEPT ![v] = x]
        BY <3>4, <3>5 DEF IsAdded, SameButPools
      <3>7. /\ b.power = d1.power /\ b.last = d1.last /\ b.ubds = d1.ubds /\ b.ids = d1.ids
            /\ b.dist = d1.dist /\ b.pool = d1.pool /\ b.distribution = d1.distribution
            /\ d2.bonded = d1.bonded /\ d2.notBonded = d1.notBonded
        BY <3>3, <3>5 DEF SameButPools, SameButShares
      <3>8. \/ b.panic
            \/ /\ IsBonded(d1, v) /\ b.notBonded = d1.notBonded
               /\ b.bonded = d1.bonded + (x.tokens - d1.vals[v].tokens)
            \/ /\ ~IsBonded(d1, v) /\ b.bonded = d1.bonded
               /\ b.notBonded = d1.notBonded + (x.tokens - d1.vals[v].tokens)
        <4>1. d1.vals[v].tokens \in Int /\ d1.bonded \in Int /\ d1.notBonded \in Int
          BY <1>4 DEF States, Vals
        <4>2. x.tokens - d1.vals[v].tokens = -amount
          BY <1>5, <3>6, <4>1 DEF less
        <4>. QED BY <1>5, <3>1, <3>5, <3>7, <4>1, <4>2
      <3>9. Whole(d1) => PowerFollows(d1, b, v, x)
        BY <3>1, <3>6, <3>7, PowerIsRight
      <3>10. Keeps(d1, b) /\ KeepsActive(d1, b)
        BY <1>4, <3>1, <3>5, <3>6, <3>7, <3>8, <3>9, TokensChange
      <3>. QED BY <1>4, <2>3, <3>1, <3>7, <3>10, KeepsTwice, KeepsActiveTwice DEF SameEntries
    <2>. QED BY <2>1, <2>2, <2>3
  <1>. HIDE DEF d4
  <1>7. CASE ~d4.panic /\ d4.vals[v].status = "Unbonded"
    <2>1. ~IsBonded(d4, v) /\ d4 \in States
      BY <1>6, <1>7 DEF IsBonded, Keeps
    <2>2. Keeps(d4, d5) /\ KeepsActive(d4, d5) /\ SameEntries(d4, d5)
      BY <2>1, RemoveKeeps
    <2>. HIDE DEF d5
    <2>3. Keeps(c, d5) /\ KeepsActive(c, d5) /\ SameEntries(c, d5)
      BY <1>6, <1>7, <2>2, KeepsTwice, KeepsActiveTwice DEF SameEntries
    <2>4. d = d4 \/ d = d5
      BY <1>1
    <2>. QED BY <1>6, <2>3, <2>4 DEF d
  <1>8. CASE ~(~d4.panic /\ d4.vals[v].status = "Unbonded")
    <2>1. d = d4
      BY <1>1, <1>8
    <2>. QED BY <1>6, <2>1 DEF d
  <1>. QED BY <1>7, <1>8

\* d after c, but for a new unbonding delegation and tokens for it.
IsUnbondingAdded(c, u, d) ==
    /\ d.vals = c.vals /\ d.power = c.power /\ d.last = c.last
    /\ d.dist = c.dist /\ d.pool = c.pool /\ d.distribution = c.distribution
    /\ d.ids = c.ids + 1 /\ d.ubds = c.ubds \cup {u}
    /\ d.bonded = c.bonded /\ d.notBonded = c.notBonded + u.amount

\* The tokens of a new unbonding delegation come into the other pool.
LEMMA EntryKeeps ==
    ASSUME NEW c \in States, NEW d \in States, NEW u \in Entries, u.id = c.ids,
           IsUnbondingAdded(c, u, d)
    PROVE  Keeps(c, d) /\ KeepsActive(c, d)
  <1>1. c.ids \in Nat /\ d.ids = c.ids + 1 /\ u.amount \in Nat
        /\ c.bonded \in Int /\ c.notBonded \in Int
    BY DEF IsUnbondingAdded, States, Entries
  <1>2. \A v : (Exists(d, v) <=> Exists(c, v)) /\ (IsBonded(d, v) <=> IsBonded(c, v))
    BY DEF IsUnbondingAdded, Exists, IsBonded
  <1>3. KeepsActive(c, d) /\ Surplus(d) = Surplus(c)
    BY <1>2, SameDistribution DEF KeepsActive, LastIsBonded, IsUnbondingAdded
  <1>4. ASSUME Whole(c) PROVE Whole(d) /\ SameStakes(c, d)
    <2>1. IsFiniteSet(c.ubds) /\ IsFiniteSet(d.ubds) /\ u \notin c.ubds
      BY <1>1, <1>4, FS_AddElement DEF Whole, IsUnbondingAdded
    <2>2. \A w \in c.ubds : w.id \in Nat /\ w.id < c.ids
      BY <1>4 DEF Whole, States, Entries
    <2>3. \A w \in d.ubds : w.id < d.ids
      BY <1>1, <2>2 DEF IsUnbondingAdded
    <2>4. \A w, z \in d.ubds : w.id = z.id => w = z
      BY <1>1, <1>4, <2>2 DEF Whole, IsUnbondingAdded
    <2>5. Whole(d)
      BY <1>2, <1>4, <2>1, <2>3, <2>4 DEF Whole, Existing, IsUnbondingAdded
    <2>6. Owed(d) = Owed(c) + u.amount
      <3>. DEFINE S == c.ubds
                  f == [w \in S |-> w.amount]
                  g == [w \in S \cup {u} |-> w.amount]
      <3>1. \A w \in S \cup {u} : w.amount \in Int
        BY DEF States, Entries
      <3>2. IsFiniteSet(S) /\ u \notin S
        BY <2>1
      <3>3. Owed(c) = SumFunction(f) /\ Owed(d) = SumFunction(g)
        BY DEF Owed, IsUnbondingAdded
      <3>. HIDE DEF S
      <3>4. f \in [S -> Int] /\ g \in [S \cup {u} -> Int] /\ g[u] = u.amount
            /\ \A w \in S : g[w] = f[w]
        BY <3>1
      <3>. HIDE DEF f, g
      <3>5. SumFunction(g) = SumFunction(f) + g[u]
        BY <3>2, <3>4, SumWithOneMore
      <3>. QED BY <3>3, <3>4, <3>5
    <2>7. /\ Owed(c) \in Int /\ Owed(d) \in Int /\ Free(c) \in Int
          /\ NotBondedTokens(c) = Free(c) + Owed(c)
          /\ NotBondedTokens(d) = Free(d) + Owed(d)
      BY <2>1, OwedIsWhole, StakesAreWhole
    <2>8. Free(d) = Free(c) /\ BondedTokens(d) = BondedTokens(c)
      BY DEF Free, BondedTokens, IsBonded, IsUnbondingAdded
    <2>9. d.bonded = c.bonded /\ d.notBonded = c.notBonded + u.amount /\ u.amount \in Int
      BY <1>1 DEF IsUnbondingAdded
    <2>. QED BY <1>1, <2>5, <2>6, <2>7, <2>8, <2>9
             DEF SameStakes, BondedSurplus, NotBondedSurplus
  <1>. QED BY <1>3, <1>4 DEF Keeps

\* An undelegation, from the delegation to its entry.
LEMMA UndelegateKeeps ==
    ASSUME NEW c \in States, NEW del \in Delegators, NEW v \in Operators
    PROVE  LET d == Undelegate(c, del, v) IN Keeps(c, d) /\ KeepsActive(c, d)
  <1>. DEFINE n == c.dels[del][v]
              amount == TokensFromShares(c, v, n)
              u == [id |-> c.ids, del |-> del, val |-> v, amount |-> amount,
                    height |-> c.height]
              d1 == Unbond(c, del, v)
              m == Move(d1, FALSE, amount)
              d2 == [m EXCEPT !.ids = @ + 1, !.ubds = @ \cup {u}]
              d == Undelegate(c, del, v)
  <1>1. d = IF d1.panic THEN d1 ELSE IF c.vals[v].status = "Unbonded" THEN d1 ELSE d2
    BY DEF Undelegate, Then
  <1>2. Keeps(c, d1) /\ KeepsActive(c, d1) /\ SameEntries(c, d1)
    BY UnbondKeeps
  <1>3. amount \in Nat
    <2>1. n \in Nat
      BY DEF States
    <2>. HIDE DEF n
    <2>. QED BY <2>1, TokensAreNatural
  <1>. HIDE DEF d, d1, amount
  <1>4. u \in Entries /\ u.id = c.ids /\ u.amount = amount
    BY <1>3 DEF States, Entries
  <1>. HIDE DEF u
  <1>5. CASE d = d1
    BY <1>2, <1>5 DEF d
  <1>6. CASE ~d1.panic /\ d = d2
    <2>1. d1 \in States /\ amount \in Int /\ d1.ids = c.ids
      BY <1>2, <1>3 DEF Keeps, SameEntries
    <2>2. m \in States /\ OnlyBalances(d1, m) /\ m.bonded = d1.bonded
          /\ m.notBonded = d1.notBonded + amount
      BY <2>1, MovesFree
    <2>. HIDE DEF m
    <2>3. m.ids \in Nat /\ m.ids + 1 \in Nat
      BY <2>2 DEF States
    <2>4. /\ d2 \in States /\ d2.vals = m.vals /\ d2.power = m.power /\ d2.last = m.last
          /\ d2.dist = m.dist /\ d2.pool = m.pool /\ d2.distribution = m.distribution
          /\ d2.ids = m.ids + 1 /\ d2.ubds = m.ubds \cup {u}
          /\ d2.bonded = m.bonded /\ d2.notBonded = m.notBonded
      BY <1>4, <2>2, <2>3 DEF States
    <2>. HIDE DEF d2
    <2>5. IsUnbondingAdded(d1, u, d2)
      BY <1>4, <2>2, <2>4 DEF IsUnbondingAdded, OnlyBalances, SameButPools
    <2>6. Keeps(d1, d2) /\ KeepsActive(d1, d2)
      BY <1>4, <2>1, <2>4, <2>5, EntryKeeps
    <2>. QED BY <1>2, <1>6, <2>6, KeepsTwice, KeepsActiveTwice DEF d
  <1>. QED BY <1>1, <1>5, <1>6

\* A redelegation takes tokens from one validator and brings them to another.
LEMMA RedelegateKeeps ==
    ASSUME NEW c \in States, NEW del \in Delegators, NEW v \in Operators,
           NEW w \in Operators
    PROVE  LET d == Redelegate(c, del, v, w) IN Keeps(c, d) /\ KeepsActive(c, d)
  <1>. DEFINE n == c.dels[del][v]
              amount == TokensFromShares(c, v, n)
              u == [id |-> c.ids, del |-> del, val |-> v, amount |-> amount,
                    height |-> c.height]
              d1 == Unbond(c, del, v)
              b == Delegate(d1, del, w, amount)
              d2 == IF d1.panic THEN d1 ELSE b
              d3 == [d2 EXCEPT !.ids = @ + 1, !.reds = @ \cup {u}]
              d == Redelegate(c, del, v, w)
  <1>1. \/ d = Panic(c)
        \/ d = IF d2.panic THEN d2 ELSE IF c.vals[v].status = "Unbonded" THEN d2 ELSE d3
    BY DEF Redelegate, Then
  <1>2. d1 \in States /\ Keeps(c, d1) /\ KeepsActive(c, d1)
    BY UnbondKeeps DEF Keeps
  <1>3. amount \in Nat
    <2>1. n \in Nat
      BY DEF States
    <2>. HIDE DEF n
    <2>. QED BY <2>1, TokensAreNatural
  <1>. HIDE DEF d, d1, amount
  <1>4. u \in Entries
    BY <1>3 DEF States, Entries
  <1>. HIDE DEF u
  <1>5. Keeps(d1, b) /\ KeepsActive(d1, b)
    BY <1>2, <1>3, DelegateKeeps
  <1>. HIDE DEF b
  <1>6. d2 \in States /\ Keeps(c, d2) /\ KeepsActive(c, d2)
    <2>1. CASE d1.panic
      BY <1>2, <2>1
    <2>2. CASE ~d1.panic
      <3>1. d2 = b
        BY <2>2
      <3>. HIDE DEF d2
      <3>2. Keeps(c, b) /\ KeepsActive(c, b)
        BY <1>2, <1>5, <2>2, KeepsTwice, KeepsActiveTwice
      <3>. QED BY <3>1, <3>2 DEF Keeps
    <2>. QED BY <2>1, <2>2
  <1>. HIDE DEF d2
  <1>7. CASE d = d2
    BY <1>6, <1>7 DEF d
  <1>8. CASE ~d2.panic /\ d = d3
    <2>1. d2.ids \in Nat /\ d2.ids + 1 \in Nat
      BY <1>6 DEF States
    <2>2. /\ d3 \in States /\ d3.vals = d2.vals /\ d3.power = d2.power /\ d3.last = d2.last
          /\ d3.dist = d2.dist /\ d3.pool = d2.pool /\ d3.distribution = d2.distribution
          /\ d3.ids = d2.ids + 1 /\ d3.ubds = d2.ubds
          /\ d3.bonded = d2.bonded /\ d3.notBonded = d2.notBonded
      BY <1>4, <1>6, <2>1 DEF States
    <2>. HIDE DEF d3
    <2>3. \A x : (Exists(d3, x) <=> Exists(d2, x)) /\ (IsBonded(d3, x) <=> IsBonded(d2, x))
      BY <2>2 DEF Exists, IsBonded
    <2>4. KeepsActive(d2, d3) /\ Surplus(d3) = Surplus(d2)
      BY <1>6, <2>2, <2>3, SameDistribution DEF KeepsActive, LastIsBonded
    <2>5. ASSUME Whole(d2) PROVE Whole(d3)
      <3>1. \A e \in d3.ubds : e.id \in Nat /\ e.id < d3.ids
        BY <1>6, <2>1, <2>2, <2>5 DEF Whole, States, Entries
      <3>. QED BY <2>2, <2>3, <2>5, <3>1 DEF Whole, Existing
    <2>6. SameStakes(d2, d3)
      BY <2>2 DEF SameStakes, BondedSurplus, NotBondedSurplus, BondedTokens,
                  NotBondedTokens, IsBonded
    <2>7. Keeps(d2, d3)
      BY <2>2, <2>4, <2>5, <2>6 DEF Keeps
    <2>. QED BY <1>6, <1>8, <2>4, <2>7, KeepsTwice, KeepsActiveTwice DEF d
  <1>. QED BY <1>1, <1>7, <1>8, PanicKeeps DEF d

-----------------------------------------------------------------------------
(* Blocks *)

\* The power index of a block that ends well is right where there are tokens.
LEMMA AppliesRanked ==
    ASSUME NEW c \in States, NEW d, d = ApplyValidatorSetUpdates(c), ~d.panic,
           c.power \subseteq Existing(c),
           \A v \in Existing(c) : ~c.vals[v].jailed => v \in c.power
    PROVE  Ranked(d)
  <1>1. /\ SameButActive(c, d) /\ d.last = Top(c)
        /\ \A v \in Reached(c) : Exists(c, v) /\ ~c.vals[v].jailed
    BY Applies
  <1>2. ASSUME NEW v \in c.power, c.vals[v].tokens > 0 PROVE v \in Reached(c)
    <2>1. v \notin {w \in c.power : Exists(c, w) /\ c.vals[w].tokens = 0}
      BY <1>2
    <2>. QED BY <2>1 DEF Reached
  <1>3. Top(c) = {v \in Existing(c) : ~c.vals[v].jailed /\ c.vals[v].tokens > 0}
    BY <1>1, <1>2, ReachedInPower DEF Top
  <1>4. \A v \in Operators : /\ d.vals[v].tokens = c.vals[v].tokens
                             /\ d.vals[v].jailed = c.vals[v].jailed
                             /\ Exists(d, v) <=> Exists(c, v)
    BY <1>1 DEF SameButActive
  <1>. QED BY <1>1, <1>3, <1>4 DEF Ranked, Existing

\* The end blocker ranks the validators of a whole state.
LEMMA EndBlockKeeps ==
    ASSUME NEW c \in States, NEW d, d = EndBlock(c)
    PROVE  /\ Keeps(c, d)
           /\ ~d.panic => LastIsBonded(d)
           /\ Whole(c) /\ ~d.panic => Ranked(d)
  BY Applies, AppliesRanked DEF EndBlock, Whole

\* d is the state after a block on c.
IsBlock(c, d) ==
    /\ Keeps(c, d)
    /\ Whole(c) /\ LastIsBonded(c) /\ ~d.panic => LastIsBonded(d) /\ Ranked(d)

\* A block ends after a begin blocker, or a transaction, that went well.
LEMMA BlockEnds ==
    ASSUME NEW c \in States, NEW t \in States, Keeps(c, t), ~t.panic
    PROVE  IsBlock(c, EndBlock(t))
  <1>. DEFINE d == EndBlock(t)
  <1>1. Keeps(t, d) /\ (~d.panic => LastIsBonded(d)) /\ (Whole(t) /\ ~d.panic => Ranked(d))
    BY EndBlockKeeps
  <1>. HIDE DEF d
  <1>2. Keeps(c, d)
    BY <1>1, KeepsTwice
  <1>3. Whole(c) => Whole(t)
    BY DEF Keeps
  <1>. QED BY <1>1, <1>2, <1>3 DEF IsBlock, d

\* The block of a transaction: if it panics, the block has none.
LEMMA TransactionMines ==
    ASSUME NEW t, chain \in States, ~chain.panic, Transaction(t),
           Keeps(Begun, t)
    PROVE  IsBlock(chain, chain')
  <1>1. Keeps(chain, Begun) /\ ~Begun.panic /\ Begun \in States
    BY BeginBlockKeeps DEF Begun, Keeps
  <1>2. chain' = EndBlock(IF t.panic THEN Begun ELSE t)
    BY DEF Transaction, Mined
  <1>3. CASE t.panic
    BY <1>1, <1>2, <1>3, BlockEnds
  <1>4. CASE ~t.panic
    <2>1. t \in States /\ Keeps(chain, t)
      BY <1>1, KeepsTwice DEF Keeps
    <2>. QED BY <1>2, <1>4, <2>1, BlockEnds
  <1>. QED BY <1>3, <1>4

\* The block that slashes a validator.
LEMMA SlashingMines ==
    ASSUME chain \in States, ~chain.panic, NEW v \in Operators, Slashing(v)
    PROVE  IsBlock(chain, chain')
  <1>. DEFINE s == Slash(Begun, v)
  <1>1. Keeps(chain, Begun) /\ ~Begun.panic /\ Begun \in States
    BY BeginBlockKeeps DEF Begun, Keeps
  <1>2. Keeps(Begun, s)
    BY <1>1, SlashKeeps
  <1>3. chain' = IF s.panic THEN s ELSE EndBlock(s)
    BY DEF Slashing, Mined, Then
  <1>. HIDE DEF s
  <1>4. s \in States /\ Keeps(chain, s)
    BY <1>1, <1>2, KeepsTwice DEF Keeps
  <1>5. CASE s.panic
    BY <1>3, <1>4, <1>5 DEF IsBlock
  <1>6. CASE ~s.panic
    BY <1>3, <1>4, <1>6, BlockEnds
  <1>. QED BY <1>5, <1>6

\* What comes after the end of a block, when it leaves the ranks alone.
LEMMA BlockGoesOn ==
    ASSUME NEW c \in States, NEW e, NEW d, IsBlock(c, e), ~e.panic,
           Keeps(e, d), KeepsActive(e, d), Whole(e) => KeepsRank(e, d)
    PROVE  IsBlock(c, d)
  <1>1. Keeps(c, d)
    BY KeepsTwice DEF IsBlock
  <1>2. ASSUME Whole(c), LastIsBonded(c), ~d.panic PROVE LastIsBonded(d) /\ Ranked(d)
    <2>1. Whole(e) /\ LastIsBonded(e) /\ Ranked(e)
      BY <1>2 DEF IsBlock, Keeps
    <2>. QED BY <1>2, <2>1 DEF KeepsActive, KeepsRank
  <1>. QED BY <1>1, <1>2 DEF IsBlock

\* The block in which a validator is unbonded.
LEMMA UnbondingMines ==
    ASSUME chain \in States, ~chain.panic, NEW v \in Operators, UnbondingEnds(v)
    PROVE  IsBlock(chain, chain')
  <1>. DEFINE e == EndBlock(Begun)
              d == UnbondMature(e, v)
  <1>1. Keeps(chain, Begun) /\ ~Begun.panic /\ Begun \in States
    BY BeginBlockKeeps DEF Begun, Keeps
  <1>2. chain' = IF e.panic THEN e ELSE d
    BY DEF UnbondingEnds, Mined, Then
  <1>3. IsBlock(chain, e)
    BY <1>1, BlockEnds
  <1>. HIDE DEF e
  <1>4. e \in States
    BY <1>3 DEF IsBlock, Keeps
  <1>5. CASE e.panic
    BY <1>2, <1>3, <1>5
  <1>6. CASE ~e.panic
    <2>1. Keeps(e, d) /\ KeepsActive(e, d) /\ (Whole(e) => KeepsRank(e, d))
      BY <1>4, <1>6, UnbondMatureKeeps
    <2>. HIDE DEF d
    <2>. QED BY <1>2, <1>3, <1>6, <2>1, BlockGoesOn
  <1>. QED BY <1>5, <1>6

\* The block in which an unbonding delegation is paid.
LEMMA UndelegationMines ==
    ASSUME chain \in States, ~chain.panic, NEW u \in chain.ubds, UndelegationEnds(u)
    PROVE  IsBlock(chain, chain')
  <1>. DEFINE e == EndBlock(Begun)
              d == CompleteUnbonding(e, u)
  <1>1. /\ Keeps(chain, Begun) /\ ~Begun.panic /\ Begun \in States
        /\ Begun.ubds = chain.ubds
    BY BeginBlockKeeps DEF Begun, Keeps
  <1>2. chain' = IF e.panic THEN e ELSE d
    BY DEF UndelegationEnds, Mined, Then
  <1>3. IsBlock(chain, e) /\ (~e.panic => e.ubds = chain.ubds)
    <2>1. e = ApplyValidatorSetUpdates(Begun)
      BY DEF EndBlock
    <2>2. ~e.panic => SameButActive(Begun, e)
      BY <1>1, <2>1, ApplyKeeps
    <2>3. IsBlock(chain, e)
      BY <1>1, BlockEnds
    <2>. QED BY <1>1, <2>2, <2>3 DEF SameButActive
  <1>. HIDE DEF e
  <1>4. e \in States
    BY <1>3 DEF IsBlock, Keeps
  <1>5. CASE e.panic
    BY <1>2, <1>3, <1>5
  <1>6. CASE ~e.panic
    <2>1. Keeps(e, d) /\ KeepsActive(e, d) /\ KeepsRank(e, d)
      BY <1>3, <1>4, <1>6, CompleteUnbondingKeeps
    <2>. HIDE DEF d
    <2>. QED BY <1>2, <1>3, <1>6, <2>1, BlockGoesOn
  <1>. QED BY <1>5, <1>6

\* Every block.
LEMMA BlockMines ==
    ASSUME chain \in States, ~chain.panic, Block
    PROVE  IsBlock(chain, chain')
  <1>1. /\ Keeps(chain, Begun) /\ ~Begun.panic /\ Begun \in States
        /\ Begun.vals = chain.vals
    BY BeginBlockKeeps DEF Begun, Keeps
  <1>2. Existing(chain) \subseteq Operators /\ chain.queue \subseteq Operators
        /\ chain.last \subseteq Operators
    BY DEF Existing, States
  <1>3. ASSUME NEW del \in Delegators, NEW v \in Existing(chain),
               Transaction(Delegate(Begun, del, v, Stake))
        PROVE  IsBlock(chain, chain')
    <2>1. Stake \in Nat /\ v \in Operators
      BY <1>2, ChainAssumption
    <2>2. Keeps(Begun, Delegate(Begun, del, v, Stake))
      BY <1>1, <2>1, DelegateKeeps
    <2>. QED BY <1>3, <2>2, TransactionMines
  <1>4. ASSUME NEW dv \in Delegations(chain),
               \/ Transaction(Undelegate(Begun, dv[1], dv[2]))
               \/ Transaction(WithdrawDelegationRewards(Begun, dv[1], dv[2]))
               \/ \E w \in Existing(chain) : Transaction(Redelegate(Begun, dv[1], dv[2], w))
        PROVE  IsBlock(chain, chain')
    <2>1. dv[1] \in Delegators /\ dv[2] \in Operators
      BY DEF Delegations
    <2>2. CASE Transaction(Undelegate(Begun, dv[1], dv[2]))
      <3>1. Keeps(Begun, Undelegate(Begun, dv[1], dv[2]))
        BY <1>1, <2>1, UndelegateKeeps
      <3>. QED BY <2>2, <3>1, TransactionMines
    <2>3. CASE Transaction(WithdrawDelegationRewards(Begun, dv[1], dv[2]))
      <3>1. Keeps(Begun, WithdrawDelegationRewards(Begun, dv[1], dv[2]))
        BY <1>1, <2>1, WithdrawRewardsDistributes, DistributesKeeps
      <3>. QED BY <2>3, <3>1, TransactionMines
    <2>4. ASSUME NEW w \in Existing(chain), Transaction(Redelegate(Begun, dv[1], dv[2], w))
          PROVE  IsBlock(chain, chain')
      <3>1. Keeps(Begun, Redelegate(Begun, dv[1], dv[2], w))
        BY <1>1, <1>2, <2>1, RedelegateKeeps
      <3>. QED BY <2>4, <3>1, TransactionMines
    <2>. QED BY <1>4, <2>2, <2>3, <2>4
  <1>5. ASSUME NEW v \in Existing(chain), Transaction(WithdrawValidatorCommission(Begun, v))
        PROVE  IsBlock(chain, chain')
    <2>1. Keeps(Begun, WithdrawValidatorCommission(Begun, v))
      BY <1>1, <1>2, CommissionDistributes, DistributesKeeps
    <2>. QED BY <1>5, <2>1, TransactionMines
  <1>6. ASSUME NEW v \in Existing(chain), Transaction(Unjail(Begun, v))
        PROVE  IsBlock(chain, chain')
    <2>1. v \in Operators /\ Exists(Begun, v)
      BY <1>1 DEF Existing, Exists
    <2>2. Keeps(Begun, Unjail(Begun, v))
      BY <1>1, <2>1, UnjailKeeps
    <2>. QED BY <1>6, <2>2, TransactionMines
  <1>7. ASSUME NEW v \in chain.last, Slashing(v) PROVE IsBlock(chain, chain')
    BY <1>2, <1>7, SlashingMines
  <1>8. ASSUME NEW v \in chain.queue, UnbondingEnds(v) PROVE IsBlock(chain, chain')
    BY <1>2, <1>8, UnbondingMines
  <1>9. ASSUME NEW u \in chain.ubds, UndelegationEnds(u) PROVE IsBlock(chain, chain')
    BY <1>9, UndelegationMines
  <1>. QED BY <1>3, <1>4, <1>5, <1>6, <1>7, <1>8, <1>9 DEF Block

-----------------------------------------------------------------------------
(* The first state *)

\* The chain before its distribution records are set up.
Founded ==
    LET stake == Stake * Cardinality(Delegators)
    IN  [height |-> 1, panic |-> FALSE, ids |-> 0,
         vals |-> [v \in Operators |->
            IF v \in Genesis
            THEN [status |-> "Bonded", tokens |-> stake, shares |-> stake,
                  jailed |-> FALSE, unbondingHeight |-> 0]
            ELSE NoValidator],
         power |-> Genesis, last |-> Genesis, queue |-> {},
         dels |-> [d \in Delegators |->
            [v \in Operators |-> IF v \in Genesis THEN Stake ELSE 0]],
         ubds |-> {}, reds |-> {},
         dist |-> [v \in Operators |-> NoRecords],
         start |-> [d \in Delegators |-> [v \in Operators |-> NoInfo]],
         pool |-> 0, distribution |-> 0,
         bonded |-> stake * Cardinality(Genesis), notBonded |-> 0,
         signing |-> [k \in Genesis |-> 1]]

Initialized == ForAll(InitializeValidator, Founded, Genesis)

LEMMA FirstStateIsFounded ==
    FirstState = ForAll(StartDelegation, Initialized, Delegators \X Genesis)
  BY DEF FirstState, Initialized, Founded

LEMMA FoundedIsAState ==
    LET stake == Stake * Cardinality(Delegators) IN
    /\ stake \in Nat /\ Founded \in States
    /\ Founded.vals = [v \in Operators |->
          IF v \in Genesis
          THEN [status |-> "Bonded", tokens |-> stake, shares |-> stake,
                jailed |-> FALSE, unbondingHeight |-> 0]
          ELSE NoValidator]
    /\ Founded.power = Genesis /\ Founded.last = Genesis /\ Founded.ubds = {}
    /\ Founded.dist = [v \in Operators |-> NoRecords]
    /\ Founded.pool = 0 /\ Founded.distribution = 0 /\ ~Founded.panic
    /\ Founded.bonded = stake * Cardinality(Genesis) /\ Founded.notBonded = 0
  <1>. DEFINE stake == Stake * Cardinality(Delegators)
              n == Cardinality(Genesis)
              bonded == stake * n
              V == [status |-> "Bonded", tokens |-> stake, shares |-> stake,
                    jailed |-> FALSE, unbondingHeight |-> 0]
              vals == [v \in Operators |-> IF v \in Genesis THEN V ELSE NoValidator]
              dels == [d \in Delegators |->
                          [v \in Operators |-> IF v \in Genesis THEN Stake ELSE 0]]
              dist == [v \in Operators |-> NoRecords]
              start == [d \in Delegators |-> [v \in Operators |-> NoInfo]]
              signing == [k \in Genesis |-> 1]
  <1>1. /\ Genesis \subseteq Operators /\ Operators \subseteq Nat
        /\ Stake \in Nat /\ Cardinality(Delegators) \in Nat
        /\ Cardinality(Genesis) \in Nat
    BY ChainAssumption, FS_Subset, FS_CardinalityType
  <1>2. stake \in Nat /\ n \in Nat
    BY <1>1
  <1>. HIDE DEF n
  <1>3. bonded \in Nat
    BY <1>2
  <1>. HIDE DEF stake
  <1>. HIDE DEF bonded
  <1>4. V \in Vals /\ NoValidator \in Vals
    BY <1>2 DEF Vals, Statuses, NoValidator
  <1>5. vals \in [Operators -> Vals]
    <2>. HIDE DEF V
    <2>. QED BY <1>4
  <1>6. dels \in [Delegators -> [Operators -> Nat]]
    BY <1>1
  <1>7. dist \in [Operators -> Records]
    BY NoRecordsAreRecords
  <1>8. start \in [Delegators -> [Operators -> Infos]]
    <2>1. -1 \in Int /\ 0 \in Int
      OBVIOUS
    <2>2. NoInfo \in Infos
      BY <2>1 DEF NoInfo, Infos
    <2>. QED BY <2>2
  <1>9. signing \in UNION {[K -> Int] : K \in SUBSET Int}
    <2>1. signing \in [Genesis -> Int] /\ Genesis \in SUBSET Int
      BY <1>1
    <2>. QED BY <2>1
  <1>10. Founded = [height |-> 1, panic |-> FALSE, ids |-> 0, vals |-> vals,
                    power |-> Genesis, last |-> Genesis, queue |-> {}, dels |-> dels,
                    ubds |-> {}, reds |-> {}, dist |-> dist, start |-> start,
                    pool |-> 0, distribution |-> 0, bonded |-> bonded, notBonded |-> 0,
                    signing |-> signing]
    BY DEF Founded, stake, bonded, n
  <1>. HIDE DEF vals, dels, dist, start, signing
  <1>11. /\ Founded.vals = vals /\ Founded.power = Genesis /\ Founded.last = Genesis
         /\ Founded.ubds = {} /\ Founded.dist = dist
         /\ Founded.pool = 0 /\ Founded.distribution = 0 /\ ~Founded.panic
         /\ Founded.bonded = bonded /\ Founded.notBonded = 0
    BY <1>10
  <1>12. Founded \in States
    <2>1. 0 \in Int /\ 1 \in Int /\ 0 \in Nat /\ bonded \in Int /\ FALSE \in BOOLEAN
      BY <1>3
    <2>2. Genesis \in SUBSET Operators /\ {} \in SUBSET Operators /\ {} \in SUBSET Entries
      BY <1>1
    <2>. QED BY <1>5, <1>6, <1>7, <1>8, <1>9, <1>10, <2>1, <2>2 DEF States
  <1>. QED BY <1>2, <1>11, <1>12 DEF vals, dist, bonded, n, stake, V

\* The first genesis: the bonded pool holds the stake of every validator.
LEMMA FoundedIsWhole ==
    /\ Whole(Founded) /\ LastIsBonded(Founded) /\ Ranked(Founded)
    /\ BondedSurplus(Founded) = 0 /\ NotBondedSurplus(Founded) = 0 /\ Surplus(Founded) = 0
    /\ \A v \in Operators : Founded.dist[v].outstanding = 0
  <1>. DEFINE stake == Stake * Cardinality(Delegators)
              b == [v \in Operators |-> IF IsBonded(Founded, v)
                                        THEN Founded.vals[v].tokens ELSE 0]
              f == [v \in Operators |-> IF IsBonded(Founded, v)
                                        THEN 0 ELSE Founded.vals[v].tokens]
              o == [v \in Operators |-> Founded.dist[v].outstanding]
              u == [x \in Founded.ubds |-> x.amount]
  <1>1. stake \in Nat /\ Genesis \subseteq Operators /\ IsFiniteSet(Operators) /\ 0 \in Int
    BY FoundedIsAState, ChainAssumption
  <1>2. /\ \A v \in Genesis : /\ Founded.vals[v].status = "Bonded"
                              /\ Founded.vals[v].tokens = stake
                              /\ Founded.vals[v].jailed = FALSE
        /\ \A v \in Operators \ Genesis : /\ Founded.vals[v].status = "Absent"
                                          /\ Founded.vals[v].tokens = 0
    BY <1>1, FoundedIsAState DEF NoValidator
  <1>3. stake > 0
    <2>. DEFINE n == Cardinality(Delegators)
    <2>1. Stake \in Nat /\ Stake # 0 /\ n \in Nat /\ n # 0
      BY ChainAssumption, FS_CardinalityType, FS_EmptySet
    <2>. HIDE DEF n
    <2>2. Stake * n > 0
      BY <2>1
    <2>. QED BY <2>2 DEF n
  <1>4. /\ Founded.power = Genesis /\ Founded.last = Genesis /\ Founded.ubds = {}
        /\ Founded.bonded = stake * Cardinality(Genesis) /\ Founded.notBonded = 0
        /\ Founded.pool = 0 /\ Founded.distribution = 0
    BY FoundedIsAState
  <1>5. \A v \in Operators : Founded.dist[v].outstanding = 0
    BY FoundedIsAState, NoRecordsAreRecords
  <1>. HIDE DEF stake
  <1>6. \A v \in Operators : /\ Exists(Founded, v) <=> v \in Genesis
                             /\ IsBonded(Founded, v) <=> v \in Genesis
    BY <1>2 DEF Exists, IsBonded
  <1>7. Whole(Founded)
    <2>1. IsFiniteSet(Founded.ubds)
      BY <1>4, FS_EmptySet
    <2>. QED BY <1>1, <1>2, <1>4, <1>6, <2>1 DEF Whole, Existing
  <1>8. LastIsBonded(Founded) /\ Ranked(Founded)
    BY <1>1, <1>2, <1>3, <1>4, <1>6 DEF LastIsBonded, Ranked, Existing
  <1>9. BondedTokens(Founded) = stake * Cardinality(Genesis)
    <2>1. b \in [Operators -> Int] /\ \A v \in Operators : b[v] = IF v \in Genesis THEN stake ELSE 0
      BY <1>1, <1>2, <1>6
    <2>2. BondedTokens(Founded) = SumFunction(b)
      BY DEF BondedTokens
    <2>3. stake \in Int /\ Genesis \in SUBSET Operators
      BY <1>1
    <2>. HIDE DEF b
    <2>. QED BY <1>1, <2>1, <2>2, <2>3, SumOfEquals
  <1>10. Free(Founded) = 0
    <2>1. f \in [Operators -> Int] /\ \A v \in Operators : f[v] = 0
      BY <1>1, <1>2, <1>6
    <2>2. Free(Founded) = SumFunction(f)
      BY DEF Free
    <2>. HIDE DEF f
    <2>. QED BY <1>1, <2>1, <2>2, SumOfZeros
  <1>11. Owed(Founded) = 0
    <2>1. u \in [{} -> Int] /\ \A x \in {} : u[x] = 0
      BY <1>4
    <2>2. Owed(Founded) = SumFunction(u) /\ IsFiniteSet({})
      BY FS_EmptySet DEF Owed
    <2>. HIDE DEF u
    <2>. QED BY <2>1, <2>2, SumOfZeros
  <1>12. Outstanding(Founded) = 0
    <2>1. o \in [Operators -> Int] /\ \A v \in Operators : o[v] = 0
      BY <1>1, <1>5
    <2>2. Outstanding(Founded) = SumFunction(o)
      BY DEF Outstanding
    <2>. HIDE DEF o
    <2>. QED BY <1>1, <2>1, <2>2, SumOfZeros
  <1>13. NotBondedTokens(Founded) = 0
    <2>1. NotBondedTokens(Founded) = Free(Founded) + Owed(Founded)
      BY <1>7, FoundedIsAState, StakesAreWhole DEF Whole
    <2>. QED BY <1>10, <1>11, <2>1
  <1>14. BondedSurplus(Founded) = 0 /\ NotBondedSurplus(Founded) = 0
    <2>1. Founded.bonded \in Int
      BY FoundedIsAState DEF States
    <2>. QED BY <1>4, <1>9, <1>13, <2>1 DEF BondedSurplus, NotBondedSurplus
  <1>15. Surplus(Founded) = 0
    BY <1>4, <1>12 DEF Surplus
  <1>. QED BY <1>5, <1>7, <1>8, <1>14, <1>15

\* New records of a validator that had none with anything in them.
LEMMA InitializesAll ==
    /\ Initialized \in States /\ SameStaking(Founded, Initialized)
    /\ Surplus(Initialized) = 0
  <1>. DEFINE W == {d \in States : /\ SameStaking(Founded, d) /\ Surplus(d) = 0
                                  /\ \A v \in Operators : d.dist[v].outstanding = 0}
  <1>1. Genesis \subseteq Operators /\ IsFiniteSet(Genesis)
    BY ChainAssumption, FS_Subset
  <1>2. Founded \in W
    BY FoundedIsAState, FoundedIsWhole DEF SameStaking
  <1>3. ASSUME NEW x \in Genesis, NEW d \in W PROVE InitStep(x, d) \in W
    <2>. DEFINE e == InitializeValidator(d, x)
    <2>1. InitStep(x, d) = IF d.panic THEN d ELSE e
      BY DEF InitStep, Then
    <2>2. /\ x \in Operators /\ d \in States /\ Surplus(d) = 0
          /\ \A v \in Operators : d.dist[v].outstanding = 0
          /\ SameStaking(Founded, d)
      BY <1>1
    <2>3. /\ e \in States /\ SameStaking(d, e)
          /\ Surplus(e) = Surplus(d) + d.dist[x].outstanding
          /\ \A w \in Operators \ {x} : e.dist[w].outstanding = d.dist[w].outstanding
          /\ e.dist[x].outstanding = 0
      BY <2>2, InitializeSurplus
    <2>. HIDE DEF e
    <2>4. Surplus(e) = 0 /\ \A v \in Operators : e.dist[v].outstanding = 0
      BY <2>2, <2>3
    <2>5. SameStaking(Founded, e)
      BY <2>2, <2>3 DEF SameStaking
    <2>. QED BY <2>1, <2>3, <2>4, <2>5
  <1>4. Initializing!Fold(Founded, Genesis) \in W
    <2>1. Initializing!IsFiniteSet(Genesis)
      BY <1>1 DEF IsFiniteSet, Initializing!IsFiniteSet
    <2>. HIDE DEF W
    <2>. QED BY <1>2, <1>3, <2>1, Initializing!FoldKeeps
  <1>. QED BY <1>4, InitIsAFold DEF Initialized

\* The state after the first genesis block.
LEMMA FirstStateIsWhole ==
    /\ FirstState \in States /\ Surplus(FirstState) = 0
    /\ Whole(FirstState) /\ LastIsBonded(FirstState) /\ Ranked(FirstState)
    /\ BondedSurplus(FirstState) = 0 /\ NotBondedSurplus(FirstState) = 0
  <1>1. Delegators \X Genesis \in SUBSET (Delegators \X Operators)
    BY ChainAssumption
  <1>2. Distributes(Initialized, FirstState)
    BY <1>1, FirstStateIsFounded, InitializesAll, StartsAll
  <1>3. /\ FirstState \in States /\ Surplus(FirstState) = 0
        /\ SameStaking(Founded, FirstState)
    BY <1>2, InitializesAll DEF Distributes, SameStaking
  <1>4. \A v : /\ Exists(FirstState, v) <=> Exists(Founded, v)
               /\ IsBonded(FirstState, v) <=> IsBonded(Founded, v)
    BY <1>3 DEF SameStaking, Exists, IsBonded
  <1>5. Whole(FirstState) /\ LastIsBonded(FirstState) /\ Ranked(FirstState)
    <2>1. /\ FirstState.vals = Founded.vals /\ FirstState.power = Founded.power
          /\ FirstState.ubds = Founded.ubds /\ FirstState.ids = Founded.ids
          /\ FirstState.last = Founded.last /\ Existing(FirstState) = Existing(Founded)
      BY <1>3, <1>4 DEF SameStaking, Existing
    <2>. HIDE DEF FirstState
    <2>2. Whole(Founded) /\ LastIsBonded(Founded) /\ Ranked(Founded)
      BY FoundedIsWhole
    <2>3. Whole(FirstState)
      BY <1>4, <2>1, <2>2 DEF Whole
    <2>4. LastIsBonded(FirstState) /\ Ranked(FirstState)
      BY <1>4, <2>1, <2>2 DEF LastIsBonded, Ranked
    <2>. QED BY <2>3, <2>4
  <1>6. BondedSurplus(FirstState) = 0 /\ NotBondedSurplus(FirstState) = 0
    BY <1>3, FoundedIsWhole DEF SameStaking, BondedSurplus, NotBondedSurplus,
                                BondedTokens, NotBondedTokens, IsBonded
  <1>. QED BY <1>3, <1>5, <1>6

-----------------------------------------------------------------------------
(* The testnet in place *)

\* A testnet in place forgets no outstanding rewards, if its operator had none.
LEMMA TestnetIsWhole ==
    ASSUME NEW c \in States, NEW op \in Operators, Whole(c)
    PROVE  LET d == initAppForTestnet(c, op) IN
           /\ d \in States /\ d.panic = c.panic
           /\ Whole(d) /\ LastIsBonded(d) /\ Ranked(d)
           /\ c.dist[op] = NoRecords => Surplus(d) = Surplus(c)
  <1>. DEFINE none == [v \in Operators |-> NoValidator]
              b == RemoveValidators(c)
              e == [b EXCEPT !.vals[op] = newVal, !.power = {op}, !.last = {op}]
              i == InitializeValidator(e, op)
              sign == With(i.signing, TestKey, e.height - 1)
              d == initAppForTestnet(c, op)
  <1>1. NoValidator \in Vals /\ newVal \in Vals /\ newVal.status = "Bonded"
        /\ newVal.jailed = FALSE /\ newVal.tokens > 0
        /\ NoValidator.status = "Absent" /\ NoValidator.tokens = 0
    BY InPlaceAssumption DEF NoValidator, newVal, Vals, Statuses
  <1>2. /\ b \in States /\ b.vals = none /\ b.ubds = c.ubds /\ b.ids = c.ids
        /\ b.dist = c.dist /\ b.pool = c.pool /\ b.distribution = c.distribution
        /\ b.panic = c.panic
    BY <1>1 DEF RemoveValidators, States
  <1>. HIDE DEF b
  <1>3. /\ e \in States /\ e.vals = [none EXCEPT ![op] = newVal]
        /\ e.power = {op} /\ e.last = {op} /\ e.ubds = c.ubds /\ e.ids = c.ids
        /\ e.dist = c.dist /\ e.pool = c.pool /\ e.distribution = c.distribution
        /\ e.panic = c.panic
    BY <1>1, <1>2 DEF States
  <1>. HIDE DEF e
  <1>4. /\ i \in States /\ SameStaking(e, i) /\ i.panic = e.panic
        /\ Surplus(i) = Surplus(e) + e.dist[op].outstanding
    BY <1>3, InitializeSurplus
  <1>. HIDE DEF i
  <1>5. sign \in UNION {[K -> Int] : K \in SUBSET Int}
    <2>1. PICK K \in SUBSET Int : i.signing \in [K -> Int]
      BY <1>4 DEF States
    <2>2. e.height - 1 \in Int /\ TestKey \in Int
      BY <1>3 DEF TestKey, States
    <2>3. sign \in [K \cup {TestKey} -> Int]
      BY <2>1, <2>2 DEF With
    <2>4. K \cup {TestKey} \in SUBSET Int
      BY <2>2
    <2>. QED BY <2>3, <2>4
  <1>6. d = [i EXCEPT !.signing = sign]
    BY <1>3, <1>4 DEF initAppForTestnet, AddTestValidator, SameStaking, b, e, i
  <1>. HIDE DEF sign, d
  <1>7. /\ d \in States /\ d.vals = [none EXCEPT ![op] = newVal]
        /\ d.power = {op} /\ d.last = {op} /\ d.ubds = c.ubds /\ d.ids = c.ids
        /\ d.dist = i.dist /\ d.pool = i.pool /\ d.distribution = i.distribution
        /\ d.panic = c.panic
    BY <1>3, <1>4, <1>5, <1>6 DEF States, SameStaking
  <1>8. /\ d.vals[op] = newVal
        /\ \A v \in Operators : Exists(d, v) <=> v = op
        /\ \A v \in Operators : ~Exists(d, v) => d.vals[v].tokens = 0
    BY <1>1, <1>7 DEF Exists
  <1>9. Whole(d)
    BY <1>1, <1>7, <1>8 DEF Whole, Existing
  <1>10. LastIsBonded(d) /\ Ranked(d)
    BY <1>1, <1>7, <1>8 DEF LastIsBonded, IsBonded, Ranked, Existing
  <1>11. ASSUME c.dist[op] = NoRecords PROVE Surplus(d) = Surplus(c)
    <2>1. Surplus(d) = Surplus(i) /\ Surplus(e) = Surplus(c)
      BY <1>3, <1>7, SameDistribution
    <2>2. e.dist[op].outstanding = 0 /\ Surplus(c) \in Int
      BY <1>3, <1>11, NoRecordsAreRecords, OutstandingIsWhole
    <2>. QED BY <1>4, <2>1, <2>2
  <1>. QED BY <1>7, <1>9, <1>10, <1>11 DEF d

-----------------------------------------------------------------------------
(* The export *)

\* The distribution part of an export for height zero.
LEMMA PreparationDistributes ==
    ASSUME NEW c \in States
    PROVE  Distributes(c, PrepareDistribution(c))
  <1>. DEFINE w == WithdrawAllCommission(c)
              r == WithdrawAllRewards(w)
              clear == ClearDistribution(r)
              zero == [clear EXCEPT !.height = 0]
              v == ReinitValidators(zero)
              s == ReinitDelegations(v, Delegations(c))
              d == [s EXCEPT !.height = c.height]
  <1>1. PrepareDistribution(c) = IF r.panic THEN r ELSE d
    BY DEF PrepareDistribution, Then
  <1>2. Distributes(c, w)
    BY CommissionsOfAll DEF WithdrawAllCommission, Existing
  <1>. HIDE DEF w
  <1>3. Distributes(w, r)
    <2>1. Delegations(w) \in SUBSET (Delegators \X Operators)
      BY DEF Delegations
    <2>. QED BY <1>2, <2>1, RewardsOfAll DEF WithdrawAllRewards, Distributes
  <1>. HIDE DEF r
  <1>4. Distributes(c, r) /\ r \in States
    BY <1>2, <1>3, DistributesTwice DEF Distributes
  <1>5. Distributes(r, clear)
    <2>. DEFINE dist == [x \in Operators |->
                            [r.dist[x] EXCEPT !.hist = << >>, !.slashes = << >>]]
    <2>1. << >> \in Histories /\ << >> \in SlashEvents
      BY NoRecordsAreRecords DEF NoRecords, Records
    <2>2. \A x \in Operators : r.dist[x] \in Records
      BY <1>4 DEF States
    <2>3. dist \in [Operators -> Records]
      BY <2>1, <2>2 DEF Records
    <2>4. \A x \in Operators : dist[x].outstanding = r.dist[x].outstanding
      BY <2>2 DEF Records
    <2>5. clear = [r EXCEPT !.dist = dist]
      BY DEF ClearDistribution
    <2>. HIDE DEF dist, clear
    <2>6. /\ clear \in States /\ SameStaking(r, clear) /\ clear.dist = dist
          /\ clear.pool = r.pool /\ clear.distribution = r.distribution
      BY <1>4, <2>3, <2>5 DEF States, SameStaking
    <2>. QED BY <1>4, <2>4, <2>6, SameFees
  <1>. HIDE DEF clear
  <1>6. Distributes(c, clear) /\ clear \in States
    BY <1>4, <1>5, DistributesTwice DEF Distributes
  <1>7. /\ zero \in States /\ Surplus(zero) = Surplus(clear)
        /\ SameStaking([clear EXCEPT !.height = 0], zero)
    <2>1. 0 \in Int
      OBVIOUS
    <2>2. /\ zero \in States /\ zero.dist = clear.dist /\ zero.pool = clear.pool
          /\ zero.distribution = clear.distribution
      BY <1>6, <2>1 DEF States
    <2>. QED BY <2>2, SameDistribution DEF SameStaking
  <1>8. /\ zero.ids = clear.ids /\ zero.vals = clear.vals /\ zero.power = clear.power
        /\ zero.last = clear.last /\ zero.queue = clear.queue /\ zero.dels = clear.dels
        /\ zero.ubds = clear.ubds /\ zero.reds = clear.reds /\ zero.bonded = clear.bonded
        /\ zero.notBonded = clear.notBonded /\ zero.signing = clear.signing
    BY <1>6 DEF States
  <1>. HIDE DEF zero
  <1>9. Distributes(zero, v) /\ v \in States
    BY <1>7, ReinitAll DEF ReinitValidators, Existing, Distributes
  <1>. HIDE DEF v
  <1>10. Distributes(v, s)
    <2>1. Delegations(c) \in SUBSET (Delegators \X Operators)
      BY DEF Delegations
    <2>. QED BY <1>9, <2>1, StartsAll DEF ReinitDelegations
  <1>. HIDE DEF s
  <1>11. Distributes(zero, s) /\ s \in States
    BY <1>7, <1>9, <1>10, DistributesTwice DEF Distributes
  <1>12. /\ d \in States /\ d.height = c.height /\ d.dist = s.dist /\ d.pool = s.pool
         /\ d.distribution = s.distribution
         /\ d.ids = s.ids /\ d.vals = s.vals /\ d.power = s.power
         /\ d.last = s.last /\ d.queue = s.queue /\ d.dels = s.dels
         /\ d.ubds = s.ubds /\ d.reds = s.reds /\ d.bonded = s.bonded
         /\ d.notBonded = s.notBonded /\ d.signing = s.signing
    <2>1. c.height \in Int
      BY DEF States
    <2>. QED BY <1>11, <2>1 DEF States
  <1>. HIDE DEF d
  <1>13. Surplus(d) = Surplus(c)
    BY <1>6, <1>7, <1>11, <1>12, SameDistribution DEF Distributes
  <1>14. SameStaking(c, d)
    BY <1>6, <1>8, <1>11, <1>12 DEF Distributes, SameStaking
  <1>. QED BY <1>1, <1>4, <1>12, <1>13, <1>14 DEF Distributes

\* Entries that start at height zero, and are otherwise as they were.
AtZero(u) == [u EXCEPT !.height = 0]
AllAtZero(entries) == {AtZero(u) : u \in entries}

LEMMA EntriesAtZero ==
    \A u \in Entries : /\ AtZero(u) \in Entries /\ AtZero(u).id = u.id
                       /\ AtZero(u).amount = u.amount /\ AtZero(u).height = 0
  <1>1. 0 \in Int
    OBVIOUS
  <1>. QED BY <1>1 DEF AtZero, Entries

\* Entries that start at zero can be told apart and owe what they owed.
LEMMA AllAtZeroKeeps ==
    ASSUME NEW c \in States, NEW d \in States, Whole(c), d.ubds = AllAtZero(c.ubds)
    PROVE  /\ IsFiniteSet(d.ubds) /\ Owed(d) = Owed(c)
           /\ \A u \in d.ubds : u.id < c.ids
           /\ \A u, w \in d.ubds : u.id = w.id => u = w
  <1>. DEFINE S == c.ubds
              R == d.ubds
              f == [u \in S |-> u.amount]
              g == [u \in R |-> u.amount]
              name == [u \in S |-> AtZero(u)]
  <1>1. /\ IsFiniteSet(S) /\ S \subseteq Entries /\ R \subseteq Entries
        /\ \A u \in S : u.id < c.ids
        /\ \A u, w \in S : u.id = w.id => u = w
    BY DEF Whole, States
  <1>2. R = {AtZero(u) : u \in S}
    BY DEF AllAtZero
  <1>3. Owed(c) = SumFunction(f) /\ Owed(d) = SumFunction(g)
    BY DEF Owed
  <1>. HIDE DEF S, R
  <1>4. \A u \in S : /\ AtZero(u) \in R /\ AtZero(u).id = u.id /\ AtZero(u).amount = u.amount
    BY <1>1, <1>2, EntriesAtZero
  <1>5. f \in [S -> Int] /\ g \in [R -> Int] /\ name \in [S -> R]
    <2>1. \A u \in Entries : u.amount \in Int
      BY DEF Entries
    <2>. QED BY <1>1, <1>4, <2>1
  <1>6. \A y \in R : \E u \in S : y = name[u]
    BY <1>2
  <1>7. \A u, w \in S : name[u] = name[w] => u = w
    BY <1>1, <1>4
  <1>8. \A u \in S : g[name[u]] = f[u]
    <2>1. ASSUME NEW u \in S PROVE g[name[u]] = f[u]
      <3>1. name[u] = AtZero(u) /\ AtZero(u) \in R /\ AtZero(u).amount = u.amount
        BY <1>4
      <3>2. g[AtZero(u)] = AtZero(u).amount /\ f[u] = u.amount
        BY <3>1
      <3>. QED BY <3>1, <3>2
    <2>. QED BY <2>1
  <1>9. IsFiniteSet(R)
    <2>1. name \in Surjection(S, R)
      BY <1>5, <1>6 DEF Surjection
    <2>. HIDE DEF name
    <2>. QED BY <1>1, <2>1, FS_Surjection
  <1>10. \A u \in R : u.id < c.ids
    BY <1>1, <1>2, <1>4
  <1>11. \A u, w \in R : u.id = w.id => u = w
    <2>1. ASSUME NEW u \in R, NEW w \in R, u.id = w.id PROVE u = w
      <3>1. PICK x \in S : u = AtZero(x)
        BY <1>2
      <3>2. PICK y \in S : w = AtZero(y)
        BY <1>2
      <3>3. x.id = y.id
        BY <1>4, <2>1, <3>1, <3>2
      <3>. QED BY <1>1, <3>1, <3>2, <3>3
    <2>. QED BY <2>1
  <1>. HIDE DEF f, g, name
  <1>12. SumFunction(g) = SumFunction(f)
    <2>1. IsFiniteSet(S)
      BY <1>1
    <2>2. SameUnder(name, f, g, S, R)
      BY <1>6, <1>7, <1>8 DEF SameUnder
    <2>. QED BY <1>5, <2>1, <2>2, SumOfImages
  <1>. QED BY <1>3, <1>9, <1>10, <1>11, <1>12 DEF R, S

\* d after c, with its entries and validators reset.
IsReset(c, d, allowed) ==
    /\ d \in States /\ d.panic = c.panic /\ d.height = c.height /\ d.ids = c.ids
    /\ d.power = c.power /\ d.last = c.last /\ d.dels = c.dels
    /\ d.dist = c.dist /\ d.start = c.start
    /\ d.pool = c.pool /\ d.distribution = c.distribution
    /\ d.bonded = c.bonded /\ d.notBonded = c.notBonded
    /\ d.ubds = AllAtZero(c.ubds) /\ d.reds = AllAtZero(c.reds)
    /\ \A v \in Operators :
          /\ Exists(d, v) <=> Exists(c, v)
          /\ IsBonded(d, v) <=> IsBonded(c, v)
          /\ Exists(c, v) => /\ d.vals[v].tokens = c.vals[v].tokens
                             /\ d.vals[v].jailed
                                   = (c.vals[v].jailed \/ (allowed # {} /\ v \notin allowed))
          /\ ~Exists(c, v) => d.vals[v].tokens = 0
          /\ d.vals[v].unbondingHeight = 0

\* What the export resets, field by field.
LEMMA Resets ==
    ASSUME NEW c \in States, NEW allowed
    PROVE  IsReset(c, ResetValidators(ResetEntries(c), allowed), allowed)
  <1>. DEFINE e == ResetEntries(c)
              d == ResetValidators(e, allowed)
              val(v) == [e.vals[v] EXCEPT !.unbondingHeight = 0,
                            !.jailed = e.vals[v].jailed
                                          \/ (allowed # {} /\ v \notin allowed)]
              vals == [v \in Operators |-> IF ~Exists(e, v) THEN NoValidator ELSE val(v)]
  <1>1. e = [c EXCEPT !.reds = AllAtZero(@), !.ubds = AllAtZero(@)]
    BY DEF ResetEntries, AllAtZero, AtZero
  <1>2. AllAtZero(c.ubds) \in SUBSET Entries /\ AllAtZero(c.reds) \in SUBSET Entries
    BY EntriesAtZero DEF AllAtZero, States
  <1>3. /\ e \in States /\ e.panic = c.panic /\ e.height = c.height /\ e.ids = c.ids
        /\ e.power = c.power /\ e.last = c.last /\ e.dels = c.dels
        /\ e.dist = c.dist /\ e.start = c.start /\ e.vals = c.vals
        /\ e.pool = c.pool /\ e.distribution = c.distribution
        /\ e.bonded = c.bonded /\ e.notBonded = c.notBonded
        /\ e.ubds = AllAtZero(c.ubds) /\ e.reds = AllAtZero(c.reds)
    BY <1>1, <1>2 DEF States
  <1>. HIDE DEF e
  <1>4. d = [e EXCEPT !.vals = vals]
    BY DEF ResetValidators
  <1>5. \A v \in Operators :
           /\ val(v) \in Vals /\ val(v).status = e.vals[v].status
           /\ val(v).tokens = e.vals[v].tokens /\ val(v).unbondingHeight = 0
           /\ val(v).jailed = (e.vals[v].jailed \/ (allowed # {} /\ v \notin allowed))
    <2>. TAKE v \in Operators
    <2>1. e.vals[v] \in Vals /\ 0 \in Nat
      BY <1>3 DEF States
    <2>. DEFINE j == e.vals[v].jailed \/ (allowed # {} /\ v \notin allowed)
    <2>2. j \in BOOLEAN
      OBVIOUS
    <2>3. val(v) = [e.vals[v] EXCEPT !.unbondingHeight = 0, !.jailed = j]
      BY <2>1 DEF Vals
    <2>. HIDE DEF val, j
    <2>4. /\ val(v) \in Vals /\ val(v).status = e.vals[v].status
          /\ val(v).tokens = e.vals[v].tokens /\ val(v).unbondingHeight = 0
          /\ val(v).jailed = j
      BY <2>1, <2>2, <2>3 DEF Vals
    <2>. QED BY <2>4 DEF j
  <1>6. /\ NoValidator \in Vals /\ NoValidator.status = "Absent" /\ NoValidator.tokens = 0
        /\ NoValidator.unbondingHeight = 0
    BY DEF NoValidator, Vals, Statuses
  <1>. HIDE DEF val
  <1>7. vals \in [Operators -> Vals]
    BY <1>5, <1>6
  <1>8. \A v \in Operators : vals[v] = IF ~Exists(e, v) THEN NoValidator ELSE val(v)
    OBVIOUS
  <1>. HIDE DEF vals, d
  <1>9. /\ d \in States /\ d.panic = e.panic /\ d.height = e.height /\ d.ids = e.ids
        /\ d.power = e.power /\ d.last = e.last /\ d.dels = e.dels
        /\ d.dist = e.dist /\ d.start = e.start /\ d.vals = vals
        /\ d.pool = e.pool /\ d.distribution = e.distribution
        /\ d.bonded = e.bonded /\ d.notBonded = e.notBonded
        /\ d.ubds = e.ubds /\ d.reds = e.reds
    BY <1>3, <1>4, <1>7 DEF States
  <1>10. ASSUME NEW v \in Operators
         PROVE  /\ Exists(d, v) <=> Exists(c, v)
                /\ IsBonded(d, v) <=> IsBonded(c, v)
                /\ Exists(c, v) => /\ d.vals[v].tokens = c.vals[v].tokens
                                   /\ d.vals[v].jailed
                                        = (c.vals[v].jailed \/ (allowed # {} /\ v \notin allowed))
                /\ ~Exists(c, v) => d.vals[v].tokens = 0
                /\ d.vals[v].unbondingHeight = 0
    <2>1. CASE Exists(c, v)
      BY <1>3, <1>5, <1>8, <1>9, <2>1 DEF Exists, IsBonded
    <2>2. CASE ~Exists(c, v)
      BY <1>3, <1>6, <1>8, <1>9, <2>2 DEF Exists, IsBonded
    <2>. QED BY <2>1, <2>2
  <1>. QED BY <1>3, <1>9, <1>10 DEF IsReset, d, e

\* A reset moves no tokens.
LEMMA ResetKeeps ==
    ASSUME NEW c \in States, NEW d, NEW allowed, IsReset(c, d, allowed)
    PROVE  Keeps(c, d) /\ KeepsActive(c, d)
  <1>1. Surplus(d) = Surplus(c)
    BY SameDistribution DEF IsReset
  <1>2. KeepsActive(c, d)
    BY DEF IsReset, KeepsActive, LastIsBonded, States
  <1>3. ASSUME Whole(c) PROVE Whole(d) /\ SameStakes(c, d)
    <2>1. /\ IsFiniteSet(d.ubds) /\ Owed(d) = Owed(c)
          /\ \A u \in d.ubds : u.id < d.ids
          /\ \A u, w \in d.ubds : u.id = w.id => u = w
      BY <1>3, AllAtZeroKeeps DEF IsReset
    <2>2. \A v \in Operators : d.vals[v].tokens = c.vals[v].tokens
      BY <1>3 DEF Whole, IsReset
    <2>3. Existing(d) = Existing(c)
      BY DEF Existing, IsReset
    <2>4. \A v \in Operators : ~Exists(d, v) => d.vals[v].tokens = 0
      BY DEF IsReset
    <2>5. \A v \in Existing(c) : ~d.vals[v].jailed => ~c.vals[v].jailed
      BY DEF Existing, IsReset
    <2>6. Whole(d)
      BY <1>3, <2>1, <2>3, <2>4, <2>5 DEF Whole, IsReset
    <2>7. \A v \in Operators : IsBonded(d, v) <=> IsBonded(c, v)
      BY DEF IsReset
    <2>8. BondedTokens(d) = BondedTokens(c) /\ Free(d) = Free(c)
      <3>1. [v \in Operators |-> IF IsBonded(d, v) THEN d.vals[v].tokens ELSE 0]
              = [v \in Operators |-> IF IsBonded(c, v) THEN c.vals[v].tokens ELSE 0]
        BY <2>2, <2>7
      <3>2. [v \in Operators |-> IF IsBonded(d, v) THEN 0 ELSE d.vals[v].tokens]
              = [v \in Operators |-> IF IsBonded(c, v) THEN 0 ELSE c.vals[v].tokens]
        BY <2>2, <2>7
      <3>. QED BY <3>1, <3>2 DEF BondedTokens, Free
    <2>9. NotBondedTokens(d) = NotBondedTokens(c)
      <3>1. d \in States /\ IsFiniteSet(c.ubds)
        BY <1>3 DEF IsReset, Whole
      <3>. QED BY <2>1, <2>8, <3>1, StakesAreWhole
    <2>10. SameStakes(c, d)
      BY <2>8, <2>9 DEF SameStakes, BondedSurplus, NotBondedSurplus, IsReset
    <2>. QED BY <2>6, <2>10
  <1>. QED BY <1>1, <1>2, <1>3 DEF Keeps, IsReset

\* What the export still does to a state it is done with.
LEMMA FinishesAlike ==
    ASSUME NEW c \in States, NEW h \in Nat
    PROVE  LET s == ResetSigningInfos(c)
               d == [c EXCEPT !.height = h]
           IN  /\ s \in States /\ Alike(c, s) /\ s.panic = c.panic
               /\ s.dels = c.dels /\ s.start = c.start /\ s.reds = c.reds
               /\ \A k \in DOMAIN s.signing : s.signing[k] = 0
               /\ d \in States /\ Alike(c, d) /\ d.panic = c.panic
               /\ d.dels = c.dels /\ d.start = c.start /\ d.reds = c.reds
               /\ d.signing = c.signing
  <1>. DEFINE sign == [k \in DOMAIN c.signing |-> 0]
              s == [c EXCEPT !.signing = sign]
              d == [c EXCEPT !.height = h]
  <1>1. sign \in UNION {[K -> Int] : K \in SUBSET Int}
    <2>1. PICK K \in SUBSET Int : c.signing \in [K -> Int]
      BY DEF States
    <2>2. sign \in [K -> Int]
      BY <2>1
    <2>. QED BY <2>2
  <1>2. ResetSigningInfos(c) = s
    BY DEF ResetSigningInfos
  <1>3. \A k \in DOMAIN sign : sign[k] = 0
    OBVIOUS
  <1>. HIDE DEF sign
  <1>4. /\ s \in States /\ Alike(c, s) /\ s.panic = c.panic
        /\ s.dels = c.dels /\ s.start = c.start /\ s.reds = c.reds /\ s.signing = sign
    BY <1>1 DEF States, Alike
  <1>5. /\ d \in States /\ Alike(c, d) /\ d.panic = c.panic
        /\ d.dels = c.dels /\ d.start = c.start /\ d.reds = c.reds
        /\ d.signing = c.signing
    BY DEF States, Alike
  <1>. HIDE DEF s, d
  <1>. QED BY <1>2, <1>3, <1>4, <1>5 DEF d

\* Where everything is alike, the active set is too.
LEMMA AlikeRanked ==
    ASSUME NEW c, NEW d, Alike(c, d)
    PROVE  (LastIsBonded(c) => LastIsBonded(d)) /\ (Ranked(c) => Ranked(d))
  BY DEF Alike, LastIsBonded, Ranked, IsBonded, Existing, Exists

\* What an export for height zero does after the distribution records.
Updated(c, allowed) ==
    ApplyValidatorSetUpdates(ResetValidators(ResetEntries(c), allowed))

\* After a reset the active set is ranked anew, and jailed validators are not in
\* it.
LEMMA UpdateKeeps ==
    ASSUME NEW c \in States, NEW allowed, ~c.panic
    PROVE  LET d == Updated(c, allowed) IN
           /\ Keeps(c, d)
           /\ Whole(c) /\ ~d.panic => LastIsBonded(d) /\ Ranked(d)
           /\ ~d.panic /\ allowed # {} => d.last \subseteq allowed
  <1>. DEFINE r == ResetValidators(ResetEntries(c), allowed)
              d == Updated(c, allowed)
  <1>1. IsReset(c, r, allowed) /\ d = ApplyValidatorSetUpdates(r)
    BY Resets DEF Updated
  <1>. HIDE DEF r, d
  <1>2. r \in States /\ Keeps(c, r) /\ ~r.panic
    BY <1>1, ResetKeeps DEF IsReset
  <1>3. /\ Keeps(r, d)
        /\ ~d.panic => /\ d.last = Top(r) /\ LastIsBonded(d)
                       /\ \A v \in Reached(r) : Exists(r, v) /\ ~r.vals[v].jailed
    BY <1>1, <1>2, Applies
  <1>4. Keeps(c, d)
    BY <1>2, <1>3, KeepsTwice
  <1>5. ASSUME Whole(c), ~d.panic PROVE LastIsBonded(d) /\ Ranked(d)
    <2>1. Whole(r)
      BY <1>2, <1>5 DEF Keeps
    <2>2. Ranked(d)
      BY <1>1, <1>2, <1>5, <2>1, AppliesRanked DEF Whole
    <2>. QED BY <1>3, <1>5, <2>2
  <1>6. ASSUME ~d.panic, allowed # {}, NEW v \in d.last PROVE v \in allowed
    <2>1. v \in Reached(r) /\ Exists(r, v) /\ ~r.vals[v].jailed
      BY <1>3, <1>6 DEF Top
    <2>2. v \in Operators
      BY <1>2, <2>1, ReachedInPower DEF States
    <2>3. r.vals[v].jailed = (c.vals[v].jailed \/ (allowed # {} /\ v \notin allowed))
      BY <1>1, <2>1, <2>2 DEF IsReset
    <2>. QED BY <1>6, <2>1, <2>3
  <1>. QED BY <1>3, <1>4, <1>5, <1>6 DEF d

\* The whole export, at the next height or for height zero.
LEMMA ExportKeeps ==
    ASSUME NEW c \in States, NEW zero \in BOOLEAN, NEW allowed
    PROVE  LET d == ExportAppStateAndValidators(c, zero, allowed) IN
           /\ Keeps(c, d)
           /\ Whole(c) /\ LastIsBonded(c) /\ Ranked(c) /\ ~d.panic
                 => LastIsBonded(d) /\ Ranked(d)
           /\ zero /\ allowed # {} /\ ~d.panic => d.last \subseteq allowed
  <1>. DEFINE d == ExportAppStateAndValidators(c, zero, allowed)
  <1>1. CASE ~zero
    <2>. DEFINE e == [c EXCEPT !.height = @ + 1]
                h == c.height + 1
    <2>1. d = e /\ e = [c EXCEPT !.height = h] /\ h \in Nat
      BY <1>1 DEF ExportAppStateAndValidators, States
    <2>. HIDE DEF e, h, d
    <2>2. e \in States /\ Alike(c, e) /\ e.panic = c.panic
      BY <2>1, FinishesAlike
    <2>3. Keeps(c, e) /\ (LastIsBonded(c) => LastIsBonded(e)) /\ (Ranked(c) => Ranked(e))
      BY <2>2, AlikeKeeps, AlikeRanked
    <2>. QED BY <1>1, <2>1, <2>3 DEF d
  <1>2. CASE zero
    <2>. DEFINE p == PrepareDistribution(c)
                u == Updated(p, allowed)
                s == ResetSigningInfos(u)
                q == IF p.panic THEN p ELSE IF u.panic THEN u ELSE s
    <2>1. PrepForZeroHeight(c, allowed) = q
      BY DEF PrepForZeroHeight, Then, Updated
    <2>2. d = [q EXCEPT !.height = 0]
      BY <1>2, <2>1 DEF ExportAppStateAndValidators
    <2>3. Distributes(c, p)
      BY PreparationDistributes
    <2>. HIDE DEF p, d
    <2>4. p \in States /\ Keeps(c, p)
      BY <2>3, DistributesThen
    <2>5. ASSUME ~p.panic
          PROVE  /\ Keeps(p, u) /\ u \in States
                 /\ Whole(p) /\ ~u.panic => LastIsBonded(u) /\ Ranked(u)
                 /\ ~u.panic /\ allowed # {} => u.last \subseteq allowed
      BY <2>4, <2>5, UpdateKeeps DEF Keeps
    <2>. HIDE DEF u
    <2>6. ASSUME ~p.panic
          PROVE  s \in States /\ Alike(u, s) /\ s.panic = u.panic
      <3>1. 0 \in Nat /\ u \in States
        BY <2>5, <2>6
      <3>. QED BY <3>1, FinishesAlike
    <2>. HIDE DEF s
    <2>7. q \in States /\ Keeps(c, q)
          /\ (Whole(c) /\ ~q.panic => LastIsBonded(q) /\ Ranked(q))
          /\ (~q.panic /\ allowed # {} => q.last \subseteq allowed)
      <3>1. CASE p.panic
        BY <2>4, <3>1
      <3>2. CASE ~p.panic /\ u.panic
        <4>1. q = u /\ Keeps(c, u) /\ u \in States
          BY <2>4, <2>5, <3>2, KeepsTwice
        <4>. HIDE DEF q
        <4>. QED BY <3>2, <4>1
      <3>3. CASE ~p.panic /\ ~u.panic
        <4>1. q = s /\ s \in States /\ Alike(u, s) /\ ~s.panic
          BY <2>6, <3>3
        <4>. HIDE DEF q
        <4>2. Keeps(c, u) /\ u \in States
          BY <2>4, <2>5, <3>3, KeepsTwice
        <4>3. Keeps(u, s) /\ s.last = u.last
          BY <4>1, <4>2, AlikeKeeps DEF Alike
        <4>4. Keeps(c, s)
          BY <3>3, <4>2, <4>3, KeepsTwice
        <4>5. Whole(c) => LastIsBonded(s) /\ Ranked(s)
          BY <2>4, <2>5, <3>3, <4>1, AlikeRanked DEF Keeps
        <4>. QED BY <2>5, <3>3, <4>1, <4>3, <4>4, <4>5
      <3>. QED BY <3>1, <3>2, <3>3
    <2>. HIDE DEF q
    <2>8. d \in States /\ Alike(q, d) /\ d.panic = q.panic
      <3>1. 0 \in Nat
        OBVIOUS
      <3>. QED BY <2>2, <2>7, <3>1, FinishesAlike
    <2>9. Keeps(q, d) /\ d.last = q.last
      BY <2>7, <2>8, AlikeKeeps DEF Alike
    <2>10. Keeps(c, d)
      BY <2>7, <2>8, <2>9 DEF Keeps, SameStakes
    <2>11. Whole(c) /\ ~d.panic => LastIsBonded(d) /\ Ranked(d)
      BY <2>7, <2>8, AlikeRanked
    <2>. QED BY <2>7, <2>8, <2>9, <2>10, <2>11 DEF d
  <1>. QED BY <1>1, <1>2

-----------------------------------------------------------------------------
(* The export for height zero *)

SameSlashes(c, d) ==
    \A w \in Operators : d.dist[w].slashes = c.dist[w].slashes

\* Slash events are not in the history of the rewards.
LEMMA HistoryHasNoSlashes ==
    ASSUME NEW c \in States, NEW v \in Operators, NEW h, NEW d,
           d = [c EXCEPT !.dist[v].hist = h]
    PROVE  SameSlashes(c, d) /\ d.start = c.start
  <1>1. c.dist[v] \in Records
    BY DEF States
  <1>2. [c.dist[v] EXCEPT !.hist = h].slashes = c.dist[v].slashes
    BY <1>1 DEF Records
  <1>. QED BY <1>2 DEF States, SameSlashes

LEMMA CountsHaveNoSlashes ==
    ASSUME NEW c \in States, NEW v \in Operators, NEW p
    PROVE  LET d == DecrementReferenceCount(c, v, p)
               e == IncrementReferenceCount(c, v, p)
           IN  /\ SameSlashes(c, d) /\ d.start = c.start
               /\ SameSlashes(c, e) /\ e.start = c.start
  <1>. DEFINE h == Hist(c, v, p)
              f == c.dist[v].hist
              less == [q \in DOMAIN f \ {p} |-> f[q]]
              lower == With(f, p, [h EXCEPT !.refs = @ - 1])
              higher == With(f, p, [h EXCEPT !.refs = @ + 1])
              d == DecrementReferenceCount(c, v, p)
              e == IncrementReferenceCount(c, v, p)
  <1>1. Panic(c).dist = c.dist /\ Panic(c).start = c.start
    BY DEF States, Panic
  <1>2. d = IF h.refs = 0 THEN Panic(c)
            ELSE IF h.refs = 1 THEN [c EXCEPT !.dist[v].hist = less]
            ELSE [c EXCEPT !.dist[v].hist = lower]
    BY DEF DecrementReferenceCount
  <1>3. e = IF h.refs > 2 THEN Panic(c) ELSE [c EXCEPT !.dist[v].hist = higher]
    BY DEF IncrementReferenceCount
  <1>. HIDE DEF h, less, lower, higher, d, e
  <1>4. /\ SameSlashes(c, [c EXCEPT !.dist[v].hist = less])
        /\ [c EXCEPT !.dist[v].hist = less].start = c.start
    BY HistoryHasNoSlashes
  <1>5. /\ SameSlashes(c, [c EXCEPT !.dist[v].hist = lower])
        /\ [c EXCEPT !.dist[v].hist = lower].start = c.start
    BY HistoryHasNoSlashes
  <1>6. /\ SameSlashes(c, [c EXCEPT !.dist[v].hist = higher])
        /\ [c EXCEPT !.dist[v].hist = higher].start = c.start
    BY HistoryHasNoSlashes
  <1>7. SameSlashes(c, Panic(c))
    BY <1>1 DEF SameSlashes
  <1>8. SameSlashes(c, d) /\ d.start = c.start
    BY <1>1, <1>2, <1>4, <1>5, <1>7
  <1>9. SameSlashes(c, e) /\ e.start = c.start
    BY <1>1, <1>3, <1>6, <1>7
  <1>. QED BY <1>8, <1>9 DEF d, e

\* The end of a period records no slash and starts no delegation.
LEMMA PeriodHasNoSlashes ==
    ASSUME NEW c \in States, NEW v \in Operators
    PROVE  LET d == IncrementValidatorPeriod(c, v) IN
           SameSlashes(c, d) /\ d.start = c.start
  <1>. DEFINE b == DecrementReferenceCount(c, v, c.dist[v].period - 1)
              ratio == EndRatio(c, v)
              donated == Donated(c, v)
              e == StartPeriod(b, v, ratio, donated)
              p == IncrementValidatorPeriod(c, v)
  <1>1. p = IF ~Exists(c, v) THEN Panic(c) ELSE IF b.panic THEN b ELSE e
    BY DEF IncrementValidatorPeriod, Then
  <1>2. SameSlashes(c, b) /\ b.start = c.start /\ b \in States
    <2>1. c.dist[v].period - 1 \in Int
      BY DEF States, Records
    <2>. QED BY <2>1, CountsHaveNoSlashes, DecrementDistributes DEF Distributes
  <1>. HIDE DEF b, ratio, donated
  <1>3. SameSlashes(b, e) /\ e.start = b.start
    <2>. DEFINE r == b.dist[v]
                history == With(r.hist, r.period, [ratio |-> ratio, refs |-> 1])
                new == [r EXCEPT !.outstanding = @ - donated, !.rewards = 0,
                                 !.period = @ + 1, !.hist = history]
    <2>1. e = [b EXCEPT !.pool = @ + donated, !.dist[v] = new]
      BY DEF StartPeriod
    <2>2. new.slashes = r.slashes
      <3>1. r \in Records
        BY <1>2 DEF States
      <3>. HIDE DEF history, r
      <3>. QED BY <3>1 DEF Records
    <2>. HIDE DEF e, new
    <2>. QED BY <1>2, <2>1, <2>2 DEF States, SameSlashes
  <1>4. SameSlashes(c, Panic(c)) /\ Panic(c).start = c.start
    BY DEF States, Panic, SameSlashes
  <1>. HIDE DEF e, p
  <1>5. SameSlashes(c, p) /\ p.start = c.start
    BY <1>1, <1>2, <1>3, <1>4 DEF SameSlashes
  <1>. QED BY <1>5 DEF p

\* A delegation starts at the height of the context, and no other one does.
LEMMA DelegationStarts ==
    ASSUME NEW c \in States, NEW dv \in Delegators \X Operators
    PROVE  LET d == StartDelegation(c, dv) IN
           /\ SameSlashes(c, d)
           /\ ~d.panic =>
                 /\ d.start[dv[1]][dv[2]].height = c.height
                 /\ \A x \in (Delegators \X Operators) \ {dv} :
                       d.start[x[1]][x[2]] = c.start[x[1]][x[2]]
  <1>. DEFINE del == dv[1]
              v == dv[2]
              b == IncrementValidatorPeriod(c, v)
              p == b.dist[v].period - 1
              i == IncrementReferenceCount(b, v, p)
              info == [period |-> p, stake |-> TokensFromShares(b, v, b.dels[del][v]),
                       height |-> b.height]
              e == [i EXCEPT !.start[del][v] = info]
              d == StartDelegation(c, dv)
  <1>1. d = IF b.panic THEN b ELSE IF i.panic THEN i ELSE e
    BY DEF StartDelegation, InitializeDelegation, Then
  <1>2. dv = <<del, v>> /\ del \in Delegators /\ v \in Operators
    OBVIOUS
  <1>3. info.height = b.height
    OBVIOUS
  <1>. HIDE DEF del, v, b, info
  <1>4. b \in States /\ b.height = c.height /\ SameSlashes(c, b) /\ b.start = c.start
    BY <1>2, PeriodDistributes, PeriodHasNoSlashes DEF Distributes, SameStaking, b
  <1>5. p \in Int
    BY <1>2, <1>4 DEF States, Records
  <1>. HIDE DEF p
  <1>6. i \in States /\ SameSlashes(b, i) /\ i.start = b.start
    BY <1>2, <1>4, <1>5, CountsHaveNoSlashes, IncrementDistributes DEF Distributes
  <1>. HIDE DEF i
  <1>7. i.start \in [Delegators -> [Operators -> Infos]]
    BY <1>6 DEF States
  <1>8. /\ e.dist = i.dist /\ e.start[del][v] = info
        /\ \A k \in Delegators, w \in Operators :
              k # del \/ w # v => e.start[k][w] = i.start[k][w]
    BY <1>2, <1>6, <1>7 DEF States
  <1>. HIDE DEF e, d
  <1>9. SameSlashes(c, d)
    BY <1>1, <1>4, <1>6, <1>8 DEF SameSlashes
  <1>10. ASSUME ~d.panic
         PROVE  /\ d.start[del][v].height = c.height
                /\ \A x \in (Delegators \X Operators) \ {dv} :
                      d.start[x[1]][x[2]] = c.start[x[1]][x[2]]
    <2>1. d = e
      BY <1>1, <1>10
    <2>2. d.start[del][v].height = c.height
      BY <1>3, <1>4, <1>8, <2>1
    <2>3. ASSUME NEW x \in (Delegators \X Operators) \ {dv}
          PROVE  d.start[x[1]][x[2]] = c.start[x[1]][x[2]]
      <3>1. x[1] \in Delegators /\ x[2] \in Operators /\ (x[1] # del \/ x[2] # v)
        BY <1>2
      <3>. QED BY <1>4, <1>6, <1>8, <2>1, <3>1
    <2>. QED BY <2>2, <2>3
  <1>. QED BY <1>9, <1>10 DEF d, del, v

\* All delegations start at the height of the context.
LEMMA DelegationsStart ==
    ASSUME NEW c \in States, NEW S \in SUBSET (Delegators \X Operators)
    PROVE  LET d == ForAll(StartDelegation, c, S) IN
           /\ SameSlashes(c, d)
           /\ ~d.panic => \A dv \in S : d.start[dv[1]][dv[2]].height = c.height
  <1>. DEFINE At(d, T) == ~d.panic => \A dv \in T : d.start[dv[1]][dv[2]].height = c.height
              V == [T \in SUBSET S |-> {d \in Distributed(c) : SameSlashes(c, d) /\ At(d, T)}]
  <1>1. IsFiniteSet(S)
    BY ChainAssumption, FS_Product, FS_Subset
  <1>2. V \in [SUBSET S -> SUBSET Distributed(c)]
    OBVIOUS
  <1>3. c \in V[{}]
    BY DistributesNothing DEF SameSlashes
  <1>4. ASSUME NEW T \in SUBSET S, NEW x \in T, NEW d \in V[T \ {x}]
        PROVE  StartStep(x, d) \in V[T]
    <2>. DEFINE e == StartDelegation(d, x)
    <2>1. StartStep(x, d) = IF d.panic THEN d ELSE e
      BY DEF StartStep, Then
    <2>2. T \ {x} \in SUBSET S
      OBVIOUS
    <2>3. /\ d \in States /\ d \in Distributed(c) /\ d.height = c.height
          /\ SameSlashes(c, d) /\ At(d, T \ {x})
      BY <2>2 DEF Distributed, Distributes, SameStaking
    <2>4. x \in Delegators \X Operators
      OBVIOUS
    <2>5. /\ SameSlashes(d, e)
          /\ ~e.panic =>
                /\ e.start[x[1]][x[2]].height = d.height
                /\ \A y \in (Delegators \X Operators) \ {x} :
                      e.start[y[1]][y[2]] = d.start[y[1]][y[2]]
      BY <2>3, <2>4, DelegationStarts
    <2>6. e \in Distributed(c)
      BY <2>3, <2>4, StartDistributes, DistributesTwice DEF Distributed, Distributes
    <2>. HIDE DEF e
    <2>7. CASE d.panic
      <3>1. At(d, T)
        BY <2>7
      <3>. QED BY <2>1, <2>3, <2>7, <3>1
    <2>8. CASE ~d.panic
      <3>1. SameSlashes(c, e)
        BY <2>3, <2>5 DEF SameSlashes
      <3>2. At(e, T)
        BY <2>3, <2>5, <2>8
      <3>. QED BY <2>1, <2>6, <2>8, <3>1, <3>2
    <2>. QED BY <2>7, <2>8
  <1>5. \A T \in SUBSET S : \A x \in T : \A d \in V[T \ {x}] : StartStep(x, d) \in V[T]
    BY <1>4
  <1>6. Starting!Fold(c, S) \in V[S]
    <2>1. Starting!IsFiniteSet(S)
      BY <1>1 DEF IsFiniteSet, Starting!IsFiniteSet
    <2>. HIDE DEF V
    <2>. QED BY <1>2, <1>3, <1>5, <2>1, Starting!FoldReaches
  <1>. QED BY <1>6, StartIsAFold

\* New records have the slash events of the old ones.
LEMMA ReinitHasNoSlashes ==
    ASSUME NEW c \in States
    PROVE  SameSlashes(c, ReinitValidators(c)) /\ ReinitValidators(c).height = c.height
  <1>. DEFINE S == Existing(c)
              Same == {d \in Distributed(c) : SameSlashes(c, d)}
  <1>1. IsFiniteSet(S) /\ S \subseteq Operators
    BY ChainAssumption, FS_Subset DEF Existing
  <1>2. ASSUME NEW x \in S, NEW d \in Same PROVE ReinitStep(x, d) \in Same
    <2>. DEFINE b == [d EXCEPT !.pool = @ + d.dist[x].outstanding]
                e == ReinitValidator(d, x)
    <2>1. ReinitStep(x, d) = IF d.panic THEN d ELSE e
      BY DEF ReinitStep, Then
    <2>2. d \in States /\ Distributes(c, d) /\ SameSlashes(c, d) /\ x \in Operators
      BY <1>1 DEF Distributed
    <2>3. Distributes(c, e)
      BY <2>2, ReinitDistributes, DistributesTwice
    <2>4. b \in States /\ b.dist = d.dist
      <3>1. d.pool + d.dist[x].outstanding \in Int
        BY <2>2 DEF States, Records
      <3>. QED BY <2>2, <3>1 DEF States
    <2>5. e = InitializeValidator(b, x)
      BY DEF ReinitValidator
    <2>. HIDE DEF b, e
    <2>6. SameSlashes(b, e)
      BY <2>2, <2>4, <2>5, InitializeSurplus DEF SameSlashes
    <2>7. SameSlashes(c, e)
      BY <2>2, <2>4, <2>6 DEF SameSlashes
    <2>. QED BY <2>1, <2>3, <2>7 DEF Distributed, Distributes
  <1>3. Reinitializing!Fold(c, S) \in Same
    <2>1. Reinitializing!IsFiniteSet(S)
      BY <1>1 DEF IsFiniteSet, Reinitializing!IsFiniteSet
    <2>2. c \in Same
      BY DistributesNothing DEF SameSlashes
    <2>. HIDE DEF Same, S
    <2>. QED BY <1>2, <2>1, <2>2, Reinitializing!FoldKeeps
  <1>. QED BY <1>3, ReinitIsAFold DEF ReinitValidators, Distributed, Distributes, SameStaking

\* Slash events are deleted first, delegations started in a context of height
\* zero.
LEMMA PreparationStartsAtZero ==
    ASSUME NEW c \in States
    PROVE  LET d == PrepareDistribution(c) IN
           ~d.panic => /\ \A v \in Operators : d.dist[v].slashes = << >>
                       /\ \A dv \in Delegations(c) : d.start[dv[1]][dv[2]].height = 0
  <1>. DEFINE w == WithdrawAllCommission(c)
              r == WithdrawAllRewards(w)
              dist == [x \in Operators |-> [r.dist[x] EXCEPT !.hist = << >>, !.slashes = << >>]]
              zero == [r EXCEPT !.dist = dist, !.height = 0]
              v == ReinitValidators(zero)
              s == ReinitDelegations(v, Delegations(c))
              e == [s EXCEPT !.height = c.height]
              d == PrepareDistribution(c)
  <1>1. d = IF r.panic THEN r ELSE e
    BY DEF PrepareDistribution, Then, ClearDistribution
  <1>2. w \in States
    BY CommissionsOfAll DEF WithdrawAllCommission, Existing, Distributes
  <1>. HIDE DEF w
  <1>3. r \in States
    <2>1. Delegations(w) \in SUBSET (Delegators \X Operators)
      BY DEF Delegations
    <2>. QED BY <1>2, <2>1, RewardsOfAll DEF WithdrawAllRewards, Distributes
  <1>. HIDE DEF r
  <1>4. dist \in [Operators -> Records] /\ \A x \in Operators : dist[x].slashes = << >>
    <2>1. << >> \in Histories /\ << >> \in SlashEvents
      BY NoRecordsAreRecords DEF NoRecords, Records
    <2>2. \A x \in Operators : r.dist[x] \in Records
      BY <1>3 DEF States
    <2>. QED BY <2>1, <2>2 DEF Records
  <1>. HIDE DEF dist
  <1>5. zero \in States /\ zero.dist = dist /\ zero.height = 0
    <2>1. 0 \in Nat
      OBVIOUS
    <2>. QED BY <1>3, <1>4, <2>1 DEF States
  <1>. HIDE DEF zero
  <1>6. v \in States /\ SameSlashes(zero, v) /\ v.height = 0
    <2>1. v \in States
      BY <1>5, ReinitAll DEF ReinitValidators, Existing, Distributes
    <2>. QED BY <1>5, <2>1, ReinitHasNoSlashes
  <1>. HIDE DEF v
  <1>7. /\ s \in States /\ SameSlashes(v, s)
        /\ ~s.panic => \A dv \in Delegations(c) : s.start[dv[1]][dv[2]].height = 0
    <2>1. Delegations(c) \in SUBSET (Delegators \X Operators)
      BY DEF Delegations
    <2>. QED BY <1>6, <2>1, StartsAll, DelegationsStart DEF ReinitDelegations, Distributes
  <1>. HIDE DEF s
  <1>8. e.dist = s.dist /\ e.start = s.start /\ e.panic = s.panic
    BY <1>7 DEF States
  <1>. HIDE DEF e, d
  <1>9. ASSUME ~d.panic
        PROVE  /\ \A x \in Operators : d.dist[x].slashes = << >>
               /\ \A dv \in Delegations(c) : d.start[dv[1]][dv[2]].height = 0
    <2>1. d = e /\ ~s.panic
      BY <1>1, <1>8, <1>9
    <2>. QED BY <1>4, <1>5, <1>6, <1>7, <1>8, <2>1 DEF SameSlashes
  <1>. QED BY <1>9 DEF d

\* An active set that is the ranked one loses nobody when only jails are added,
\* unless the update panics.
LEMMA RankedStays ==
    ASSUME NEW c \in States, Whole(c), Ranked(c), NEW r \in States, NEW allowed,
           IsReset(c, r, allowed)
    PROVE  r.last \subseteq Top(r)
  <1>. SUFFICES ASSUME NEW v \in c.last PROVE v \in Top(r)
    BY DEF IsReset
  <1>1. v \in Existing(c) /\ ~c.vals[v].jailed /\ c.vals[v].tokens > 0 /\ v \in Operators
    BY DEF Ranked, Existing
  <1>2. v \in r.power /\ r.vals[v].tokens > 0 /\ r.vals[v].tokens # 0
    <2>1. v \in r.power /\ r.vals[v].tokens = c.vals[v].tokens /\ c.vals[v].tokens \in Nat
      BY <1>1 DEF Whole, IsReset, Existing, States, Vals
    <2>. QED BY <1>1, <2>1
  <1>3. v \in Reached(r)
    <2>1. v \notin {w \in r.power : Exists(r, w) /\ r.vals[w].tokens = 0}
      BY <1>2
    <2>. QED BY <1>2, <2>1 DEF Reached
  <1>. QED BY <1>2, <1>3 DEF Top

\* No height of the old chain is left.
AllHeightsAreZero(c) ==
    /\ \A dv \in Delegations(c) : c.start[dv[1]][dv[2]].height = 0
    /\ \A e \in c.ubds \cup c.reds : e.height = 0
    /\ \A v \in Existing(c) : c.vals[v].unbondingHeight = 0 /\ c.dist[v].slashes = << >>
    /\ \A k \in DOMAIN c.signing : c.signing[k] = 0

\* The active set stays, so that no validator begins to unbond at the old
\* height.
LEMMA UpdatedAtZero ==
    ASSUME NEW c \in States, NEW allowed, ~c.panic, Whole(c), Ranked(c)
    PROVE  LET u == Updated(c, allowed) IN
           ~u.panic => /\ u \in States /\ u.dels = c.dels /\ u.start = c.start
                       /\ u.dist = c.dist
                       /\ \A e \in u.ubds \cup u.reds : e.height = 0
                       /\ \A v \in Operators : u.vals[v].unbondingHeight = 0
  <1>. DEFINE r == ResetValidators(ResetEntries(c), allowed)
              u == Updated(c, allowed)
  <1>1. IsReset(c, r, allowed) /\ u = ApplyValidatorSetUpdates(r)
    BY Resets DEF Updated
  <1>. HIDE DEF r, u
  <1>2. r \in States /\ r.last \subseteq Top(r)
    BY <1>1, RankedStays DEF IsReset
  <1>3. /\ u \in States
        /\ ~u.panic => /\ SameButActive(r, u)
                       /\ \A v \in Operators : u.vals[v].unbondingHeight
                                                   = r.vals[v].unbondingHeight
    BY <1>1, <1>2, Applies DEF Keeps
  <1>4. \A e \in r.ubds \cup r.reds : e.height = 0
    <2>1. c.ubds \subseteq Entries /\ c.reds \subseteq Entries
      BY DEF States
    <2>. QED BY <1>1, <2>1, EntriesAtZero DEF IsReset, AllAtZero
  <1>5. ASSUME ~u.panic
        PROVE  /\ u \in States /\ u.dels = c.dels /\ u.start = c.start
               /\ u.dist = c.dist
               /\ \A e \in u.ubds \cup u.reds : e.height = 0
               /\ \A v \in Operators : u.vals[v].unbondingHeight = 0
    BY <1>1, <1>3, <1>4, <1>5 DEF IsReset, SameButActive
  <1>. QED BY <1>5 DEF u

\* An export for height zero that does not panic has no other height.
LEMMA ExportAtZero ==
    ASSUME NEW c \in States, NEW allowed, Whole(c), Ranked(c)
    PROVE  LET d == ExportAppStateAndValidators(c, TRUE, allowed) IN
           ~d.panic => AllHeightsAreZero(d)
  <1>. DEFINE p == PrepareDistribution(c)
              u == Updated(p, allowed)
              s == ResetSigningInfos(u)
              q == IF p.panic THEN p ELSE IF u.panic THEN u ELSE s
              d == ExportAppStateAndValidators(c, TRUE, allowed)
  <1>1. d = [q EXCEPT !.height = 0]
    BY DEF ExportAppStateAndValidators, PrepForZeroHeight, Then, Updated
  <1>2. Distributes(c, p)
    BY PreparationDistributes
  <1>3. /\ p \in States /\ p.dels = c.dels /\ p.vals = c.vals /\ p.last = c.last
        /\ p.power = c.power /\ p.ubds = c.ubds /\ p.ids = c.ids
    BY <1>2 DEF Distributes, SameStaking
  <1>4. ~p.panic => /\ \A v \in Operators : p.dist[v].slashes = << >>
                    /\ \A dv \in Delegations(c) : p.start[dv[1]][dv[2]].height = 0
    BY PreparationStartsAtZero
  <1>. HIDE DEF p, d
  <1>5. Whole(p) /\ Ranked(p)
    BY <1>3 DEF Whole, Ranked, Existing, Exists
  <1>6. ASSUME ~d.panic PROVE AllHeightsAreZero(d)
    <2>1. q \in States /\ q.panic = d.panic
      <3>1. u \in States
        BY <1>3, Resets, Applies DEF Updated, IsReset, Keeps
      <3>2. 0 \in Nat
        OBVIOUS
      <3>. HIDE DEF u
      <3>3. s \in States
        BY <3>1, <3>2, FinishesAlike
      <3>. HIDE DEF s
      <3>4. q \in States
        BY <1>3, <3>1, <3>3
      <3>. HIDE DEF q
      <3>. QED BY <1>1, <3>4 DEF States
    <2>2. ~p.panic /\ ~u.panic /\ q = s
      BY <1>6, <2>1
    <2>3. /\ u \in States /\ u.dels = c.dels /\ u.start = p.start /\ u.dist = p.dist
          /\ \A e \in u.ubds \cup u.reds : e.height = 0
          /\ \A v \in Operators : u.vals[v].unbondingHeight = 0
      BY <1>3, <1>5, <2>2, UpdatedAtZero
    <2>. HIDE DEF u
    <2>4. 0 \in Nat
      OBVIOUS
    <2>5. /\ s \in States /\ s.dels = u.dels /\ s.start = u.start /\ s.reds = u.reds
          /\ s.ubds = u.ubds /\ s.vals = u.vals /\ s.dist = u.dist
          /\ \A k \in DOMAIN s.signing : s.signing[k] = 0
      BY <2>3, <2>4, FinishesAlike DEF Alike
    <2>. HIDE DEF s
    <2>6. /\ d.dels = s.dels /\ d.start = s.start /\ d.reds = s.reds
          /\ d.ubds = s.ubds /\ d.vals = s.vals /\ d.dist = s.dist
          /\ d.signing = s.signing
      BY <1>1, <2>2, <2>5 DEF States
    <2>7. Delegations(d) = Delegations(c)
      BY <2>3, <2>5, <2>6 DEF Delegations
    <2>. QED BY <1>4, <2>2, <2>3, <2>5, <2>6, <2>7 DEF AllHeightsAreZero, Existing
  <1>. QED BY <1>6 DEF d

-----------------------------------------------------------------------------
(* The import *)

\* The new chain starts with the accounts of the exported one.
LEMMA ImportKeeps ==
    ASSUME NEW c \in States, NEW zero \in BOOLEAN, zero \/ c.height >= 1
    PROVE  LET d == InitGenesis(c, zero) IN
           /\ d \in States /\ d.panic = c.panic /\ Surplus(d) = Surplus(c)
           /\ SameStakes(c, d)
           /\ Whole(c) => Whole(d)
           /\ LastIsBonded(c) => LastIsBonded(d)
           /\ Ranked(c) => Ranked(d)
  <1>. DEFINE h == IF zero THEN 0 ELSE c.height - 1
              p == {v \in Existing(c) : ~c.vals[v].jailed}
              w == {v \in Operators : c.vals[v].status = "Unbonding"}
              d == InitGenesis(c, zero)
  <1>1. h \in Nat /\ p \in SUBSET Operators /\ w \in SUBSET Operators
    BY DEF States, Existing
  <1>2. d = [c EXCEPT !.height = h, !.power = p, !.queue = w]
    BY DEF InitGenesis
  <1>3. p \subseteq Existing(c) /\ \A v \in Existing(c) : ~c.vals[v].jailed => v \in p
    OBVIOUS
  <1>. HIDE DEF h, p, w, d
  <1>4. /\ d \in States /\ d.panic = c.panic /\ d.vals = c.vals /\ d.last = c.last
        /\ d.ubds = c.ubds /\ d.ids = c.ids /\ d.bonded = c.bonded
        /\ d.notBonded = c.notBonded /\ d.power = p
        /\ d.dist = c.dist /\ d.pool = c.pool /\ d.distribution = c.distribution
    BY <1>1, <1>2 DEF States
  <1>5. /\ \A v : (Exists(d, v) <=> Exists(c, v)) /\ (IsBonded(d, v) <=> IsBonded(c, v))
        /\ Existing(d) = Existing(c)
    BY <1>4 DEF Exists, IsBonded, Existing
  <1>6. Whole(c) => Whole(d)
    BY <1>3, <1>4, <1>5 DEF Whole
  <1>7. SameStakes(c, d)
    <2>1. BondedTokens(d) = BondedTokens(c) /\ NotBondedTokens(d) = NotBondedTokens(c)
      BY <1>4 DEF BondedTokens, NotBondedTokens, IsBonded
    <2>. QED BY <1>4, <2>1 DEF SameStakes, BondedSurplus, NotBondedSurplus
  <1>8. (LastIsBonded(c) => LastIsBonded(d)) /\ (Ranked(c) => Ranked(d))
    BY <1>4, <1>5 DEF LastIsBonded, Ranked
  <1>9. Surplus(d) = Surplus(c)
    BY <1>4, SameDistribution
  <1>. QED BY <1>4, <1>6, <1>7, <1>8, <1>9 DEF d

-----------------------------------------------------------------------------
(* The inductive invariant *)

\* Unless the chain has halted, what the staking module relies on holds, and the
\* active set has the validators that have power.
Sound(c, test, used) ==
    /\ c \in States
    /\ ~used => Surplus(c) = 0
    /\ ~c.panic => /\ Whole(c) /\ LastIsBonded(c) /\ Ranked(c)
                   /\ ~test => BondedSurplus(c) = 0 /\ NotBondedSurplus(c) = 0

\* An exported genesis is that of the chain, which stands still meanwhile; it is
\* as sound as the chain, obeys its list, and starts at zero if it is to.
ExportInv ==
    exported # NoExport =>
        /\ exported.zero \in BOOLEAN /\ exported.allowed \in AllowLists
        /\ exported.state =
              ExportAppStateAndValidators(chain, exported.zero, exported.allowed)
        /\ Sound(exported.state, testnet, reused)
        /\ exported.zero /\ exported.allowed # {} /\ ~exported.state.panic
              => exported.state.last \subseteq exported.allowed
        /\ exported.zero /\ ~exported.state.panic => AllHeightsAreZero(exported.state)

ChainInv ==
    /\ testnet \in BOOLEAN /\ reused \in BOOLEAN /\ (reused => testnet)
    /\ Sound(chain, testnet, reused)
    /\ ExportInv

\* A call that keeps its promises leaves a sound state sound.
LEMMA KeepsSound ==
    ASSUME NEW c, NEW d, NEW t, NEW u, Sound(c, t, u), ~c.panic, Keeps(c, d),
           ~d.panic => LastIsBonded(d) /\ Ranked(d)
    PROVE  Sound(d, t, u)
  BY DEF Sound, Keeps, SameStakes

\* The first genesis block.
LEMMA ChainInvInit == Init => ChainInv
  <1>. SUFFICES ASSUME Init PROVE ChainInv
    OBVIOUS
  <1>1. /\ chain = FirstState /\ exported = NoExport
        /\ testnet = FALSE /\ reused = FALSE
    BY DEF Init, ChainInit
  <1>2. Sound(chain, testnet, reused)
    BY <1>1, FirstStateIsWhole DEF Sound
  <1>. QED BY <1>1, <1>2 DEF ChainInv, ExportInv

\* A block.
LEMMA ChainInvProduce == ChainInv /\ Produce => ChainInv'
  <1>. SUFFICES ASSUME ChainInv, Produce PROVE ChainInv'
    OBVIOUS
  <1>1. /\ exported = NoExport /\ exported' = exported /\ Block
        /\ testnet' = testnet /\ reused' = reused
    BY DEF Produce
  <1>2. ~chain.panic
    BY <1>1 DEF Block, Transaction, Slashing, UnbondingEnds, UndelegationEnds, Mined
  <1>3. IsBlock(chain, chain')
    BY <1>1, <1>2, BlockMines DEF ChainInv, Sound
  <1>4. Sound(chain', testnet, reused)
    <2>1. Whole(chain) /\ LastIsBonded(chain)
      BY <1>2 DEF ChainInv, Sound
    <2>. QED BY <1>2, <1>3, <2>1, KeepsSound DEF ChainInv, IsBlock
  <1>. QED BY <1>1, <1>4 DEF ChainInv, ExportInv

\* A testnet in place, or one that could not be funded.
LEMMA ChainInvInPlace == ChainInv /\ InPlace => ChainInv'
  <1>. SUFFICES ASSUME ChainInv, InPlace PROVE ChainInv'
    OBVIOUS
  <1>1. exported = NoExport /\ exported' = exported /\ ~chain.panic
    BY DEF InPlace, Command
  <1>2. CASE chain' = chain /\ testnet' = testnet /\ reused' = reused
    BY <1>1, <1>2 DEF ChainInv, ExportInv
  <1>3. ASSUME NEW op \in Operators, chain' = initAppForTestnet(chain, op),
               testnet' = TRUE, reused' = (reused \/ chain.dist[op] # NoRecords)
        PROVE  ChainInv'
    <2>. DEFINE d == initAppForTestnet(chain, op)
    <2>1. chain \in States /\ Whole(chain)
      BY <1>1 DEF ChainInv, Sound
    <2>2. /\ d \in States /\ Whole(d) /\ LastIsBonded(d) /\ Ranked(d)
          /\ chain.dist[op] = NoRecords => Surplus(d) = Surplus(chain)
      BY <2>1, TestnetIsWhole
    <2>3. chain' = d
      BY <1>3
    <2>. HIDE DEF d
    <2>4. ~reused' => Surplus(d) = 0
      BY <1>3, <2>2 DEF ChainInv, Sound
    <2>5. Sound(chain', testnet', reused')
      BY <1>3, <2>2, <2>3, <2>4 DEF Sound
    <2>6. reused' \in BOOLEAN
      BY <1>3
    <2>. QED BY <1>1, <1>3, <2>5, <2>6 DEF ChainInv, ExportInv
  <1>. QED BY <1>2, <1>3 DEF InPlace

\* An export.
LEMMA ChainInvExport == ChainInv /\ Export => ChainInv'
  <1>. SUFFICES ASSUME ChainInv, Export PROVE ChainInv'
    OBVIOUS
  <1>1. /\ ~chain.panic /\ chain' = chain /\ testnet' = testnet /\ reused' = reused
    BY DEF Export, Command
  <1>2. PICK zero \in BOOLEAN, allowed \in AllowLists :
           exported' = [zero |-> zero, allowed |-> allowed,
                        state |-> ExportAppStateAndValidators(chain, zero, allowed)]
    BY DEF Export
  <1>. DEFINE d == ExportAppStateAndValidators(chain, zero, allowed)
  <1>3. exported'.zero = zero /\ exported'.allowed = allowed /\ exported'.state = d
    BY <1>2
  <1>4. chain \in States /\ Sound(chain, testnet, reused)
    BY DEF ChainInv, Sound
  <1>5. /\ Keeps(chain, d)
        /\ Whole(chain) /\ LastIsBonded(chain) /\ Ranked(chain) /\ ~d.panic
              => LastIsBonded(d) /\ Ranked(d)
        /\ zero /\ allowed # {} /\ ~d.panic => d.last \subseteq allowed
    BY <1>4, ExportKeeps
  <1>. HIDE DEF d
  <1>6. Whole(chain) /\ LastIsBonded(chain) /\ Ranked(chain)
    BY <1>1, <1>4 DEF Sound
  <1>7. Sound(d, testnet, reused)
    BY <1>1, <1>4, <1>5, <1>6, KeepsSound
  <1>8. zero /\ ~d.panic => AllHeightsAreZero(d)
    <2>1. zero => zero = TRUE
      OBVIOUS
    <2>. QED BY <1>4, <1>6, <2>1, ExportAtZero DEF d
  <1>9. ExportInv'
    BY <1>1, <1>3, <1>5, <1>7, <1>8 DEF ExportInv, d
  <1>. QED BY <1>1, <1>9 DEF ChainInv

\* An import.
LEMMA ChainInvImport == ChainInv /\ Import => ChainInv'
  <1>. SUFFICES ASSUME ChainInv, Import PROVE ChainInv'
    OBVIOUS
  <1>. DEFINE c == exported.state
              d == InitGenesis(c, exported.zero)
  <1>1. /\ exported # NoExport /\ ~c.panic /\ chain' = d /\ exported' = NoExport
        /\ testnet' = testnet /\ reused' = reused
    BY DEF Import
  <1>2. Sound(c, testnet, reused) /\ exported.zero \in BOOLEAN /\ c \in States
    BY <1>1 DEF ChainInv, ExportInv, Sound
  <1>2a. exported.zero \/ c.height >= 1
    <2>1. CASE ~exported.zero
      <3>1. c = [chain EXCEPT !.height = @ + 1]
        BY <1>1, <2>1 DEF ChainInv, ExportInv, ExportAppStateAndValidators
      <3>2. chain \in States
        BY DEF ChainInv, Sound
      <3>3. chain.height \in Nat /\ c.height = chain.height + 1
        BY <3>1, <3>2 DEF States
      <3>. QED BY <3>3
    <2>. QED BY <2>1
  <1>. HIDE DEF c
  <1>3. /\ d \in States /\ d.panic = c.panic /\ Surplus(d) = Surplus(c)
        /\ SameStakes(c, d) /\ (Whole(c) => Whole(d))
        /\ (LastIsBonded(c) => LastIsBonded(d)) /\ (Ranked(c) => Ranked(d))
    BY <1>2, <1>2a, ImportKeeps
  <1>. HIDE DEF d
  <1>4. Sound(d, testnet, reused)
    BY <1>1, <1>2, <1>3 DEF Sound, SameStakes
  <1>. QED BY <1>1, <1>4 DEF ChainInv, ExportInv

\* No block and no command leaves the invariant.
THEOREM ChainInvHolds == Spec => []ChainInv
  <1>1. ChainInv /\ [Next]_vars => ChainInv'
    <2>. SUFFICES ASSUME ChainInv, [Next]_vars PROVE ChainInv'
      OBVIOUS
    <2>1. CASE UNCHANGED vars
      BY <2>1 DEF vars, ChainInv, ExportInv
    <2>. QED BY <2>1, ChainInvProduce, ChainInvInPlace, ChainInvExport, ChainInvImport
             DEF Next
  <1>. QED BY <1>1, ChainInvInit, PTL DEF Spec

\* The distribution account holds what it owes, and no more, after any sequence of
\* blocks, exports, imports and testnets in place with a new operator
\* (app_config.go:112).
THEOREM FeesAreAlwaysHeld == Spec => []FeesAreHeld
  <1>1. ChainInv => FeesAreHeld
    <2>. SUFFICES ASSUME ChainInv, ~reused
                  PROVE  chain.distribution = Outstanding(chain) + chain.pool
      BY DEF FeesAreHeld
    <2>1. chain \in States /\ Surplus(chain) = 0
      BY DEF ChainInv, Sound
    <2>2. /\ Outstanding(chain) \in Int /\ chain.distribution \in Int
          /\ chain.pool \in Int
      BY <2>1, OutstandingIsWhole DEF States
    <2>. QED BY <2>1, <2>2 DEF Surplus
  <1>. QED BY <1>1, ChainInvHolds, PTL

\* What `edud export` writes passes what the staking and the distribution
\* module check when a chain starts from it (export.go:30-47).
THEOREM ExportIsAlwaysImportable == Spec => []ExportIsImportable
  <1>1. ChainInv => ExportIsImportable
    <2>. SUFFICES ASSUME ChainInv, exported # NoExport, ~testnet, ~exported.state.panic
                  PROVE  Importable(exported.state)
      BY DEF ExportIsImportable
    <2>. DEFINE c == exported.state
    <2>1. ~reused /\ Sound(c, testnet, reused) /\ ~c.panic
      BY DEF ChainInv, ExportInv
    <2>. HIDE DEF c
    <2>2. /\ c \in States /\ Surplus(c) = 0 /\ BondedSurplus(c) = 0
          /\ NotBondedSurplus(c) = 0 /\ Whole(c) /\ LastIsBonded(c)
      BY <2>1 DEF Sound
    <2>3. /\ c.distribution \in Int /\ c.pool \in Int /\ c.bonded \in Int
          /\ c.notBonded \in Int /\ Outstanding(c) \in Int
          /\ BondedTokens(c) \in Int /\ NotBondedTokens(c) \in Int
      BY <2>2, OutstandingIsWhole, StakesAreWhole DEF States, Whole
    <2>4. c.distribution = Outstanding(c) + c.pool
      BY <2>2, <2>3 DEF Surplus
    <2>5. c.bonded = BondedTokens(c) /\ c.notBonded = NotBondedTokens(c)
      BY <2>2, <2>3 DEF BondedSurplus, NotBondedSurplus
    <2>6. c.last \subseteq Existing(c)
      BY <2>2 DEF LastIsBonded, IsBonded, Existing, Exists, States
    <2>7. Importable(c)
      BY <2>4, <2>5, <2>6 DEF Importable
    <2>. QED BY <2>7 DEF c
  <1>. QED BY <1>1, ChainInvHolds, PTL

\* A validator left out of --jail-allowed-addrs is never in the active set of a
\* genesis for height zero (export.go:206-225).
THEOREM AllowListIsAlwaysObeyed == Spec => []AllowListIsObeyed
  <1>1. ChainInv => AllowListIsObeyed
    BY DEF ChainInv, ExportInv, AllowListIsObeyed
  <1>. QED BY <1>1, ChainInvHolds, PTL

\* A genesis for height zero has no height of the old chain: not in a starting
\* info, an unbonding delegation, a redelegation, a validator or a signing info,
\* and no slash event (export.go:56-249).
THEOREM ZeroHeightIsAlwaysZero == Spec => []ZeroHeightIsZero
  <1>1. ChainInv => ZeroHeightIsZero
    BY DEF ChainInv, ExportInv, ZeroHeightIsZero, AllHeightsAreZero
  <1>. QED BY <1>1, ChainInvHolds, PTL
=============================================================================

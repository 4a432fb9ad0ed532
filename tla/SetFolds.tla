------------------------------- MODULE SetFolds -------------------------------
(***************************************************************************)
(* What folding an operation over a finite set keeps.  FoldSet is defined  *)
(* by a function that calls itself, so the first thing to know is that     *)
(* there is such a function; everything else follows by induction over the *)
(* subsets.  The module is instantiated once for every operation folded.   *)
(***************************************************************************)
EXTENDS Integers, FiniteSets, FiniteSetTheorems, TLAPS

CONSTANT Op(_, _)

\* FoldSet(Op, c, S), with the definitions of the library expanded.
Fold(c, S) ==
    (CHOOSE h : h = [s \in SUBSET S |->
        IF s = {} THEN c
        ELSE Op(CHOOSE x \in s : TRUE, h[s \ {CHOOSE x \in s : TRUE}])])[S]

-----------------------------------------------------------------------------

\* Induction over the subsets of a finite set, from those strictly below.
THEOREM SubsetInduction ==
    ASSUME NEW S, IsFiniteSet(S), NEW G,
           \A T \in SUBSET S : (\A R \in SUBSET T : R # T => R \in G) => T \in G
    PROVE  \A T \in SUBSET S : T \in G
  <1>. DEFINE Bad == {T \in SUBSET S : T \notin G}
  <1>. SUFFICES ASSUME Bad # {} PROVE FALSE
    OBVIOUS
  <1>1. IsWellFoundedOn(StrictSubsetOrdering(S), SUBSET S)
    <2>1. FiniteSubsetsOf(S) = SUBSET S
      BY FS_FiniteSubsetsOfFinite
    <2>2. IsWellFoundedOn(StrictSubsetOrdering(S), FiniteSubsetsOf(S))
      BY FS_StrictSubsetOrderingWellFounded
    <2>. QED BY <2>1, <2>2
  <1>2. PICK T \in Bad : \A R \in Bad : ~(<<R, T>> \in StrictSubsetOrdering(S))
    <2>1. Bad \subseteq SUBSET S
      OBVIOUS
    <2>. DEFINE below == StrictSubsetOrdering(S)
    <2>2. Bad # {} /\ IsWellFoundedOn(below, SUBSET S)
      BY <1>1
    <2>. HIDE DEF Bad, below
    <2>3. \E T \in Bad : \A R \in Bad : ~(<<R, T>> \in below)
      BY <2>1, <2>2, WFMin
    <2>. QED BY <2>3 DEF below
  <1>3. \A R \in SUBSET T : R # T => R \in G
    BY <1>2 DEF StrictSubsetOrdering
  <1>. QED BY <1>2, <1>3

\* h computes, for the subsets of T, what G makes of c.
Computes(h, T, U, c, G, pick) ==
    /\ h \in [SUBSET T -> U]
    /\ \A s \in SUBSET T :
          h[s] = IF s = {} THEN c ELSE G[<<pick[s], h[s \ {pick[s]}]>>]

\* The choice of an element from every subset of S.
Picks(pick, S) == \A s \in SUBSET S : s # {} => pick[s] \in s

\* Two functions that compute it agree where both are defined.
LEMMA ComputesTheSame ==
    ASSUME NEW S, IsFiniteSet(S), NEW U, NEW c, NEW G, NEW pick, Picks(pick, S),
           NEW T \in SUBSET S, NEW R \in SUBSET T, NEW h, NEW g,
           Computes(h, T, U, c, G, pick), Computes(g, R, U, c, G, pick)
    PROVE  \A s \in SUBSET R : h[s] = g[s]
  <1>. DEFINE Same == {s \in SUBSET R : h[s] = g[s]}
  <1>1. IsFiniteSet(R)
    BY FS_Subset
  <1>2. ASSUME NEW s \in SUBSET R, \A q \in SUBSET s : q # s => q \in Same
        PROVE  s \in Same
    <2>1. CASE s = {}
      BY <2>1 DEF Computes
    <2>2. CASE s # {}
      <3>1. s \ {pick[s]} \in Same
        BY <1>2, <2>2 DEF Picks
      <3>2. /\ h[s] = G[<<pick[s], h[s \ {pick[s]}]>>]
            /\ g[s] = G[<<pick[s], g[s \ {pick[s]}]>>]
        BY <2>2 DEF Computes
      <3>. QED BY <3>1, <3>2
    <2>. QED BY <2>1, <2>2
  <1>3. \A s \in SUBSET R : s \in Same
    <2>. HIDE DEF Same
    <2>. QED BY <1>1, <1>2, SubsetInduction
  <1>. QED BY <1>3

\* There is a function that computes it.
THEOREM Computable ==
    ASSUME NEW S, IsFiniteSet(S), NEW U, NEW c \in U, NEW G \in [S \X U -> U],
           NEW pick, Picks(pick, S)
    PROVE  \E h : Computes(h, S, U, c, G, pick)
  <1>. DEFINE Good == {T \in SUBSET S : \E h : Computes(h, T, U, c, G, pick)}
  <1>1. ASSUME NEW T \in SUBSET S, \A R \in SUBSET T : R # T => R \in Good
        PROVE  T \in Good
    <2>. DEFINE below == [R \in SUBSET T |-> CHOOSE h : Computes(h, R, U, c, G, pick)]
                value(s) == IF s = {} THEN c
                            ELSE G[<<pick[s], below[s \ {pick[s]}][s \ {pick[s]}]>>]
                h == [s \in SUBSET T |-> value(s)]
    <2>0. \A q \in SUBSET T : \A r \in SUBSET q : \A g1, g2 :
             Computes(g1, q, U, c, G, pick) /\ Computes(g2, r, U, c, G, pick) => g1[r] = g2[r]
      <3>. TAKE q \in SUBSET T
      <3>. TAKE r \in SUBSET q
      <3>. TAKE g1, g2
      <3>. HAVE Computes(g1, q, U, c, G, pick) /\ Computes(g2, r, U, c, G, pick)
      <3>1. q \in SUBSET S /\ r \in SUBSET r
        OBVIOUS
      <3>2. \A s \in SUBSET r : g1[s] = g2[s]
        BY <3>1, ComputesTheSame
      <3>. QED BY <3>1, <3>2
    <2>1. \A R \in SUBSET T : R # T => Computes(below[R], R, U, c, G, pick)
      BY <1>1
    <2>. HIDE DEF below
    <2>2. \A s \in SUBSET T : s # {} =>
             /\ pick[s] \in S /\ s \ {pick[s]} \in SUBSET T /\ s \ {pick[s]} # T
             /\ Computes(below[s \ {pick[s]}], s \ {pick[s]}, U, c, G, pick)
             /\ below[s \ {pick[s]}][s \ {pick[s]}] \in U
      <3>. TAKE s \in SUBSET T
      <3>. HAVE s # {}
      <3>1. pick[s] \in S /\ s \ {pick[s]} \in SUBSET T /\ s \ {pick[s]} # T
        BY DEF Picks
      <3>2. Computes(below[s \ {pick[s]}], s \ {pick[s]}, U, c, G, pick)
        BY <3>1, <2>1
      <3>. QED BY <3>1, <3>2 DEF Computes
    <2>3. \A s \in SUBSET T : value(s) \in U
      BY <2>2
    <2>4. h \in [SUBSET T -> U]
      BY <2>3
    <2>5. ASSUME NEW s \in SUBSET T, s # {}
          PROVE  h[s \ {pick[s]}] = below[s \ {pick[s]}][s \ {pick[s]}]
      <3>. DEFINE q == s \ {pick[s]}
      <3>1. /\ q \in SUBSET T /\ h[q] = value(q)
            /\ Computes(below[q], q, U, c, G, pick)
        BY <2>2, <2>5
      <3>2. CASE q = {}
        BY <3>1, <3>2 DEF Computes
      <3>3. CASE q # {}
        <4>. DEFINE r == q \ {pick[q]}
        <4>1. Computes(below[r], r, U, c, G, pick) /\ r \in SUBSET q
          BY <3>1, <3>3, <2>2
        <4>2. below[q][r] = below[r][r]
          <5>1. q \in SUBSET T /\ r \in SUBSET q /\ r \in SUBSET r
            BY <3>1
          <5>2. /\ Computes(below[q], q, U, c, G, pick)
                /\ Computes(below[r], r, U, c, G, pick)
            BY <3>1, <4>1
          <5>. HIDE DEF q, r
          <5>3. \A g1, g2 : Computes(g1, q, U, c, G, pick) /\ Computes(g2, r, U, c, G, pick)
                                => g1[r] = g2[r]
            BY <5>1, <2>0
          <5>. QED BY <5>2, <5>3
        <4>3. below[q][q] = G[<<pick[q], below[q][r]>>]
          BY <3>1, <3>3 DEF Computes
        <4>. QED BY <3>1, <3>3, <4>2, <4>3
      <3>. QED BY <3>2, <3>3
    <2>6. Computes(h, T, U, c, G, pick)
      <3>1. \A s \in SUBSET T :
               h[s] = IF s = {} THEN c ELSE G[<<pick[s], h[s \ {pick[s]}]>>]
        <4>. TAKE s \in SUBSET T
        <4>1. h[s] = value(s)
          OBVIOUS
        <4>2. CASE s = {}
          BY <4>1, <4>2
        <4>3. CASE s # {}
          <5>1. h[s \ {pick[s]}] = below[s \ {pick[s]}][s \ {pick[s]}]
            BY <2>5, <4>3
          <5>2. h[s] = G[<<pick[s], below[s \ {pick[s]}][s \ {pick[s]}]>>]
            BY <4>1, <4>3
          <5>. HIDE DEF h
          <5>. QED BY <5>1, <5>2, <4>3
        <4>. QED BY <4>2, <4>3
      <3>. HIDE DEF h
      <3>. QED BY <2>4, <3>1 DEF Computes
    <2>. QED BY <2>6
  <1>2. \A T \in SUBSET S : T \in Good
    <2>. HIDE DEF Good
    <2>. QED BY <1>1, SubsetInduction
  <1>. QED BY <1>2

-----------------------------------------------------------------------------

\* A fold over S that starts in V[{}], and with every element goes from the set
\* of what was reached without it to the set of what is reached with it.
THEOREM FoldReaches ==
    ASSUME NEW S, IsFiniteSet(S), NEW U, NEW V \in [SUBSET S -> SUBSET U],
           NEW c \in V[{}],
           \A T \in SUBSET S : \A x \in T : \A d \in V[T \ {x}] : Op(x, d) \in V[T]
    PROVE  Fold(c, S) \in V[S]
  <1>. DEFINE G == [p \in S \X U |-> IF Op(p[1], p[2]) \in U THEN Op(p[1], p[2]) ELSE c]
              IsFold(h) == h = [s \in SUBSET S |->
                 IF s = {} THEN c
                 ELSE Op(CHOOSE x \in s : TRUE, h[s \ {CHOOSE x \in s : TRUE}])]
              pick == [s \in SUBSET S |-> CHOOSE x \in s : TRUE]
  <1>0. Picks(pick, S) /\ \A s \in SUBSET S : pick[s] = CHOOSE x \in s : TRUE
    BY DEF Picks
  <1>1. c \in U
    OBVIOUS
  <1>2. G \in [S \X U -> U]
    BY <1>1
  <1>3. PICK f : Computes(f, S, U, c, G, pick)
    <2>. HIDE DEF G, pick
    <2>. QED BY <1>0, <1>1, <1>2, Computable
  \* Any function that satisfies the equation for Op or for G stays in V.
  <1>4. ASSUME NEW s \in SUBSET S, s # {}, f[s \ {pick[s]}] \in V[s \ {pick[s]}]
        PROVE  f[s] = Op(pick[s], f[s \ {pick[s]}]) /\ f[s] \in V[s]
    <2>1. pick[s] \in s /\ s \ {pick[s]} \in SUBSET S
      BY <1>0, <1>4 DEF Picks
    <2>2. Op(pick[s], f[s \ {pick[s]}]) \in V[s]
      BY <1>4, <2>1
    <2>3. f[s] = G[<<pick[s], f[s \ {pick[s]}]>>]
      BY <1>3, <1>4 DEF Computes
    <2>4. f[s \ {pick[s]}] \in U /\ Op(pick[s], f[s \ {pick[s]}]) \in U
      BY <1>4, <2>1, <2>2
    <2>. QED BY <2>1, <2>2, <2>3, <2>4
  <1>5. \A s \in SUBSET S : f[s] \in V[s]
    <2>. DEFINE In == {s \in SUBSET S : f[s] \in V[s]}
    <2>1. ASSUME NEW s \in SUBSET S, \A q \in SUBSET s : q # s => q \in In
          PROVE  s \in In
      <3>1. CASE s = {}
        BY <3>1, <1>3 DEF Computes
      <3>2. CASE s # {}
        <4>1. s \ {pick[s]} \in In
          BY <1>0, <2>1, <3>2 DEF Picks
        <4>. QED BY <4>1, <3>2, <1>4
      <3>. QED BY <3>1, <3>2
    <2>2. \A s \in SUBSET S : s \in In
      <3>. HIDE DEF In
      <3>. QED BY <2>1, SubsetInduction
    <2>. QED BY <2>2
  <1>6. ASSUME NEW h, IsFold(h) PROVE h[S] \in V[S]
    <2>. DEFINE Same == {s \in SUBSET S : h[s] = f[s]}
    <2>0. \A s \in SUBSET S :
             h[s] = IF s = {} THEN c ELSE Op(pick[s], h[s \ {pick[s]}])
      BY <1>0, <1>6
    <2>1. ASSUME NEW s \in SUBSET S, \A q \in SUBSET s : q # s => q \in Same
          PROVE  s \in Same
      <3>1. CASE s = {}
        BY <3>1, <2>0, <1>3 DEF Computes
      <3>2. CASE s # {}
        <4>1. s \ {pick[s]} \in Same
          BY <1>0, <2>1, <3>2 DEF Picks
        <4>2. h[s] = Op(pick[s], h[s \ {pick[s]}])
          BY <2>0, <3>2
        <4>3. h[s \ {pick[s]}] = f[s \ {pick[s]}] /\ f[s \ {pick[s]}] \in V[s \ {pick[s]}]
          BY <4>1, <1>5
        <4>4. f[s] = Op(pick[s], f[s \ {pick[s]}])
          BY <4>3, <3>2, <1>4
        <4>. HIDE DEF pick, IsFold, G
        <4>. QED BY <4>2, <4>3, <4>4
      <3>. QED BY <3>1, <3>2
    <2>2. \A s \in SUBSET S : s \in Same
      <3>. HIDE DEF Same
      <3>. QED BY <2>1, SubsetInduction
    <2>. QED BY <2>2, <1>5
  <1>7. IsFold(f)
    <2>1. \A s \in SUBSET S : f[s] = IF s = {} THEN c ELSE Op(pick[s], f[s \ {pick[s]}])
      <3>. TAKE s \in SUBSET S
      <3>1. CASE s = {}
        BY <3>1, <1>3 DEF Computes
      <3>2. CASE s # {}
        BY <3>2, <1>4, <1>5
      <3>. QED BY <3>1, <3>2
    <2>2. f = [s \in SUBSET S |-> f[s]]
      BY <1>3 DEF Computes
    <2>3. \A s \in SUBSET S :
             f[s] = IF s = {} THEN c
                    ELSE Op(CHOOSE x \in s : TRUE, f[s \ {CHOOSE x \in s : TRUE}])
      <3>. TAKE s \in SUBSET S
      <3>1. pick[s] = CHOOSE x \in s : TRUE
        BY <1>0
      <3>2. f[s] = IF s = {} THEN c ELSE Op(pick[s], f[s \ {pick[s]}])
        BY <2>1
      <3>. HIDE DEF pick, G, IsFold
      <3>. QED BY <3>1, <3>2
    <2>. HIDE DEF pick, G
    <2>. QED BY <2>2, <2>3
  <1>8. IsFold(CHOOSE h : IsFold(h))
    <2>1. \E h : IsFold(h)
      BY <1>7
    <2>. HIDE DEF IsFold
    <2>. QED BY <2>1
  <1>. QED BY <1>6, <1>8 DEF Fold

\* A fold that starts in V and whose steps stay in V ends in V.
THEOREM FoldKeeps ==
    ASSUME NEW S, IsFiniteSet(S), NEW V, NEW c \in V,
           \A x \in S : \A d \in V : Op(x, d) \in V
    PROVE  Fold(c, S) \in V
  <1>. DEFINE W == [T \in SUBSET S |-> V]
  <1>1. /\ W \in [SUBSET S -> SUBSET V] /\ c \in W[{}] /\ W[S] = V
        /\ \A T \in SUBSET S : \A x \in T : \A d \in W[T \ {x}] : Op(x, d) \in W[T]
    OBVIOUS
  <1>. HIDE DEF W
  <1>. QED BY <1>1, FoldReaches
=============================================================================

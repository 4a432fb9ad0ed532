------------------------------ MODULE ToolsProofs ------------------------------
(***************************************************************************)
(* A chain through its blocks and the commands of the tools: what is kept   *)
(* between two blocks, that no block meets a state it panics on, and what   *)
(* an export pays.                                                          *)
(***************************************************************************)
EXTENDS LedgerProofs

-----------------------------------------------------------------------------
(* The staking module between two blocks *)

\* Who waits to be unbonded is unbonding, and nobody in jail is ranked.
QueueRight(c) == \A v \in c.queue : c.vals[v].status = "Unbonding"
PowerRight(c) == \A v \in c.power : ~c.vals[v].jailed

Signed(c) == \A k \in DOMAIN c.signing : c.signing[k] \in Nat

\* The validator of a testnet in place: it is alone, not in jail, and bonded as long
\* as it has tokens.
Lone(c) ==
    /\ \A v, w \in Existing(c) : v = w
    /\ \A v \in Existing(c) : ~c.vals[v].jailed /\ (IsBonded(c, v) \/ c.vals[v].tokens = 0)

\* The pools have what is taken from them.  The bonded pool of a testnet in place
\* need not have the tokens of its validator.
Backed(c, test) ==
    /\ c.bonded >= 0 /\ NotBondedSurplus(c) >= 0
    /\ ~test => BondedSurplus(c) >= 0

Orderly(c, test) ==
    /\ QueueRight(c) /\ PowerRight(c) /\ Signed(c) /\ c.bonded >= 0
    /\ test => Lone(c)

Healthy(c, test) == Orderly(c, test) /\ Backed(c, test)

\* What a pool holds suffices for each validator and each entry.
LEMMA BondedTokensSuffice ==
    ASSUME NEW c \in States, BondedSurplus(c) >= 0, IsFiniteSet(c.ubds)
    PROVE  c.bonded >= 0 /\ \A v \in Operators : IsBonded(c, v) => c.vals[v].tokens <= c.bonded
  <1>. DEFINE f == [v \in Operators |-> IF IsBonded(c, v) THEN c.vals[v].tokens ELSE 0]
  <1>1. f \in [Operators -> Nat]
    BY DEF States, Vals
  <1>2. SumFunction(f) \in Nat /\ \A v \in Operators : f[v] <= SumFunction(f)
    <2>. HIDE DEF f
    <2>. QED BY <1>1, ChainAssumption, SumOfNaturals
  <1>3. BondedTokens(c) = SumFunction(f)
    BY DEF BondedTokens
  <1>4. c.bonded \in Int
    BY DEF States
  <1>5. SumFunction(f) <= c.bonded
    <2>. HIDE DEF f
    <2>. QED BY <1>2, <1>3, <1>4 DEF BondedSurplus
  <1>6. \A v \in Operators : IsBonded(c, v) => f[v] = c.vals[v].tokens
    OBVIOUS
  <1>7. \A v \in Operators : f[v] \in Nat
    BY <1>1
  <1>. HIDE DEF f
  <1>. QED BY <1>2, <1>4, <1>5, <1>6, <1>7

\* The same of the other pool.
LEMMA NotBondedTokensSuffice ==
    ASSUME NEW c \in States, NotBondedSurplus(c) >= 0, IsFiniteSet(c.ubds)
    PROVE  /\ c.notBonded >= 0
           /\ \A v \in Operators : ~IsBonded(c, v) => c.vals[v].tokens <= c.notBonded
           /\ \A u \in c.ubds : u.amount <= c.notBonded
  <1>. DEFINE f == [v \in Operators |-> IF IsBonded(c, v) THEN 0 ELSE c.vals[v].tokens]
              g == [u \in c.ubds |-> u.amount]
  <1>1. f \in [Operators -> Nat]
    BY DEF States, Vals
  <1>2. g \in [c.ubds -> Nat]
    BY DEF States, Entries
  <1>3. SumFunction(f) \in Nat /\ \A v \in Operators : f[v] <= SumFunction(f)
    <2>. HIDE DEF f
    <2>. QED BY <1>1, ChainAssumption, SumOfNaturals
  <1>4. SumFunction(g) \in Nat /\ \A u \in c.ubds : g[u] <= SumFunction(g)
    <2>. HIDE DEF g
    <2>. QED BY <1>2, SumOfNaturals
  <1>5. NotBondedTokens(c) = SumFunction(f) + SumFunction(g)
    BY DEF NotBondedTokens
  <1>6. /\ \A v \in Operators : ~IsBonded(c, v) => f[v] = c.vals[v].tokens
        /\ \A u \in c.ubds : g[u] = u.amount
    OBVIOUS
  <1>7. c.notBonded \in Int
    BY DEF States
  <1>8. (\A v \in Operators : f[v] \in Nat) /\ \A u \in c.ubds : g[u] \in Nat
    BY <1>1, <1>2
  <1>. HIDE DEF f, g
  <1>9. SumFunction(f) + SumFunction(g) <= c.notBonded
    BY <1>3, <1>4, <1>5, <1>7 DEF NotBondedSurplus
  <1>. QED BY <1>3, <1>4, <1>6, <1>7, <1>8, <1>9

\* A validator is bonded with tokens the other pool has.
LEMMA BondGoesWell ==
    ASSUME NEW c \in States, NEW v \in Operators, ~c.panic,
           IsBonded(c, v) \/ c.vals[v].tokens <= c.notBonded
    PROVE  LET d == Bond(c, v) IN
           /\ ~d.panic /\ (QueueRight(c) => QueueRight(d)) /\ c.bonded <= d.bonded
           /\ IsBonded(c, v) => d = c
  <1>. DEFINE e == [c EXCEPT !.vals[v].status = "Bonded", !.queue = @ \ {v}]
              t == c.vals[v].tokens
              b == Burn(e, FALSE, t)
              d == Move(b, TRUE, t)
  <1>1. CASE IsBonded(c, v)
    <2>1. Bond(c, v) = c /\ c.bonded <= c.bonded
      BY <1>1 DEF Bond, States
    <2>. QED BY <2>1
  <1>2. CASE ~IsBonded(c, v)
    <2>1. Bond(c, v) = d
      BY <1>2 DEF Bond
    <2>2. e \in States /\ ~e.panic /\ e.notBonded = c.notBonded /\ e.bonded = c.bonded
      <3>. DEFINE x == [c.vals[v] EXCEPT !.status = "Bonded"]
      <3>1. x \in Vals
        BY DEF States, Vals, Statuses
      <3>2. e = [c EXCEPT !.vals[v] = x, !.queue = @ \ {v}]
        BY DEF States
      <3>. HIDE DEF x, e
      <3>. QED BY <3>1, <3>2 DEF States
    <2>3. t \in Nat /\ t \in Int /\ c.bonded \in Int
      BY DEF States, Vals
    <2>4. e.queue = c.queue \ {v} /\ \A w \in Operators \ {v} : e.vals[w] = c.vals[w]
      BY DEF States
    <2>. HIDE DEF e, t
    <2>5. b \in States /\ SameButPools(e, b) /\ ~b.panic /\ b.bonded = e.bonded
      <3>1. t <= e.notBonded
        BY <1>2, <2>2 DEF t
      <3>2. e.bonded - 0 = e.bonded
        BY <2>2, <2>3
      <3>. QED BY <2>2, <2>3, <3>1, <3>2, BurnSucceeds
    <2>. HIDE DEF b
    <2>6. d \in States /\ OnlyBalances(b, d) /\ d.bonded = b.bonded + t
      BY <2>3, <2>5, MovesBonded
    <2>. HIDE DEF d
    <2>7. ~d.panic /\ c.bonded <= d.bonded /\ d.queue = e.queue /\ d.vals = e.vals
      BY <2>2, <2>3, <2>5, <2>6 DEF OnlyBalances, SameButPools
    <2>8. QueueRight(c) => QueueRight(d)
      BY <2>4, <2>7 DEF QueueRight, States
    <2>. QED BY <1>2, <2>1, <2>7, <2>8
  <1>. QED BY <1>1, <1>2

\* A validator begins to unbond with tokens the bonded pool has.
LEMMA BeginUnbondingGoesWell ==
    ASSUME NEW c \in States, NEW v \in Operators, ~c.panic, IsBonded(c, v),
           c.vals[v].tokens <= c.bonded
    PROVE  LET d == BeginUnbonding(c, v) IN
           ~d.panic /\ (QueueRight(c) => QueueRight(d)) /\ d.bonded >= 0
  <1>. DEFINE x == [c.vals[v] EXCEPT !.status = "Unbonding", !.unbondingHeight = c.height]
              e == [c EXCEPT !.vals[v] = x, !.queue = @ \cup {v}]
              t == c.vals[v].tokens
              b == Burn(e, TRUE, t)
              d == Move(b, FALSE, t)
  <1>1. BeginUnbonding(c, v) = d
    BY DEF BeginUnbonding
  <1>2. x \in Vals /\ x.status = "Unbonding" /\ c.vals[v] \in Vals
    BY DEF States, Vals, Statuses
  <1>. HIDE DEF x
  <1>3. e \in States /\ ~e.panic /\ e.bonded = c.bonded
        /\ e.queue = c.queue \cup {v} /\ e.vals[v] = x
        /\ \A w \in Operators \ {v} : e.vals[w] = c.vals[w]
    BY <1>2 DEF States
  <1>4. t \in Nat /\ t \in Int /\ c.bonded \in Int
    BY <1>2 DEF States, Vals
  <1>. HIDE DEF e
  <1>5. b \in States /\ SameButPools(e, b) /\ ~b.panic /\ b.bonded = e.bonded - t
    <2>1. t <= e.bonded
      BY <1>3
    <2>. HIDE DEF t
    <2>. QED BY <1>3, <1>4, <2>1, BurnSucceeds
  <1>. HIDE DEF b
  <1>6. d \in States /\ OnlyBalances(b, d) /\ d.bonded = b.bonded
    BY <1>4, <1>5, MovesFree
  <1>. HIDE DEF d
  <1>7. ~d.panic /\ d.bonded >= 0 /\ d.queue = e.queue /\ d.vals = e.vals
    BY <1>3, <1>4, <1>5, <1>6 DEF OnlyBalances, SameButPools
  <1>8. QueueRight(c) => QueueRight(d)
    BY <1>2, <1>3, <1>7 DEF QueueRight, States
  <1>. QED BY <1>1, <1>7, <1>8

\* While the active set is updated: the tokens are in the pools, and those who are
\* bonded stay so but for the validators in T.
Updating(c, s, test, T) ==
    /\ Keeps(c, s) /\ ~s.panic /\ SameButStatus(c, s) /\ QueueRight(s) /\ s.bonded >= 0
    /\ \A v \in Operators : IsBonded(c, v) /\ v \notin T => IsBonded(s, v)

\* Then each pool has the tokens of each validator it is for.
LEMMA PoolsSuffice ==
    ASSUME NEW c \in States, NEW s, NEW test \in BOOLEAN, NEW T, Whole(c), Backed(c, test),
           Updating(c, s, test, T)
    PROVE  /\ Whole(s)
           /\ \A v \in Operators : ~IsBonded(s, v) => c.vals[v].tokens <= s.notBonded
           /\ ~test => \A v \in Operators : IsBonded(s, v) => c.vals[v].tokens <= s.bonded
  <1>1. Whole(s) /\ SameStakes(c, s) /\ s \in States
    BY DEF Updating, Keeps
  <1>2. IsFiniteSet(s.ubds)
    BY <1>1 DEF Whole
  <1>3. \A v \in Operators : s.vals[v].tokens = c.vals[v].tokens
    BY DEF Updating, SameButStatus, SameButActive
  <1>4. \A v \in Operators : ~IsBonded(s, v) => s.vals[v].tokens <= s.notBonded
    BY <1>1, <1>2, NotBondedTokensSuffice DEF Backed, SameStakes
  <1>5. ~test => \A v \in Operators : IsBonded(s, v) => s.vals[v].tokens <= s.bonded
    BY <1>1, <1>2, BondedTokensSuffice DEF Backed, SameStakes
  <1>. QED BY <1>1, <1>3, <1>4, <1>5

\* The active set is updated without a panic when those it reaches are there and
\* not in jail, and in a testnet in place nobody leaves it who has tokens.
LEMMA ActiveSetUpdates ==
    ASSUME NEW c \in States, ~c.panic, NEW test \in BOOLEAN,
           Whole(c), LastIsBonded(c), QueueRight(c), Backed(c, test),
           \A v \in Reached(c) : ~c.vals[v].jailed,
           test => \A v \in c.last \ Top(c) : c.vals[v].tokens = 0
    PROVE  LET d == ApplyValidatorSetUpdates(c) IN
           /\ ~d.panic /\ QueueRight(d) /\ Backed(d, test)
           /\ \A v \in Operators : IsBonded(c, v) /\ v \notin c.last \ Top(c) => IsBonded(d, v)
  <1>. DEFINE top == Top(c)
              b == ForAll(Bond, c, top)
              out == c.last \ top
              e == ForAll(BeginUnbonding, b, out)
              d == ApplyValidatorSetUpdates(c)
  <1>1. Reached(c) \subseteq c.power /\ top \subseteq Reached(c)
    BY ReachedInPower DEF Top
  <1>2. top \in SUBSET Operators /\ out \in SUBSET Operators
    BY <1>1 DEF States
  <1>3. IsFiniteSet(top) /\ IsFiniteSet(out)
    BY <1>2, ChainAssumption, FS_Subset
  <1>4. \A v \in Reached(c) : Exists(c, v) /\ ~c.vals[v].jailed
    BY <1>1 DEF Whole, Existing
  <1>5. d = IF e.panic THEN e ELSE [e EXCEPT !.last = top]
    BY <1>4 DEF ApplyValidatorSetUpdates, Then, Top
  <1>6. Keeps(c, d) /\ (~d.panic => SameButActive(c, d))
    BY Applies
  <1>. DEFINE V == {s \in States : Updating(c, s, test, {})}
  <1>7. Bonding!Fold(c, top) \in V
    <2>1. Bonding!IsFiniteSet(top)
      BY <1>3 DEF IsFiniteSet, Bonding!IsFiniteSet
    <2>2. c \in V
      <3>1. Keeps(c, c) /\ SameButStatus(c, c)
        BY DistributesNothing, DistributesKeeps DEF SameButStatus, SameButActive
      <3>. QED BY <3>1 DEF Updating, Backed
    <2>3. ASSUME NEW x \in top, NEW s \in V PROVE BondStep(x, s) \in V
      <3>. DEFINE r == Bond(s, x)
      <3>1. s \in States /\ Updating(c, s, test, {}) /\ x \in Operators
        BY <1>2
      <3>2. ~s.panic /\ Keeps(c, s) /\ SameButStatus(c, s) /\ QueueRight(s) /\ s.bonded >= 0
        BY <3>1 DEF Updating
      <3>3. Exists(s, x) /\ s.vals[x].tokens = c.vals[x].tokens
        BY <1>1, <1>4, <3>1, <3>2 DEF SameButStatus, SameButActive
      <3>4. IsBonded(s, x) \/ s.vals[x].tokens <= s.notBonded
        BY <3>1, <3>3, PoolsSuffice
      <3>5. ~r.panic /\ QueueRight(r) /\ s.bonded <= r.bonded
        BY <3>1, <3>2, <3>4, BondGoesWell
      <3>6. /\ Keeps(s, r) /\ SameButStatus(s, r) /\ IsBonded(r, x)
            /\ \A w \in Operators \ {x} : r.vals[w] = s.vals[w]
        BY <3>1, <3>3, BondKeeps
      <3>7. BondStep(x, s) = r
        BY <3>2 DEF BondStep, Then
      <3>. HIDE DEF r
      <3>8. r \in States /\ r.bonded >= 0
        <4>1. r \in States
          BY <3>6 DEF Keeps
        <4>2. r.bonded \in Int /\ s.bonded \in Int
          BY <3>1, <4>1 DEF States
        <4>. QED BY <3>2, <3>5, <4>1, <4>2
      <3>9. Keeps(c, r) /\ SameButStatus(c, r)
        BY <3>2, <3>6, KeepsTwice, SameButStatusTwice DEF SameTwice
      <3>10. \A v \in Operators : IsBonded(c, v) => IsBonded(r, v)
        BY <3>1, <3>6 DEF Updating, IsBonded
      <3>. QED BY <3>5, <3>7, <3>8, <3>9, <3>10 DEF Updating
    <2>. HIDE DEF V
    <2>. QED BY <2>1, <2>2, <2>3, Bonding!FoldKeeps
  <1>8. b \in States /\ Updating(c, b, test, {})
    BY <1>7, BondIsAFold
  <1>. HIDE DEF b, V
  <1>. DEFINE U(T) == {s \in States : Updating(c, s, test, T)}
              W == [T \in SUBSET out |-> U(T)]
  <1>9. Unbonding!Fold(b, out) \in U(out)
    <2>1. Unbonding!IsFiniteSet(out)
      BY <1>3 DEF IsFiniteSet, Unbonding!IsFiniteSet
    <2>2. W \in [SUBSET out -> SUBSET States] /\ W[out] = U(out)
      OBVIOUS
    <2>3. b \in W[{}]
      BY <1>8
    <2>4. ASSUME NEW T \in SUBSET out, NEW x \in T, NEW s \in W[T \ {x}]
          PROVE  UnbondStep(x, s) \in W[T]
      <3>. DEFINE r == BeginUnbonding(s, x)
      <3>0. W[T] = U(T) /\ W[T \ {x}] = U(T \ {x})
        OBVIOUS
      <3>. HIDE DEF W
      <3>1. s \in States /\ Updating(c, s, test, T \ {x}) /\ x \in Operators /\ x \in c.last
        BY <1>2, <3>0
      <3>2. ~s.panic /\ Keeps(c, s) /\ SameButStatus(c, s) /\ QueueRight(s) /\ s.bonded >= 0
        BY <3>1 DEF Updating
      <3>3. IsBonded(s, x) /\ s.vals[x].tokens = c.vals[x].tokens
        BY <3>1, <3>2 DEF LastIsBonded, Updating, SameButStatus, SameButActive
      <3>4. s.vals[x].tokens <= s.bonded
        <4>1. CASE test
          <5>1. s.vals[x].tokens = 0 /\ s.bonded \in Int
            BY <3>1, <3>3, <4>1 DEF States
          <5>. QED BY <3>2, <5>1
        <4>2. CASE ~test
          BY <3>1, <3>3, <4>2, PoolsSuffice
        <4>. QED BY <4>1, <4>2
      <3>5. ~r.panic /\ QueueRight(r) /\ r.bonded >= 0
        BY <3>1, <3>2, <3>3, <3>4, BeginUnbondingGoesWell
      <3>6. /\ Keeps(s, r) /\ SameButStatus(s, r)
            /\ \A w \in Operators \ {x} : r.vals[w] = s.vals[w]
        BY <3>1, BeginUnbondingKeeps
      <3>7. UnbondStep(x, s) = r
        BY <3>2 DEF UnbondStep, Then
      <3>. HIDE DEF r
      <3>8. Keeps(c, r) /\ SameButStatus(c, r) /\ r \in States
        BY <3>2, <3>6, KeepsTwice, SameButStatusTwice DEF SameTwice, Keeps
      <3>9. \A v \in Operators : IsBonded(c, v) /\ v \notin T => IsBonded(r, v)
        BY <3>1, <3>6 DEF Updating, IsBonded
      <3>. QED BY <3>0, <3>5, <3>7, <3>8, <3>9 DEF Updating
    <2>. HIDE DEF W, U
    <2>5. \A T \in SUBSET out : \A x \in T : \A s \in W[T \ {x}] : UnbondStep(x, s) \in W[T]
      BY <2>4
    <2>6. Unbonding!Fold(b, out) \in W[out]
      BY <2>1, <2>2, <2>3, <2>5, Unbonding!FoldReaches
    <2>. QED BY <2>2, <2>6
  <1>10. e \in States /\ Updating(c, e, test, out)
    BY <1>9, UnbondIsAFold
  <1>. HIDE DEF e, W, U
  <1>11. d = [e EXCEPT !.last = top]
    BY <1>5, <1>10 DEF Updating
  <1>12. d.panic = e.panic /\ d.queue = e.queue /\ d.vals = e.vals /\ d.bonded = e.bonded
    BY <1>10, <1>11 DEF States
  <1>. HIDE DEF d
  <1>13. ~d.panic /\ QueueRight(d) /\ d.bonded >= 0
    BY <1>10, <1>12 DEF Updating, QueueRight
  <1>14. Backed(d, test)
    BY <1>6, <1>13 DEF Keeps, SameStakes, Backed
  <1>15. \A v \in Operators : IsBonded(c, v) /\ v \notin out => IsBonded(d, v)
    BY <1>10, <1>12 DEF Updating, IsBonded
  <1>. QED BY <1>13, <1>14, <1>15 DEF d

\* The end blocker of a healthy state.
LEMMA EndBlockGoesWell ==
    ASSUME NEW c \in States, ~c.panic, NEW test \in BOOLEAN,
           Whole(c), LastIsBonded(c), Healthy(c, test)
    PROVE  LET d == EndBlock(c) IN
           ~d.panic /\ Healthy(d, test) /\ SameButActive(c, d) /\ d.last = Top(c)
  <1>. DEFINE d == ApplyValidatorSetUpdates(c)
  <1>1. \A v \in Reached(c) : ~c.vals[v].jailed
    BY ReachedInPower DEF Healthy, Orderly, PowerRight
  <1>2. test => \A v \in c.last \ Top(c) : c.vals[v].tokens = 0
    <2>1. SUFFICES ASSUME test, NEW v \in c.last, v \notin Top(c), c.vals[v].tokens # 0
                   PROVE  FALSE
      OBVIOUS
    <2>2. v \in Operators /\ c.vals[v].tokens \in Nat
      BY DEF States, Vals
    <2>3. v \in Existing(c) /\ ~c.vals[v].jailed
      BY <2>1, <2>2 DEF LastIsBonded, IsBonded, Existing, Exists, Healthy, Orderly, Lone
    <2>4. v \in c.power
      BY <2>3 DEF Whole
    <2>5. v \in Reached(c)
      BY <2>1, <2>2, <2>4 DEF Reached
    <2>. QED BY <2>1, <2>2, <2>5 DEF Top
  <1>3. /\ ~d.panic /\ QueueRight(d) /\ Backed(d, test)
        /\ \A v \in Operators : IsBonded(c, v) /\ v \notin c.last \ Top(c) => IsBonded(d, v)
    BY <1>1, <1>2, ActiveSetUpdates DEF Healthy, Orderly
  <1>4. SameButActive(c, d) /\ d.last = Top(c)
    BY <1>3, Applies
  <1>. HIDE DEF d
  <1>5. PowerRight(d) /\ Signed(d)
    <2>1. c.power \subseteq Operators
      BY DEF States
    <2>. QED BY <1>4, <2>1 DEF SameButActive, Healthy, Orderly, PowerRight, Signed
  <1>6. test => Lone(d)
    <2>1. SUFFICES ASSUME test PROVE Lone(d)
      OBVIOUS
    <2>2. Lone(c)
      BY <2>1 DEF Healthy, Orderly
    <2>3. Existing(d) = Existing(c)
      BY <1>4 DEF SameButActive, Existing
    <2>4. ASSUME NEW v \in Existing(d)
          PROVE  ~d.vals[v].jailed /\ (IsBonded(d, v) \/ d.vals[v].tokens = 0)
      BY <1>2, <1>3, <1>4, <2>1, <2>2, <2>3, <2>4 DEF Lone, SameButActive, Existing
    <2>. QED BY <2>2, <2>3, <2>4 DEF Lone
  <1>. QED BY <1>3, <1>4, <1>5, <1>6 DEF EndBlock, d, Healthy, Orderly, Backed

\* It moves no ledger.
LEMMA EndBlockKept ==
    ASSUME NEW c \in States, NEW d, SameButActive(c, d), d \in States, NEW R, Kept(c, R)
    PROVE  Kept(d, R)
  <1>1. c.height \in Nat
    BY DEF States
  <1>. QED BY <1>1, KeptBeside DEF SameButActive, SameBeside

-----------------------------------------------------------------------------
(* Transactions leave the staking module in order *)

\* What the module accounts have stays enough.
LEMMA BackedStays ==
    ASSUME NEW c, NEW d, NEW test, Keeps(c, d), Whole(c), ~d.panic,
           Healthy(c, test), Orderly(d, test)
    PROVE  Healthy(d, test)
  BY DEF Keeps, SameStakes, Healthy, Orderly, Backed

\* The validators are as many, in the same status, and as jailed as they were.
SameRoles(c, d) ==
    /\ d.power = c.power /\ d.queue = c.queue /\ d.signing = c.signing
    /\ \A w \in Operators : /\ d.vals[w].status = c.vals[w].status
                            /\ d.vals[w].jailed = c.vals[w].jailed
                            /\ IsBonded(c, w) \/ d.vals[w].tokens <= c.vals[w].tokens

\* Who keeps status, jail and tokens keeps the order.
LEMMA OrderStays ==
    ASSUME NEW c \in States, NEW d \in States, NEW test, Orderly(c, test), SameRoles(c, d),
           d.bonded >= 0
    PROVE  Orderly(d, test)
  <1>1. QueueRight(d) /\ PowerRight(d) /\ Signed(d)
    <2>1. c.power \subseteq Operators /\ c.queue \subseteq Operators
      BY DEF States
    <2>. QED BY <2>1 DEF SameRoles, Orderly, QueueRight, PowerRight, Signed
  <1>2. ASSUME test PROVE Lone(d)
    <2>1. Lone(c) /\ Existing(d) = Existing(c) /\ Existing(c) \subseteq Operators
      BY <1>2 DEF Orderly, SameRoles, Existing, Exists
    <2>2. ASSUME NEW v \in Existing(d)
          PROVE  ~d.vals[v].jailed /\ (IsBonded(d, v) \/ d.vals[v].tokens = 0)
      <3>1. v \in Operators /\ d.vals[v].tokens \in Nat /\ c.vals[v].tokens \in Nat
        BY <2>1 DEF States, Vals
      <3>. QED BY <2>1, <3>1 DEF Lone, SameRoles, IsBonded
    <2>. QED BY <2>1, <2>2 DEF Lone
  <1>. QED BY <1>1, <1>2 DEF Orderly

\* A call of the distribution keeper.
LEMMA OrderOutlasts ==
    ASSUME NEW c \in States, NEW d \in States, NEW test, SameStaking(c, d), Orderly(c, test)
    PROVE  Orderly(d, test)
  <1>1. \A w \in Operators : c.vals[w].tokens <= c.vals[w].tokens
    BY DEF States, Vals
  <1>2. SameRoles(c, d)
    BY <1>1 DEF SameStaking, SameRoles
  <1>. QED BY <1>2, OrderStays DEF SameStaking, Orderly

\* A burn that does not panic was covered.
LEMMA BurnIsCovered ==
    ASSUME NEW c \in States, NEW b \in BOOLEAN, NEW m \in Nat, c.bonded >= 0,
           ~Burn(c, b, m).panic
    PROVE  Burn(c, b, m).bonded >= 0 /\ ~c.panic
  <1>1. c.bonded \in Int /\ c.notBonded \in Int
    BY DEF States
  <1>2. ~((IF b THEN c.bonded ELSE c.notBonded) < m)
    BY PanicDistributes DEF Burn
  <1>3. ~c.panic
    BY Burns
  <1>4. Burn(c, b, m).bonded = c.bonded - (IF b THEN m ELSE 0)
    BY <1>1, <1>2, <1>3, BurnSucceeds
  <1>. QED BY <1>1, <1>2, <1>3, <1>4

\* A validator that waits for nothing is removed.
LEMMA RemovalIsOrderly ==
    ASSUME NEW c \in States, NEW v \in Operators, NEW test, Orderly(c, test),
           c.vals[v].status # "Unbonding", ~RemoveValidator(c, v).panic
    PROVE  LET d == RemoveValidator(c, v) IN d \in States => Orderly(d, test)
  <1>. DEFINE a == WithdrawValidatorCommission(c, v)
              d == [a EXCEPT !.vals[v] = NoValidator, !.power = @ \ {v},
                             !.pool = @ + a.dist[v].outstanding, !.dist[v] = NoRecords]
  <1>1. a \in States /\ SameStaking(c, a)
    BY CommissionDistributes DEF Distributes
  <1>. HIDE DEF a
  <1>2. RemoveValidator(c, v) = IF c.vals[v].tokens > 0 THEN Panic(c)
                                ELSE IF a.panic THEN a ELSE d
    BY DEF RemoveValidator, Then, a
  <1>3. Panic(c).panic
    BY PanicDistributes
  <1>4. RemoveValidator(c, v) = d
    BY <1>2, <1>3
  <1>5. /\ d.vals = [a.vals EXCEPT ![v] = NoValidator] /\ d.power = a.power \ {v}
        /\ d.queue = a.queue /\ d.signing = a.signing /\ d.bonded = a.bonded
    BY <1>1 DEF States
  <1>. HIDE DEF d
  <1>6. /\ d.power = c.power \ {v} /\ d.queue = c.queue /\ d.signing = c.signing
        /\ d.bonded = c.bonded /\ d.vals[v] = NoValidator
        /\ \A w \in Operators \ {v} : d.vals[w] = c.vals[w]
    BY <1>1, <1>5 DEF SameStaking, States
  <1>7. QueueRight(d) /\ PowerRight(d) /\ Signed(d) /\ d.bonded >= 0
    <2>1. c.power \subseteq Operators /\ c.queue \subseteq Operators
      BY DEF States
    <2>. QED BY <1>6, <2>1 DEF Orderly, QueueRight, PowerRight, Signed
  <1>8. ASSUME test PROVE Lone(d)
    <2>1. Existing(d) \subseteq Existing(c) \ {v}
      BY <1>6 DEF Existing, Exists, NoValidator
    <2>2. \A w \in Operators \ {v} : IsBonded(d, w) <=> IsBonded(c, w)
      BY <1>6 DEF IsBonded
    <2>3. Existing(c) \subseteq Operators
      BY DEF Existing
    <2>. QED BY <1>6, <1>8, <2>1, <2>2, <2>3 DEF Orderly, Lone
  <1>. QED BY <1>4, <1>7, <1>8 DEF Orderly

\* A delegation; that of a testnet goes to a bonded validator.
LEMMA DelegationIsOrderly ==
    ASSUME NEW c \in States, NEW x \in Delegators, NEW v \in Operators, NEW m \in Nat, NEW test,
           Orderly(c, test), Exists(c, v), test => IsBonded(c, v), ~Delegate(c, x, v, m).panic
    PROVE  Orderly(Delegate(c, x, v, m), test)
  <1>. DEFINE a == IF c.dels[x][v] > 0 THEN PayDelegation(c, x, v)
                   ELSE IncrementValidatorPeriod(c, v)
              b == Move(a, IsBonded(c, v), m)
              k == SharesFromTokens(c, v, m)
              e == AddShares(b, x, v, m, k)
              d == InitializeDelegation(e, x, v)
  <1>1. Distributes(c, a)
    BY PayDelegationDistributes, PeriodDistributes
  <1>2. Delegate(c, x, v, m) = IF InvalidExRate(c, v) THEN Panic(c) ELSE IF a.panic THEN a ELSE d
    BY DEF Delegate, Then
  <1>3. Panic(c).panic
    BY PanicDistributes
  <1>. HIDE DEF a, d
  <1>4. ~InvalidExRate(c, v) /\ ~a.panic /\ Delegate(c, x, v, m) = d
    BY <1>2, <1>3
  <1>5. a \in States /\ SameStaking(c, a)
    BY <1>1 DEF Distributes
  <1>6. /\ b \in States /\ OnlyBalances(a, b) /\ b.bonded \in Int /\ a.bonded \in Int
        /\ b.bonded = a.bonded + m \/ b.bonded = a.bonded
    <2>1. IsBonded(c, v) \in BOOLEAN /\ m \in Int
      BY DEF IsBonded
    <2>2. /\ b \in States /\ OnlyBalances(a, b)
          /\ IsBonded(c, v) => b.bonded = a.bonded + m
          /\ ~IsBonded(c, v) => b.bonded = a.bonded
      BY <1>5, <2>1, Moves
    <2>3. a.bonded \in Int /\ b.bonded \in Int
      BY <1>5, <2>2 DEF States
    <2>. QED BY <2>2, <2>3
  <1>. HIDE DEF b
  <1>7. b.vals = c.vals /\ b.dels = c.dels
    BY <1>5, <1>6 DEF OnlyBalances, SameButPools, SameStaking
  <1>8. k \in Nat
    BY <1>4, SharesAreWhole
  <1>. HIDE DEF k
  <1>9. SharesAdded(b, e, v, x, m, k)
    <2>1. b.vals[v].tokens \in Nat /\ b.dels[x][v] \in Nat /\ m \in Int /\ k \in Int
      BY <1>6, <1>8 DEF States, Vals
    <2>2. b.vals[v].tokens + m \in Nat /\ b.dels[x][v] + k \in Nat
      BY <1>8, <2>1
    <2>. QED BY <1>6, <2>1, <2>2, SharesAdd
  <1>. HIDE DEF e
  <1>10. e \in States /\ SameButShares(b, e)
    BY <1>9 DEF SharesAdded
  <1>11. d \in States /\ SameStaking(e, d)
    BY <1>10, InitializeDelegationDistributes DEF Distributes, d
  <1>12. SharesAdded(b, d, v, x, m, k) \/ d.vals = e.vals
    BY <1>11 DEF SameStaking
  <1>13. /\ d.vals[v].tokens = c.vals[v].tokens + m
         /\ d.vals[v].status = c.vals[v].status /\ d.vals[v].jailed = c.vals[v].jailed
         /\ \A w \in Operators \ {v} : d.vals[w] = c.vals[w]
    BY <1>7, <1>9, <1>11 DEF SharesAdded, SameStaking
  <1>14. /\ d.power = c.power /\ d.queue = c.queue /\ d.signing = c.signing /\ d.bonded >= 0
    <2>1. d.power = c.power /\ d.queue = c.queue /\ d.signing = c.signing /\ d.bonded = b.bonded
      BY <1>5, <1>6, <1>10, <1>11 DEF SameStaking, OnlyBalances, SameButPools, SameButShares
    <2>2. a.bonded >= 0
      BY <1>5 DEF SameStaking, Orderly
    <2>. QED BY <1>6, <2>1, <2>2
  <1>15. QueueRight(d) /\ PowerRight(d) /\ Signed(d)
    <2>1. c.power \subseteq Operators /\ c.queue \subseteq Operators
      BY DEF States
    <2>. QED BY <1>13, <1>14, <2>1 DEF Orderly, QueueRight, PowerRight, Signed
  <1>16. ASSUME test PROVE Lone(d)
    <2>1. IsBonded(c, v) /\ Lone(c)
      BY <1>16 DEF Orderly
    <2>2. Existing(d) = Existing(c) /\ Existing(c) \subseteq Operators
      BY <1>13 DEF Existing, Exists
    <2>3. ASSUME NEW w \in Existing(d)
          PROVE  ~d.vals[w].jailed /\ (IsBonded(d, w) \/ d.vals[w].tokens = 0)
      <3>1. CASE w = v
        BY <1>13, <2>1, <2>2, <3>1 DEF Lone, IsBonded
      <3>2. CASE w # v
        BY <1>13, <2>1, <2>2, <3>2 DEF Lone, IsBonded
      <3>. QED BY <3>1, <3>2
    <2>. QED BY <2>1, <2>2, <2>3 DEF Lone
  <1>. QED BY <1>4, <1>14, <1>15, <1>16 DEF Orderly

\* A whole delegation is taken out, and its validator removed if it was the last.
LEMMA UnbondIsOrderly ==
    ASSUME NEW c \in States, NEW x \in Delegators, NEW v \in Operators, NEW test,
           Orderly(c, test), ~Unbond(c, x, v).panic
    PROVE  /\ Orderly(Unbond(c, x, v), test)
           /\ \A w \in Operators \ {v} : Unbond(c, x, v).vals[w] = c.vals[w]
  <1>. DEFINE a == PayDelegation(c, x, v)
              n == c.dels[x][v]
              m == TokensFromShares(c, v, n)
              e == AddShares(a, x, v, -m, -n)
              b == Burn(e, IsBonded(c, v), m)
              d == Unbond(c, x, v)
  <1>1. d = LET f == IF a.panic THEN a ELSE IF m > c.vals[v].tokens THEN Panic(c) ELSE b
            IN  IF f.panic THEN f
                ELSE IF f.vals[v].shares = 0 /\ f.vals[v].status = "Unbonded"
                     THEN RemoveValidator(f, v) ELSE f
    BY DEF Unbond, Then
  <1>2. Panic(c).panic
    BY PanicDistributes
  <1>. HIDE DEF d
  <1>3. /\ ~a.panic /\ ~(m > c.vals[v].tokens) /\ ~b.panic
        /\ d = IF b.vals[v].shares = 0 /\ b.vals[v].status = "Unbonded"
               THEN RemoveValidator(b, v) ELSE b
    <2>1. ~d.panic
      BY DEF d
    <2>. HIDE DEF a, b
    <2>. QED BY <1>1, <1>2, <2>1
  <1>4. a \in States /\ SameStaking(c, a) /\ d \in States
    BY PayDelegationDistributes, UnbondKeeps DEF Distributes, Keeps, d
  <1>. HIDE DEF a
  <1>5. n \in Nat /\ m \in Nat /\ c.vals[v].tokens \in Nat
    <2>1. n \in Nat /\ c.vals[v].tokens \in Nat
      BY DEF States, Vals
    <2>. HIDE DEF n
    <2>. QED BY <2>1, TokensAreNatural
  <1>6. SharesAdded(a, e, v, x, -m, -n)
    <2>1. a.vals[v].tokens = c.vals[v].tokens /\ a.dels[x][v] = n
      BY <1>4 DEF SameStaking
    <2>. HIDE DEF m, n
    <2>2. a.vals[v].tokens + -m \in Nat /\ a.dels[x][v] + -n \in Nat /\ -m \in Int /\ -n \in Int
      BY <1>3, <1>5, <2>1
    <2>. QED BY <1>4, <2>2, SharesAdd
  <1>. HIDE DEF e, m
  <1>7. e \in States /\ SameButShares(a, e) /\ e.bonded >= 0
    BY <1>4, <1>6 DEF SharesAdded, SameButShares, SameStaking, Orderly
  <1>8. b \in States /\ SameButPools(e, b) /\ b.bonded >= 0
    <2>1. IsBonded(c, v) \in BOOLEAN
      BY DEF IsBonded
    <2>. QED BY <1>3, <1>5, <1>7, <2>1, Burns, BurnIsCovered
  <1>. HIDE DEF b
  <1>9. /\ b.vals[v].tokens = c.vals[v].tokens + -m
        /\ b.vals[v].status = c.vals[v].status /\ b.vals[v].jailed = c.vals[v].jailed
        /\ \A w \in Operators \ {v} : b.vals[w] = c.vals[w]
        /\ b.power = c.power /\ b.queue = c.queue /\ b.signing = c.signing
    BY <1>4, <1>6, <1>7, <1>8 DEF SharesAdded, SameStaking, SameButShares, SameButPools
  <1>10. SameRoles(c, b)
    <2>1. \A w \in Operators : c.vals[w].tokens \in Nat
      BY DEF States, Vals
    <2>2. b.vals[v].tokens <= c.vals[v].tokens
      BY <1>5, <1>9
    <2>. QED BY <1>9, <2>1, <2>2 DEF SameRoles
  <1>11. Orderly(b, test)
    BY <1>8, <1>10, OrderStays
  <1>12. CASE b.vals[v].shares = 0 /\ b.vals[v].status = "Unbonded"
    <2>1. d = RemoveValidator(b, v) /\ ~d.panic
      BY <1>3, <1>12 DEF d
    <2>2. Orderly(d, test)
      BY <1>4, <1>8, <1>11, <1>12, <2>1, RemovalIsOrderly
    <2>3. \A w \in Operators \ {v} : d.vals[w] = b.vals[w]
      <3>1. d.vals = [b.vals EXCEPT ![v] = NoValidator]
        BY <1>8, <1>12, <2>1, RemoveKeeps DEF IsBonded
      <3>. QED BY <1>8, <3>1 DEF States
    <2>. QED BY <1>9, <2>2, <2>3 DEF d
  <1>13. CASE ~(b.vals[v].shares = 0 /\ b.vals[v].status = "Unbonded")
    BY <1>3, <1>9, <1>11, <1>13 DEF d
  <1>. QED BY <1>12, <1>13

\* An undelegation.
LEMMA UndelegationIsOrderly ==
    ASSUME NEW c \in States, NEW x \in Delegators, NEW v \in Operators, NEW test,
           Orderly(c, test), ~Undelegate(c, x, v).panic
    PROVE  Orderly(Undelegate(c, x, v), test)
  <1>. DEFINE a == Unbond(c, x, v)
              m == TokensFromShares(c, v, c.dels[x][v])
              u == [id |-> c.ids, del |-> x, val |-> v, amount |-> m, height |-> c.height]
              b == Move(a, FALSE, m)
              e == [b EXCEPT !.ids = @ + 1, !.ubds = @ \cup {u}]
              d == Undelegate(c, x, v)
  <1>1. d = IF a.panic THEN a ELSE IF c.vals[v].status = "Unbonded" THEN a ELSE e
    BY DEF Undelegate, Then
  <1>2. d \in States /\ a \in States
    BY UndelegateKeeps, UnbondKeeps DEF Keeps
  <1>3. m \in Int
    <2>1. c.dels[x][v] \in Nat
      BY DEF States
    <2>. QED BY <2>1, TokensAreNatural
  <1>4. ~a.panic
    BY <1>1 DEF d
  <1>5. Orderly(a, test)
    BY <1>4, UnbondIsOrderly
  <1>. HIDE DEF a, d, m, u
  <1>6. CASE d = e
    <2>1. b \in States /\ OnlyBalances(a, b) /\ b.bonded = a.bonded
      BY <1>2, <1>3, MovesFree
    <2>. HIDE DEF b
    <2>2. /\ e.vals = b.vals /\ e.power = b.power /\ e.queue = b.queue
          /\ e.signing = b.signing /\ e.bonded = b.bonded
      BY <2>1 DEF States
    <2>. HIDE DEF e
    <2>3. \A w \in Operators : a.vals[w].tokens <= a.vals[w].tokens
      BY <1>2 DEF States, Vals
    <2>4. SameRoles(a, e) /\ e.bonded >= 0
      BY <1>5, <2>1, <2>2, <2>3 DEF OnlyBalances, SameButPools, SameRoles, Orderly
    <2>5. Orderly(e, test)
      BY <1>2, <1>5, <1>6, <2>4, OrderStays
    <2>. QED BY <1>6, <2>5 DEF d
  <1>7. CASE d = a
    BY <1>5, <1>7 DEF d
  <1>. QED BY <1>1, <1>4, <1>6, <1>7

\* A redelegation, which takes two validators.
LEMMA RedelegationIsOrderly ==
    ASSUME NEW c \in States, NEW x \in Delegators, NEW v \in Operators,
           NEW w \in Operators \ {v}, Exists(c, w),
           Orderly(c, FALSE), ~Redelegate(c, x, v, w).panic
    PROVE  Orderly(Redelegate(c, x, v, w), FALSE)
  <1>. DEFINE a == Unbond(c, x, v)
              m == TokensFromShares(c, v, c.dels[x][v])
              u == [id |-> c.ids, del |-> x, val |-> v, amount |-> m, height |-> c.height]
              b == Delegate(a, x, w, m)
              e == [b EXCEPT !.ids = @ + 1, !.reds = @ \cup {u}]
              d == Redelegate(c, x, v, w)
  <1>1. d = IF m = 0 THEN Panic(c)
            ELSE LET f == IF a.panic THEN a ELSE b IN
                 IF f.panic THEN f ELSE IF c.vals[v].status = "Unbonded" THEN f ELSE e
    BY DEF Redelegate, Then
  <1>2. d \in States /\ a \in States
    BY RedelegateKeeps, UnbondKeeps DEF Keeps
  <1>3. m \in Nat
    <2>1. c.dels[x][v] \in Nat
      BY DEF States
    <2>. QED BY <2>1, TokensAreNatural
  <1>4. Panic(c).panic
    BY PanicDistributes
  <1>. HIDE DEF a, b, m, u
  <1>5. ~a.panic /\ ~b.panic /\ (d = b \/ d = e)
    <2>1. ~d.panic
      OBVIOUS
    <2>. HIDE DEF d, e
    <2>. QED BY <1>1, <1>4, <2>1
  <1>6. Orderly(a, FALSE) /\ Exists(a, w)
    BY <1>5, UnbondIsOrderly DEF a, Exists
  <1>. HIDE DEF d
  <1>7. b \in States /\ Orderly(b, FALSE)
    BY <1>2, <1>3, <1>5, <1>6, DelegateKeeps, DelegationIsOrderly DEF Keeps, b
  <1>8. CASE d = e
    <2>1. /\ e.vals = b.vals /\ e.power = b.power /\ e.queue = b.queue
          /\ e.signing = b.signing /\ e.bonded = b.bonded
      BY <1>7 DEF States
    <2>. HIDE DEF e
    <2>2. \A y \in Operators : b.vals[y].tokens <= b.vals[y].tokens
      BY <1>7 DEF States, Vals
    <2>3. SameRoles(b, e) /\ e.bonded >= 0
      BY <1>7, <2>1, <2>2 DEF SameRoles, Orderly
    <2>4. Orderly(e, FALSE)
      BY <1>2, <1>7, <1>8, <2>3, OrderStays
    <2>. QED BY <1>8, <2>4 DEF d
  <1>9. CASE d = b
    BY <1>7, <1>9 DEF d
  <1>. QED BY <1>5, <1>8, <1>9

\* A validator leaves jail; in a testnet there is none in jail.
LEMMA UnjailIsOrderly ==
    ASSUME NEW c \in States, NEW v \in Operators, NEW test, Orderly(c, test), Exists(c, v)
    PROVE  LET d == Unjail(c, v) IN Orderly(d, test) /\ SameBeside(c, d)
  <1>. DEFINE d == Unjail(c, v)
  <1>1. /\ d.power = c.power \cup {v} /\ d.queue = c.queue /\ d.signing = c.signing
        /\ d.bonded = c.bonded /\ d.dist = c.dist /\ d.start = c.start /\ d.dels = c.dels
        /\ d.pool = c.pool /\ d.height = c.height /\ c.height \in Nat
        /\ d.vals = [c.vals EXCEPT ![v].jailed = FALSE]
    BY DEF Unjail, States
  <1>. HIDE DEF d
  <1>2. /\ d.vals[v].status = c.vals[v].status /\ d.vals[v].tokens = c.vals[v].tokens
        /\ d.vals[v].shares = c.vals[v].shares /\ ~d.vals[v].jailed
        /\ \A w \in Operators \ {v} : d.vals[w] = c.vals[w]
    BY <1>1 DEF States, Vals
  <1>3. QueueRight(d) /\ PowerRight(d) /\ Signed(d) /\ d.bonded >= 0
    <2>1. c.power \subseteq Operators /\ c.queue \subseteq Operators
      BY DEF States
    <2>. QED BY <1>1, <1>2, <2>1 DEF Orderly, QueueRight, PowerRight, Signed
  <1>4. ASSUME test PROVE Lone(d)
    <2>1. Existing(d) = Existing(c) /\ Existing(c) \subseteq Operators
      BY <1>2 DEF Existing, Exists
    <2>. QED BY <1>2, <1>4, <2>1 DEF Orderly, Lone, IsBonded
  <1>5. SameBeside(c, d)
    BY <1>1, <1>2 DEF SameBeside, Exists
  <1>. QED BY <1>3, <1>4, <1>5 DEF Orderly, d

-----------------------------------------------------------------------------
(* The height *)

\* Only the begin blocker changes the height.
IsAt(c, h) == "height" \in DOMAIN c /\ c.height = h

LEMMA RecordsKeepHeight ==
    ASSUME NEW c, NEW h, IsAt(c, h)
    PROVE  /\ IsAt(Panic(c), h)
           /\ \A v, p : /\ IsAt(DecrementReferenceCount(c, v, p), h)
                        /\ IsAt(IncrementReferenceCount(c, v, p), h)
                        /\ IsAt(RecordSlash(c, v, p), h)
           /\ \A v, q, n : IsAt(StartPeriod(c, v, q, n), h)
           /\ \A v, n : IsAt(Pay(c, v, n), h)
           /\ \A v : IsAt(WithdrawValidatorCommission(c, v), h)
  <1>1. IsAt(Panic(c), h)
    BY DEF IsAt, Panic
  <1>2. ASSUME NEW v, NEW p
        PROVE  /\ IsAt(DecrementReferenceCount(c, v, p), h)
               /\ IsAt(IncrementReferenceCount(c, v, p), h)
               /\ IsAt(RecordSlash(c, v, p), h)
    <2>1. \A f : IsAt([c EXCEPT !.dist[v].hist = f], h)
      BY DEF IsAt
    <2>2. IsAt(RecordSlash(c, v, p), h)
      BY DEF IsAt, RecordSlash
    <2>. QED BY <1>1, <2>1, <2>2 DEF DecrementReferenceCount, IncrementReferenceCount
  <1>3. ASSUME NEW v, NEW q, NEW n PROVE IsAt(StartPeriod(c, v, q, n), h)
    BY DEF IsAt, StartPeriod
  <1>4. ASSUME NEW v, NEW n PROVE IsAt(Pay(c, v, n), h)
    BY DEF IsAt, Pay
  <1>5. ASSUME NEW v PROVE IsAt(WithdrawValidatorCommission(c, v), h)
    BY DEF IsAt, WithdrawValidatorCommission
  <1>. QED BY <1>1, <1>2, <1>3, <1>4, <1>5

LEMMA PoolsKeepHeight ==
    ASSUME NEW c, NEW h, IsAt(c, h)
    PROVE  /\ \A b, n : IsAt(Move(c, b, n), h) /\ IsAt(Burn(c, b, n), h)
           /\ \A x, v, m, k : IsAt(AddShares(c, x, v, m, k), h)
           /\ \A v, lost : IsAt(Jail(c, v, lost), h)
           /\ \A v : IsAt(Unjail(c, v), h)
  <1>1. \A b, n : IsAt(Move(c, b, n), h)
    BY DEF IsAt, Move
  <1>2. \A b, n : IsAt(Burn(c, b, n), h)
    BY <1>1, RecordsKeepHeight DEF Burn
  <1>3. \A x, v, m, k : IsAt(AddShares(c, x, v, m, k), h)
    BY DEF IsAt, AddShares
  <1>4. \A v, lost : IsAt(Jail(c, v, lost), h)
    BY DEF IsAt, Jail
  <1>5. \A v : IsAt(Unjail(c, v), h)
    BY DEF IsAt, Unjail
  <1>. QED BY <1>1, <1>2, <1>3, <1>4, <1>5

LEMMA PeriodsKeepHeight ==
    ASSUME NEW c, NEW h, IsAt(c, h), NEW v
    PROVE  /\ IsAt(IncrementValidatorPeriod(c, v), h)
           /\ \A x : IsAt(InitializeDelegation(c, x, v), h)
           /\ \A x : IsAt(PayDelegation(c, x, v), h)
           /\ IsAt(RemoveValidator(c, v), h)
  <1>1. IsAt(IncrementValidatorPeriod(c, v), h)
    BY RecordsKeepHeight DEF IncrementValidatorPeriod, Then
  <1>2. ASSUME NEW x PROVE IsAt(InitializeDelegation(c, x, v), h)
    <2>1. \A d, i : IsAt(d, h) => IsAt([d EXCEPT !.start[x][v] = i], h)
      BY DEF IsAt
    <2>. QED BY SMTT(30), <2>1, RecordsKeepHeight DEF InitializeDelegation, Then
  <1>3. ASSUME NEW x PROVE IsAt(PayDelegation(c, x, v), h)
    <2>1. \A d, i : IsAt(d, h) => IsAt([d EXCEPT !.start[x][v] = i], h)
      BY DEF IsAt
    <2>2. \A d, n, p : IsAt(d, h) =>
             IsAt(Panic(d), h) /\ IsAt(DecrementReferenceCount(Pay(d, v, n), v, p), h)
      BY RecordsKeepHeight
    <2>. QED BY <1>1, <2>1, <2>2 DEF PayDelegation, Then
  <1>4. IsAt(RemoveValidator(c, v), h)
    <2>1. \A d : IsAt(d, h) =>
             IsAt([d EXCEPT !.vals[v] = NoValidator, !.power = @ \ {v},
                            !.pool = @ + d.dist[v].outstanding, !.dist[v] = NoRecords], h)
      BY DEF IsAt
    <2>. QED BY <2>1, RecordsKeepHeight DEF RemoveValidator, Then
  <1>. QED BY <1>1, <1>2, <1>3, <1>4

LEMMA TransactionsKeepHeight ==
    ASSUME NEW c, NEW h, IsAt(c, h), NEW x, NEW v
    PROVE  /\ \A m : IsAt(Delegate(c, x, v, m), h)
           /\ IsAt(Unbond(c, x, v), h)
           /\ IsAt(Undelegate(c, x, v), h)
           /\ \A w : IsAt(Redelegate(c, x, v, w), h)
           /\ IsAt(WithdrawDelegationRewards(c, x, v), h)
  <1>1. ASSUME NEW d, IsAt(d, h), NEW w, NEW m PROVE IsAt(Delegate(d, x, w, m), h)
    <2>1. \A e, b, n, k : IsAt(e, h) => IsAt(AddShares(Move(e, b, n), x, w, n, k), h)
      BY PoolsKeepHeight
    <2>2. \A e : IsAt(e, h) => IsAt(InitializeDelegation(e, x, w), h)
      BY PeriodsKeepHeight
    <2>3. /\ IsAt(PayDelegation(d, x, w), h) /\ IsAt(IncrementValidatorPeriod(d, w), h)
          /\ IsAt(Panic(d), h)
      BY <1>1, PeriodsKeepHeight, RecordsKeepHeight
    <2>. QED BY <2>1, <2>2, <2>3 DEF Delegate, Then
  <1>2. IsAt(Unbond(c, x, v), h)
    <2>1. \A e, b, n, m, k : IsAt(e, h) => IsAt(Burn(AddShares(e, x, v, m, k), b, n), h)
      BY PoolsKeepHeight
    <2>2. \A e : IsAt(e, h) => IsAt(RemoveValidator(e, v), h) /\ IsAt(Panic(e), h)
      BY PeriodsKeepHeight, RecordsKeepHeight
    <2>3. IsAt(PayDelegation(c, x, v), h)
      BY PeriodsKeepHeight
    <2>. QED BY <2>1, <2>2, <2>3 DEF Unbond, Then
  <1>3. IsAt(Undelegate(c, x, v), h)
    <2>1. \A d, n, u : IsAt(d, h) =>
             IsAt([Move(d, FALSE, n) EXCEPT !.ids = @ + 1, !.ubds = @ \cup {u}], h)
      <3>1. \A e, u : IsAt(e, h) => IsAt([e EXCEPT !.ids = @ + 1, !.ubds = @ \cup {u}], h)
        BY DEF IsAt
      <3>. QED BY <3>1, PoolsKeepHeight
    <2>. QED BY <1>2, <2>1 DEF Undelegate, Then
  <1>4. ASSUME NEW w PROVE IsAt(Redelegate(c, x, v, w), h)
    <2>1. \A d, u : IsAt(d, h) => IsAt([d EXCEPT !.ids = @ + 1, !.reds = @ \cup {u}], h)
      BY DEF IsAt
    <2>2. \A d, m : IsAt(d, h) => IsAt(Delegate(d, x, w, m), h)
      BY <1>1
    <2>3. IsAt(Panic(c), h)
      BY RecordsKeepHeight
    <2>. QED BY <1>2, <2>1, <2>2, <2>3 DEF Redelegate, Then
  <1>5. IsAt(WithdrawDelegationRewards(c, x, v), h)
    BY PeriodsKeepHeight DEF WithdrawDelegationRewards, Then
  <1>. QED BY <1>1, <1>2, <1>3, <1>4, <1>5

LEMMA BlockersKeepHeight ==
    ASSUME NEW c, NEW h, IsAt(c, h), NEW v
    PROVE  IsAt(Slash(c, v), h) /\ IsAt(UnbondMature(c, v), h)
           /\ \A u : IsAt(CompleteUnbonding(c, u), h)
  <1>1. IsAt(Slash(c, v), h)
    <2>1. \A d, b, p, n : IsAt(d, h) => IsAt(Burn(Jail(RecordSlash(d, v, p), v, n), b, n), h)
      BY RecordsKeepHeight, PoolsKeepHeight
    <2>2. \A d, p : IsAt(d, h) => IsAt(IncrementReferenceCount(d, v, p), h)
      BY RecordsKeepHeight
    <2>3. IsAt(IncrementValidatorPeriod(c, v), h)
      BY PeriodsKeepHeight
    <2>. QED BY <2>1, <2>2, <2>3 DEF Slash, Then
  <1>2. IsAt(UnbondMature(c, v), h)
    <2>1. IsAt([c EXCEPT !.vals[v].status = "Unbonded", !.queue = @ \ {v}], h)
      BY DEF IsAt
    <2>2. \A d : IsAt(d, h) => IsAt(RemoveValidator(d, v), h)
      BY PeriodsKeepHeight
    <2>3. IsAt(Panic(c), h)
      BY RecordsKeepHeight
    <2>. QED BY <2>1, <2>2, <2>3 DEF UnbondMature, Then
  <1>3. ASSUME NEW u PROVE IsAt(CompleteUnbonding(c, u), h)
    <2>1. \A d : IsAt(d, h) => IsAt([d EXCEPT !.ubds = @ \ {u}], h)
      BY DEF IsAt
    <2>. QED BY <2>1, PoolsKeepHeight DEF CompleteUnbonding, Then
  <1>. QED BY <1>1, <1>2, <1>3

LEMMA StatesHaveHeight == \A c \in States : IsAt(c, c.height)
  BY DEF IsAt, States

-----------------------------------------------------------------------------
(* Blocks *)

\* What a token is worth in shares at most: one, and in a testnet in place as many
\* tokens as a delegation has.
Rate(test) == IF test THEN Stake ELSE 1

\* A chain that goes on: unless an operator address was used twice, with its ledgers
\* kept.
Fit(c, test, new) ==
    /\ c \in States /\ ~c.panic /\ Whole(c) /\ LastIsBonded(c) /\ Healthy(c, test)
    /\ new => Kept(c, Rate(test))

\* A block after its begin blocker: d goes on at the height of b.
Goes(b, d, test, new) == Fit(d, test, new) /\ d.height = b.height

\* A call after which the staking module is in order, and the ledgers kept.
LEMMA FitStays ==
    ASSUME NEW c, NEW d, NEW test \in BOOLEAN, NEW new \in BOOLEAN, Fit(c, test, new),
           Keeps(c, d), KeepsActive(c, d), ~d.panic, Orderly(d, test),
           new => Kept(d, Rate(test))
    PROVE  Fit(d, test, new)
  <1>1. Healthy(d, test)
    BY BackedStays DEF Fit
  <1>. QED BY <1>1 DEF Fit, Keeps, KeepsActive

\* The begin blocker.
BegunFrom(c, b) ==
    /\ b.vals = c.vals /\ b.power = c.power /\ b.ubds = c.ubds /\ b.dels = c.dels
    /\ b.queue = c.queue /\ b.last = c.last /\ b.height = c.height + 1
    /\ b.signing = c.signing

LEMMA BeginBlockFits ==
    ASSUME NEW c, NEW test \in BOOLEAN, NEW new \in BOOLEAN, Fit(c, test, new)
    PROVE  LET b == BeginBlock(c) IN Fit(b, test, new) /\ BegunFrom(c, b)
  <1>. DEFINE d == [c EXCEPT !.height = @ + 1]
              b == BeginBlock(c)
  <1>1. c \in States /\ c.height + 1 \in Nat /\ c.last \in SUBSET Operators
    BY DEF Fit, States
  <1>2. d \in States /\ d.last = c.last
    BY <1>1 DEF States
  <1>3. /\ d.vals = c.vals /\ d.queue = c.queue /\ d.signing = c.signing
        /\ d.bonded = c.bonded /\ d.height = c.height + 1 /\ d.power = c.power
    BY <1>1 DEF States
  <1>4. b = ForAll(AllocateTokensToValidator, d, d.last)
    BY DEF BeginBlock, AllocateTokens
  <1>. HIDE DEF d
  <1>5. Distributes(d, b)
    BY <1>1, <1>2, <1>4, AllocatesToAll
  <1>6. /\ Keeps(c, b) /\ KeepsActive(c, b) /\ ~b.panic
        /\ b.vals = c.vals /\ b.power = c.power /\ b.ubds = c.ubds /\ b.dels = c.dels
    BY <1>1, BeginBlockKeeps DEF Fit
  <1>7. new => Kept(b, Rate(test))
    BY <1>1, BeginBlockKept DEF Fit
  <1>. HIDE DEF b
  <1>8. SameStaking(d, b) /\ b \in States
    BY <1>5 DEF Distributes
  <1>9. Orderly(d, test)
    <2>1. \A w \in Operators : c.vals[w].tokens <= c.vals[w].tokens
      BY <1>1 DEF States, Vals
    <2>2. SameRoles(c, d) /\ d.bonded >= 0
      BY <1>3, <2>1 DEF SameRoles, Fit, Healthy, Orderly
    <2>. QED BY <1>1, <1>2, <2>2, OrderStays DEF Fit, Healthy
  <1>10. Orderly(b, test)
    BY <1>2, <1>8, <1>9, OrderOutlasts
  <1>11. BegunFrom(c, b)
    BY <1>2, <1>3, <1>6, <1>8 DEF SameStaking, BegunFrom
  <1>. QED BY <1>6, <1>7, <1>10, <1>11, FitStays DEF b

\* The end blocker.
LEMMA EndBlockFits ==
    ASSUME NEW c, NEW test \in BOOLEAN, NEW new \in BOOLEAN, Fit(c, test, new)
    PROVE  LET d == EndBlock(c) IN Fit(d, test, new) /\ SameButActive(c, d)
  <1>. DEFINE d == EndBlock(c)
  <1>1. c \in States /\ ~c.panic /\ Whole(c) /\ LastIsBonded(c) /\ Healthy(c, test)
    BY DEF Fit
  <1>2. ~d.panic /\ Healthy(d, test) /\ SameButActive(c, d)
    BY <1>1, EndBlockGoesWell
  <1>3. Keeps(c, d) /\ (~d.panic => LastIsBonded(d))
    BY <1>1, EndBlockKeeps
  <1>. HIDE DEF d
  <1>4. d \in States
    BY <1>3 DEF Keeps
  <1>5. new => Kept(d, Rate(test))
    BY <1>1, <1>2, <1>4, EndBlockKept DEF Fit
  <1>. QED BY <1>1, <1>2, <1>3, <1>4, <1>5 DEF Fit, Keeps, d

\* The block of a transaction that leaves what is kept, if it does not panic.
LEMMA TransactionFits ==
    ASSUME NEW b, NEW t, NEW test \in BOOLEAN, NEW new \in BOOLEAN, Fit(b, test, new),
           Keeps(b, t), KeepsActive(b, t), IsAt(t, b.height),
           ~t.panic => Orderly(t, test) /\ (new => Kept(t, Rate(test)))
    PROVE  Goes(b, EndBlock(IF t.panic THEN b ELSE t), test, new)
  <1>1. CASE t.panic
    BY <1>1, EndBlockFits DEF Goes, SameButActive
  <1>2. CASE ~t.panic
    <2>1. Fit(t, test, new)
      BY <1>2, FitStays
    <2>. QED BY <1>2, <2>1, EndBlockFits DEF Goes, SameButActive, IsAt
  <1>. QED BY <1>1, <1>2

\* An active set that is up to date stays as it is.
LEMMA NothingToUpdate ==
    ASSUME NEW c \in States, ~c.panic, LastIsBonded(c), c.last = Top(c),
           \A v \in Reached(c) : Exists(c, v) /\ ~c.vals[v].jailed
    PROVE  ApplyValidatorSetUpdates(c).vals = c.vals
  <1>. DEFINE top == Top(c)
              b == ForAll(Bond, c, top)
  <1>1. top \in SUBSET Operators /\ IsFiniteSet(top)
    <2>1. top \in SUBSET Operators
      BY DEF States
    <2>. QED BY <2>1, ChainAssumption, FS_Subset
  <1>2. Bonding!Fold(c, top) \in {c}
    <2>1. Bonding!IsFiniteSet(top)
      BY <1>1 DEF IsFiniteSet, Bonding!IsFiniteSet
    <2>2. \A x \in top : \A s \in {c} : BondStep(x, s) \in {c}
      BY DEF BondStep, Then, Bond, LastIsBonded
    <2>. QED BY <2>1, <2>2, Bonding!FoldKeeps
  <1>3. b = c
    BY <1>2, BondIsAFold
  <1>4. ForAll(BeginUnbonding, b, c.last \ top) = c
    BY <1>3, ForNobody
  <1>5. ApplyValidatorSetUpdates(c) = [c EXCEPT !.last = top]
    BY <1>4 DEF ApplyValidatorSetUpdates, Then, Top
  <1>. QED BY <1>5 DEF States

\* After the begin blocker of a ranked chain.
LEMMA RankedIsUpToDate ==
    ASSUME NEW c, NEW b, NEW test, NEW new, Fit(c, test, new), Ranked(c), BegunFrom(c, b),
           Fit(b, test, new)
    PROVE  EndBlock(b).vals = c.vals
  <1>1. b \in States /\ ~b.panic /\ LastIsBonded(b) /\ Whole(b) /\ PowerRight(b)
    BY DEF Fit, Healthy, Orderly
  <1>2. \A v \in Reached(b) : Exists(b, v) /\ ~b.vals[v].jailed
    BY <1>1, ReachedInPower DEF PowerRight, Whole, Existing
  <1>3. ASSUME NEW v \in Existing(b), ~b.vals[v].jailed, b.vals[v].tokens > 0
        PROVE  v \in Top(b)
    <2>1. v \in b.power
      BY <1>1, <1>3 DEF Whole
    <2>2. v \notin {w \in b.power : Exists(b, w) /\ b.vals[w].tokens = 0}
      BY <1>3
    <2>. QED BY <1>3, <2>1, <2>2 DEF Top, Reached
  <1>4. Top(b) = {v \in Existing(b) : ~b.vals[v].jailed /\ b.vals[v].tokens > 0}
    <2>1. \A v \in Top(b) : v \in Existing(b) /\ ~b.vals[v].jailed /\ b.vals[v].tokens > 0
      <3>1. Reached(b) \subseteq Operators
        BY <1>1, ReachedInPower DEF States
      <3>. QED BY <1>2, <3>1 DEF Top, Existing
    <2>. QED BY <1>3, <2>1
  <1>5. b.last = Top(b)
    BY <1>4 DEF Ranked, BegunFrom, Existing, Exists
  <1>. QED BY <1>1, <1>2, <1>5, NothingToUpdate DEF EndBlock, BegunFrom

\* Someone delegates to a validator with tokens.
LEMMA DelegationFits ==
    ASSUME NEW b, NEW test \in BOOLEAN, NEW new \in BOOLEAN, Fit(b, test, new),
           NEW x \in Delegators, NEW v \in Operators, Exists(b, v), b.vals[v].tokens > 0
    PROVE  LET t == Delegate(b, x, v, Stake) IN
           Goes(b, EndBlock(IF t.panic THEN b ELSE t), test, new)
  <1>. DEFINE t == Delegate(b, x, v, Stake)
  <1>1. b \in States /\ ~b.panic /\ Orderly(b, test)
    BY DEF Fit, Healthy
  <1>2. Stake \in Nat \ {0} /\ Stake \in Nat /\ 1 \in Nat \ {0}
    BY ChainAssumption
  <1>3. Keeps(b, t) /\ KeepsActive(b, t)
    BY <1>1, <1>2, DelegateKeeps
  <1>4. test => IsBonded(b, v)
    BY <1>1 DEF Orderly, Lone, Existing
  <1>5. ~t.panic => Orderly(t, test)
    BY <1>1, <1>2, <1>4, DelegationIsOrderly
  <1>6. new => Kept(t, Rate(test))
    <2>1. Rate(test) \in Nat \ {0} /\ \E j \in Nat \ {0} : Stake = Rate(test) * j
      <3>1. Stake = Stake * 1 /\ Stake = 1 * Stake
        BY <1>2
      <3>. QED BY <1>2, <3>1 DEF Rate
    <2>2. PICK j \in Nat \ {0} : Stake = Rate(test) * j
      BY <2>1
    <2>3. Rate(test) \in Nat \ {0} /\ Stake \in Nat \ {0}
      BY <1>2, <2>1
    <2>4. ASSUME new PROVE Kept(b, Rate(test))
      BY <2>4 DEF Fit
    <2>5. ASSUME NEW R, R = Rate(test), new PROVE Kept(t, R)
      <3>1. R \in Nat \ {0} /\ Stake = R * j /\ Kept(b, R)
        BY <2>2, <2>3, <2>4, <2>5
      <3>2. Kept(Delegate(b, x, v, Stake), R)
        BY <1>1, <2>3, <3>1, DelegationKept
      <3>. QED BY <3>2
    <2>. QED BY <2>5
  <1>0. IsAt(t, b.height)
    BY <1>1, StatesHaveHeight, TransactionsKeepHeight
  <1>. HIDE DEF t
  <1>7. Goes(b, EndBlock(IF t.panic THEN b ELSE t), test, new)
    BY <1>3, <1>5, <1>6, <1>0, TransactionFits
  <1>. QED BY <1>7 DEF t

\* Someone undelegates.
LEMMA UndelegationFits ==
    ASSUME NEW b, NEW test \in BOOLEAN, NEW new \in BOOLEAN, Fit(b, test, new),
           NEW x \in Delegators, NEW v \in Operators, Exists(b, v), b.dels[x][v] > 0
    PROVE  LET t == Undelegate(b, x, v) IN
           Goes(b, EndBlock(IF t.panic THEN b ELSE t), test, new)
  <1>. DEFINE t == Undelegate(b, x, v)
  <1>1. b \in States /\ ~b.panic /\ Orderly(b, test)
    BY DEF Fit, Healthy
  <1>2. Rate(test) \in Nat \ {0}
    BY ChainAssumption DEF Rate
  <1>3. Keeps(b, t) /\ KeepsActive(b, t)
    BY <1>1, UndelegateKeeps
  <1>4. ~t.panic => Orderly(t, test)
    BY <1>1, UndelegationIsOrderly
  <1>5. new /\ ~t.panic => Kept(t, Rate(test))
    <2>1. ASSUME NEW R \in Nat \ {0}, Kept(b, R), ~t.panic PROVE Kept(t, R)
      BY <1>1, <2>1, UndelegationKept
    <2>2. new => Kept(b, Rate(test))
      BY DEF Fit
    <2>. HIDE DEF t
    <2>. QED BY <1>2, <2>1, <2>2
  <1>0. IsAt(t, b.height)
    BY <1>1, StatesHaveHeight, TransactionsKeepHeight
  <1>. HIDE DEF t
  <1>6. Goes(b, EndBlock(IF t.panic THEN b ELSE t), test, new)
    BY <1>3, <1>4, <1>5, <1>0, TransactionFits
  <1>. QED BY <1>6 DEF t

\* Someone withdraws the rewards of a delegation.
LEMMA WithdrawalFits ==
    ASSUME NEW b, NEW test \in BOOLEAN, NEW new \in BOOLEAN, Fit(b, test, new),
           NEW x \in Delegators, NEW v \in Operators, Exists(b, v), b.dels[x][v] > 0
    PROVE  LET t == WithdrawDelegationRewards(b, x, v) IN
           Goes(b, EndBlock(IF t.panic THEN b ELSE t), test, new)
  <1>. DEFINE t == WithdrawDelegationRewards(b, x, v)
  <1>1. b \in States /\ ~b.panic /\ Orderly(b, test)
    BY DEF Fit, Healthy
  <1>2. Distributes(b, t)
    BY <1>1, WithdrawRewardsDistributes
  <1>3. new => Kept(t, Rate(test))
    BY <1>1, WithdrawalKept DEF Fit
  <1>0. IsAt(t, b.height)
    BY <1>1, StatesHaveHeight, TransactionsKeepHeight
  <1>. HIDE DEF t
  <1>4. Keeps(b, t) /\ KeepsActive(b, t) /\ t \in States
    BY <1>1, <1>2, DistributesKeeps DEF Distributes
  <1>5. Orderly(t, test)
    BY <1>1, <1>2, <1>4, OrderOutlasts DEF Distributes
  <1>6. Goes(b, EndBlock(IF t.panic THEN b ELSE t), test, new)
    BY <1>3, <1>4, <1>5, <1>0, TransactionFits
  <1>. QED BY <1>6 DEF t

\* Someone redelegates.
LEMMA RedelegationFits ==
    ASSUME NEW b, NEW test \in BOOLEAN, NEW new \in BOOLEAN, test \/ new, Fit(b, test, new),
           NEW x \in Delegators, NEW v \in Operators, NEW w \in Operators \ {v},
           Exists(b, v), Exists(b, w), b.dels[x][v] > 0
    PROVE  LET t == Redelegate(b, x, v, w) IN
           Goes(b, EndBlock(IF t.panic THEN b ELSE t), test, new)
  <1>. DEFINE t == Redelegate(b, x, v, w)
  <1>1. b \in States /\ ~b.panic /\ Orderly(b, test)
    BY DEF Fit, Healthy
  <1>2. ~test /\ new
    BY <1>1 DEF Orderly, Lone, Existing
  <1>3. Keeps(b, t) /\ KeepsActive(b, t)
    BY <1>1, RedelegateKeeps
  <1>4. test = FALSE
    BY <1>2
  <1>5. Orderly(b, FALSE) /\ Kept(b, 1)
    BY <1>1, <1>2, <1>4 DEF Fit, Rate
  <1>6. ~t.panic => Orderly(t, FALSE) /\ Kept(t, 1)
    BY <1>1, <1>5, RedelegationIsOrderly, RedelegationKept
  <1>0. IsAt(t, b.height)
    BY <1>1, StatesHaveHeight, TransactionsKeepHeight
  <1>. HIDE DEF t
  <1>7. ~t.panic => Orderly(t, test) /\ (new => Kept(t, Rate(test)))
    BY <1>4, <1>6 DEF Rate
  <1>8. Goes(b, EndBlock(IF t.panic THEN b ELSE t), test, new)
    BY <1>3, <1>7, <1>0, TransactionFits
  <1>. QED BY <1>8 DEF t

\* A validator takes its commission.
LEMMA CommissionFits ==
    ASSUME NEW b, NEW test \in BOOLEAN, NEW new \in BOOLEAN, Fit(b, test, new),
           NEW v \in Operators, Exists(b, v)
    PROVE  LET t == WithdrawValidatorCommission(b, v) IN
           Goes(b, EndBlock(IF t.panic THEN b ELSE t), test, new)
  <1>. DEFINE t == WithdrawValidatorCommission(b, v)
  <1>1. b \in States /\ Orderly(b, test)
    BY DEF Fit, Healthy
  <1>2. Distributes(b, t)
    BY <1>1, CommissionDistributes
  <1>3. new => Kept(t, Rate(test))
    BY <1>1, CommissionKept DEF Fit
  <1>0. IsAt(t, b.height)
    BY <1>1, StatesHaveHeight, RecordsKeepHeight
  <1>. HIDE DEF t
  <1>4. Keeps(b, t) /\ KeepsActive(b, t) /\ t \in States
    BY <1>1, <1>2, DistributesKeeps DEF Distributes
  <1>5. Orderly(t, test)
    BY <1>1, <1>2, <1>4, OrderOutlasts DEF Distributes
  <1>6. Goes(b, EndBlock(IF t.panic THEN b ELSE t), test, new)
    BY <1>3, <1>4, <1>5, <1>0, TransactionFits
  <1>. QED BY <1>6 DEF t

\* A validator leaves jail.
LEMMA UnjailFits ==
    ASSUME NEW b, NEW test \in BOOLEAN, NEW new \in BOOLEAN, Fit(b, test, new),
           NEW v \in Operators, Exists(b, v)
    PROVE  LET t == Unjail(b, v) IN
           Goes(b, EndBlock(IF t.panic THEN b ELSE t), test, new)
  <1>. DEFINE t == Unjail(b, v)
  <1>1. b \in States /\ Orderly(b, test)
    BY DEF Fit, Healthy
  <1>2. Keeps(b, t) /\ KeepsActive(b, t)
    BY <1>1, UnjailKeeps
  <1>3. Orderly(t, test) /\ SameBeside(b, t)
    BY <1>1, UnjailIsOrderly
  <1>0. IsAt(t, b.height)
    BY <1>1, StatesHaveHeight, PoolsKeepHeight
  <1>. HIDE DEF t
  <1>4. new => Kept(t, Rate(test))
    BY <1>1, <1>2, <1>3, KeptBeside DEF Fit, Keeps
  <1>5. Goes(b, EndBlock(IF t.panic THEN b ELSE t), test, new)
    BY <1>2, <1>3, <1>4, <1>0, TransactionFits
  <1>. QED BY <1>5 DEF t

\* A validator of the active set, which has another one, is slashed: the slash goes
\* well.
LEMMA SlashFits ==
    ASSUME NEW b, NEW test \in BOOLEAN, NEW new \in BOOLEAN, test \/ new, Fit(b, test, new),
           NEW v \in b.last, b.last # {v}
    PROVE  LET d == Slash(b, v) IN ~d.panic /\ Goes(b, EndBlock(d), test, new)
  <1>. DEFINE d == Slash(b, v)
  <1>1. /\ b \in States /\ ~b.panic /\ Orderly(b, test) /\ Whole(b) /\ LastIsBonded(b)
        /\ Backed(b, test)
    BY DEF Fit, Healthy
  <1>2. b.last \subseteq Operators /\ v \in Operators
    BY <1>1 DEF States
  <1>3. IsBonded(b, v) /\ Exists(b, v)
    BY <1>1 DEF LastIsBonded, IsBonded, Exists
  <1>4. PICK w \in b.last : w # v
    OBVIOUS
  <1>5. v \in Existing(b) /\ w \in Existing(b)
    BY <1>1, <1>2, <1>4 DEF LastIsBonded, IsBonded, Existing, Exists
  <1>6. test = FALSE /\ new
    BY <1>1, <1>4, <1>5 DEF Orderly, Lone
  <1>7. Kept(b, 1) /\ BondedSurplus(b) >= 0 /\ Orderly(b, FALSE)
    BY <1>1, <1>6 DEF Fit, Rate, Backed
  <1>8. b.vals[v].tokens <= b.bonded
    BY <1>1, <1>2, <1>3, <1>7, BondedTokensSuffice DEF Whole
  <1>9. /\ d \in States /\ Kept(d, 1) /\ ~d.panic
        /\ \E lost \in Nat :
              /\ d.vals = WithJailed(b, v, lost)
              /\ d.bonded = b.bonded - lost
              /\ lost <= b.vals[v].tokens
        /\ d.power = b.power \ {v} /\ d.queue = b.queue /\ d.last = b.last
        /\ d.signing = b.signing /\ d.height = b.height
    BY <1>1, <1>2, <1>3, <1>7, <1>8, SlashKept, 1 \in Nat \ {0}
  <1>10. Keeps(b, d) /\ KeepsActive(b, d)
    BY <1>1, <1>2, SlashKeeps
  <1>. HIDE DEF d
  <1>11. Orderly(d, FALSE)
    <2>1. PICK lost \in Nat : /\ d.vals = WithJailed(b, v, lost)
                              /\ d.bonded = b.bonded - lost
                              /\ lost <= b.vals[v].tokens
      BY <1>9
    <2>2. /\ \A w1 \in Operators \ {v} : d.vals[w1] = b.vals[w1]
          /\ d.vals[v].status = b.vals[v].status
      BY <1>1, <1>2, <2>1 DEF WithJailed, States, Vals
    <2>3. b.power \subseteq Operators /\ b.queue \subseteq Operators
      BY <1>1 DEF States
    <2>4. d.bonded >= 0
      <3>1. b.bonded \in Int /\ b.vals[v].tokens \in Int
        BY <1>1, <1>2 DEF States, Vals
      <3>. QED BY <1>8, <2>1, <3>1
    <2>. QED BY <1>7, <1>9, <2>2, <2>3, <2>4 DEF Orderly, QueueRight, PowerRight, Signed
  <1>12. Fit(d, test, new)
    BY <1>6, <1>9, <1>10, <1>11, FitStays DEF Rate
  <1>13. Goes(b, EndBlock(d), test, new)
    BY <1>9, <1>12, EndBlockFits DEF Goes, SameButActive
  <1>. QED BY <1>9, <1>13 DEF d

\* A validator without tokens can be removed.
LEMMA RemovalGoesWell ==
    ASSUME NEW c \in States, NEW v \in Operators, ~c.panic, c.vals[v].tokens = 0
    PROVE  ~RemoveValidator(c, v).panic
  <1>. DEFINE a == WithdrawValidatorCommission(c, v)
              d == [a EXCEPT !.vals[v] = NoValidator, !.power = @ \ {v},
                             !.pool = @ + a.dist[v].outstanding, !.dist[v] = NoRecords]
  <1>1. a \in States
    BY CommissionDistributes DEF Distributes
  <1>2. ~a.panic
    BY DEF WithdrawValidatorCommission, States
  <1>. HIDE DEF a
  <1>3. RemoveValidator(c, v) = d
    BY <1>2 DEF RemoveValidator, Then, a
  <1>. QED BY <1>1, <1>2, <1>3 DEF States

\* The unbonding period of a validator is over, and it is removed when nobody
\* delegates to it any more.
LEMMA UnbondMatureFits ==
    ASSUME NEW c, NEW test \in BOOLEAN, NEW new \in BOOLEAN, test \/ new, Fit(c, test, new),
           NEW v \in Operators, c.vals[v].status = "Unbonding"
    PROVE  Goes(c, UnbondMature(c, v), test, new)
  <1>. DEFINE x == [c.vals[v] EXCEPT !.status = "Unbonded"]
              e == [c EXCEPT !.vals[v].status = "Unbonded", !.queue = @ \ {v}]
              d == UnbondMature(c, v)
  <1>1. c \in States /\ ~c.panic /\ Orderly(c, test) /\ Whole(c)
    BY DEF Fit, Healthy
  <1>2. c.vals[v] \in Vals
    BY <1>1 DEF States
  <1>3. /\ x \in Vals /\ x.status = "Unbonded" /\ x.tokens = c.vals[v].tokens
        /\ x.jailed = c.vals[v].jailed /\ x.shares = c.vals[v].shares
    BY <1>2 DEF Vals, Statuses
  <1>4. e = [c EXCEPT !.vals[v] = x, !.queue = @ \ {v}]
    BY <1>1 DEF States
  <1>5. d = IF e.panic THEN e ELSE IF e.vals[v].shares = 0 THEN RemoveValidator(e, v) ELSE e
    BY DEF UnbondMature, Then
  <1>6. Keeps(c, d) /\ KeepsActive(c, d)
    BY <1>1, UnbondMatureKeeps
  <1>0. d.height = c.height
    BY <1>1, StatesHaveHeight, BlockersKeepHeight DEF IsAt
  <1>. HIDE DEF x, e, d
  <1>7. /\ e \in States /\ ~e.panic /\ e.vals = [c.vals EXCEPT ![v] = x]
        /\ e.queue = c.queue \ {v} /\ e.power = c.power /\ e.signing = c.signing
        /\ e.bonded = c.bonded /\ e.dist = c.dist /\ e.start = c.start /\ e.dels = c.dels
        /\ e.pool = c.pool /\ e.height = c.height /\ c.height \in Nat
    BY <1>1, <1>3, <1>4 DEF States
  <1>8. /\ e.vals[v] = x /\ \A w \in Operators \ {v} : e.vals[w] = c.vals[w]
    BY <1>1, <1>7 DEF States
  <1>9. Orderly(e, test)
    <2>1. c.power \subseteq Operators /\ c.queue \subseteq Operators
      BY <1>1 DEF States
    <2>2. QueueRight(e) /\ PowerRight(e) /\ Signed(e) /\ e.bonded >= 0
      BY <1>1, <1>3, <1>7, <1>8, <2>1 DEF Orderly, QueueRight, PowerRight, Signed
    <2>3. ASSUME test PROVE Lone(e)
      <3>1. Existing(e) = Existing(c)
        BY <1>3, <1>8 DEF Existing, Exists
      <3>2. Lone(c)
        BY <1>1, <2>3 DEF Orderly
      <3>3. v \in Existing(c) /\ x.tokens = 0 /\ ~x.jailed
        BY <1>3, <3>2 DEF Lone, Existing, Exists, IsBonded
      <3>4. \A w \in Existing(c) : w = v
        BY <3>2, <3>3 DEF Lone
      <3>. QED BY <1>8, <3>1, <3>3, <3>4 DEF Lone
    <2>. QED BY <2>2, <2>3 DEF Orderly
  <1>10. new => Kept(e, Rate(test))
    <2>1. SameBeside(c, e)
      BY <1>3, <1>7, <1>8 DEF SameBeside, Exists
    <2>. QED BY <1>1, <1>7, <2>1, KeptBeside DEF Fit
  <1>11. CASE e.vals[v].shares # 0
    BY <1>0, <1>5, <1>6, <1>7, <1>9, <1>10, <1>11, FitStays DEF Goes, d
  <1>12. CASE e.vals[v].shares = 0
    <2>1. d = RemoveValidator(e, v)
      BY <1>5, <1>7, <1>12
    <2>2. c.vals[v].tokens = 0 /\ Exists(e, v)
      <3>1. Exists(c, v) /\ ~IsBonded(c, v) /\ c.vals[v].tokens \in Nat /\ Exists(e, v)
        BY <1>2, <1>3, <1>8 DEF Exists, IsBonded, Vals
      <3>2. CASE test
        BY <1>1, <3>1, <3>2 DEF Orderly, Lone, Existing
      <3>3. CASE new
        <4>1. Good(c, v, Rate(test))
          BY <3>3 DEF Fit, Kept
        <4>2. c.vals[v].tokens > 0 <=> c.vals[v].shares > 0
          BY <3>1, <4>1 DEF Good, Balanced, Solvent
        <4>. QED BY <1>3, <1>8, <1>12, <3>1, <4>2
      <3>. QED BY <3>2, <3>3
    <2>3. ~d.panic
      BY <1>3, <1>7, <1>8, <2>1, <2>2, RemovalGoesWell
    <2>4. Orderly(d, test)
      BY <1>3, <1>6, <1>7, <1>8, <1>9, <2>1, <2>3, RemovalIsOrderly DEF Keeps
    <2>5. new => Kept(d, Rate(test))
      BY <1>7, <1>10, <1>12, <2>1, <2>2, RemovalKept
    <2>. QED BY <1>0, <1>6, <2>3, <2>4, <2>5, FitStays DEF Goes, d
  <1>. QED BY <1>11, <1>12

\* The unbonding period of a delegation is over: the pool has its tokens.
LEMMA CompleteUnbondingFits ==
    ASSUME NEW c, NEW test \in BOOLEAN, NEW new \in BOOLEAN, Fit(c, test, new),
           NEW u \in c.ubds
    PROVE  Goes(c, CompleteUnbonding(c, u), test, new)
  <1>. DEFINE b == Burn(c, FALSE, u.amount)
              e == [b EXCEPT !.ubds = @ \ {u}]
              d == CompleteUnbonding(c, u)
  <1>1. c \in States /\ ~c.panic /\ Orderly(c, test) /\ Whole(c) /\ Backed(c, test)
    BY DEF Fit, Healthy
  <1>2. u \in Entries /\ u.amount \in Nat
    BY <1>1 DEF States, Entries
  <1>3. u.amount <= c.notBonded
    BY <1>1, NotBondedTokensSuffice DEF Whole, Backed
  <1>4. /\ b \in States /\ SameButPools(c, b) /\ ~b.panic
        /\ b.bonded = c.bonded - 0
    BY <1>1, <1>2, <1>3, BurnSucceeds
  <1>5. Keeps(c, d) /\ KeepsActive(c, d)
    BY <1>1, CompleteUnbondingKeeps
  <1>6. d = e
    BY <1>4 DEF CompleteUnbonding, Then
  <1>. HIDE DEF b, d
  <1>7. c.bonded \in Int
    BY <1>1 DEF States
  <1>8. /\ e.vals = c.vals /\ e.power = c.power /\ e.queue = c.queue /\ e.signing = c.signing
        /\ e.bonded = c.bonded /\ e.dist = c.dist /\ e.start = c.start /\ e.dels = c.dels
        /\ e.pool = c.pool /\ e.height = c.height /\ c.height \in Nat /\ ~e.panic
    BY <1>1, <1>4, <1>7 DEF States, SameButPools
  <1>. HIDE DEF e
  <1>9. d \in States
    BY <1>5 DEF Keeps
  <1>10. Orderly(d, test)
    <2>1. \A w \in Operators : c.vals[w].tokens <= c.vals[w].tokens
      BY <1>1 DEF States, Vals
    <2>2. SameRoles(c, d) /\ d.bonded >= 0
      BY <1>1, <1>6, <1>8, <2>1 DEF SameRoles, Orderly
    <2>. QED BY <1>1, <1>9, <2>2, OrderStays
  <1>11. new => Kept(d, Rate(test))
    <2>1. SameBeside(c, d)
      BY <1>6, <1>8 DEF SameBeside, Exists
    <2>. QED BY <1>1, <1>9, <2>1, KeptBeside DEF Fit
  <1>. QED BY <1>5, <1>6, <1>8, <1>10, <1>11, FitStays DEF Goes, d

\* Every block of a chain that goes on.
LEMMA BlockFits ==
    ASSUME NEW test \in BOOLEAN, NEW new \in BOOLEAN, test \/ new,
           Fit(chain, test, new), Ranked(chain), Block
    PROVE  Fit(chain', test, new) /\ chain'.height = chain.height + 1
  <1>1. Fit(Begun, test, new) /\ BegunFrom(chain, Begun)
    BY BeginBlockFits DEF Begun
  <1>2. Existing(chain) \subseteq Operators /\ chain.queue \subseteq Operators
    BY DEF Existing, Fit, States
  <1>3. \A v \in Operators : Exists(Begun, v) <=> Exists(chain, v)
    BY <1>1 DEF BegunFrom, Exists
  <1>4. ASSUME NEW t, Transaction(t) PROVE chain' = EndBlock(IF t.panic THEN Begun ELSE t)
    BY <1>4 DEF Transaction, Mined
  <1>5. ASSUME NEW del \in Delegators, NEW v \in Existing(chain), chain.vals[v].tokens > 0,
               Transaction(Delegate(Begun, del, v, Stake))
        PROVE  Goes(Begun, chain', test, new)
    <2>1. v \in Operators /\ Exists(Begun, v) /\ Begun.vals[v].tokens > 0
      BY <1>1, <1>2, <1>3, <1>5 DEF Existing, BegunFrom
    <2>. QED BY <1>1, <1>4, <1>5, <2>1, DelegationFits
  <1>6. ASSUME NEW dv \in Delegations(chain), Exists(chain, dv[2]),
               \/ Transaction(Undelegate(Begun, dv[1], dv[2]))
               \/ Transaction(WithdrawDelegationRewards(Begun, dv[1], dv[2]))
               \/ \E w \in Existing(chain) \ {dv[2]} :
                     Transaction(Redelegate(Begun, dv[1], dv[2], w))
        PROVE  Goes(Begun, chain', test, new)
    <2>1. /\ dv[1] \in Delegators /\ dv[2] \in Operators /\ Exists(Begun, dv[2])
          /\ Begun.dels[dv[1]][dv[2]] > 0
      BY <1>1, <1>3, <1>6 DEF Delegations, BegunFrom
    <2>2. CASE Transaction(Undelegate(Begun, dv[1], dv[2]))
      <3>. DEFINE t == Undelegate(Begun, dv[1], dv[2])
      <3>1. Goes(Begun, EndBlock(IF t.panic THEN Begun ELSE t), test, new)
        BY <1>1, <2>1, UndelegationFits
      <3>2. Transaction(t)
        BY <2>2
      <3>. HIDE DEF t
      <3>. QED BY <1>4, <3>1, <3>2
    <2>3. CASE Transaction(WithdrawDelegationRewards(Begun, dv[1], dv[2]))
      BY <1>1, <1>4, <2>1, <2>3, WithdrawalFits
    <2>4. ASSUME NEW w \in Existing(chain) \ {dv[2]},
                 Transaction(Redelegate(Begun, dv[1], dv[2], w))
          PROVE  Goes(Begun, chain', test, new)
      <3>1. w \in Operators \ {dv[2]} /\ Exists(Begun, w)
        BY <1>2, <1>3 DEF Existing
      <3>. QED BY <1>1, <1>4, <2>1, <2>4, <3>1, RedelegationFits
    <2>. QED BY <1>6, <2>2, <2>3, <2>4
  <1>7. ASSUME NEW v \in Existing(chain),
               \/ Transaction(WithdrawValidatorCommission(Begun, v))
               \/ Transaction(Unjail(Begun, v))
        PROVE  Goes(Begun, chain', test, new)
    <2>1. v \in Operators /\ Exists(Begun, v)
      BY <1>2, <1>3 DEF Existing
    <2>. QED BY <1>1, <1>4, <1>7, <2>1, CommissionFits, UnjailFits
  <1>8. ASSUME NEW v \in chain.last, chain.last # {v}, Slashing(v)
        PROVE  Goes(Begun, chain', test, new)
    <2>1. v \in Begun.last /\ Begun.last # {v}
      BY <1>1, <1>8 DEF BegunFrom
    <2>2. LET d == Slash(Begun, v) IN ~d.panic /\ Goes(Begun, EndBlock(d), test, new)
      BY <1>1, <2>1, SlashFits
    <2>3. chain' = EndBlock(Slash(Begun, v))
      BY <1>8, <2>2 DEF Slashing, Mined, Then
    <2>. QED BY <2>2, <2>3
  <1>. DEFINE e == EndBlock(Begun)
  <1>9. Fit(e, test, new) /\ ~e.panic /\ SameButActive(Begun, e)
    BY <1>1, EndBlockFits DEF Fit
  <1>10. e.vals = chain.vals
    BY <1>1, RankedIsUpToDate
  <1>11. ASSUME NEW v \in chain.queue, UnbondingEnds(v)
         PROVE  Goes(Begun, chain', test, new)
    <2>1. chain' = UnbondMature(e, v)
      BY <1>9, <1>11 DEF UnbondingEnds, Mined, Then
    <2>2. e.vals[v].status = "Unbonding" /\ v \in Operators
      BY <1>2, <1>10 DEF Fit, Healthy, Orderly, QueueRight
    <2>. HIDE DEF e
    <2>. QED BY <1>9, <2>1, <2>2, UnbondMatureFits DEF Goes, SameButActive
  <1>12. ASSUME NEW u \in chain.ubds, UndelegationEnds(u)
         PROVE  Goes(Begun, chain', test, new)
    <2>1. chain' = CompleteUnbonding(e, u)
      BY <1>9, <1>12 DEF UndelegationEnds, Mined, Then
    <2>2. u \in e.ubds
      BY <1>1, <1>9 DEF BegunFrom, SameButActive
    <2>. HIDE DEF e
    <2>. QED BY <1>9, <2>1, <2>2, CompleteUnbondingFits DEF Goes, SameButActive
  <1>13. Goes(Begun, chain', test, new)
    BY <1>5, <1>6, <1>7, <1>8, <1>11, <1>12 DEF Block
  <1>. QED BY <1>1, <1>13 DEF Goes, BegunFrom

-----------------------------------------------------------------------------
(* The testnet in place *)

\* The state before the signing info of the new validator.
Prepared(c, i, op) ==
    \E e \in States :
       /\ e.vals = [[v \in Operators |-> NoValidator] EXCEPT ![op] = newVal]
       /\ e.power = {op} /\ e.last = {op} /\ e.queue = {} /\ e.ubds = c.ubds
       /\ e.dist = c.dist /\ e.start = c.start /\ e.dels = c.dels /\ e.pool = c.pool
       /\ e.bonded = c.bonded /\ e.notBonded = c.notBonded
       /\ e.height = c.height /\ e.signing = c.signing
       /\ i = InitializeValidator(e, op)

\* What the command does, up to the signing info.
LEMMA TestnetIsPrepared ==
    ASSUME NEW c \in States, NEW op \in Operators
    PROVE  \E i \in States :
              /\ Prepared(c, i, op)
              /\ initAppForTestnet(c, op)
                    = [i EXCEPT !.signing = With(i.signing, TestKey, c.height - 1)]
  <1>. DEFINE none == [v \in Operators |-> NoValidator]
              b == RemoveValidators(c)
              e == [b EXCEPT !.vals[op] = newVal, !.power = {op}, !.last = {op}]
              i == InitializeValidator(e, op)
  <1>1. NoValidator \in Vals /\ newVal \in Vals
    BY InPlaceAssumption DEF NoValidator, newVal, Vals, Statuses
  <1>2. /\ b \in States /\ b.vals = none /\ b.ubds = c.ubds /\ b.queue = {}
        /\ b.dist = c.dist /\ b.start = c.start /\ b.dels = c.dels /\ b.pool = c.pool
        /\ b.bonded = c.bonded /\ b.notBonded = c.notBonded
        /\ b.height = c.height /\ b.signing = c.signing
    BY <1>1 DEF RemoveValidators, States
  <1>. HIDE DEF b
  <1>3. /\ e \in States /\ e.vals = [none EXCEPT ![op] = newVal]
        /\ e.power = {op} /\ e.last = {op} /\ e.queue = {} /\ e.ubds = c.ubds
        /\ e.dist = c.dist /\ e.start = c.start /\ e.dels = c.dels /\ e.pool = c.pool
        /\ e.bonded = c.bonded /\ e.notBonded = c.notBonded
        /\ e.height = c.height /\ e.signing = c.signing
    BY <1>1, <1>2 DEF States
  <1>. HIDE DEF e
  <1>4. i \in States /\ SameStaking(e, i)
    BY <1>3, InitializeSurplus
  <1>. HIDE DEF i
  <1>5. initAppForTestnet(c, op)
           = [i EXCEPT !.signing = With(i.signing, TestKey, b.height - 1)]
    BY <1>3, <1>4 DEF initAppForTestnet, AddTestValidator, SameStaking, b, e, i
  <1>6. Prepared(c, i, op)
    BY <1>3 DEF Prepared, i
  <1>. QED BY <1>2, <1>4, <1>5, <1>6

\* What the other pool holds beyond what it has to grows by the tokens of the
\* validators that are removed.
LEMMA RemovedTokensStay ==
    ASSUME NEW c \in States, NEW d \in States, NEW op \in Operators, IsFiniteSet(c.ubds),
           d.ubds = c.ubds, d.notBonded = c.notBonded,
           \A v \in Operators : IsBonded(d, v) \/ d.vals[v].tokens = 0,
           NotBondedSurplus(c) >= 0
    PROVE  NotBondedSurplus(d) >= 0
  <1>. DEFINE f == [v \in Operators |-> IF IsBonded(c, v) THEN 0 ELSE c.vals[v].tokens]
              g == [v \in Operators |-> IF IsBonded(d, v) THEN 0 ELSE d.vals[v].tokens]
  <1>1. SumFunction(f) \in Nat
    <2>1. f \in [Operators -> Nat]
      BY DEF States, Vals
    <2>. HIDE DEF f
    <2>. QED BY <2>1, ChainAssumption, SumOfNaturals
  <1>2. SumFunction(g) = 0
    <2>1. g \in [Operators -> Int] /\ \A v \in Operators : g[v] = 0
      BY DEF States, Vals
    <2>. HIDE DEF g
    <2>. QED BY <2>1, ChainAssumption, SumOfZeros
  <1>3. NotBondedTokens(c) = SumFunction(f) + Owed(c) /\ Owed(c) \in Int
    BY StakesAreWhole, OwedIsWhole DEF Free
  <1>4. NotBondedTokens(d) = SumFunction(g) + Owed(d) /\ Owed(d) = Owed(c)
    BY StakesAreWhole DEF Free, Owed
  <1>5. c.notBonded \in Int
    BY DEF States
  <1>. HIDE DEF f, g
  <1>. QED BY <1>1, <1>2, <1>3, <1>4, <1>5 DEF NotBondedSurplus

\* An operator without records starts with balanced ones, and the others keep theirs.
LEMMA TestnetIsKept ==
    ASSUME NEW c \in States, NEW R, Kept(c, R), NEW op \in Operators,
           c.dist[op] = NoRecords, NEW i \in States, Prepared(c, i, op),
           NEW d \in States, SameBeside(i, d)
    PROVE  Kept(d, Stake)
  <1>1. PICK e \in States :
           /\ e.vals = [[v \in Operators |-> NoValidator] EXCEPT ![op] = newVal]
           /\ e.dist = c.dist /\ e.start = c.start /\ e.dels = c.dels /\ e.pool = c.pool
           /\ i = InitializeValidator(e, op)
    BY DEF Prepared
  <1>2. /\ newVal.tokens > 0 /\ newVal.shares > 0 /\ newVal.tokens <= Stake * newVal.shares
        /\ newVal.status = "Bonded"
        /\ NoValidator.status = "Absent" /\ NoValidator.shares = 0
    BY InPlaceAssumption DEF newVal, NoValidator
  <1>3. /\ e.vals[op] = newVal
        /\ \A v \in Operators \ {op} : e.vals[v] = NoValidator
    BY <1>1
  <1>4. Good(c, op, R) /\ c.dist[op].period = 0
    BY DEF Kept, NoRecords
  <1>5. \A x \in Delegators : e.dels[x][op] = 0 /\ e.start[x][op] = NoInfo
    BY <1>1, <1>4 DEF Good, Delegated
  <1>6. Held(e, op) = 0
    <2>. DEFINE f == [x \in Delegators |-> e.dels[x][op]]
    <2>1. f \in [Delegators -> Int] /\ \A x \in Delegators : f[x] = 0
      BY <1>5
    <2>2. Held(e, op) = SumFunction(f)
      BY DEF Held
    <2>. HIDE DEF f
    <2>. QED BY <2>1, <2>2, ChainAssumption, SumOfZeros
  <1>7. NothingRecorded(e, op)
    BY <1>1 DEF NothingRecorded, NoRecords
  <1>8. OnlyLedger(e, i, op) /\ Balanced(i, op, {}) /\ i.start = e.start /\ i.pool = e.pool
    <2>1. Held(e, op) <= e.vals[op].shares
      <3>1. e.vals[op].shares = TestShares /\ TestShares \in Nat
        BY <1>3, InPlaceAssumption DEF newVal
      <3>. QED BY <1>6, <3>1
    <2>2. e.vals[op].tokens > 0 <=> e.vals[op].shares > 0
      BY <1>2, <1>3
    <2>. QED BY <1>1, <1>7, <2>1, <2>2, InitialBalance, InitializeSurplus
  <1>9. Started(i, op) = {}
    BY <1>5, <1>8 DEF Started
  <1>10. Good(i, op, Stake)
    <2>1. i.vals = e.vals /\ i.dels = e.dels
      BY <1>8 DEF OnlyLedger, SameStaking
    <2>2. Delegated(i, op)
      BY <1>5, <1>8, <2>1 DEF Delegated
    <2>3. i.vals[op].tokens <= Stake * i.vals[op].shares
      BY <1>2, <1>3, <2>1
    <2>. QED BY <1>8, <1>9, <2>2, <2>3, GoodFromBalance
  <1>11. ASSUME NEW v \in Operators \ {op} PROVE Good(i, v, Stake)
    <2>1. Good(c, v, R)
      BY DEF Kept
    <2>2. i.vals[v] = NoValidator /\ i.dels = c.dels /\ i.start = c.start /\ i.dist[v] = c.dist[v]
      BY <1>1, <1>3, <1>8 DEF OnlyLedger, SameStaking
    <2>3. ~Exists(i, v) /\ i.vals[v].shares >= 0
      BY <1>2, <2>2 DEF Exists
    <2>. QED BY <2>1, <2>2, <2>3 DEF Good, Delegated, WellKept
  <1>12. Kept(i, Stake)
    BY <1>1, <1>8, <1>10, <1>11 DEF Kept
  <1>. QED BY <1>12, KeptBeside

\* The state the node of the testnet starts on.
LEMMA TestnetFits ==
    ASSUME NEW c, NEW test \in BOOLEAN, NEW new \in BOOLEAN, Fit(c, test, new),
           NEW op \in Operators, c.height >= 1
    PROVE  Fit(initAppForTestnet(c, op), TRUE, new /\ c.dist[op] = NoRecords)
  <1>. DEFINE d == initAppForTestnet(c, op)
              sign == With(c.signing, TestKey, c.height - 1)
  <1>1. c \in States /\ ~c.panic /\ Whole(c) /\ Orderly(c, test) /\ Backed(c, test)
    BY DEF Fit, Healthy
  <1>2. d \in States /\ d.panic = c.panic /\ Whole(d) /\ LastIsBonded(d)
    BY <1>1, TestnetIsWhole
  <1>3. PICK i \in States :
           /\ Prepared(c, i, op)
           /\ d = [i EXCEPT !.signing = With(i.signing, TestKey, c.height - 1)]
    BY <1>1, TestnetIsPrepared
  <1>4. PICK e \in States :
           /\ e.vals = [[v \in Operators |-> NoValidator] EXCEPT ![op] = newVal]
           /\ e.power = {op} /\ e.last = {op} /\ e.queue = {} /\ e.ubds = c.ubds
           /\ e.bonded = c.bonded /\ e.notBonded = c.notBonded
           /\ e.height = c.height /\ e.signing = c.signing
           /\ i = InitializeValidator(e, op)
    BY <1>3 DEF Prepared
  <1>5. SameStaking(e, i)
    BY <1>4, InitializeSurplus
  <1>. HIDE DEF d
  <1>6. /\ d.vals = e.vals /\ d.power = {op} /\ d.queue = {} /\ d.signing = sign
        /\ d.bonded = c.bonded /\ d.notBonded = c.notBonded /\ d.ubds = c.ubds
    BY <1>3, <1>4, <1>5 DEF SameStaking, States
  <1>7. /\ d.dist = i.dist /\ d.start = i.start /\ d.dels = i.dels /\ d.pool = i.pool
        /\ d.height = i.height /\ d.vals = i.vals /\ i.height \in Nat
    BY <1>3 DEF States
  <1>8. /\ d.vals[op] = newVal /\ newVal.status = "Bonded" /\ ~newVal.jailed
        /\ \A v \in Operators \ {op} : d.vals[v] = NoValidator
        /\ NoValidator.status = "Absent" /\ NoValidator.tokens = 0
    BY <1>4, <1>6 DEF newVal, NoValidator
  <1>9. Signed(d)
    <2>1. c.height - 1 \in Nat
      BY <1>1 DEF States
    <2>2. Signed(c)
      BY <1>1 DEF Orderly
    <2>. QED BY <1>6, <2>1, <2>2 DEF Signed, With
  <1>10. Orderly(d, TRUE)
    <2>1. Lone(d)
      BY <1>8 DEF Lone, Existing, Exists, IsBonded
    <2>. QED BY <1>1, <1>6, <1>8, <1>9, <2>1 DEF Orderly, QueueRight, PowerRight
  <1>11. Backed(d, TRUE)
    <2>1. \A v \in Operators : IsBonded(d, v) \/ d.vals[v].tokens = 0
      BY <1>8 DEF IsBonded
    <2>2. NotBondedSurplus(d) >= 0
      BY <1>1, <1>2, <1>6, <2>1, RemovedTokensStay DEF Whole, Backed
    <2>. QED BY <1>1, <1>6, <2>2 DEF Backed
  <1>12. ASSUME new, c.dist[op] = NoRecords PROVE Kept(d, Rate(TRUE))
    <2>1. SameBeside(i, d)
      BY <1>7 DEF SameBeside, Exists
    <2>2. Kept(c, Rate(test))
      BY <1>12 DEF Fit
    <2>. QED BY <1>1, <1>2, <1>3, <1>12, <2>1, <2>2, TestnetIsKept DEF Rate
  <1>. QED BY <1>1, <1>2, <1>10, <1>11, <1>12 DEF Fit, Healthy, d

-----------------------------------------------------------------------------
(* Records that are set up anew *)

\* Who delegates, and what the records hold, allow for new records of v.
Ready(c, v) ==
    /\ NothingRecorded(c, v) /\ Held(c, v) <= c.vals[v].shares
    /\ c.vals[v].tokens > 0 <=> c.vals[v].shares > 0

SetsUp(c, d, v) ==
    /\ OnlyLedger(c, d, v) /\ Balanced(d, v, {}) /\ d.start = c.start
    /\ d.distribution = c.distribution /\ c.pool <= d.pool

\* The validators in T have new records, the others what they had.
HasSetUp(c, s, T) ==
    /\ s \in States /\ SameStaking(c, s) /\ ~s.panic /\ s.start = c.start
    /\ s.distribution = c.distribution /\ c.pool <= s.pool
    /\ \A v \in T : Balanced(s, v, {})
    /\ \A v \in Operators \ T : s.dist[v] = c.dist[v]

\* The first records of a validator;
LEMMA InitSetsUp ==
    ASSUME NEW c \in States, NEW v \in Operators, Ready(c, v)
    PROVE  SetsUp(c, InitializeValidator(c, v), v)
  <1>. DEFINE d == InitializeValidator(c, v)
  <1>1. OnlyLedger(c, d, v) /\ Balanced(d, v, {}) /\ d.start = c.start
    BY InitialBalance DEF Ready
  <1>2. d.pool = c.pool /\ d.distribution = c.distribution
    BY InitializeSurplus
  <1>. HIDE DEF d
  <1>3. c.pool <= d.pool
    BY <1>2 DEF States
  <1>. QED BY <1>1, <1>2, <1>3 DEF SetsUp, d

\* the records the export gives it, after a donation of what was left over.
LEMMA ReinitSetsUp ==
    ASSUME NEW c \in States, NEW v \in Operators, Ready(c, v), c.dist[v].outstanding >= 0
    PROVE  SetsUp(c, ReinitValidator(c, v), v)
  <1>. DEFINE b == [c EXCEPT !.pool = @ + c.dist[v].outstanding]
              d == InitializeValidator(b, v)
  <1>1. c.dist[v] \in Records /\ c.pool \in Int
    BY DEF States
  <1>2. c.pool + c.dist[v].outstanding \in Int
    BY <1>1 DEF Records
  <1>3. /\ b \in States /\ b.dist = c.dist /\ b.start = c.start /\ b.dels = c.dels
        /\ b.vals = c.vals /\ b.distribution = c.distribution /\ c.pool <= b.pool
        /\ SameStaking(c, b) /\ b.panic = c.panic
    <2>. DEFINE n == c.pool + c.dist[v].outstanding
    <2>1. c.pool <= n
      BY <1>1, <1>2 DEF Records
    <2>2. n \in Int /\ b = [c EXCEPT !.pool = n]
      BY <1>2
    <2>. HIDE DEF n, b
    <2>3. b \in States /\ b.pool = n
      BY <2>2 DEF States
    <2>4. /\ b.dist = c.dist /\ b.start = c.start /\ b.dels = c.dels
          /\ b.vals = c.vals /\ b.distribution = c.distribution /\ b.panic = c.panic
      BY <2>2 DEF States
    <2>5. SameStaking(c, b)
      BY <2>2 DEF States, SameStaking
    <2>. QED BY <2>1, <2>3, <2>4, <2>5
  <1>4. ReinitValidator(c, v) = d
    BY DEF ReinitValidator
  <1>. HIDE DEF b
  <1>5. Ready(b, v)
    BY <1>3 DEF Ready, NothingRecorded, Held
  <1>6. SetsUp(b, d, v)
    BY <1>3, <1>5, InitSetsUp
  <1>. HIDE DEF d
  <1>7. OnlyLedger(c, b, v)
    BY <1>3 DEF OnlyLedger
  <1>8. OnlyLedger(c, d, v)
    BY <1>6, <1>7, OnlyLedgerTwice DEF SetsUp
  <1>9. c.pool <= d.pool
    <2>1. c.pool \in Int /\ b.pool \in Int /\ d.pool \in Int /\ b.pool <= d.pool
      BY <1>3, <1>6 DEF SetsUp, OnlyLedger, States
    <2>. QED BY <1>3, <2>1
  <1>. QED BY <1>3, <1>4, <1>6, <1>8, <1>9 DEF SetsUp

\* A step of the loop over the validators.
LEMMA OneMoreSetUp ==
    ASSUME NEW c \in States, NEW T \in SUBSET Operators, NEW x \in T, NEW s, NEW r,
           HasSetUp(c, s, T \ {x}), SetsUp(s, r, x)
    PROVE  HasSetUp(c, r, T)
  <1>1. /\ s \in States /\ SameStaking(c, s) /\ ~s.panic /\ s.start = c.start
        /\ s.distribution = c.distribution /\ c.pool <= s.pool
    BY DEF HasSetUp
  <1>2. /\ r \in States /\ SameStaking(s, r) /\ r.panic = s.panic /\ r.start = s.start
        /\ r.distribution = s.distribution /\ s.pool <= r.pool /\ Balanced(r, x, {})
    BY DEF SetsUp, OnlyLedger
  <1>3. c.pool <= r.pool
    <2>1. c.pool \in Int /\ s.pool \in Int /\ r.pool \in Int
      BY <1>1, <1>2 DEF States
    <2>. QED BY <1>1, <1>2, <2>1
  <1>4. SameStaking(c, r)
    BY <1>1, <1>2 DEF SameStaking
  <1>5. Elsewhere(s, r, x)
    BY <1>1, LedgerIsElsewhere DEF SetsUp
  <1>6. ASSUME NEW v \in T PROVE Balanced(r, v, {})
    <2>1. CASE v = x
      BY <1>2, <2>1
    <2>2. CASE v # x
      <3>1. Balanced(s, v, {}) /\ Unmoved(s, r, v)
        BY <1>5, <2>2 DEF HasSetUp, Elsewhere
      <3>. QED BY <1>1, <1>2, <3>1, LedgerIsTheSame
    <2>. QED BY <2>1, <2>2
  <1>7. \A v \in Operators \ T : r.dist[v] = c.dist[v]
    BY DEF HasSetUp, SetsUp, OnlyLedger
  <1>. QED BY <1>1, <1>2, <1>3, <1>4, <1>6, <1>7 DEF HasSetUp

\* The validators that are still to come stay ready.
LEMMA ReadyStays ==
    ASSUME NEW c \in States, NEW s, NEW T, NEW x \in Operators \ T, HasSetUp(c, s, T),
           Ready(c, x)
    PROVE  Ready(s, x) /\ s.dist[x] = c.dist[x]
  BY DEF HasSetUp, Ready, NothingRecorded, Held, SameStaking

LEMMA NobodySetUp ==
    ASSUME NEW c \in States, ~c.panic
    PROVE  HasSetUp(c, c, {})
  BY DEF HasSetUp, SameStaking, States

\* The first genesis sets up the records of all its validators.
LEMMA InitSetsUpAll ==
    ASSUME NEW c \in States, ~c.panic, NEW S \in SUBSET Operators, \A v \in S : Ready(c, v)
    PROVE  HasSetUp(c, ForAll(InitializeValidator, c, S), S)
  <1>. DEFINE V == [T \in SUBSET S |-> {s \in States : HasSetUp(c, s, T)}]
  <1>1. IsFiniteSet(S)
    BY ChainAssumption, FS_Subset
  <1>2. V \in [SUBSET S -> SUBSET States]
    OBVIOUS
  <1>3. c \in V[{}]
    BY NobodySetUp
  <1>4. ASSUME NEW T \in SUBSET S, NEW x \in T, NEW s \in V[T \ {x}]
        PROVE  InitStep(x, s) \in V[T]
    <2>. DEFINE r == InitializeValidator(s, x)
    <2>1. T \ {x} \in SUBSET S /\ x \in Operators \ (T \ {x}) /\ T \in SUBSET Operators
      OBVIOUS
    <2>2. s \in States /\ HasSetUp(c, s, T \ {x})
      BY <2>1
    <2>3. Ready(s, x)
      BY <2>1, <2>2, ReadyStays
    <2>4. SetsUp(s, r, x)
      BY <2>1, <2>2, <2>3, InitSetsUp
    <2>5. InitStep(x, s) = r
      BY <2>2 DEF InitStep, Then, HasSetUp
    <2>. HIDE DEF r
    <2>6. HasSetUp(c, r, T)
      BY <2>1, <2>2, <2>4, OneMoreSetUp
    <2>. QED BY <2>5, <2>6 DEF HasSetUp
  <1>5. Initializing!Fold(c, S) \in V[S]
    <2>1. Initializing!IsFiniteSet(S)
      BY <1>1 DEF IsFiniteSet, Initializing!IsFiniteSet
    <2>. HIDE DEF V
    <2>. QED BY <1>2, <1>3, <1>4, <2>1, Initializing!FoldReaches
  <1>. QED BY <1>5, InitIsAFold

\* The export for height zero sets up those of all validators there are.
LEMMA ReinitSetsUpAll ==
    ASSUME NEW c \in States, ~c.panic, NEW S \in SUBSET Operators,
           \A v \in S : Ready(c, v) /\ c.dist[v].outstanding >= 0
    PROVE  HasSetUp(c, ForAll(ReinitValidator, c, S), S)
  <1>. DEFINE V == [T \in SUBSET S |-> {s \in States : HasSetUp(c, s, T)}]
  <1>1. IsFiniteSet(S)
    BY ChainAssumption, FS_Subset
  <1>2. V \in [SUBSET S -> SUBSET States]
    OBVIOUS
  <1>3. c \in V[{}]
    BY NobodySetUp
  <1>4. ASSUME NEW T \in SUBSET S, NEW x \in T, NEW s \in V[T \ {x}]
        PROVE  ReinitStep(x, s) \in V[T]
    <2>. DEFINE r == ReinitValidator(s, x)
    <2>1. T \ {x} \in SUBSET S /\ x \in Operators \ (T \ {x}) /\ T \in SUBSET Operators
      OBVIOUS
    <2>2. s \in States /\ HasSetUp(c, s, T \ {x})
      BY <2>1
    <2>3. Ready(s, x) /\ s.dist[x].outstanding >= 0
      BY <2>1, <2>2, ReadyStays
    <2>4. SetsUp(s, r, x)
      BY <2>1, <2>2, <2>3, ReinitSetsUp
    <2>5. ReinitStep(x, s) = r
      BY <2>2 DEF ReinitStep, Then, HasSetUp
    <2>. HIDE DEF r
    <2>6. HasSetUp(c, r, T)
      BY <2>1, <2>2, <2>4, OneMoreSetUp
    <2>. QED BY <2>5, <2>6 DEF HasSetUp
  <1>5. Reinitializing!Fold(c, S) \in V[S]
    <2>1. Reinitializing!IsFiniteSet(S)
      BY <1>1 DEF IsFiniteSet, Reinitializing!IsFiniteSet
    <2>. HIDE DEF V
    <2>. QED BY <1>2, <1>3, <1>4, <2>1, Reinitializing!FoldReaches
  <1>. QED BY <1>5, ReinitIsAFold

\* Those of T who delegate to v.
Of(T, v) == {x \in Delegators : <<x, v>> \in T}

\* The delegations in T have started, the others are where they were.
HasStarted(c, s, T) ==
    /\ s \in States /\ SameStaking(c, s) /\ ~s.panic
    /\ s.distribution = c.distribution /\ c.pool <= s.pool
    /\ \A v \in Existing(c) : Balanced(s, v, Of(T, v))
    /\ \A v \in Operators \ Existing(c) : s.dist[v] = c.dist[v]
    /\ \A dv \in T : s.start[dv[1]][dv[2]] # NoInfo
    /\ \A x \in Delegators, v \in Operators :
          <<x, v>> \notin T => s.start[x][v] = c.start[x][v]

\* A step of the loop over the delegations.
LEMMA OneMoreStarted ==
    ASSUME NEW c \in States, NEW T \in SUBSET (Delegators \X Operators), NEW dv \in T,
           NEW s \in States, HasStarted(c, s, T \ {dv}), Exists(c, dv[2])
    PROVE  HasStarted(c, StartDelegation(s, dv), T)
  <1>. DEFINE r == StartDelegation(s, dv)
  <1>1. PICK x \in Delegators, v \in Operators : dv = <<x, v>>
    OBVIOUS
  <1>2. /\ SameStaking(c, s) /\ ~s.panic
        /\ s.distribution = c.distribution /\ c.pool <= s.pool
    BY DEF HasStarted
  <1>3. Exists(s, v) /\ v \in Existing(c)
    BY <1>1, <1>2 DEF SameStaking, Exists, Existing
  <1>4. Balanced(s, v, Of(T \ {dv}, v))
    BY <1>3 DEF HasStarted
  <1>5. x \notin Of(T \ {dv}, v) /\ Of(T \ {dv}, v) \cup {x} = Of(T, v)
    BY <1>1 DEF Of
  <1>6. DelegationAdded(s, r, v, Of(T \ {dv}, v), x)
    BY <1>1, <1>2, <1>3, <1>4, <1>5, DelegationStartBalances
  <1>. HIDE DEF r
  <1>7. /\ OnlyLedger(s, r, v) /\ Balanced(r, v, Of(T, v)) /\ r.start[x][v] # NoInfo
        /\ \A y \in Delegators \ {x} : r.start[y][v] = s.start[y][v]
        /\ r.distribution = s.distribution /\ s.pool <= r.pool
    BY <1>5, <1>6 DEF DelegationAdded
  <1>8. r \in States /\ SameStaking(s, r) /\ r.panic = s.panic
    BY <1>7 DEF OnlyLedger
  <1>9. SameStaking(c, r) /\ c.pool <= r.pool
    <2>1. c.pool \in Int /\ s.pool \in Int /\ r.pool \in Int
      BY <1>8 DEF States
    <2>. QED BY <1>2, <1>7, <1>8, <2>1 DEF SameStaking
  <1>10. ASSUME NEW w \in Existing(c) PROVE Balanced(r, w, Of(T, w))
    <2>1. CASE w = v
      BY <1>7, <2>1
    <2>2. CASE w # v
      <3>1. Of(T \ {dv}, w) = Of(T, w) /\ w \in Operators
        BY <1>1, <2>2 DEF Of, Existing
      <3>2. Balanced(s, w, Of(T, w))
        BY <3>1 DEF HasStarted
      <3>3. Unmoved(s, r, w)
        BY <1>7, <2>2, <3>1, LedgerIsElsewhere DEF Elsewhere
      <3>. QED BY <1>8, <3>1, <3>2, <3>3, LedgerIsTheSame
    <2>. QED BY <2>1, <2>2
  <1>11. \A w \in Operators \ Existing(c) : r.dist[w] = c.dist[w]
    BY <1>3, <1>7 DEF HasStarted, OnlyLedger
  <1>12. ASSUME NEW y \in Delegators, NEW w \in Operators, <<y, w>> # dv
         PROVE  r.start[y][w] = s.start[y][w]
    BY <1>1, <1>7, <1>12 DEF OnlyLedger
  <1>13. \A e \in T : r.start[e[1]][e[2]] # NoInfo
    <2>1. SUFFICES ASSUME NEW e \in T PROVE r.start[e[1]][e[2]] # NoInfo
      OBVIOUS
    <2>2. CASE e = dv
      BY <1>1, <1>7, <2>2
    <2>3. CASE e # dv
      <3>1. e[1] \in Delegators /\ e[2] \in Operators /\ <<e[1], e[2]>> = e
        OBVIOUS
      <3>2. s.start[e[1]][e[2]] # NoInfo
        BY <2>3 DEF HasStarted
      <3>. QED BY <1>12, <2>3, <3>1, <3>2
    <2>. QED BY <2>2, <2>3
  <1>14. ASSUME NEW y \in Delegators, NEW w \in Operators, <<y, w>> \notin T
         PROVE  r.start[y][w] = c.start[y][w]
    <2>1. <<y, w>> # dv /\ <<y, w>> \notin T \ {dv}
      BY <1>14
    <2>2. s.start[y][w] = c.start[y][w]
      BY <2>1 DEF HasStarted
    <2>. QED BY <1>12, <2>1, <2>2
  <1>. QED BY <1>2, <1>7, <1>8, <1>9, <1>10, <1>11, <1>13, <1>14 DEF HasStarted, r

\* All delegations start, to validators that are there and whose records are new.
LEMMA AllStart ==
    ASSUME NEW c \in States, ~c.panic, NEW S \in SUBSET (Delegators \X Operators),
           \A dv \in S : Exists(c, dv[2]), \A v \in Existing(c) : Balanced(c, v, {})
    PROVE  HasStarted(c, ForAll(StartDelegation, c, S), S)
  <1>. DEFINE V == [T \in SUBSET S |-> {s \in States : HasStarted(c, s, T)}]
  <1>1. IsFiniteSet(S)
    BY ChainAssumption, FS_Product, FS_Subset
  <1>2. V \in [SUBSET S -> SUBSET States]
    OBVIOUS
  <1>3. c \in V[{}]
    <2>1. \A v : Of({}, v) = {}
      BY DEF Of
    <2>2. c.pool <= c.pool
      BY DEF States
    <2>. QED BY <2>1, <2>2 DEF HasStarted, SameStaking
  <1>4. ASSUME NEW T \in SUBSET S, NEW x \in T, NEW s \in V[T \ {x}]
        PROVE  StartStep(x, s) \in V[T]
    <2>1. T \ {x} \in SUBSET S /\ T \in SUBSET (Delegators \X Operators) /\ Exists(c, x[2])
      OBVIOUS
    <2>2. s \in States /\ HasStarted(c, s, T \ {x})
      BY <2>1
    <2>3. HasStarted(c, StartDelegation(s, x), T)
      BY <2>1, <2>2, OneMoreStarted
    <2>4. StartStep(x, s) = StartDelegation(s, x)
      BY <2>2 DEF StartStep, Then, HasStarted
    <2>. QED BY <2>3, <2>4 DEF HasStarted
  <1>5. Starting!Fold(c, S) \in V[S]
    <2>1. Starting!IsFiniteSet(S)
      BY <1>1 DEF IsFiniteSet, Starting!IsFiniteSet
    <2>. HIDE DEF V
    <2>. QED BY <1>2, <1>3, <1>4, <2>1, Starting!FoldReaches
  <1>. QED BY <1>5, StartIsAFold

-----------------------------------------------------------------------------
(* The first genesis *)

\* The validators of the genesis are ready for their first records.
LEMMA FoundedIsReady ==
    ASSUME NEW v \in Genesis
    PROVE  Ready(Founded, v)
  <1>. DEFINE stake == Stake * Cardinality(Delegators)
              f == [x \in Delegators |-> Founded.dels[x][v]]
  <1>1. v \in Operators /\ stake \in Nat /\ Stake \in Int
    BY ChainAssumption, FoundedIsAState
  <1>2. Founded.dels = [d \in Delegators |-> [w \in Operators |-> IF w \in Genesis THEN Stake ELSE 0]]
    BY DEF Founded
  <1>3. \A x \in Delegators : f[x] = Stake
    BY <1>1, <1>2
  <1>4. f \in [Delegators -> Int]
    BY <1>1, <1>3
  <1>5. SumFunction(f) = Stake * Cardinality(Delegators)
    <2>. HIDE DEF f
    <2>. QED BY <1>1, <1>3, <1>4, ChainAssumption, SumOfEquals
  <1>6. Held(Founded, v) = stake
    BY <1>5 DEF Held
  <1>7. Founded.vals[v].shares = stake /\ Founded.vals[v].tokens = stake
    BY <1>1, FoundedIsAState
  <1>8. Founded.dist[v] = NoRecords
    BY <1>1, FoundedIsAState
  <1>9. NothingRecorded(Founded, v)
    BY <1>8 DEF NothingRecorded, NoRecords
  <1>. HIDE DEF stake, f
  <1>. QED BY <1>1, <1>6, <1>7, <1>9 DEF Ready

LEMMA FoundedIsOrderly == Orderly(Founded, FALSE)
  <1>1. IsFiniteSet(Genesis) /\ Stake * Cardinality(Delegators) \in Nat
    BY ChainAssumption, FS_Subset, FoundedIsAState
  <1>2. Cardinality(Genesis) \in Nat
    BY <1>1, FS_CardinalityType
  <1>3. Founded.bonded >= 0
    <2>. DEFINE n == Stake * Cardinality(Delegators)
                m == Cardinality(Genesis)
    <2>1. Founded.bonded = n * m /\ n \in Nat /\ m \in Nat
      BY <1>1, <1>2, FoundedIsAState
    <2>. HIDE DEF n, m
    <2>. QED BY <2>1
  <1>4. QueueRight(Founded) /\ Signed(Founded)
    BY DEF Founded, QueueRight, Signed
  <1>5. PowerRight(Founded)
    <2>. SUFFICES ASSUME NEW v \in Genesis PROVE ~Founded.vals[v].jailed
      BY FoundedIsAState DEF PowerRight
    <2>1. v \in Operators
      BY ChainAssumption
    <2>. QED BY <2>1, FoundedIsAState
  <1>. QED BY <1>3, <1>4, <1>5 DEF Orderly

\* Every delegator has delegated to every validator, and started.
LEMMA FirstStateIsKept == Kept(FirstState, 1) /\ SameStaking(Founded, FirstState) /\ ~FirstState.panic
  <1>. DEFINE S == Delegators \X Genesis
  <1>1. /\ Founded \in States /\ ~Founded.panic /\ Genesis \in SUBSET Operators
        /\ S \in SUBSET (Delegators \X Operators)
    BY ChainAssumption, FoundedIsAState
  <1>2. HasSetUp(Founded, Initialized, Genesis)
    BY <1>1, FoundedIsReady, InitSetsUpAll DEF Initialized
  <1>3. /\ Initialized \in States /\ SameStaking(Founded, Initialized) /\ ~Initialized.panic
        /\ Initialized.start = Founded.start /\ Founded.pool <= Initialized.pool
        /\ \A v \in Genesis : Balanced(Initialized, v, {})
        /\ \A v \in Operators \ Genesis : Initialized.dist[v] = Founded.dist[v]
    BY <1>2 DEF HasSetUp
  <1>4. Existing(Initialized) = Genesis
    <2>1. Initialized.vals = Founded.vals
      BY <1>3 DEF SameStaking
    <2>. QED BY <1>1, <2>1, FoundedIsAState DEF Existing, Exists, NoValidator
  <1>5. HasStarted(Initialized, FirstState, S)
    <2>1. \A dv \in S : Exists(Initialized, dv[2])
      BY <1>4 DEF Existing
    <2>. QED BY <1>1, <1>3, <1>4, <2>1, AllStart, FirstStateIsFounded
  <1>6. /\ FirstState \in States /\ SameStaking(Initialized, FirstState) /\ ~FirstState.panic
        /\ Initialized.pool <= FirstState.pool
        /\ \A v \in Genesis : Balanced(FirstState, v, Of(S, v))
        /\ \A v \in Operators \ Genesis : FirstState.dist[v] = Initialized.dist[v]
        /\ \A dv \in S : FirstState.start[dv[1]][dv[2]] # NoInfo
        /\ \A x \in Delegators, v \in Operators :
              <<x, v>> \notin S => FirstState.start[x][v] = Initialized.start[x][v]
    BY <1>4, <1>5 DEF HasStarted
  <1>7. SameStaking(Founded, FirstState)
    BY <1>3, <1>6 DEF SameStaking
  <1>8. /\ FirstState.vals = Founded.vals /\ FirstState.dels = Founded.dels
    BY <1>7 DEF SameStaking
  <1>9. FirstState.pool >= 0
    <2>1. Initialized.pool \in Int /\ FirstState.pool \in Int
      BY <1>3, <1>6 DEF States
    <2>. QED BY <1>3, <1>6, <2>1, FoundedIsAState
  <1>10. ASSUME NEW v \in Genesis PROVE Good(FirstState, v, 1)
    <2>1. v \in Operators /\ Of(S, v) = Delegators
      BY <1>1 DEF Of
    <2>2. \A x \in Delegators : FirstState.start[x][v] # NoInfo
      <3>. SUFFICES ASSUME NEW x \in Delegators PROVE FirstState.start[x][v] # NoInfo
        OBVIOUS
      <3>1. <<x, v>> \in S
        OBVIOUS
      <3>. QED BY <1>6, <3>1
    <2>3. Started(FirstState, v) = Delegators
      BY <2>2 DEF Started
    <2>4. Balanced(FirstState, v, Started(FirstState, v))
      BY <1>6, <2>1, <2>3
    <2>5. Delegated(FirstState, v)
      <3>1. \A x \in Delegators : FirstState.dels[x][v] = Stake
        BY <1>8, <2>1 DEF Founded
      <3>. QED BY <2>2, <3>1, ChainAssumption DEF Delegated
    <2>6. FirstState.vals[v].tokens <= 1 * FirstState.vals[v].shares
      <3>1. FirstState.vals[v].shares = FirstState.vals[v].tokens
        BY <1>8, <2>1, FoundedIsAState
      <3>2. FirstState.vals[v].tokens \in Nat
        BY <1>6, <2>1 DEF States, Vals
      <3>. QED BY <3>1, <3>2
    <2>. QED BY <1>6, <2>1, <2>4, <2>5, <2>6, GoodFromBalance
  <1>11. ASSUME NEW v \in Operators \ Genesis PROVE Good(FirstState, v, 1)
    <2>1. FirstState.dist[v] = NoRecords /\ FirstState.vals[v] = NoValidator
      BY <1>3, <1>6, <1>8, FoundedIsAState
    <2>2. \A x \in Delegators : FirstState.dels[x][v] = 0
      BY <1>8 DEF Founded
    <2>3. \A x \in Delegators : FirstState.start[x][v] = NoInfo
      <3>. SUFFICES ASSUME NEW x \in Delegators PROVE FirstState.start[x][v] = NoInfo
        OBVIOUS
      <3>1. <<x, v>> \notin S
        OBVIOUS
      <3>2. FirstState.start[x][v] = Founded.start[x][v]
        BY <1>3, <1>6, <3>1
      <3>. QED BY <3>2 DEF Founded
    <2>4. Delegated(FirstState, v)
      BY <2>2, <2>3 DEF Delegated
    <2>5. WellKept(FirstState, v)
      BY <2>1 DEF WellKept, NoRecords, NoValidator
    <2>6. ~Exists(FirstState, v)
      BY <2>1 DEF Exists, NoValidator
    <2>. QED BY <2>2, <2>4, <2>5, <2>6 DEF Good
  <1>. QED BY <1>6, <1>7, <1>9, <1>10, <1>11 DEF Kept

\* The chain starts fit.
LEMMA FirstStateFits == Fit(FirstState, FALSE, TRUE) /\ FirstState.height = 1
  <1>1. Kept(FirstState, 1) /\ SameStaking(Founded, FirstState) /\ ~FirstState.panic
    BY FirstStateIsKept
  <1>2. /\ FirstState \in States /\ Whole(FirstState) /\ LastIsBonded(FirstState)
        /\ BondedSurplus(FirstState) = 0 /\ NotBondedSurplus(FirstState) = 0
    BY FirstStateIsWhole
  <1>3. Founded \in States /\ Founded.height = 1
    BY FoundedIsAState DEF Founded
  <1>4. Orderly(FirstState, FALSE)
    BY <1>1, <1>2, <1>3, FoundedIsOrderly, OrderOutlasts
  <1>5. Backed(FirstState, FALSE)
    BY <1>2, <1>4 DEF Backed, Orderly
  <1>6. FirstState.height = 1
    BY <1>1, <1>3 DEF SameStaking
  <1>. QED BY <1>1, <1>2, <1>4, <1>5, <1>6 DEF Fit, Healthy, Rate

-----------------------------------------------------------------------------
(* What the export pays *)

\* A claim stays as long as nothing it depends on changes.
LEMMA ClaimsStay ==
    ASSUME NEW c \in States, NEW d \in States, NEW v \in Operators, NEW D,
           Balanced(c, v, D), KeepsBooks(c, d, v, D), d.height = c.height,
           d.vals[v].tokens = c.vals[v].tokens, d.dist[v].rewards = c.dist[v].rewards
    PROVE  SameClaims(c, d, v, D)
  <1>1. Recorded(c, v, D)
    BY DEF Balanced, Recorded
  <1>2. \A x \in D : Gathering(d, v, x) = Gathering(c, v, x) /\ Due(d, v, x) = Due(c, v, x)
    BY <1>1, BooksStay
  <1>3. PerToken(d, v) = PerToken(c, v)
    BY DEF PerToken
  <1>. QED BY <1>2, <1>3 DEF SameClaims, Claim, KeepsBooks

\* A call about another validator takes no claim away.
LEMMA ClaimsElsewhere ==
    ASSUME NEW c \in States, NEW R, Kept(c, R), NEW d, NEW v \in Operators, Elsewhere(c, d, v),
           d.height = c.height, NEW w \in Operators \ {v}, Exists(c, w)
    PROVE  SameClaims(c, d, w, Started(c, w))
  <1>1. SameLedger(c, d, w) /\ d \in States
    BY DEF Elsewhere, Unmoved
  <1>2. Balanced(c, w, Started(c, w))
    BY DEF Kept, Good
  <1>3. KeepsBooks(c, d, w, Started(c, w))
    BY <1>1 DEF SameLedger, KeepsBooks, Started
  <1>. QED BY <1>1, <1>2, <1>3, ClaimsStay DEF SameLedger, SameShares

\* Nor does the withdrawal of a commission.
LEMMA CommissionIsPaid ==
    ASSUME NEW c \in States, NEW v \in Operators, NEW R, Kept(c, R), Exists(c, v)
    PROVE  LET d == WithdrawValidatorCommission(c, v) IN
           /\ d.distribution = c.distribution - c.dist[v].commission
           /\ SameClaims(c, d, v, Started(c, v))
  <1>. DEFINE d == WithdrawValidatorCommission(c, v)
  <1>1. d \in States
    BY CommissionDistributes DEF Distributes
  <1>2. c.dist[v] \in Records /\ c.height \in Int
    BY DEF States
  <1>3. /\ d.height = c.height /\ d.start = c.start /\ d.vals = c.vals
        /\ d.dist[v].hist = c.dist[v].hist /\ d.dist[v].period = c.dist[v].period
        /\ d.dist[v].slashes = c.dist[v].slashes /\ d.dist[v].rewards = c.dist[v].rewards
        /\ d.distribution = c.distribution - c.dist[v].commission
    BY <1>2 DEF WithdrawValidatorCommission, States, Records
  <1>. HIDE DEF d
  <1>4. KeepsBooks(c, d, v, Started(c, v))
    BY <1>2, <1>3 DEF KeepsBooks
  <1>5. Balanced(c, v, Started(c, v))
    BY DEF Kept, Good
  <1>6. SameClaims(c, d, v, Started(c, v))
    BY <1>1, <1>3, <1>4, <1>5, ClaimsStay
  <1>. QED BY <1>3, <1>6 DEF d

\* The commission of every validator, and the claim of every delegation.
CommissionsOf(c) == [v \in Existing(c) |-> c.dist[v].commission]
ClaimsOf(c) == [dv \in Delegations(c) |-> Claim(c, dv[2], dv[1])]

NoOrphans(c) == \A dv \in Delegations(c) : Exists(c, dv[2])

\* The distribution module changes no delegation.
LEMMA SameDelegations ==
    ASSUME NEW c, NEW s, SameStaking(c, s)
    PROVE  Delegations(s) = Delegations(c) /\ Existing(s) = Existing(c)
           /\ (NoOrphans(c) => NoOrphans(s))
  BY DEF SameStaking, Delegations, Existing, Exists, NoOrphans

\* The validators in T have their commission.
HasCommissions(c, s, T, R) ==
    /\ s \in States /\ SameStaking(c, s) /\ ~s.panic /\ Kept(s, R)
    /\ \A v \in Existing(c) \ T : s.dist[v].commission = c.dist[v].commission
    /\ c.distribution - s.distribution = Sums(CommissionsOf(c))[T]
    /\ \A dv \in Delegations(c) : Claim(s, dv[2], dv[1]) = Claim(c, dv[2], dv[1])

\* The delegations in T have their rewards.
HasRewards(c, s, T, R) ==
    /\ s \in States /\ SameStaking(c, s) /\ ~s.panic /\ Kept(s, R)
    /\ c.distribution - s.distribution = Sums(ClaimsOf(c))[T]
    /\ \A dv \in Delegations(c) \ T : Claim(s, dv[2], dv[1]) = Claim(c, dv[2], dv[1])

\* Who delegates to v has a claim that a call about v does not touch.
LEMMA ClaimsKept ==
    ASSUME NEW c \in States, NEW R, Kept(c, R), NoOrphans(c), NEW d, NEW v \in Operators,
           OnlyLedger(c, d, v), NEW E \in SUBSET Delegators, SameClaims(c, d, v, Started(c, v) \ E),
           NEW dv \in Delegations(c), dv[2] # v \/ dv[1] \notin E
    PROVE  Claim(d, dv[2], dv[1]) = Claim(c, dv[2], dv[1])
  <1>1. PICK x \in Delegators, w \in Operators : dv = <<x, w>> /\ c.dels[x][w] > 0
    BY DEF Delegations
  <1>2. Exists(c, w)
    BY <1>1 DEF NoOrphans
  <1>3. x \in Started(c, w)
    BY <1>1 DEF Kept, Good, Delegated, Started
  <1>4. d.height = c.height
    BY DEF OnlyLedger, SameStaking
  <1>5. CASE w = v
    BY <1>1, <1>3, <1>5 DEF SameClaims
  <1>6. CASE w # v
    <2>1. SameClaims(c, d, w, Started(c, w))
      BY <1>2, <1>4, <1>6, LedgerIsElsewhere, ClaimsElsewhere
    <2>. QED BY <1>1, <1>3, <2>1 DEF SameClaims
  <1>. QED BY <1>5, <1>6

\* A step of the loop over the commissions;
LEMMA OneMoreCommission ==
    ASSUME NEW c \in States, NoOrphans(c), NEW R, NEW T \in SUBSET Existing(c), NEW v \in T, NEW s,
           HasCommissions(c, s, T \ {v}, R)
    PROVE  HasCommissions(c, WithdrawValidatorCommission(s, v), T, R)
  <1>. DEFINE d == WithdrawValidatorCommission(s, v)
              f == CommissionsOf(c)
  <1>1. s \in States /\ SameStaking(c, s) /\ ~s.panic /\ Kept(s, R)
    BY DEF HasCommissions
  <1>2. v \in Operators /\ Exists(s, v) /\ v \in Existing(c)
    BY <1>1 DEF Existing, Exists, SameStaking
  <1>3. Kept(d, R) /\ OnlyLedger(s, d, v)
    BY <1>1, <1>2, CommissionKept
  <1>4. /\ d.distribution = s.distribution - s.dist[v].commission
        /\ SameClaims(s, d, v, Started(s, v))
    BY <1>1, <1>2, CommissionIsPaid
  <1>. HIDE DEF d
  <1>5. s.dist[v].commission = f[v]
    BY <1>2 DEF HasCommissions, CommissionsOf
  <1>6. Sums(f)[T] = f[v] + Sums(f)[T \ {v}] /\ Sums(f)[T \ {v}] \in Int
    <2>1. IsFiniteSet(Existing(c))
      BY ChainAssumption, FS_Subset DEF Existing
    <2>2. f \in [Existing(c) -> Int]
      BY DEF CommissionsOf, States, Records, Existing
    <2>3. T \ {v} \in SUBSET Existing(c)
      OBVIOUS
    <2>4. Sums(f) \in [SUBSET Existing(c) -> Int]
      BY <2>1, <2>2, SumsAddUp DEF AddsUp
    <2>. HIDE DEF f
    <2>. QED BY <2>1, <2>2, <2>3, <2>4, SumTakesOut
  <1>7. c.distribution - d.distribution = Sums(f)[T]
    <2>1. c.distribution - s.distribution = Sums(f)[T \ {v}]
      BY DEF HasCommissions
    <2>2. c.distribution \in Int /\ s.distribution \in Int /\ s.dist[v].commission \in Int
      BY <1>1, <1>2 DEF States, Records
    <2>. HIDE DEF f
    <2>. QED BY <1>4, <1>5, <1>6, <2>1, <2>2
  <1>8. d \in States /\ SameStaking(s, d) /\ ~d.panic
    BY <1>1, <1>3 DEF OnlyLedger
  <1>9. \A w \in Existing(c) \ T : d.dist[w].commission = c.dist[w].commission
    BY <1>3 DEF HasCommissions, OnlyLedger, Existing
  <1>10. \A dv \in Delegations(c) : Claim(d, dv[2], dv[1]) = Claim(c, dv[2], dv[1])
    <2>1. Delegations(s) = Delegations(c) /\ NoOrphans(s)
      BY <1>1, SameDelegations
    <2>2. {} \in SUBSET Delegators /\ SameClaims(s, d, v, Started(s, v) \ {})
      BY <1>4
    <2>3. \A dv \in Delegations(s) : Claim(d, dv[2], dv[1]) = Claim(s, dv[2], dv[1])
      BY <1>1, <1>2, <1>3, <2>1, <2>2, ClaimsKept
    <2>. QED BY <2>1, <2>3 DEF HasCommissions
  <1>11. SameStaking(c, d)
    BY <1>1, <1>8 DEF SameStaking
  <1>. QED BY <1>3, <1>7, <1>8, <1>9, <1>10, <1>11 DEF HasCommissions, d

\* a step of the loop over the rewards.
LEMMA OneMoreReward ==
    ASSUME NEW c \in States, NoOrphans(c), NEW R, NEW T \in SUBSET Delegations(c), NEW e \in T,
           NEW s, HasRewards(c, s, T \ {e}, R), IsFiniteSet(Delegations(c)),
           ClaimsOf(c) \in [Delegations(c) -> Int]
    PROVE  HasRewards(c, WithdrawRewardsOf(s, e), T, R)
  <1>. DEFINE f == ClaimsOf(c)
              d == WithdrawRewardsOf(s, e)
  <1>1. PICK x \in Delegators, v \in Operators : e = <<x, v>> /\ c.dels[x][v] > 0
    BY DEF Delegations
  <1>2. s \in States /\ SameStaking(c, s) /\ ~s.panic /\ Kept(s, R)
    BY DEF HasRewards
  <1>3. Exists(s, v) /\ s.dels[x][v] > 0
    BY <1>1, <1>2 DEF NoOrphans, Exists, SameStaking
  <1>4. d = WithdrawDelegationRewards(s, x, v)
    BY <1>1 DEF WithdrawRewardsOf
  <1>. HIDE DEF d
  <1>5. /\ Kept(d, R) /\ OnlyLedger(s, d, v) /\ ~d.panic
        /\ Claim(s, v, x) \in Nat /\ d.distribution = s.distribution - Claim(s, v, x)
        /\ SameClaims(s, d, v, Started(s, v) \ {x})
    BY <1>2, <1>3, <1>4, WithdrawalKept
  <1>6. Claim(s, v, x) = f[e]
    BY <1>1 DEF HasRewards, ClaimsOf
  <1>7. Sums(f)[T] = f[e] + Sums(f)[T \ {e}] /\ Sums(f)[T \ {e}] \in Int
    <2>1. T \ {e} \in SUBSET Delegations(c)
      OBVIOUS
    <2>2. Sums(f) \in [SUBSET Delegations(c) -> Int]
      BY SumsAddUp DEF AddsUp
    <2>. HIDE DEF f
    <2>. QED BY <2>1, <2>2, SumTakesOut DEF f
  <1>8. c.distribution - d.distribution = Sums(f)[T]
    <2>1. c.distribution - s.distribution = Sums(f)[T \ {e}]
      BY DEF HasRewards
    <2>2. c.distribution \in Int /\ s.distribution \in Int
      BY <1>2 DEF States
    <2>. HIDE DEF f
    <2>. QED BY <1>5, <1>6, <1>7, <2>1, <2>2
  <1>9. d \in States /\ SameStaking(s, d)
    BY <1>5 DEF OnlyLedger
  <1>10. ASSUME NEW dv \in Delegations(c) \ T
         PROVE  Claim(d, dv[2], dv[1]) = Claim(c, dv[2], dv[1])
    <2>1. Delegations(s) = Delegations(c) /\ NoOrphans(s)
      BY <1>2, SameDelegations
    <2>2. dv # e /\ dv \in Delegations(c) \ (T \ {e})
      OBVIOUS
    <2>3. dv[2] # v \/ dv[1] \notin {x}
      BY <1>1, <2>2 DEF Delegations
    <2>. DEFINE E == {x}
    <2>4. /\ E \in SUBSET Delegators /\ dv \in Delegations(s) /\ s \in States /\ Kept(s, R)
          /\ dv[2] # v \/ dv[1] \notin E
          /\ SameClaims(s, d, v, Started(s, v) \ E)
      BY <1>2, <1>5, <2>1, <2>3
    <2>5. OnlyLedger(s, d, v) /\ NoOrphans(s)
      BY <1>5, <2>1
    <2>. HIDE DEF E
    <2>6. Claim(d, dv[2], dv[1]) = Claim(s, dv[2], dv[1])
      BY <2>4, <2>5, ClaimsKept
    <2>. QED BY <2>2, <2>6 DEF HasRewards
  <1>11. SameStaking(c, d)
    BY <1>2, <1>9 DEF SameStaking
  <1>. QED BY <1>5, <1>8, <1>9, <1>10, <1>11 DEF HasRewards, d

\* Claims are integers, so that they add up.
LEMMA ClaimsAreWhole ==
    ASSUME NEW c \in States, ~c.panic, NEW R, Kept(c, R), NoOrphans(c)
    PROVE  ClaimsOf(c) \in [Delegations(c) -> Int] /\ IsFiniteSet(Delegations(c))
  <1>1. IsFiniteSet(Delegators \X Operators)
    BY ChainAssumption, FS_Product
  <1>2. IsFiniteSet(Delegations(c))
    BY <1>1, FS_Subset DEF Delegations
  <1>3. ASSUME NEW dv \in Delegations(c) PROVE Claim(c, dv[2], dv[1]) \in Int
    <2>1. PICK x \in Delegators, v \in Operators : dv = <<x, v>> /\ c.dels[x][v] > 0
      BY DEF Delegations
    <2>2. Exists(c, v)
      BY <2>1 DEF NoOrphans
    <2>3. Claim(c, v, x) \in Nat
      BY <2>1, <2>2, WithdrawalKept
    <2>. QED BY <2>1, <2>3
  <1>. QED BY <1>2, <1>3 DEF ClaimsOf

\* The export withdraws every commission;
LEMMA AllCommissions ==
    ASSUME NEW c \in States, ~c.panic, NEW R, Kept(c, R), NoOrphans(c)
    PROVE  HasCommissions(c, WithdrawAllCommission(c), Existing(c), R)
  <1>. DEFINE S == Existing(c)
              f == CommissionsOf(c)
              V == [T \in SUBSET S |-> {s \in States : HasCommissions(c, s, T, R)}]
  <1>1. IsFiniteSet(S)
    BY ChainAssumption, FS_Subset DEF Existing
  <1>2. V \in [SUBSET S -> SUBSET States]
    OBVIOUS
  <1>3. c \in V[{}]
    <2>1. f \in [S -> Int]
      BY DEF CommissionsOf, States, Records, Existing
    <2>2. Sums(f)[{}] = 0
      <3>. HIDE DEF f, S
      <3>. QED BY <1>1, <2>1, SumsAddUp DEF AddsUp
    <2>3. c.distribution - c.distribution = 0
      BY DEF States
    <2>. QED BY <2>2, <2>3 DEF HasCommissions, SameStaking
  <1>4. ASSUME NEW T \in SUBSET S, NEW x \in T, NEW s \in V[T \ {x}]
        PROVE  CommissionStep(x, s) \in V[T]
    <2>1. s \in States /\ HasCommissions(c, s, T \ {x}, R)
      OBVIOUS
    <2>2. HasCommissions(c, WithdrawValidatorCommission(s, x), T, R)
      BY <2>1, OneMoreCommission
    <2>3. CommissionStep(x, s) = WithdrawValidatorCommission(s, x)
      BY <2>1 DEF CommissionStep, Then, HasCommissions
    <2>. QED BY <2>2, <2>3 DEF HasCommissions
  <1>5. Commissions!Fold(c, S) \in V[S]
    <2>1. Commissions!IsFiniteSet(S)
      BY <1>1 DEF IsFiniteSet, Commissions!IsFiniteSet
    <2>. HIDE DEF V, S
    <2>. QED BY <1>2, <1>3, <1>4, <2>1, Commissions!FoldReaches
  <1>. QED BY <1>5, CommissionIsAFold DEF WithdrawAllCommission

\* and every reward.
LEMMA AllRewards ==
    ASSUME NEW c \in States, ~c.panic, NEW R, Kept(c, R), NoOrphans(c)
    PROVE  HasRewards(c, WithdrawAllRewards(c), Delegations(c), R)
  <1>. DEFINE S == Delegations(c)
              f == ClaimsOf(c)
              V == [T \in SUBSET S |-> {s \in States : HasRewards(c, s, T, R)}]
  <1>1. IsFiniteSet(S) /\ f \in [S -> Int]
    BY ClaimsAreWhole
  <1>2. V \in [SUBSET S -> SUBSET States]
    OBVIOUS
  <1>3. c \in V[{}]
    <2>1. Sums(f)[{}] = 0
      <3>. HIDE DEF f, S
      <3>. QED BY <1>1, SumsAddUp DEF AddsUp
    <2>2. c.distribution - c.distribution = 0
      BY DEF States
    <2>. QED BY <2>1, <2>2 DEF HasRewards, SameStaking
  <1>4. ASSUME NEW T \in SUBSET S, NEW x \in T, NEW s \in V[T \ {x}]
        PROVE  RewardsStep(x, s) \in V[T]
    <2>1. s \in States /\ HasRewards(c, s, T \ {x}, R)
      OBVIOUS
    <2>2. HasRewards(c, WithdrawRewardsOf(s, x), T, R)
      BY <1>1, <2>1, OneMoreReward
    <2>3. RewardsStep(x, s) = WithdrawRewardsOf(s, x)
      BY <2>1 DEF RewardsStep, Then, HasRewards
    <2>. QED BY <2>2, <2>3 DEF HasRewards
  <1>5. Rewards!Fold(c, S) \in V[S]
    <2>1. Rewards!IsFiniteSet(S)
      BY <1>1 DEF IsFiniteSet, Rewards!IsFiniteSet
    <2>. HIDE DEF V, S
    <2>. QED BY <1>2, <1>3, <1>4, <2>1, Rewards!FoldReaches
  <1>. QED BY <1>5, RewardsIsAFold DEF WithdrawAllRewards

\* What the export has paid when it is done with the withdrawals.
Payout(c) == SumFunction(CommissionsOf(c)) + SumFunction(ClaimsOf(c))

\* When both loops are done, everybody is paid.
LEMMA AllWithdrawn ==
    ASSUME NEW c \in States, ~c.panic, NEW R, Kept(c, R), NoOrphans(c)
    PROVE  LET d == WithdrawAllRewards(WithdrawAllCommission(c)) IN
           /\ d \in States /\ SameStaking(c, d) /\ ~d.panic /\ Kept(d, R)
           /\ PaidBy(c, d) = Payout(c)
  <1>. DEFINE e == WithdrawAllCommission(c)
              d == WithdrawAllRewards(e)
  <1>1. HasCommissions(c, e, Existing(c), R)
    BY AllCommissions
  <1>. HIDE DEF e
  <1>2. /\ e \in States /\ SameStaking(c, e) /\ ~e.panic /\ Kept(e, R)
        /\ c.distribution - e.distribution = Sums(CommissionsOf(c))[Existing(c)]
        /\ \A dv \in Delegations(c) : Claim(e, dv[2], dv[1]) = Claim(c, dv[2], dv[1])
    BY <1>1 DEF HasCommissions
  <1>3. Delegations(e) = Delegations(c) /\ NoOrphans(e)
    BY <1>2, SameDelegations
  <1>4. HasRewards(e, d, Delegations(e), R)
    BY <1>2, <1>3, AllRewards
  <1>. HIDE DEF d
  <1>5. /\ d \in States /\ SameStaking(e, d) /\ ~d.panic /\ Kept(d, R)
        /\ e.distribution - d.distribution = Sums(ClaimsOf(e))[Delegations(e)]
    BY <1>4 DEF HasRewards
  <1>6. ClaimsOf(e) = ClaimsOf(c)
    BY <1>2, <1>3 DEF ClaimsOf
  <1>7. /\ SumFunction(CommissionsOf(c)) = Sums(CommissionsOf(c))[Existing(c)]
        /\ SumFunction(ClaimsOf(c)) = Sums(ClaimsOf(c))[Delegations(c)]
    BY SumFunctionIsASum DEF CommissionsOf, ClaimsOf
  <1>8. PaidBy(c, d) = Payout(c)
    <2>1. c.distribution \in Int /\ d.distribution \in Int /\ e.distribution \in Int
      BY <1>2, <1>5 DEF States
    <2>. DEFINE m == Sums(CommissionsOf(c))[Existing(c)]
                n == Sums(ClaimsOf(c))[Delegations(c)]
    <2>2. c.distribution - e.distribution = m /\ e.distribution - d.distribution = n
      BY <1>2, <1>3, <1>5, <1>6
    <2>3. Payout(c) = m + n
      BY <1>7 DEF Payout
    <2>. HIDE DEF m, n
    <2>. QED BY <2>1, <2>2, <2>3 DEF PaidBy
  <1>9. SameStaking(c, d)
    BY <1>2, <1>5 DEF SameStaking
  <1>. QED BY <1>5, <1>8, <1>9 DEF d, e

-----------------------------------------------------------------------------
(* The export sets the records up anew *)

\* As SameBeside, at any height; a validator that is gone may have lost its shares.
SameLedgers(c, d) ==
    /\ d.dist = c.dist /\ d.start = c.start /\ d.dels = c.dels /\ d.pool = c.pool
    /\ \A w \in Operators : /\ d.vals[w].tokens = c.vals[w].tokens
                            /\ \/ d.vals[w].shares = c.vals[w].shares
                               \/ ~Exists(d, w) /\ d.vals[w].shares = 0
                            /\ Exists(d, w) <=> Exists(c, w)

\* What is kept in d would be at height zero too.
KeptAtZero(d, R) == \E g \in States : g.height = 0 /\ Kept(g, R) /\ SameLedgers(g, d)

LEMMA KeptAtAnyHeight ==
    ASSUME NEW d \in States, NEW R, KeptAtZero(d, R)
    PROVE  Kept(d, R)
  <1>1. PICK g \in States : g.height = 0 /\ Kept(g, R) /\ SameLedgers(g, d)
    BY DEF KeptAtZero
  <1>2. d.height \in Nat
    BY DEF States
  <1>3. ASSUME NEW v \in Operators PROVE Good(d, v, R)
    <2>1. Good(g, v, R) /\ g.height = 0 /\ SameLedgers(g, d)
      BY <1>1 DEF Kept
    <2>2. CASE d.vals[v].shares = g.vals[v].shares
      <3>1. SameLedger(g, d, v)
        BY <1>2, <2>1, <2>2 DEF SameLedger, SameShares, SameLedgers
      <3>2. Unmoved(g, d, v)
        BY <2>1, <3>1 DEF Unmoved, SameLedgers
      <3>. QED BY <1>1, <2>1, <3>2, GoodStays
    <2>3. CASE ~Exists(d, v) /\ d.vals[v].shares = 0
      BY <2>1, <2>3 DEF Good, Delegated, WellKept, SameLedgers
    <2>. QED BY <2>1, <2>2, <2>3 DEF SameLedgers
  <1>. QED BY <1>1, <1>3 DEF Kept, SameLedgers

LEMMA SameLedgersTwice ==
    ASSUME NEW c, NEW d, NEW R, KeptAtZero(c, R), SameLedgers(c, d)
    PROVE  KeptAtZero(d, R)
  BY DEF KeptAtZero, SameLedgers

\* The state without reward records and slashes, in a context of height zero.
Cleared(c) == [ClearDistribution(c) EXCEPT !.height = 0]

\* All that is left of the records.
IsCleared(c, e) ==
    /\ e \in States /\ e.panic = c.panic /\ e.height = 0
    /\ e.vals = c.vals /\ e.dels = c.dels /\ e.start = c.start
    /\ e.pool = c.pool /\ e.distribution = c.distribution
    /\ \A v \in Operators :
          /\ e.dist[v].outstanding = c.dist[v].outstanding
          /\ e.dist[v].rewards = c.dist[v].rewards
          /\ e.dist[v].commission = c.dist[v].commission
          /\ e.dist[v].hist = << >> /\ e.dist[v].slashes = << >>

LEMMA Clears ==
    ASSUME NEW c \in States
    PROVE  IsCleared(c, Cleared(c))
  <1>. DEFINE dist == [x \in Operators |->
                          [c.dist[x] EXCEPT !.hist = << >>, !.slashes = << >>]]
              e == Cleared(c)
  <1>1. << >> \in Histories /\ << >> \in SlashEvents
    BY NoRecordsAreRecords DEF NoRecords, Records
  <1>2. \A x \in Operators : c.dist[x] \in Records
    BY DEF States
  <1>3. dist \in [Operators -> Records]
    BY <1>1, <1>2 DEF Records
  <1>4. \A v \in Operators :
          /\ dist[v].outstanding = c.dist[v].outstanding
          /\ dist[v].rewards = c.dist[v].rewards
          /\ dist[v].commission = c.dist[v].commission
          /\ dist[v].hist = << >> /\ dist[v].slashes = << >>
    BY <1>2 DEF Records
  <1>5. e = [[c EXCEPT !.dist = dist] EXCEPT !.height = 0]
    BY DEF Cleared, ClearDistribution
  <1>. HIDE DEF dist, e
  <1>6. e \in States /\ e.dist = dist /\ e.height = 0
    BY <1>3, <1>5 DEF States
  <1>7. /\ e.panic = c.panic /\ e.vals = c.vals /\ e.dels = c.dels /\ e.start = c.start
        /\ e.pool = c.pool /\ e.distribution = c.distribution
    BY <1>5 DEF States
  <1>8. IsCleared(c, e)
    BY <1>4, <1>6, <1>7 DEF IsCleared
  <1>. QED BY <1>8 DEF e

\* What was kept is ready for new records once they are cleared.
LEMMA ClearedIsReady ==
    ASSUME NEW c \in States, NEW R, Kept(c, R), NEW e, IsCleared(c, e)
    PROVE  /\ \A v \in Operators : WellKept(e, v)
           /\ \A v \in Existing(c) : Ready(e, v) /\ e.dist[v].outstanding >= 0
  <1>1. ASSUME NEW v \in Operators PROVE WellKept(e, v)
    <2>1. DOMAIN e.dist[v].hist = {}
      BY DEF IsCleared
    <2>2. WellKept(c, v)
      BY DEF Kept, Good
    <2>. QED BY <2>1, <2>2 DEF WellKept, IsCleared
  <1>2. ASSUME NEW v \in Existing(c) PROVE Ready(e, v) /\ e.dist[v].outstanding >= 0
    <2>1. v \in Operators /\ Exists(c, v)
      BY DEF Existing
    <2>2. Solvent(c, v, Started(c, v))
      BY <2>1 DEF Kept, Good, Balanced
    <2>3. Held(e, v) = Held(c, v)
      BY DEF Held, IsCleared
    <2>4. NothingRecorded(e, v)
      BY <2>1 DEF NothingRecorded, IsCleared
    <2>5. Ready(e, v)
      BY <2>2, <2>3, <2>4 DEF Ready, Solvent, IsCleared
    <2>. QED BY <1>1, <2>1, <2>5 DEF WellKept
  <1>. QED BY <1>1, <1>2

\* All delegations of r start anew, at height zero.
SetUpAnew(r) == ReinitDelegations(ReinitValidators(Cleared(r)), Delegations(r))

\* With new records, and all delegations started, it is kept again.
LEMMA SetUpAnewIsKept ==
    ASSUME NEW r \in States, ~r.panic, NEW R, Kept(r, R), NoOrphans(r)
    PROVE  LET g == SetUpAnew(r) IN
           /\ g \in States /\ g.height = 0 /\ ~g.panic /\ Kept(g, R)
           /\ g.distribution = r.distribution
  <1>. DEFINE e == Cleared(r)
              f == ReinitValidators(e)
              S == Delegations(r)
              g == SetUpAnew(r)
  <1>1. IsCleared(r, e)
    BY Clears
  <1>. HIDE DEF e
  <1>2. /\ e \in States /\ ~e.panic /\ e.height = 0 /\ e.vals = r.vals /\ e.dels = r.dels
        /\ e.start = r.start /\ e.pool = r.pool /\ e.distribution = r.distribution
    BY <1>1 DEF IsCleared
  <1>3. Existing(e) = Existing(r) /\ Existing(e) \in SUBSET Operators
    BY <1>2 DEF Existing, Exists
  <1>4. HasSetUp(e, f, Existing(e))
    BY <1>1, <1>2, <1>3, ClearedIsReady, ReinitSetsUpAll DEF ReinitValidators
  <1>. HIDE DEF f
  <1>5. /\ f \in States /\ SameStaking(e, f) /\ ~f.panic /\ f.start = e.start
        /\ f.distribution = e.distribution /\ e.pool <= f.pool
        /\ \A v \in Existing(e) : Balanced(f, v, {})
        /\ \A v \in Operators \ Existing(e) : f.dist[v] = e.dist[v]
    BY <1>4 DEF HasSetUp
  <1>6. f.vals = r.vals /\ f.dels = r.dels /\ f.height = 0 /\ Existing(f) = Existing(r)
    BY <1>2, <1>5 DEF SameStaking, Existing, Exists
  <1>7. S \in SUBSET (Delegators \X Operators)
    BY DEF Delegations
  <1>8. HasStarted(f, g, S)
    <2>1. \A dv \in S : Exists(f, dv[2])
      BY <1>6 DEF NoOrphans, Exists
    <2>. QED BY <1>3, <1>5, <1>6, <1>7, <2>1, AllStart DEF SetUpAnew, ReinitDelegations, e, f
  <1>. HIDE DEF g
  <1>9. /\ g \in States /\ SameStaking(f, g) /\ ~g.panic
        /\ g.distribution = f.distribution /\ f.pool <= g.pool
        /\ \A v \in Existing(f) : Balanced(g, v, Of(S, v))
        /\ \A v \in Operators \ Existing(f) : g.dist[v] = f.dist[v]
        /\ \A dv \in S : g.start[dv[1]][dv[2]] # NoInfo
        /\ \A x \in Delegators, v \in Operators :
              <<x, v>> \notin S => g.start[x][v] = f.start[x][v]
    BY <1>8 DEF HasStarted
  <1>10. g.vals = r.vals /\ g.dels = r.dels /\ g.height = 0
    BY <1>6, <1>9 DEF SameStaking
  <1>11. g.pool >= 0
    <2>1. r.pool >= 0 /\ r.pool \in Int /\ e.pool \in Int /\ f.pool \in Int /\ g.pool \in Int
      BY <1>2, <1>5, <1>9 DEF Kept, States
    <2>. QED BY <1>2, <1>5, <1>9, <2>1
  <1>12. ASSUME NEW x \in Delegators, NEW v \in Operators
         PROVE  g.dels[x][v] > 0 <=> g.start[x][v] # NoInfo
    <2>1. CASE <<x, v>> \in S
      <3>1. g.dels[x][v] > 0
        BY <1>10, <2>1 DEF Delegations
      <3>2. g.start[x][v] # NoInfo
        BY <1>9, <2>1
      <3>. QED BY <3>1, <3>2
    <2>2. CASE <<x, v>> \notin S
      <3>1. ~(g.dels[x][v] > 0)
        BY <1>10, <2>2 DEF Delegations
      <3>2. g.start[x][v] = r.start[x][v]
        BY <1>2, <1>5, <1>9, <2>2
      <3>3. r.start[x][v] = NoInfo
        BY <1>10, <3>1 DEF Kept, Good, Delegated
      <3>. QED BY <3>1, <3>2, <3>3
    <2>. QED BY <2>1, <2>2
  <1>13. \A v \in Operators : Delegated(g, v)
    BY <1>12 DEF Delegated
  <1>14. ASSUME NEW v \in Existing(r) PROVE Good(g, v, R)
    <2>1. v \in Operators /\ Exists(r, v) /\ v \in Existing(f)
      BY <1>6 DEF Existing
    <2>2. Started(g, v) = Of(S, v)
      <3>1. \A x \in Delegators : x \in Of(S, v) <=> g.dels[x][v] > 0
        BY <1>10, <2>1 DEF Of, Delegations
      <3>. QED BY <1>12, <2>1, <3>1 DEF Started, Of
    <2>3. Balanced(g, v, Started(g, v))
      BY <1>9, <2>1, <2>2
    <2>4. g.vals[v].tokens <= R * g.vals[v].shares
      BY <1>10, <2>1 DEF Kept, Good
    <2>. QED BY <1>9, <1>13, <2>1, <2>3, <2>4, GoodFromBalance
  <1>15. ASSUME NEW v \in Operators \ Existing(r) PROVE Good(g, v, R)
    <2>1. g.dist[v] = e.dist[v] /\ ~Exists(r, v) /\ ~Exists(g, v)
      BY <1>3, <1>5, <1>6, <1>9, <1>10 DEF Existing, Exists
    <2>2. WellKept(g, v)
      <3>1. WellKept(e, v)
        BY <1>1, ClearedIsReady
      <3>. QED BY <1>2, <1>10, <2>1, <3>1 DEF WellKept
    <2>3. \A x \in Delegators : g.dels[x][v] = 0
      <3>. SUFFICES ASSUME NEW x \in Delegators PROVE g.dels[x][v] = 0
        OBVIOUS
      <3>1. <<x, v>> \notin Delegations(r)
        BY <2>1 DEF NoOrphans
      <3>2. r.dels[x][v] \in Nat
        BY DEF States
      <3>. QED BY <1>10, <3>1, <3>2 DEF Delegations
    <2>. QED BY <1>13, <2>1, <2>2, <2>3 DEF Good
  <1>. QED BY <1>2, <1>5, <1>9, <1>10, <1>11, <1>14, <1>15 DEF Kept, g

LEMMA PreparationIs ==
    ASSUME NEW c \in States, NEW r, r = WithdrawAllRewards(WithdrawAllCommission(c))
    PROVE  PrepareDistribution(c) =
              IF r.panic THEN r
              ELSE [ReinitDelegations(ReinitValidators(Cleared(r)), Delegations(c))
                    EXCEPT !.height = c.height]
  BY DEF PrepareDistribution, Then, Cleared

\* What the export does to the distribution records: nobody loses anything.
LEMMA PreparationKept ==
    ASSUME NEW c \in States, ~c.panic, NEW R, Kept(c, R), NoOrphans(c)
    PROVE  LET d == PrepareDistribution(c) IN
           ~d.panic /\ KeptAtZero(d, R) /\ PaidBy(c, d) = Payout(c)
  <1>. DEFINE r == WithdrawAllRewards(WithdrawAllCommission(c))
              g == SetUpAnew(r)
              d == PrepareDistribution(c)
  <1>1. /\ r \in States /\ SameStaking(c, r) /\ ~r.panic /\ Kept(r, R)
        /\ PaidBy(c, r) = Payout(c)
    BY AllWithdrawn
  <1>2. d = IF r.panic THEN r
            ELSE [ReinitDelegations(ReinitValidators(Cleared(r)), Delegations(c))
                    EXCEPT !.height = c.height]
    BY PreparationIs
  <1>. HIDE DEF r, d
  <1>3. Delegations(r) = Delegations(c) /\ NoOrphans(r)
    BY <1>1, SameDelegations
  <1>4. d = [g EXCEPT !.height = c.height]
    BY <1>1, <1>2, <1>3 DEF SetUpAnew
  <1>5. /\ g \in States /\ g.height = 0 /\ ~g.panic /\ Kept(g, R)
        /\ g.distribution = r.distribution
    BY <1>1, <1>3, SetUpAnewIsKept
  <1>. HIDE DEF g
  <1>6. /\ ~d.panic /\ d.dist = g.dist /\ d.start = g.start /\ d.dels = g.dels /\ d.pool = g.pool
        /\ d.vals = g.vals /\ d.distribution = g.distribution
    BY <1>4, <1>5 DEF States
  <1>7. SameLedgers(g, d)
    BY <1>6 DEF SameLedgers, Exists
  <1>8. PaidBy(c, d) = Payout(c)
    BY <1>1, <1>5, <1>6 DEF PaidBy
  <1>. QED BY <1>5, <1>6, <1>7, <1>8 DEF KeptAtZero, d

\* A delegation to a validator that is gone ends the export.
LEMMA OrphansPanic ==
    ASSUME NEW c \in States, ~NoOrphans(c)
    PROVE  PrepareDistribution(c).panic
  <1>. DEFINE r == WithdrawAllRewards(WithdrawAllCommission(c))
              f == ReinitValidators(Cleared(r))
              S == Delegations(c)
              V == [T \in SUBSET S |->
                      {s \in States : /\ SameStaking(f, s)
                                      /\ \A dv \in T : ~Exists(c, dv[2]) => s.panic}]
  <1>1. PICK orphan \in S : ~Exists(c, orphan[2])
    BY DEF NoOrphans
  <1>2. S \in SUBSET (Delegators \X Operators) /\ IsFiniteSet(S)
    <2>1. S \in SUBSET (Delegators \X Operators) /\ IsFiniteSet(Delegators \X Operators)
      BY ChainAssumption, FS_Product DEF Delegations
    <2>. QED BY <2>1, FS_Subset
  <1>3. r \in States /\ SameStaking(c, r)
    <2>. DEFINE w == WithdrawAllCommission(c)
    <2>1. Distributes(c, w)
      BY CommissionsOfAll DEF WithdrawAllCommission, Existing
    <2>. HIDE DEF w
    <2>2. Delegations(w) \in SUBSET (Delegators \X Operators)
      BY DEF Delegations
    <2>3. Distributes(w, r)
      BY <2>1, <2>2, RewardsOfAll DEF WithdrawAllRewards, Distributes, w
    <2>. QED BY <2>1, <2>3 DEF Distributes, SameStaking
  <1>4. PrepareDistribution(c) = IF r.panic THEN r
            ELSE [ReinitDelegations(f, Delegations(c)) EXCEPT !.height = c.height]
    BY PreparationIs
  <1>. HIDE DEF r
  <1>5. f \in States /\ f.vals = c.vals
    <2>1. IsCleared(r, Cleared(r))
      BY <1>3, Clears
    <2>2. Cleared(r) \in States /\ Cleared(r).vals = c.vals
      BY <1>3, <2>1 DEF IsCleared, SameStaking
    <2>3. Distributes(Cleared(r), f)
      BY <2>2, ReinitAll DEF ReinitValidators, Existing
    <2>. QED BY <2>2, <2>3 DEF Distributes, SameStaking
  <1>. HIDE DEF f
  <1>6. V \in [SUBSET S -> SUBSET States]
    OBVIOUS
  <1>7. f \in V[{}]
    BY <1>5 DEF SameStaking
  <1>8. ASSUME NEW T \in SUBSET S, NEW x \in T, NEW s \in V[T \ {x}]
        PROVE  StartStep(x, s) \in V[T]
    <2>1. /\ s \in States /\ SameStaking(f, s)
          /\ \A dv \in T \ {x} : ~Exists(c, dv[2]) => s.panic
      OBVIOUS
    <2>2. CASE s.panic
      BY <2>1, <2>2 DEF StartStep, Then
    <2>3. CASE ~s.panic
      <3>1. StartStep(x, s) = StartDelegation(s, x)
        BY <2>3 DEF StartStep, Then
      <3>2. x \in Delegators \X Operators
        BY <1>2
      <3>3. StartDelegation(s, x) \in States /\ SameStaking(f, StartDelegation(s, x))
        BY <2>1, <3>2, StartDistributes DEF Distributes, SameStaking
      <3>4. ~Exists(c, x[2]) => StartDelegation(s, x).panic
        <4>. SUFFICES ASSUME ~Exists(c, x[2]) PROVE StartDelegation(s, x).panic
          OBVIOUS
        <4>1. x[2] \in Operators /\ ~Exists(s, x[2])
          BY <1>5, <2>1, <3>2 DEF SameStaking, Exists
        <4>2. IncrementValidatorPeriod(s, x[2]).panic
          BY <2>1, <4>1, AbsentPanics
        <4>. QED BY <4>2 DEF StartDelegation, Then
      <3>. QED BY <2>1, <2>3, <3>1, <3>3, <3>4
    <2>. QED BY <2>2, <2>3
  <1>9. Starting!Fold(f, S) \in V[S]
    <2>1. Starting!IsFiniteSet(S)
      BY <1>2 DEF IsFiniteSet, Starting!IsFiniteSet
    <2>. HIDE DEF V, S
    <2>. QED BY <1>6, <1>7, <1>8, <2>1, Starting!FoldReaches
  <1>10. ReinitDelegations(f, S) \in States /\ ReinitDelegations(f, S).panic
    BY <1>1, <1>9, StartIsAFold DEF ReinitDelegations
  <1>. QED BY <1>4, <1>10 DEF States

-----------------------------------------------------------------------------
(* The export updates the active set *)

\* What a reset leaves besides.
ResetLeaves(c, x) ==
    /\ x.queue = c.queue /\ x.signing = c.signing
    /\ \A v \in Operators :
          /\ x.vals[v].status = c.vals[v].status
          /\ \/ x.vals[v].shares = c.vals[v].shares
             \/ ~Exists(c, v) /\ x.vals[v].shares = 0

\* The resets of entries and validators touch heights and jail only.
LEMMA ResetsLeave ==
    ASSUME NEW c \in States, NEW allowed
    PROVE  ResetLeaves(c, ResetValidators(ResetEntries(c), allowed))
  <1>. DEFINE e == ResetEntries(c)
              d == ResetValidators(e, allowed)
              val(v) == IF ~Exists(e, v) THEN NoValidator
                        ELSE [e.vals[v] EXCEPT !.unbondingHeight = 0,
                                 !.jailed = e.vals[v].jailed
                                               \/ (allowed # {} /\ v \notin allowed)]
  <1>1. e.queue = c.queue /\ e.signing = c.signing /\ e.vals = c.vals /\ "vals" \in DOMAIN e
    BY DEF ResetEntries, States
  <1>2. \A v : Exists(e, v) <=> Exists(c, v)
    BY <1>1 DEF Exists
  <1>3. /\ d.queue = e.queue /\ d.signing = e.signing
        /\ \A v \in Operators : d.vals[v] = val(v)
    BY DEF ResetValidators, ResetEntries, States
  <1>. HIDE DEF e
  <1>4. ASSUME NEW v \in Operators
        PROVE  /\ val(v).status = c.vals[v].status
               /\ \/ val(v).shares = c.vals[v].shares
                  \/ ~Exists(c, v) /\ val(v).shares = 0
    <2>1. c.vals[v] \in Vals
      BY DEF States
    <2>2. CASE ~Exists(c, v)
      BY <1>2, <2>2 DEF NoValidator, Exists
    <2>3. CASE Exists(c, v)
      BY <1>1, <1>2, <2>1, <2>3 DEF Vals
    <2>. QED BY <2>2, <2>3
  <1>. HIDE DEF d, val
  <1>. QED BY <1>1, <1>3, <1>4 DEF ResetLeaves, d, e

\* The validator of a testnet in place is the only one that is reached.
LEMMA LoneIsReached ==
    ASSUME NEW c \in States, Whole(c), Lone(c)
    PROVE  Existing(c) \subseteq Reached(c)
  <1>. SUFFICES ASSUME NEW v \in Existing(c) PROVE v \in Reached(c)
    OBVIOUS
  <1>. DEFINE none == {w \in c.power : Exists(c, w) /\ c.vals[w].tokens = 0}
  <1>1. Existing(c) = {v} /\ v \in Operators
    BY DEF Lone, Existing
  <1>2. c.power = {v}
    BY <1>1 DEF Whole, Lone
  <1>3. Reached(c) = (c.power \ none) \cup (IF none = {} THEN {} ELSE {Min(none)})
    BY DEF Reached
  <1>4. CASE none = {}
    BY <1>2, <1>3, <1>4
  <1>5. CASE none # {}
    <2>1. none = {v} /\ v \in Nat
      BY <1>1, <1>2, <1>5, ChainAssumption
    <2>2. IsFiniteSet({v}) /\ {v} \in SUBSET Nat /\ {v} # {}
      BY <2>1, FS_Singleton
    <2>3. Min({v}) \in {v}
      BY <2>2, LeastIsIn
    <2>. HIDE DEF none
    <2>. QED BY <1>3, <1>5, <2>1, <2>3
  <1>. QED BY <1>4, <1>5

\* The list of allowed addresses lets the active set be updated.
Allows(c, allowed) == allowed = {} \/ Reached(c) \subseteq allowed

\* They reach the same validators when the active set is updated.
LEMMA ResetReaches ==
    ASSUME NEW c \in States, NEW x, NEW allowed, IsReset(c, x, allowed), Whole(c)
    PROVE  Reached(x) = Reached(c) /\ Reached(c) \subseteq Existing(c)
  <1>. DEFINE nc == {w \in c.power : Exists(c, w) /\ c.vals[w].tokens = 0}
              nx == {w \in x.power : Exists(x, w) /\ x.vals[w].tokens = 0}
  <1>1. x.power = c.power /\ c.power \subseteq Operators
    BY DEF IsReset, States
  <1>2. \A w \in c.power : (Exists(x, w) <=> Exists(c, w))
                           /\ (Exists(c, w) => x.vals[w].tokens = c.vals[w].tokens)
    BY <1>1 DEF IsReset
  <1>3. nx = nc
    BY <1>1, <1>2
  <1>4. /\ Reached(c) = (c.power \ nc) \cup (IF nc = {} THEN {} ELSE {Min(nc)})
        /\ Reached(x) = (x.power \ nx) \cup (IF nx = {} THEN {} ELSE {Min(nx)})
    BY DEF Reached
  <1>. HIDE DEF nc, nx
  <1>5. Reached(x) = Reached(c)
    BY <1>1, <1>3, <1>4
  <1>. QED BY <1>5, ReachedInPower DEF Whole

\* The update panics only when it reaches a validator that was jailed for the list,
\* and leaves the staking module in order.
LEMMA UpdateGoesWell ==
    ASSUME NEW c \in States, ~c.panic, NEW test \in BOOLEAN, Whole(c), LastIsBonded(c),
           Ranked(c), Healthy(c, test), NEW allowed
    PROVE  LET d == Updated(c, allowed) IN
           /\ d.panic <=> ~Allows(c, allowed)
           /\ ~d.panic => /\ d \in States /\ Backed(d, test) /\ SameLedgers(c, d)
                          /\ d.distribution = c.distribution
                          /\ test => Lone(d)
  <1>. DEFINE x == ResetValidators(ResetEntries(c), allowed)
              d == ApplyValidatorSetUpdates(x)
  <1>1. IsReset(c, x, allowed) /\ ResetLeaves(c, x)
    BY Resets, ResetsLeave
  <1>. HIDE DEF x
  <1>2. /\ x \in States /\ ~x.panic /\ x.power = c.power /\ x.last = c.last /\ x.bonded = c.bonded
        /\ \A v \in Operators : /\ Exists(x, v) <=> Exists(c, v)
                                /\ IsBonded(x, v) <=> IsBonded(c, v)
    BY <1>1 DEF IsReset
  <1>3. Keeps(c, x) /\ Whole(x) /\ SameStakes(c, x) /\ LastIsBonded(x)
    BY <1>1, <1>2, ResetKeeps DEF Keeps, KeepsActive
  <1>4. Reached(x) = Reached(c) /\ Reached(c) \subseteq Existing(c) /\ Reached(c) \subseteq c.power
    BY <1>1, ResetReaches, ReachedInPower
  <1>5. \A v \in Reached(c) : /\ v \in Operators /\ Exists(x, v) /\ ~c.vals[v].jailed
                              /\ x.vals[v].jailed = (allowed # {} /\ v \notin allowed)
    <2>. SUFFICES ASSUME NEW v \in Reached(c)
                  PROVE  /\ v \in Operators /\ Exists(x, v) /\ ~c.vals[v].jailed
                         /\ x.vals[v].jailed = (allowed # {} /\ v \notin allowed)
      OBVIOUS
    <2>1. v \in Operators /\ Exists(c, v) /\ v \in c.power
      BY <1>4 DEF Existing
    <2>2. c.vals[v].jailed = FALSE
      BY <2>1 DEF Healthy, Orderly, PowerRight, States, Vals
    <2>3. x.vals[v].jailed = (c.vals[v].jailed \/ (allowed # {} /\ v \notin allowed))
      BY <1>1, <2>1 DEF IsReset
    <2>. QED BY <1>2, <2>1, <2>2, <2>3
  <1>6. ASSUME ~Allows(c, allowed) PROVE d.panic
    <2>1. PICK v \in Reached(x) : x.vals[v].jailed
      BY <1>4, <1>5, <1>6 DEF Allows
    <2>. QED BY <1>2, <2>1, Applies
  <1>7. ASSUME Allows(c, allowed)
        PROVE  /\ ~d.panic /\ d \in States /\ Backed(d, test) /\ SameLedgers(c, d)
               /\ d.distribution = c.distribution
               /\ test => Lone(d)
    <2>1. \A v \in Reached(x) : ~x.vals[v].jailed
      BY <1>4, <1>5, <1>7 DEF Allows
    <2>2. QueueRight(x)
      BY <1>1 DEF Healthy, Orderly, QueueRight, ResetLeaves, States
    <2>3. Backed(x, test)
      BY <1>2, <1>3 DEF Healthy, Backed, SameStakes
    <2>4. x.last \subseteq Top(x)
      BY <1>1, <1>2, RankedStays
    <2>5. test => \A v \in x.last \ Top(x) : x.vals[v].tokens = 0
      BY <2>4
    <2>6. /\ ~d.panic /\ QueueRight(d) /\ Backed(d, test)
          /\ \A v \in Operators : IsBonded(x, v) /\ v \notin x.last \ Top(x) => IsBonded(d, v)
      BY <1>2, <1>3, <2>1, <2>2, <2>3, <2>5, ActiveSetUpdates
    <2>7. Keeps(x, d) /\ SameButActive(x, d)
      BY <1>2, <2>6, Applies
    <2>. HIDE DEF d
    <2>8. d \in States /\ d.distribution = c.distribution
      BY <1>1, <2>7 DEF Keeps, SameButActive, IsReset
    <2>9. ASSUME NEW v \in Operators
          PROVE  /\ d.vals[v].tokens = c.vals[v].tokens
                 /\ \/ d.vals[v].shares = c.vals[v].shares
                    \/ ~Exists(d, v) /\ d.vals[v].shares = 0
                 /\ Exists(d, v) <=> Exists(c, v)
      <3>1. /\ d.vals[v].tokens = x.vals[v].tokens /\ d.vals[v].shares = x.vals[v].shares
            /\ Exists(d, v) <=> Exists(c, v)
        BY <1>2, <2>7 DEF SameButActive
      <3>2. x.vals[v].tokens = c.vals[v].tokens
        BY <1>1 DEF IsReset, Whole
      <3>. QED BY <1>1, <3>1, <3>2 DEF ResetLeaves
    <2>10. SameLedgers(c, d)
      BY <1>1, <2>7, <2>9 DEF SameLedgers, SameButActive, IsReset
    <2>11. ASSUME test PROVE Lone(d)
      <3>1. Lone(c)
        BY <2>11 DEF Healthy, Orderly
      <3>2. Existing(d) = Existing(c)
        BY <2>9 DEF Existing
      <3>3. ASSUME NEW v \in Existing(c)
            PROVE  ~d.vals[v].jailed /\ (IsBonded(d, v) \/ d.vals[v].tokens = 0)
        <4>1. v \in Operators /\ v \in Reached(x)
          BY <1>4, <3>1, LoneIsReached DEF Existing
        <4>2. ~d.vals[v].jailed
          BY <2>1, <2>7, <4>1 DEF SameButActive
        <4>3. IsBonded(c, v) => IsBonded(d, v)
          BY <1>2, <2>4, <2>6, <4>1
        <4>. QED BY <2>9, <3>1, <4>1, <4>2, <4>3 DEF Lone
      <3>. QED BY <3>1, <3>2, <3>3 DEF Lone
    <2>. QED BY <2>6, <2>8, <2>10, <2>11
  <1>. QED BY <1>6, <1>7 DEF Updated, x

-----------------------------------------------------------------------------
(* The export and the import *)

\* The steps of the export for height zero, and where it ends early.
LEMMA ExportAtZeroIs ==
    ASSUME NEW c, NEW allowed, NEW p, p = PrepareDistribution(c), NEW u, u = Updated(p, allowed)
    PROVE  ExportAppStateAndValidators(c, TRUE, allowed) =
              [IF p.panic THEN p ELSE IF u.panic THEN u ELSE ResetSigningInfos(u)
               EXCEPT !.height = 0]
  BY DEF ExportAppStateAndValidators, PrepForZeroHeight, Then, Updated

\* What it does to the distribution leaves the staking module in order.
LEMMA PreparationIsHealthy ==
    ASSUME NEW c \in States, NEW test \in BOOLEAN, Whole(c), LastIsBonded(c), Ranked(c),
           Healthy(c, test), ~PrepareDistribution(c).panic
    PROVE  LET p == PrepareDistribution(c) IN
           /\ p \in States /\ Whole(p) /\ LastIsBonded(p) /\ Ranked(p) /\ Healthy(p, test)
           /\ Reached(p) = Reached(c)
  <1>. DEFINE p == PrepareDistribution(c)
  <1>1. Distributes(c, p)
    BY PreparationDistributes
  <1>. HIDE DEF p
  <1>2. p \in States /\ Keeps(c, p) /\ KeepsActive(c, p) /\ SameStaking(c, p)
    BY <1>1, DistributesKeeps DEF Distributes
  <1>3. ~p.panic
    BY DEF p
  <1>4. Whole(p) /\ LastIsBonded(p)
    BY <1>2, <1>3 DEF Keeps, KeepsActive
  <1>5. Ranked(p) /\ Reached(p) = Reached(c)
    BY <1>2 DEF SameStaking, Ranked, Reached, Existing, Exists
  <1>6. Orderly(p, test)
    BY <1>2, OrderOutlasts DEF Healthy
  <1>7. Healthy(p, test)
    BY <1>2, <1>3, <1>6, BackedStays
  <1>. QED BY <1>2, <1>4, <1>5, <1>7 DEF p

\* What is exported for height zero.
ExportedAtZero(s, test) ==
    /\ s \in States /\ Backed(s, test) /\ \A k \in DOMAIN s.signing : s.signing[k] = 0
    /\ test => Lone(s)

\* An export for height zero panics for two reasons only; what it exports is kept,
\* and everybody is paid.
LEMMA ExportAtZeroFits ==
    ASSUME NEW c, NEW test \in BOOLEAN, NEW new \in BOOLEAN, Fit(c, test, new), Ranked(c),
           NEW allowed
    PROVE  LET s == ExportAppStateAndValidators(c, TRUE, allowed) IN
           /\ ~s.panic => ExportedAtZero(s, test)
           /\ new => /\ s.panic <=> ~NoOrphans(c) \/ ~Allows(c, allowed)
                     /\ ~s.panic => KeptAtZero(s, Rate(test)) /\ PaidBy(c, s) = Payout(c)
  <1>. DEFINE p == PrepareDistribution(c)
              u == Updated(p, allowed)
              t == ResetSigningInfos(u)
              q == IF p.panic THEN p ELSE IF u.panic THEN u ELSE t
              s == ExportAppStateAndValidators(c, TRUE, allowed)
  <1>1. /\ c \in States /\ ~c.panic /\ Whole(c) /\ LastIsBonded(c) /\ Healthy(c, test)
        /\ new => Kept(c, Rate(test))
    BY DEF Fit
  <1>2. s = [q EXCEPT !.height = 0]
    BY ExportAtZeroIs
  <1>3. p \in States
    BY <1>1, PreparationDistributes DEF Distributes
  <1>4. u \in States
    <2>. DEFINE x == ResetValidators(ResetEntries(p), allowed)
    <2>1. x \in States
      BY <1>3, Resets DEF IsReset
    <2>. HIDE DEF x
    <2>. QED BY <2>1, Applies DEF Updated, Keeps, x
  <1>5. ~p.panic => /\ Whole(p) /\ LastIsBonded(p) /\ Ranked(p) /\ Healthy(p, test)
                    /\ Reached(p) = Reached(c)
    BY <1>1, PreparationIsHealthy
  <1>6. ~p.panic => /\ u.panic <=> ~Allows(c, allowed)
                    /\ ~u.panic => /\ Backed(u, test) /\ SameLedgers(p, u)
                                   /\ u.distribution = p.distribution
                                   /\ test => Lone(u)
    <2>. HIDE DEF p, u
    <2>1. ~p.panic => (Allows(p, allowed) <=> Allows(c, allowed))
      BY <1>5 DEF Allows
    <2>. QED BY <1>3, <1>5, <2>1, UpdateGoesWell DEF u
  <1>7. new => /\ p.panic <=> ~NoOrphans(c)
               /\ ~p.panic => KeptAtZero(p, Rate(test)) /\ PaidBy(c, p) = Payout(c)
    BY <1>1, PreparationKept, OrphansPanic
  <1>. HIDE DEF p, u, s
  <1>8. /\ t \in States /\ Alike(u, t) /\ t.panic = u.panic /\ t.dels = u.dels /\ t.start = u.start
        /\ \A k \in DOMAIN t.signing : t.signing[k] = 0
    <2>1. 0 \in Nat
      OBVIOUS
    <2>. QED BY <1>4, <2>1, FinishesAlike
  <1>. HIDE DEF t
  <1>9. q \in States
    BY <1>3, <1>4, <1>8
  <1>10. /\ s \in States /\ Alike(q, s) /\ s.panic = q.panic /\ s.dels = q.dels
         /\ s.start = q.start /\ s.signing = q.signing
    <2>. HIDE DEF q
    <2>1. 0 \in Nat
      OBVIOUS
    <2>. QED BY <1>2, <1>9, <2>1, FinishesAlike
  <1>11. s.panic <=> p.panic \/ u.panic
    BY <1>3, <1>4, <1>8, <1>10 DEF States
  <1>12. ASSUME ~s.panic
         PROVE  /\ s.vals = u.vals /\ s.dist = u.dist /\ s.pool = u.pool /\ s.dels = u.dels
                /\ s.start = u.start /\ s.distribution = u.distribution /\ s.ubds = u.ubds
                /\ s.bonded = u.bonded /\ s.notBonded = u.notBonded
                /\ \A k \in DOMAIN s.signing : s.signing[k] = 0
    <2>1. q = t
      BY <1>11, <1>12
    <2>. QED BY <1>8, <1>10, <2>1 DEF Alike
  <1>13. ASSUME ~s.panic PROVE ExportedAtZero(s, test)
    <2>1. Backed(u, test) /\ (test => Lone(u))
      BY <1>6, <1>11, <1>13
    <2>2. Backed(s, test)
      BY <1>12, <1>13, <2>1 DEF Backed, BondedSurplus, NotBondedSurplus, BondedTokens,
                               NotBondedTokens, IsBonded
    <2>3. test => Lone(s)
      BY <1>12, <1>13, <2>1 DEF Lone, Existing, Exists, IsBonded
    <2>. QED BY <1>10, <1>12, <1>13, <2>2, <2>3 DEF ExportedAtZero
  <1>14. ASSUME new PROVE s.panic <=> ~NoOrphans(c) \/ ~Allows(c, allowed)
    BY <1>6, <1>7, <1>11, <1>14
  <1>15. ASSUME new, ~s.panic PROVE KeptAtZero(s, Rate(test)) /\ PaidBy(c, s) = Payout(c)
    <2>1. KeptAtZero(p, Rate(test)) /\ PaidBy(c, p) = Payout(c) /\ SameLedgers(p, u)
          /\ u.distribution = p.distribution
      BY <1>6, <1>7, <1>11, <1>15
    <2>2. KeptAtZero(u, Rate(test))
      BY <2>1, SameLedgersTwice
    <2>3. SameLedgers(u, s)
      BY <1>12, <1>15 DEF SameLedgers, Exists
    <2>4. KeptAtZero(s, Rate(test))
      BY <2>2, <2>3, SameLedgersTwice
    <2>. QED BY <1>12, <1>15, <2>1, <2>4 DEF PaidBy
  <1>. QED BY <1>13, <1>14, <1>15 DEF s

\* The genesis of the new chain, field by field.
IsGenesis(s, i, h) ==
    /\ i.height = h /\ i.vals = s.vals /\ i.dels = s.dels /\ i.start = s.start /\ i.dist = s.dist
    /\ i.pool = s.pool /\ i.bonded = s.bonded /\ i.signing = s.signing
    /\ i.power = {v \in Existing(s) : ~s.vals[v].jailed}
    /\ i.queue = {v \in Operators : s.vals[v].status = "Unbonding"}

LEMMA GenesisIs ==
    ASSUME NEW s \in States, NEW zero \in BOOLEAN
    PROVE  IsGenesis(s, InitGenesis(s, zero), IF zero THEN 0 ELSE s.height - 1)
  BY DEF InitGenesis, IsGenesis, States

\* A chain that starts from what was exported.
LEMMA ImportIsHealthy ==
    ASSUME NEW s \in States, NEW test \in BOOLEAN, NEW zero \in BOOLEAN, ~s.panic,
           zero \/ s.height >= 1, Whole(s), LastIsBonded(s),
           Backed(s, test), Signed(s), test => Lone(s)
    PROVE  LET i == InitGenesis(s, zero) IN
           /\ i \in States /\ ~i.panic /\ Whole(i) /\ LastIsBonded(i) /\ Healthy(i, test)
  <1>. DEFINE i == InitGenesis(s, zero)
  <1>1. /\ i \in States /\ i.panic = s.panic /\ SameStakes(s, i) /\ Whole(i) /\ LastIsBonded(i)
    BY ImportKeeps
  <1>2. PICK h : IsGenesis(s, i, h)
    BY GenesisIs
  <1>. HIDE DEF i
  <1>3. QueueRight(i) /\ PowerRight(i) /\ Signed(i)
    BY <1>2 DEF QueueRight, PowerRight, Signed, IsGenesis
  <1>4. Backed(i, test)
    BY <1>1, <1>2 DEF Backed, SameStakes, IsGenesis
  <1>5. test => Lone(i)
    BY <1>2 DEF Lone, Existing, Exists, IsBonded, IsGenesis
  <1>6. Healthy(i, test)
    BY <1>3, <1>4, <1>5 DEF Healthy, Orderly, Backed
  <1>. QED BY <1>1, <1>6 DEF i

\* A chain that starts from an export is as fit as the one it was made from.
LEMMA ImportFits ==
    ASSUME NEW c, NEW test \in BOOLEAN, NEW new \in BOOLEAN, Fit(c, test, new), Ranked(c),
           NEW zero \in BOOLEAN, NEW allowed,
           ~ExportAppStateAndValidators(c, zero, allowed).panic
    PROVE  Fit(InitGenesis(ExportAppStateAndValidators(c, zero, allowed), zero), test, new)
  <1>. DEFINE s == ExportAppStateAndValidators(c, zero, allowed)
              i == InitGenesis(s, zero)
  <1>1. /\ c \in States /\ ~c.panic /\ Whole(c) /\ LastIsBonded(c) /\ Healthy(c, test)
        /\ new => Kept(c, Rate(test))
    BY DEF Fit
  <1>2. s \in States /\ ~s.panic /\ Whole(s) /\ LastIsBonded(s)
    <2>1. Keeps(c, s) /\ (Ranked(c) /\ ~s.panic => LastIsBonded(s))
      BY <1>1, ExportKeeps
    <2>. QED BY <1>1, <2>1 DEF Keeps
  <1>3. CASE zero
    <2>1. /\ ExportedAtZero(s, test)
          /\ new => KeptAtZero(s, Rate(test))
      BY <1>2, <1>3, ExportAtZeroFits
    <2>. HIDE DEF s
    <2>2. Backed(s, test) /\ Signed(s) /\ (test => Lone(s))
      BY <2>1 DEF ExportedAtZero, Signed
    <2>3. i \in States /\ ~i.panic /\ Whole(i) /\ LastIsBonded(i) /\ Healthy(i, test)
      BY <1>2, <1>3, <2>2, ImportIsHealthy
    <2>4. IsGenesis(s, i, 0)
      BY <1>2, <1>3, GenesisIs
    <2>5. SameLedgers(s, i)
      BY <2>4 DEF IsGenesis, SameLedgers, Exists
    <2>6. new => Kept(i, Rate(test))
      BY <2>1, <2>3, <2>5, SameLedgersTwice, KeptAtAnyHeight
    <2>. QED BY <2>3, <2>6 DEF Fit, s
  <1>4. CASE ~zero
    <2>. DEFINE h == c.height + 1
    <2>1. s = [c EXCEPT !.height = h] /\ h \in Nat /\ h >= 1 /\ c.height \in Nat /\ h - 1 = c.height
      BY <1>1, <1>4 DEF ExportAppStateAndValidators, States
    <2>. HIDE DEF h, s
    <2>2. /\ Alike(c, s) /\ s.dels = c.dels /\ s.start = c.start /\ s.signing = c.signing
      BY <1>1, <2>1, FinishesAlike
    <2>3. s.height = h
      BY <1>1, <2>1 DEF States
    <2>4. Backed(s, test) /\ Signed(s) /\ (test => Lone(s))
      <3>1. Backed(s, test)
        <4>1. SameStakes(c, s) /\ s.bonded = c.bonded
          BY <1>1, <1>2, <2>2, AlikeKeeps DEF Alike
        <4>. QED BY <1>1, <4>1 DEF Healthy, Backed, SameStakes
      <3>2. Signed(s)
        BY <1>1, <2>2 DEF Healthy, Orderly, Signed
      <3>3. test => Lone(s)
        BY <1>1, <2>2 DEF Healthy, Orderly, Lone, Alike, Existing, Exists, IsBonded
      <3>. QED BY <3>1, <3>2, <3>3
    <2>5. i \in States /\ ~i.panic /\ Whole(i) /\ LastIsBonded(i) /\ Healthy(i, test)
      BY <1>2, <1>4, <2>1, <2>3, <2>4, ImportIsHealthy
    <2>6. IsGenesis(s, i, c.height)
      BY <1>2, <1>4, <2>1, <2>3, GenesisIs
    <2>. HIDE DEF i
    <2>7. SameBeside(c, i)
      BY <2>1, <2>2, <2>6 DEF SameBeside, IsGenesis, Alike, Exists
    <2>8. new => Kept(i, Rate(test))
      BY <1>1, <2>5, <2>7, KeptBeside
    <2>. QED BY <2>5, <2>8 DEF Fit, s, i
  <1>. QED BY <1>3, <1>4

-----------------------------------------------------------------------------
(* The inductive invariant *)

\* The chain goes on; it is on disk from the first block after it was started.
ToolsInv ==
    /\ ChainInv
    /\ Fit(chain, testnet, ~reused)
    /\ committed \in BOOLEAN /\ (committed => chain.height >= 1)

\* What the steps below use of it.
LEMMA ToolsInvGives ==
    ASSUME ToolsInv
    PROVE  /\ ChainInv /\ Fit(chain, testnet, ~reused) /\ ~chain.panic /\ Ranked(chain)
           /\ testnet \in BOOLEAN /\ (~reused) \in BOOLEAN /\ (testnet \/ ~reused)
           /\ (committed => chain.height >= 1)
  <1>1. ChainInv /\ Fit(chain, testnet, ~reused) /\ (committed => chain.height >= 1)
    BY DEF ToolsInv
  <1>2. ~chain.panic
    BY <1>1 DEF Fit
  <1>3. testnet \in BOOLEAN /\ reused \in BOOLEAN /\ (reused => testnet)
    BY <1>1 DEF ChainInv
  <1>4. (~reused) \in BOOLEAN
    BY <1>3
  <1>5. Ranked(chain)
    BY <1>1, <1>2 DEF ChainInv, Sound
  <1>. QED BY <1>1, <1>2, <1>3, <1>4, <1>5

\* The first genesis.
LEMMA ToolsInvInit == Init => ToolsInv
  <1>. SUFFICES ASSUME Init PROVE ToolsInv
    OBVIOUS
  <1>1. /\ chain = FirstState /\ testnet = FALSE /\ reused = FALSE /\ committed = TRUE
    BY DEF Init, ChainInit
  <1>2. ~reused = TRUE
    BY <1>1
  <1>3. Fit(chain, testnet, ~reused) /\ chain.height = 1
    BY <1>1, <1>2, FirstStateFits
  <1>. QED BY <1>1, <1>3, ChainInvInit DEF ToolsInv

\* A block.
LEMMA ToolsInvProduce == ToolsInv /\ Produce => ToolsInv'
  <1>. SUFFICES ASSUME ToolsInv, Produce PROVE ToolsInv'
    OBVIOUS
  <1>1. Block /\ testnet' = testnet /\ reused' = reused /\ committed' = TRUE
    BY DEF Produce
  <1>2. /\ ChainInv /\ Fit(chain, testnet, ~reused) /\ Ranked(chain)
        /\ testnet \in BOOLEAN /\ (~reused) \in BOOLEAN /\ (testnet \/ ~reused)
    BY ToolsInvGives
  <1>3. ChainInv'
    BY <1>2, ChainInvProduce
  <1>4. Fit(chain', testnet, ~reused) /\ chain'.height = chain.height + 1
    BY <1>1, <1>2, BlockFits
  <1>5. chain.height \in Nat /\ chain'.height >= 1
    <2>1. chain.height \in Nat
      BY <1>2 DEF Fit, States
    <2>. QED BY <1>4, <2>1
  <1>. QED BY <1>1, <1>3, <1>4, <1>5 DEF ToolsInv

\* A testnet in place: the ledgers are given up where the operator had records.
LEMMA ToolsInvInPlace == ToolsInv /\ InPlace => ToolsInv'
  <1>. SUFFICES ASSUME ToolsInv, InPlace PROVE ToolsInv'
    OBVIOUS
  <1>1. committed
    BY DEF InPlace, Command
  <1>2. /\ ChainInv /\ Fit(chain, testnet, ~reused) /\ chain.height >= 1
        /\ testnet \in BOOLEAN /\ (~reused) \in BOOLEAN
    BY <1>1, ToolsInvGives
  <1>2a. ChainInv'
    BY <1>2, ChainInvInPlace
  <1>3. CASE chain' = chain /\ committed' = committed /\ testnet' = testnet /\ reused' = reused
    BY <1>2, <1>2a, <1>3 DEF ToolsInv
  <1>4. ASSUME NEW op \in Operators, chain' = initAppForTestnet(chain, op), committed' = FALSE,
               testnet' = TRUE, reused' = (reused \/ chain.dist[op] # NoRecords)
        PROVE  ToolsInv'
    <2>1. Fit(initAppForTestnet(chain, op), TRUE, ~reused /\ chain.dist[op] = NoRecords)
      BY <1>2, TestnetFits
    <2>2. (~reused') = (~reused /\ chain.dist[op] = NoRecords)
      BY <1>4
    <2>3. Fit(chain', testnet', ~reused')
      BY <1>4, <2>1, <2>2
    <2>. QED BY <1>2a, <1>4, <2>3 DEF ToolsInv
  <1>. QED BY <1>3, <1>4 DEF InPlace

\* An export, which leaves the chain alone.
LEMMA ToolsInvExport == ToolsInv /\ Export => ToolsInv'
  <1>. SUFFICES ASSUME ToolsInv, Export PROVE ToolsInv'
    OBVIOUS
  <1>1. /\ chain' = chain /\ testnet' = testnet /\ reused' = reused /\ committed' = committed
    BY DEF Export
  <1>. QED BY <1>1, ChainInvExport DEF ToolsInv

\* An import.
LEMMA ToolsInvImport == ToolsInv /\ Import => ToolsInv'
  <1>. SUFFICES ASSUME ToolsInv, Import PROVE ToolsInv'
    OBVIOUS
  <1>1. /\ exported # NoExport /\ ~exported.state.panic
        /\ chain' = InitGenesis(exported.state, exported.zero)
        /\ testnet' = testnet /\ reused' = reused /\ committed' = FALSE
    BY DEF Import
  <1>2. /\ ChainInv /\ Fit(chain, testnet, ~reused) /\ Ranked(chain)
        /\ testnet \in BOOLEAN /\ (~reused) \in BOOLEAN
    BY ToolsInvGives
  <1>2a. ChainInv'
    BY <1>2, ChainInvImport
  <1>3. /\ exported.zero \in BOOLEAN
        /\ exported.state = ExportAppStateAndValidators(chain, exported.zero, exported.allowed)
    BY <1>1, <1>2 DEF ChainInv, ExportInv
  <1>4. Fit(InitGenesis(exported.state, exported.zero), testnet, ~reused)
    BY <1>1, <1>2, <1>3, ImportFits
  <1>. QED BY <1>1, <1>2a, <1>4 DEF ToolsInv

\* No block and no command leaves the invariant.
THEOREM ToolsInvHolds == Spec => []ToolsInv
  <1>1. ToolsInv /\ [Next]_vars => ToolsInv'
    <2>. SUFFICES ASSUME ToolsInv, [Next]_vars PROVE ToolsInv'
      OBVIOUS
    <2>1. CASE UNCHANGED vars
      BY <2>1 DEF vars, ToolsInv, ChainInv, ExportInv
    <2>. QED BY SMTT(30), <2>1, ToolsInvProduce, ToolsInvInPlace, ToolsInvExport, ToolsInvImport DEF Next
  <1>. QED BY <1>1, ToolsInvInit, PTL DEF Spec

\* No begin or end blocker panics, whatever blocks, exports, imports and testnets in
\* place came before: the power index names validators that are there and not in
\* jail, the queue names unbonding validators, every period read has its record,
\* and the pools have what is burnt or moved (testnet.go:113-185, export.go:56-249).
THEOREM ChainNeverHalts == Spec => []NeverHalts
  <1>1. ToolsInv => NeverHalts
    BY DEF ToolsInv, Fit, NeverHalts
  <1>. QED BY <1>1, ToolsInvHolds, PTL

-----------------------------------------------------------------------------
(* What the commands promise *)

\* An export for height zero panics for the two reasons only: a delegation to a
\* validator an in-place testnet removed, which the calls to the hooks do not find
\* (export.go:158-166), or a list of allowed addresses without a validator that is
\* ranked (export.go:206-225).  Any other export just goes well.
THEOREM ExportPanicsForNothingElse == Spec => []ExportPanicsOnlyFor
  <1>1. ToolsInv => ExportPanicsOnlyFor
    <2>. SUFFICES ASSUME ToolsInv, exported # NoExport, ~reused
                  PROVE  exported.state.panic <=>
                           /\ exported.zero
                           /\ \/ Orphans(chain) # {}
                              \/ exported.allowed # {} /\ ~(Reached(chain) \subseteq exported.allowed)
      BY DEF ExportPanicsOnlyFor
    <2>1. /\ ChainInv /\ Fit(chain, testnet, ~reused) /\ Ranked(chain) /\ ~chain.panic
          /\ testnet \in BOOLEAN
      BY ToolsInvGives
    <2>2. /\ exported.zero \in BOOLEAN
          /\ exported.state = ExportAppStateAndValidators(chain, exported.zero, exported.allowed)
      BY <2>1 DEF ChainInv, ExportInv
    <2>3. CASE exported.zero = TRUE
      <3>1. (~reused) = TRUE
        OBVIOUS
      <3>2. Fit(chain, testnet, TRUE)
        BY <2>1, <3>1
      <3>3. exported.state.panic <=> ~NoOrphans(chain) \/ ~Allows(chain, exported.allowed)
        BY <2>1, <2>2, <2>3, <3>2, ExportAtZeroFits
      <3>4. NoOrphans(chain) <=> Orphans(chain) = {}
        BY DEF NoOrphans, Orphans
      <3>. QED BY <2>3, <3>3, <3>4 DEF Allows
    <2>4. CASE exported.zero = FALSE
      <3>1. chain \in States
        BY <2>1 DEF Fit
      <3>2. exported.state.panic = chain.panic
        BY <2>2, <2>4, <3>1 DEF ExportAppStateAndValidators, States
      <3>. QED BY <2>1, <2>4, <3>2
    <2>. QED BY <2>2, <2>3, <2>4
  <1>. QED BY <1>1, ToolsInvHolds, PTL

\* What a delegation is paid when the export withdraws its rewards is what it
\* could have withdrawn.
LEMMA ClaimIsPaid ==
    ASSUME NEW c \in States, ~c.panic, NEW R, Kept(c, R), NEW x \in Delegators,
           NEW v \in Operators, Exists(c, v), c.dels[x][v] > 0
    PROVE  PaidBy(c, PayDelegation(c, x, v)) = Claim(c, v, x)
  <1>. DEFINE d == PayDelegation(c, x, v)
              D == Started(c, v)
  <1>1. Balanced(c, v, D) /\ x \in D
    BY DEF Kept, Good, Delegated, Started
  <1>. HIDE DEF D
  <1>2. DelegationSettled(c, d, v, D, x)
    BY <1>1, DelegationSettles
  <1>. HIDE DEF d
  <1>3. Claim(c, v, x) \in Nat /\ d.distribution = c.distribution - Claim(c, v, x)
    BY <1>2 DEF DelegationSettled
  <1>4. c.distribution \in Int
    BY DEF States
  <1>5. PaidBy(c, d) = Claim(c, v, x)
    BY <1>3, <1>4 DEF PaidBy
  <1>. QED BY <1>5 DEF d

\* An export for height zero pays what every validator and every delegation could
\* have withdrawn in the block it is made at, and nothing else, in whatever order
\* it goes through them (export.go:73-90).
THEOREM EveryoneIsAlwaysPaid == Spec => []EveryoneIsPaidAtExport
  <1>1. ToolsInv => EveryoneIsPaidAtExport
    <2>. SUFFICES ASSUME ToolsInv, exported # NoExport, exported.zero, ~exported.state.panic, ~reused
                  PROVE  PaidBy(chain, exported.state) =
                            SumFunction([v \in Existing(chain) |-> chain.dist[v].commission])
                            + SumFunction([dv \in Delegations(chain) |->
                                              PaidBy(chain, PayDelegation(chain, dv[1], dv[2]))])
      BY DEF EveryoneIsPaidAtExport
    <2>1. /\ ChainInv /\ Fit(chain, testnet, ~reused) /\ Ranked(chain) /\ ~chain.panic
          /\ testnet \in BOOLEAN
      BY ToolsInvGives
    <2>2. /\ exported.zero = TRUE
          /\ exported.state = ExportAppStateAndValidators(chain, exported.zero, exported.allowed)
      BY <2>1 DEF ChainInv, ExportInv
    <2>3. (~reused) = TRUE
      OBVIOUS
    <2>4. Fit(chain, testnet, TRUE)
      BY <2>1, <2>3
    <2>5. NoOrphans(chain) /\ PaidBy(chain, exported.state) = Payout(chain)
      BY <2>1, <2>2, <2>4, ExportAtZeroFits
    <2>6. chain \in States /\ Kept(chain, Rate(testnet))
      BY <2>4 DEF Fit
    <2>7. ASSUME NEW dv \in Delegations(chain)
          PROVE  PaidBy(chain, PayDelegation(chain, dv[1], dv[2])) = Claim(chain, dv[2], dv[1])
      <3>1. /\ dv[1] \in Delegators /\ dv[2] \in Operators /\ chain.dels[dv[1]][dv[2]] > 0
            /\ Exists(chain, dv[2])
        BY <2>5 DEF NoOrphans, Delegations
      <3>. QED BY <2>1, <2>6, <3>1, ClaimIsPaid
    <2>8. [dv \in Delegations(chain) |-> PaidBy(chain, PayDelegation(chain, dv[1], dv[2]))]
             = ClaimsOf(chain)
      BY <2>7 DEF ClaimsOf
    <2>. QED BY <2>5, <2>8 DEF Payout, CommissionsOf
  <1>. QED BY <1>1, ToolsInvHolds, PTL

\* Every delegation to a validator that is there can withdraw its rewards in the
\* next block, after any export, import and testnet in place: the record it started
\* after is there, and its stake is worth no more than it has (export.go:153-171,
\* testnet.go:138-159).
THEOREM DelegatorsCanAlwaysWithdraw == Spec => []DelegatorsCanWithdraw
  <1>1. ToolsInv => DelegatorsCanWithdraw
    <2>. SUFFICES ASSUME ToolsInv, ~reused, NEW dv \in Delegations(chain) \ Orphans(chain)
                  PROVE  ~WithdrawDelegationRewards(BeginBlock(chain), dv[1], dv[2]).panic
      BY DEF DelegatorsCanWithdraw
    <2>. DEFINE b == BeginBlock(chain)
    <2>1. Fit(chain, testnet, ~reused) /\ testnet \in BOOLEAN /\ (~reused) = TRUE
      BY ToolsInvGives
    <2>2. Fit(b, testnet, TRUE) /\ BegunFrom(chain, b)
      BY <2>1, BeginBlockFits
    <2>. HIDE DEF b
    <2>3. /\ dv[1] \in Delegators /\ dv[2] \in Operators /\ chain.dels[dv[1]][dv[2]] > 0
          /\ Exists(chain, dv[2])
      BY DEF Delegations, Orphans
    <2>4. Exists(b, dv[2]) /\ b.dels[dv[1]][dv[2]] > 0
      BY <2>2, <2>3 DEF BegunFrom, Exists
    <2>5. b \in States /\ ~b.panic /\ Kept(b, Rate(testnet))
      BY <2>2 DEF Fit
    <2>6. ~WithdrawDelegationRewards(b, dv[1], dv[2]).panic
      BY <2>3, <2>4, <2>5, WithdrawalKept
    <2>. QED BY <2>6 DEF b
  <1>. QED BY <1>1, ToolsInvHolds, PTL

-----------------------------------------------------------------------------
(* References *)

\* As many things as names, if no two have the same.
LEMMA AsManyNames ==
    ASSUME NEW S, IsFiniteSet(S), NEW R, IsFiniteSet(R), NEW name \in [S -> R],
           \A y \in R : \E x \in S : y = name[x],
           \A x, y \in S : name[x] = name[y] => x = y
    PROVE  Cardinality(R) = Cardinality(S)
  <1>. DEFINE f == [x \in S |-> 1]
              g == [y \in R |-> 1]
  <1>1. /\ f \in [S -> Int] /\ g \in [R -> Int] /\ S \in SUBSET S /\ R \in SUBSET R
        /\ \A x \in S : f[x] = IF x \in S THEN 1 ELSE 0
        /\ \A y \in R : g[y] = IF y \in R THEN 1 ELSE 0
        /\ SameUnder(name, f, g, S, R) /\ 1 \in Int
    BY DEF SameUnder
  <1>. HIDE DEF f, g
  <1>2. SumFunction(g) = SumFunction(f)
    BY <1>1, SumOfImages
  <1>3. SumFunction(f) = 1 * Cardinality(S)
    BY <1>1, SumOfEquals
  <1>4. SumFunction(g) = 1 * Cardinality(R)
    BY <1>1, SumOfEquals
  <1>5. Cardinality(S) \in Nat /\ Cardinality(R) \in Nat
    BY FS_CardinalityType
  <1>. QED BY <1>2, <1>3, <1>4, <1>5

\* The periods of the delegations and of the slashes are as many as those.
LEMMA MarksAreCounted ==
    ASSUME NEW c \in States, NEW v \in Operators, NEW D, Counted(c, v, D), Apart(c, v, D)
    PROVE  /\ IsFiniteSet(Marks(c, v, D))
           /\ Cardinality(Marks(c, v, D)) = Cardinality(D) + Len(c.dist[v].slashes)
  <1>. DEFINE P == {c.start[x][v].period : x \in D}
              B == SlashedAt(c, v)
              n == Len(c.dist[v].slashes)
              p == c.dist[v].period
  <1>1. /\ n \in Nat /\ DOMAIN c.dist[v].slashes = 1 .. n
        /\ \A i \in 1 .. n : c.dist[v].slashes[i].period \in Int
    BY SlashesAreEvents
  <1>2. D \subseteq Delegators /\ Marks(c, v, D) \subseteq 0 .. (p - 1) /\ p \in Int
    BY DEF Counted, States, Records
  <1>3. IsFiniteSet(0 .. (p - 1)) /\ IsFiniteSet(1 .. n) /\ Cardinality(1 .. n) = n
    <2>1. 0 \in Int /\ 1 \in Int /\ p - 1 \in Int /\ n \in Int /\ (IF 1 > n THEN 0 ELSE n - 1 + 1) = n
      BY <1>1, <1>2
    <2>. HIDE DEF n, p
    <2>. QED BY <2>1, FS_Interval
  <1>4. IsFiniteSet(D)
    BY <1>2, FS_Subset, ChainAssumption
  <1>5. Marks(c, v, D) = P \cup B
    BY DEF Marks
  <1>6. IsFiniteSet(P) /\ IsFiniteSet(B) /\ IsFiniteSet(Marks(c, v, D))
    BY <1>2, <1>3, <1>5, FS_Subset
  <1>7. Cardinality(P) = Cardinality(D)
    <2>. DEFINE name == [x \in D |-> c.start[x][v].period]
    <2>1. /\ name \in [D -> P] /\ \A y \in P : \E x \in D : y = name[x]
          /\ \A x, y \in D : name[x] = name[y] => x = y
      BY DEF Apart
    <2>. HIDE DEF name, P
    <2>. QED BY <1>4, <1>6, <2>1, AsManyNames
  <1>8. Cardinality(B) = n
    <2>. DEFINE name == [i \in 1 .. n |-> c.dist[v].slashes[i].period]
                I == 1 .. n
    <2>1. name \in [I -> B] /\ \A y \in B : \E i \in I : y = name[i]
      BY <1>1 DEF SlashedAt
    <2>2. ASSUME NEW i \in I, NEW j \in I, name[i] = name[j]
          PROVE  i = j
      <3>1. /\ i < j => c.dist[v].slashes[i].period < c.dist[v].slashes[j].period
            /\ j < i => c.dist[v].slashes[j].period < c.dist[v].slashes[i].period
        BY <1>1 DEF Apart
      <3>2. c.dist[v].slashes[i].period = c.dist[v].slashes[j].period
        BY <2>2
      <3>3. c.dist[v].slashes[i].period \in Int /\ i \in Int /\ j \in Int
        BY <1>1
      <3>. QED BY <3>1, <3>2, <3>3
    <2>3. IsFiniteSet(I) /\ Cardinality(I) = n
      BY <1>3
    <2>. HIDE DEF name, B, I
    <2>4. Cardinality(B) = Cardinality(I)
      BY <1>6, <2>1, <2>2, <2>3, AsManyNames
    <2>. QED BY <2>3, <2>4
  <1>9. P \cap B = {}
    BY DEF Apart
  <1>10. Cardinality(P \cup B) = Cardinality(P) + Cardinality(B) - Cardinality(P \cap B)
    <2>. HIDE DEF P, B
    <2>. QED BY <1>6, FS_Union
  <1>11. Cardinality(P \cap B) = 0
    BY <1>9, FS_EmptySet
  <1>12. Cardinality(D) \in Nat
    BY <1>4, FS_CardinalityType
  <1>. HIDE DEF P, B, n, p
  <1>13. Cardinality(P \cup B) = Cardinality(D) + n
    BY <1>1, <1>7, <1>8, <1>10, <1>11, <1>12
  <1>. QED BY <1>5, <1>6, <1>13 DEF n

\* All references together: the current period, the delegations and the slashes.
LEMMA AllReferences ==
    ASSUME NEW c \in States, NEW v \in Operators, NEW D, Counted(c, v, D), Apart(c, v, D)
    PROVE  References(c, v) = 1 + Cardinality(D) + Len(c.dist[v].slashes)
  <1>. DEFINE H == DOMAIN c.dist[v].hist
              M == Marks(c, v, D)
              q == c.dist[v].period - 1
              Q == {q}
              f == [p \in H |-> IF p \in Q THEN 1 ELSE 0]
              h == [p \in H |-> IF p \in M THEN 1 ELSE 0]
              g == [p \in H |-> c.dist[v].hist[p].refs]
              k == 1
  <1>1. IsFiniteSet(M) /\ Cardinality(M) = Cardinality(D) + Len(c.dist[v].slashes)
    BY MarksAreCounted
  <1>2. /\ H = M \cup {q}
        /\ \A p \in H : c.dist[v].hist[p].refs = (IF p = q THEN 1 ELSE 0)
                                                 + (IF p \in M THEN 1 ELSE 0)
        /\ D \subseteq Delegators
    BY DEF Counted
  <1>3. IsFiniteSet(H) /\ M \in SUBSET H /\ Q \in SUBSET H /\ Cardinality(Q) = 1
    <2>. HIDE DEF H, M, q
    <2>1. IsFiniteSet(H) /\ M \in SUBSET H /\ Q \in SUBSET H
      BY <1>1, <1>2, FS_AddElement
    <2>. QED BY <2>1, FS_Singleton
  <1>4. /\ f \in [H -> Int] /\ h \in [H -> Int] /\ k \in Int
        /\ \A p \in H : f[p] = IF p \in Q THEN k ELSE 0
        /\ \A p \in H : h[p] = IF p \in M THEN k ELSE 0
    OBVIOUS
  <1>5. g \in [H -> Int] /\ \A p \in H : g[p] = f[p] + k * h[p]
    <2>. HIDE DEF M, H, q
    <2>. QED BY <1>2
  <1>6. References(c, v) = SumFunction(g)
    BY DEF References
  <1>. HIDE DEF f, h, g, H, M, Q, k
  <1>7. SumFunction(g) = SumFunction(f) + k * SumFunction(h)
    BY <1>3, <1>4, <1>5, SumIsLinear
  <1>8. SumFunction(f) = k * Cardinality(Q)
    BY <1>3, <1>4, SumOfEquals
  <1>9. SumFunction(h) = k * Cardinality(M)
    BY <1>3, <1>4, SumOfEquals
  <1>10. Cardinality(D) \in Nat /\ Len(c.dist[v].slashes) \in Nat
    BY <1>2, FS_Subset, FS_CardinalityType, ChainAssumption, SlashesAreEvents
  <1>. QED BY <1>1, <1>3, <1>6, <1>7, <1>8, <1>9, <1>10 DEF k

\* Every reward record is referred to as often as it says: a record is deleted when
\* nothing needs it any more, and not before (export.go:93-171, testnet.go:138-159).
THEOREM ReferencesAreAlwaysCounted == Spec => []ReferencesAreCounted
  <1>1. ToolsInv => ReferencesAreCounted
    <2>. SUFFICES ASSUME ToolsInv, ~reused, NEW v \in Existing(chain)
                  PROVE  References(chain, v) =
                            1 + Cardinality({d \in Delegators : chain.start[d][v] # NoInfo})
                              + Len(chain.dist[v].slashes)
      BY DEF ReferencesAreCounted
    <2>1. Fit(chain, testnet, ~reused) /\ (~reused) = TRUE
      BY ToolsInvGives
    <2>2. chain \in States /\ Kept(chain, Rate(testnet))
      BY <2>1 DEF Fit
    <2>3. v \in Operators /\ Exists(chain, v)
      BY DEF Existing
    <2>4. Balanced(chain, v, Started(chain, v))
      BY <2>2, <2>3 DEF Kept, Good
    <2>5. References(chain, v) =
             1 + Cardinality(Started(chain, v)) + Len(chain.dist[v].slashes)
      BY <2>2, <2>3, <2>4, AllReferences DEF Balanced
    <2>. QED BY <2>5 DEF Started
  <1>. QED BY <1>1, ToolsInvHolds, PTL

-----------------------------------------------------------------------------
(* Types *)

\* Where every operator is well kept, the ledgers hold numbers.
LEMMA LedgersAreTyped ==
    ASSUME NEW c \in States, NEW R, Kept(c, R), Surplus(c) = 0
    PROVE  /\ c.vals \in [Operators -> Validator]
           /\ c.pool \in Nat /\ c.distribution \in Nat
           /\ \A v \in Operators :
                 LET r == c.dist[v] IN
                 /\ r.outstanding \in Nat /\ r.rewards \in Nat /\ r.commission \in Nat
                 /\ DOMAIN r.hist \subseteq Nat
                 /\ \A p \in DOMAIN r.hist : r.hist[p].ratio \in Nat /\ r.hist[p].refs \in 1 .. 3
  <1>1. ASSUME NEW v \in Operators
        PROVE  WellKept(c, v)
    BY DEF Kept, Good
  <1>2. c.vals \in [Operators -> Validator]
    <2>1. c.vals \in [Operators -> Vals]
      BY DEF States
    <2>2. ASSUME NEW v \in Operators
          PROVE  c.vals[v] \in Validator
      <3>1. c.vals[v] \in Vals /\ c.vals[v].shares >= 0
        BY <1>1, <2>1 DEF WellKept
      <3>. QED BY <3>1 DEF Vals, Validator
    <2>. QED BY <2>1, <2>2
  <1>3. ASSUME NEW v \in Operators
        PROVE  LET r == c.dist[v] IN
               /\ r.outstanding \in Nat /\ r.rewards \in Nat /\ r.commission \in Nat
               /\ DOMAIN r.hist \subseteq Nat
               /\ \A p \in DOMAIN r.hist : r.hist[p].ratio \in Nat /\ r.hist[p].refs \in 1 .. 3
    <2>. DEFINE r == c.dist[v]
    <2>1. /\ r.outstanding >= 0 /\ r.rewards >= 0 /\ r.commission >= 0
          /\ \A p \in DOMAIN r.hist : p >= 0 /\ r.hist[p].ratio >= 0 /\ r.hist[p].refs \in 1 .. 3
      BY <1>1 DEF WellKept
    <2>2. r.outstanding \in Int /\ r.rewards \in Int /\ r.commission \in Int
      BY DEF States, Records
    <2>3. /\ DOMAIN r.hist \subseteq Int
          /\ \A p \in DOMAIN r.hist : r.hist[p].ratio \in Int
      BY HistoryIsOfRecords
    <2>. HIDE DEF r
    <2>4. /\ r.outstanding \in Nat /\ r.rewards \in Nat /\ r.commission \in Nat
          /\ DOMAIN r.hist \subseteq Nat
          /\ \A p \in DOMAIN r.hist : r.hist[p].ratio \in Nat /\ r.hist[p].refs \in 1 .. 3
      BY <2>1, <2>2, <2>3
    <2>. QED BY <2>4 DEF r
  <1>4. c.pool \in Nat
    BY DEF Kept, States
  <1>5. Outstanding(c) \in Nat
    <2>. DEFINE f == [v \in Operators |-> c.dist[v].outstanding]
    <2>1. f \in [Operators -> Nat] /\ IsFiniteSet(Operators)
      BY <1>3, ChainAssumption
    <2>. HIDE DEF f
    <2>2. SumFunction(f) \in Nat
      BY <2>1, SumOfNaturals
    <2>. QED BY <2>2 DEF Outstanding, f
  <1>6. c.distribution \in Nat
    <2>1. c.distribution \in Int
      BY DEF States
    <2>2. c.distribution - Outstanding(c) - c.pool = 0
      BY DEF Surplus
    <2>. QED BY <1>4, <1>5, <2>1, <2>2
  <1>. QED BY <1>2, <1>3, <1>4, <1>6

\* The states of the chain are well typed; the reward records hold numbers and one
\* to three references unless an operator with records was used for a testnet.
THEOREM ChainIsTyped == Spec => []ChainTypeOK
  <1>1. ToolsInv => ChainTypeOK
    <2>. SUFFICES ASSUME ToolsInv PROVE ChainTypeOK
      OBVIOUS
    <2>1. /\ ChainInv /\ Fit(chain, testnet, ~reused) /\ committed \in BOOLEAN
          /\ ~chain.panic
      BY ToolsInvGives DEF ToolsInv
    <2>2. chain \in States /\ Healthy(chain, testnet) /\ Whole(chain)
      BY <2>1 DEF Fit
    <2>3. /\ chain.height \in Nat /\ chain.power \subseteq Operators
          /\ chain.last \subseteq Operators /\ chain.queue \subseteq Operators
          /\ chain.dels \in [Delegators -> [Operators -> Nat]]
          /\ chain.start \in [Delegators -> [Operators -> StartingInfo]]
          /\ chain.ubds \subseteq Entry /\ chain.reds \subseteq Entry
      BY <2>2 DEF States, Infos, StartingInfo, Entries, Entry
    <2>4. \A k \in DOMAIN chain.signing : chain.signing[k] \in Nat
      BY <2>2 DEF Healthy, Orderly, Signed
    <2>5. {chain.bonded, chain.notBonded} \subseteq Nat
      <3>1. chain.bonded >= 0 /\ NotBondedSurplus(chain) >= 0 /\ IsFiniteSet(chain.ubds)
        BY <2>2 DEF Healthy, Backed, Whole
      <3>2. chain.notBonded >= 0
        BY <2>2, <3>1, NotBondedTokensSuffice
      <3>3. chain.bonded \in Int /\ chain.notBonded \in Int
        BY <2>2 DEF States
      <3>. QED BY <3>1, <3>2, <3>3
    <2>6. ASSUME ~reused
          PROVE  Kept(chain, Rate(testnet)) /\ Surplus(chain) = 0
      BY <2>1, <2>6 DEF Fit, ChainInv, Sound
    <2>7. ASSUME ~reused
          PROVE  /\ chain.vals \in [Operators -> Validator]
                 /\ chain.pool \in Nat /\ chain.distribution \in Nat
                 /\ \A v \in Operators :
                       LET r == chain.dist[v] IN
                       /\ r.outstanding \in Nat /\ r.rewards \in Nat /\ r.commission \in Nat
                       /\ DOMAIN r.hist \subseteq Nat
                       /\ \A p \in DOMAIN r.hist :
                             r.hist[p].ratio \in Nat /\ r.hist[p].refs \in 1 .. 3
      BY <2>2, <2>6, <2>7, LedgersAreTyped
    <2>. QED BY <2>1, <2>3, <2>4, <2>5, <2>7 DEF ChainTypeOK
  <1>. QED BY <1>1, ToolsInvHolds, PTL
=============================================================================

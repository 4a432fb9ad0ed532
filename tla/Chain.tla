-------------------------------- MODULE Chain --------------------------------
(***************************************************************************)
(* The state of the Cosmos chain that its genesis tools rewrite, and the    *)
(* keeper calls of the SDK through which they, and the blocks of the chain, *)
(* change it: staking, fee distribution, signing infos and the balances of  *)
(* the three module accounts behind them.  The keepers are not part of the  *)
(* repository; they are modelled from how app/ wires and calls them.        *)
(*                                                                          *)
(* The state is one record, and a keeper call an operator from state to     *)
(* state, so that the long call sequences of the tools can be written down  *)
(* as they are.  A call that panics sets the field `panic`, and every call  *)
(* after it leaves the state alone.                                         *)
(***************************************************************************)
EXTENDS Integers, Sequences, FiniteSets, FiniteSetsExt, SequencesExt

CONSTANTS
    Operators,     \* operator addresses, numbers in the order of their bytes
    Genesis,       \* operators of the first genesis
    Delegators,
    Stake,         \* tokens of one delegation
    Reward,        \* fees a bonded validator is allocated in a block
    Commission,    \* the part of Reward that is its commission
    MaxBlocks      \* bound: blocks in a behaviour, over all its chains

ASSUME ChainAssumption ==
    /\ Operators \subseteq Nat \ {0} /\ Genesis \subseteq Operators
    /\ IsFiniteSet(Operators) /\ IsFiniteSet(Delegators) /\ Delegators # {}
    /\ Stake \in Nat \ {0} /\ Reward \in Nat /\ Commission \in 0 .. Reward
    /\ MaxBlocks \in Nat

-----------------------------------------------------------------------------
(* State *)

Statuses == {"Absent", "Bonded", "Unbonding", "Unbonded"}

Validator == [status : Statuses, tokens : Nat, shares : Nat, jailed : BOOLEAN,
              unbondingHeight : Nat]

NoValidator == [status |-> "Absent", tokens |-> 0, shares |-> 0,
                jailed |-> FALSE, unbondingHeight |-> 0]

\* The distribution records of one validator.  hist[p] is the reward per token
\* up to the end of period p and is kept as long as something refers to it;
\* the slashes are in the order of the blocks.
NoRecords == [outstanding |-> 0, rewards |-> 0, commission |-> 0, period |-> 0,
              hist |-> << >>, slashes |-> << >>]

NoHist == [ratio |-> 0, refs |-> 0]

StartingInfo == [period : Int, stake : Nat, height : Int]
NoInfo == [period |-> -1, stake |-> 0, height |-> -1]

\* Unbonding delegations and redelegations; the id tells two entries apart.
Entry == [id : Nat, del : Delegators, val : Operators, amount : Nat, height : Nat]

Exists(c, v) == c.vals[v].status # "Absent"
Existing(c)  == {v \in Operators : Exists(c, v)}

\* GetAllDelegations
Delegations(c) == {dv \in Delegators \X Operators : c.dels[dv[1]][dv[2]] > 0}

\* GetValidatorHistoricalRewards: a record that is not there reads as zero.
Hist(c, v, p) == IF p \in DOMAIN c.dist[v].hist THEN c.dist[v].hist[p] ELSE NoHist

TokensFromShares(c, v, s) ==
    IF c.vals[v].shares > 0 THEN (s * c.vals[v].tokens) \div c.vals[v].shares ELSE 0

Panic(c) == [c EXCEPT !.panic = TRUE]

\* What is done with the state after a call: nothing, when it panicked.
Then(c, F(_)) == IF c.panic THEN c ELSE F(c)

\* A call made for every element of a set, in some order.
ForAll(F(_, _), c, S) == FoldSet(LAMBDA x, d : Then(d, LAMBDA e : F(e, x)), c, S)

-----------------------------------------------------------------------------
(* Distribution *)

With(f, x, y) == [z \in DOMAIN f \cup {x} |-> IF z = x THEN y ELSE f[z]]

\* A record whose last reference goes is deleted.
DecrementReferenceCount(c, v, p) ==
    LET h == Hist(c, v, p)
        f == c.dist[v].hist
    IN  IF h.refs = 0 THEN Panic(c)
        ELSE IF h.refs = 1
        THEN [c EXCEPT !.dist[v].hist = [q \in DOMAIN f \ {p} |-> f[q]]]
        ELSE [c EXCEPT !.dist[v].hist = With(@, p, [h EXCEPT !.refs = @ - 1])]

IncrementReferenceCount(c, v, p) ==
    LET h == Hist(c, v, p)
    IN  IF h.refs > 2 THEN Panic(c)
        ELSE [c EXCEPT !.dist[v].hist = With(@, p, [h EXCEPT !.refs = @ + 1])]

\* The reward per token up to the end of the current period.  The quotient is
\* truncated: what it leaves over stays in the outstanding rewards.
EndRatio(c, v) ==
    LET r == c.dist[v]
        tokens == c.vals[v].tokens
    IN  Hist(c, v, r.period - 1).ratio + (IF tokens > 0 THEN r.rewards \div tokens ELSE 0)

\* The rewards of a period in which nobody had tokens.
Donated(c, v) == IF c.vals[v].tokens > 0 THEN 0 ELSE c.dist[v].rewards

StartPeriod(c, v, ratio, donated) ==
    LET r == c.dist[v]
    IN  [c EXCEPT !.pool = @ + donated,
                  !.dist[v] = [r EXCEPT
                     !.outstanding = @ - donated, !.rewards = 0, !.period = @ + 1,
                     !.hist = With(r.hist, r.period, [ratio |-> ratio, refs |-> 1])]]

\* Ends the current period of v.
IncrementValidatorPeriod(c, v) ==
    IF ~Exists(c, v) THEN Panic(c)
    ELSE Then(DecrementReferenceCount(c, v, c.dist[v].period - 1),
              LAMBDA d : StartPeriod(d, v, EndRatio(c, v), Donated(c, v)))

\* The hook AfterValidatorCreated.
InitializeValidator(c, v) ==
    LET r == c.dist[v]
    IN  [c EXCEPT !.dist[v] = [r EXCEPT
            !.outstanding = 0, !.rewards = 0, !.commission = 0, !.period = 1,
            !.hist = With(r.hist, 0, [ratio |-> 0, refs |-> 1])]]

\* The hook AfterDelegationModified.
InitializeDelegation(c, del, v) ==
    LET p == c.dist[v].period - 1
    IN  Then(IncrementReferenceCount(c, v, p), LAMBDA d :
            [d EXCEPT !.start[del][v] =
                [period |-> p, stake |-> TokensFromShares(c, v, c.dels[del][v]),
                 height |-> c.height]])

\* The hooks BeforeDelegationCreated and AfterDelegationModified.
StartDelegation(c, dv) ==
    Then(IncrementValidatorPeriod(c, dv[2]),
         LAMBDA d : InitializeDelegation(d, dv[1], dv[2]))

\* CalculateDelegationRewardsBetween, on top of what acc has up to acc.from.
RewardsUpTo(c, v, acc, period) ==
    LET a == Hist(c, v, acc.from).ratio
        b == Hist(c, v, period).ratio
    IN  [from |-> period, stake |-> acc.stake, sum |-> acc.sum + (b - a) * acc.stake,
         panic |-> acc.panic \/ acc.from > period \/ b < a]

\* A slash e since the start s of the delegation halves the stake.
CutBySlash(c, v, s, acc, e) ==
    IF s.height <= e.height /\ e.height <= c.height /\ e.period > s.period
    THEN [RewardsUpTo(c, v, acc, e.period) EXCEPT !.stake = acc.stake \div 2]
    ELSE acc

OverSlashes(c, v, s) ==
    FoldLeft(LAMBDA acc, e : CutBySlash(c, v, s, acc, e),
             [from |-> s.period, stake |-> s.stake, sum |-> 0, panic |-> FALSE],
             c.dist[v].slashes)

\* The rewards of a delegation up to the end of period `ending`, -1 when the
\* keeper panics.
DelegationRewards(c, del, v, ending) ==
    LET s == c.start[del][v]
        end == OverSlashes(c, v, s)
        total == RewardsUpTo(c, v, end, ending)
    IN  IF s.height = c.height THEN 0
        ELSE IF end.stake > TokensFromShares(c, v, c.dels[del][v]) \/ total.panic
        THEN -1 ELSE total.sum

Pay(c, v, amount) ==
    LET r == c.dist[v]
    IN  [c EXCEPT !.distribution = @ - amount,
                  !.dist[v] = [r EXCEPT !.outstanding = @ - amount]]

\* Pays a delegation and forgets where it started.
PayDelegation(c, del, v) ==
    LET owed(d) == DelegationRewards(d, del, v, c.dist[v].period)
        pay(d) ==
            IF owed(d) < 0 THEN Panic(d)
            ELSE DecrementReferenceCount(
                     Pay(d, v, Min({owed(d), d.dist[v].outstanding})),
                     v, c.start[del][v].period)
    IN  Then(Then(IncrementValidatorPeriod(c, v), pay),
             LAMBDA d : [d EXCEPT !.start[del][v] = NoInfo])

\* An error changes nothing: there is no such validator, or no such delegation.
WithdrawDelegationRewards(c, del, v) ==
    IF ~Exists(c, v) \/ c.start[del][v] = NoInfo THEN c
    ELSE Then(PayDelegation(c, del, v), LAMBDA d : InitializeDelegation(d, del, v))

WithdrawValidatorCommission(c, v) ==
    LET r == c.dist[v]
    IN  [c EXCEPT !.distribution = @ - r.commission,
                  !.dist[v] = [r EXCEPT !.commission = 0,
                                        !.outstanding = @ - r.commission]]

\* distr.BeginBlocker: fees are divided among those that signed the last block.
AllocateTokensToValidator(c, v) ==
    LET r == c.dist[v]
    IN  [c EXCEPT !.distribution = @ + Reward,
                  !.dist[v] = [r EXCEPT !.outstanding = @ + Reward,
                                        !.commission = @ + Commission,
                                        !.rewards = @ + (Reward - Commission)]]

AllocateTokens(c) == ForAll(AllocateTokensToValidator, c, c.last)

-----------------------------------------------------------------------------
(* Staking *)

\* The module account that holds the tokens of a validator.
Move(c, bonded, amount) ==
    [c EXCEPT !.bonded = @ + (IF bonded THEN amount ELSE 0),
              !.notBonded = @ + (IF bonded THEN 0 ELSE amount)]

Burn(c, bonded, amount) ==
    IF (IF bonded THEN c.bonded ELSE c.notBonded) < amount
    THEN Panic(c) ELSE Move(c, bonded, -amount)

IsBonded(c, v) == c.vals[v].status = "Bonded"

\* The part of the power index ApplyAndReturnValidatorSetUpdates reads: it
\* goes from the highest power down and stops at the first validator without.
Reached(c) ==
    LET none == {v \in c.power : Exists(c, v) /\ c.vals[v].tokens = 0}
    IN  (c.power \ none) \cup (IF none = {} THEN {} ELSE {Min(none)})

BeginUnbonding(c, v) ==
    IF ~IsBonded(c, v) THEN Panic(c)
    ELSE Move(Burn([c EXCEPT !.vals[v] = [@ EXCEPT !.status = "Unbonding",
                                                   !.unbondingHeight = c.height],
                             !.queue = @ \cup {v}],
                   TRUE, c.vals[v].tokens), FALSE, c.vals[v].tokens)

Bond(c, v) ==
    IF IsBonded(c, v) THEN c
    ELSE Move(Burn([c EXCEPT !.vals[v].status = "Bonded", !.queue = @ \ {v}],
                   FALSE, c.vals[v].tokens), TRUE, c.vals[v].tokens)

\* All validators with power fit into the active set.
ApplyValidatorSetUpdates(c) ==
    LET bonded == {v \in Reached(c) : c.vals[v].tokens > 0}
    IN  IF \E v \in Reached(c) : ~Exists(c, v) \/ c.vals[v].jailed THEN Panic(c)
        ELSE Then(ForAll(BeginUnbonding, ForAll(Bond, c, bonded), c.last \ bonded),
                  LAMBDA d : [d EXCEPT !.last = bonded])

\* A validator nobody delegates to, and that has no tokens left; the hook
\* AfterValidatorRemoved pays its commission and gives what is left to the
\* community pool.
RemoveValidator(c, v) ==
    IF c.vals[v].tokens > 0 THEN Panic(c)
    ELSE Then(WithdrawValidatorCommission(c, v), LAMBDA d :
        [d EXCEPT !.vals[v] = NoValidator, !.power = @ \ {v},
                  !.pool = @ + d.dist[v].outstanding, !.dist[v] = NoRecords])

\* The unbonding period of v is over.
UnbondMature(c, v) ==
    IF c.vals[v].status # "Unbonding" THEN Panic(c)
    ELSE Then([c EXCEPT !.vals[v].status = "Unbonded", !.queue = @ \ {v}], LAMBDA d :
              IF d.vals[v].shares = 0 THEN RemoveValidator(d, v) ELSE d)

\* All tokens of the validator are slashed.
InvalidExRate(c, v) == c.vals[v].tokens = 0 /\ c.vals[v].shares > 0

\* Shares at the present rate of the validator; a first delegation sets it.
SharesFromTokens(c, v, amount) ==
    IF c.vals[v].shares > 0
    THEN (amount * c.vals[v].shares) \div c.vals[v].tokens ELSE amount

\* The validator and the delegation with more, or less, of both.
AddShares(c, del, v, amount, shares) ==
    LET x == c.vals[v]
    IN  [c EXCEPT !.vals[v] = [x EXCEPT !.tokens = @ + amount, !.shares = @ + shares],
                  !.dels[del][v] = @ + shares]

Delegate(c, del, v, amount) ==
    LET shares == SharesFromTokens(c, v, amount)
        add(d) == AddShares(Move(d, IsBonded(c, v), amount), del, v, amount, shares)
    IN  IF InvalidExRate(c, v) THEN Panic(c)
        ELSE Then(IF c.dels[del][v] > 0 THEN PayDelegation(c, del, v)
                  ELSE IncrementValidatorPeriod(c, v),
                  LAMBDA d : InitializeDelegation(add(d), del, v))

\* Takes a whole delegation out of its validator and out of the pool.
Unbond(c, del, v) ==
    LET amount == TokensFromShares(c, v, c.dels[del][v])
        remove(d) ==
            IF amount > c.vals[v].tokens THEN Panic(c)
            ELSE Burn(AddShares(d, del, v, -amount, -c.dels[del][v]),
                      IsBonded(c, v), amount)
    IN  Then(Then(PayDelegation(c, del, v), remove), LAMBDA d :
             IF d.vals[v].shares = 0 /\ d.vals[v].status = "Unbonded"
             THEN RemoveValidator(d, v) ELSE d)

Undelegate(c, del, v) ==
    LET amount == TokensFromShares(c, v, c.dels[del][v])
        entry == [id |-> c.ids, del |-> del, val |-> v, amount |-> amount,
                  height |-> c.height]
    IN  Then(Unbond(c, del, v), LAMBDA d :
             IF c.vals[v].status = "Unbonded" THEN d
             ELSE [Move(d, FALSE, amount) EXCEPT !.ids = @ + 1, !.ubds = @ \cup {entry}])

\* Too small an amount to redelegate is an error.
Redelegate(c, del, v, w) ==
    LET amount == TokensFromShares(c, v, c.dels[del][v])
        entry == [id |-> c.ids, del |-> del, val |-> v, amount |-> amount,
                  height |-> c.height]
    IN  IF amount = 0 THEN Panic(c)
        ELSE Then(Then(Unbond(c, del, v), LAMBDA d : Delegate(d, del, w, amount)), LAMBDA d :
             IF c.vals[v].status = "Unbonded" THEN d
             ELSE [d EXCEPT !.ids = @ + 1, !.reds = @ \cup {entry}])

CompleteUnbonding(c, u) ==
    Then(Burn(c, FALSE, u.amount), LAMBDA d : [d EXCEPT !.ubds = @ \ {u}])

RecordSlash(c, v, p) ==
    [c EXCEPT !.dist[v].slashes = Append(@, [height |-> c.height, period |-> p])]

Jail(c, v, lost) ==
    LET x == c.vals[v]
    IN  [c EXCEPT !.vals[v] = [x EXCEPT !.tokens = @ - lost, !.jailed = TRUE],
                  !.power = @ \ {v}]

\* Half of the tokens are burned and the validator is jailed; the hook
\* BeforeValidatorSlashed ends its period so that earlier rewards are not cut.
Slash(c, v) ==
    LET p == c.dist[v].period
        lost == c.vals[v].tokens \div 2
    IN  Then(Then(IncrementValidatorPeriod(c, v),
                  LAMBDA d : IncrementReferenceCount(d, v, p)),
             LAMBDA d : Burn(Jail(RecordSlash(d, v, p), v, lost), IsBonded(c, v), lost))

Unjail(c, v) == [c EXCEPT !.vals[v].jailed = FALSE, !.power = @ \cup {v}]

-----------------------------------------------------------------------------
(* Blocks *)

VARIABLES
    chain,         \* the committed state
    blocks         \* number of blocks so far

\* app_config.go: fees are distributed before slashing, and slashing before the
\* transactions.
BeginBlock(c) == AllocateTokens([c EXCEPT !.height = @ + 1])

\* The staking end blocker.
EndBlock(c) == ApplyValidatorSetUpdates(c)

\* Without validators there are no blocks.
Mined(c) ==
    /\ ~chain.panic /\ chain.last # {} /\ blocks < MaxBlocks
    /\ chain' = c /\ blocks' = blocks + 1

Begun == BeginBlock(chain)

\* A block with one transaction, of which t is the outcome.  A panic in it is
\* recovered: the transaction fails, the block goes on.
Transaction(t) == Mined(EndBlock(IF t.panic THEN Begun ELSE t))

\* The only validator of a chain is not slashed: while it is away there are no
\* blocks.  A block that slashes in its begin blocker, or matures an unbonding in its
\* end blocker, has nobody to recover a panic: the chain halts.
Slashing(v) == Mined(Then(Slash(Begun, v), EndBlock))

UnbondingEnds(v) == Mined(Then(EndBlock(Begun), LAMBDA c : UnbondMature(c, v)))

UndelegationEnds(u) ==
    Mined(Then(EndBlock(Begun), LAMBDA c : CompleteUnbonding(c, u)))

Block ==
    \/ \E del \in Delegators, v \in Existing(chain) :
          chain.vals[v].tokens > 0 /\ Transaction(Delegate(Begun, del, v, Stake))
    \/ \E dv \in Delegations(chain) :
          /\ Exists(chain, dv[2])
          /\ \/ Transaction(Undelegate(Begun, dv[1], dv[2]))
             \/ Transaction(WithdrawDelegationRewards(Begun, dv[1], dv[2]))
             \/ \E w \in Existing(chain) \ {dv[2]} :
                   /\ chain.vals[w].tokens > 0
                   /\ Transaction(Redelegate(Begun, dv[1], dv[2], w))
    \/ \E v \in Existing(chain) : Transaction(WithdrawValidatorCommission(Begun, v))
    \/ \E v \in Existing(chain) : chain.vals[v].jailed /\ Transaction(Unjail(Begun, v))
    \/ \E v \in chain.last : chain.last # {v} /\ Slashing(v)
    \/ \E v \in chain.queue : UnbondingEnds(v)
    \/ \E u \in chain.ubds : UndelegationEnds(u)

\* The state after the genesis block: every delegator with every validator.
FirstState ==
    LET stake == Stake * Cardinality(Delegators)
        d0 == [height |-> 1, panic |-> FALSE, ids |-> 0,
               vals |-> [v \in Operators |->
                  IF v \in Genesis
                  THEN [status |-> "Bonded", tokens |-> stake, shares |-> stake,
                        jailed |-> FALSE, unbondingHeight |-> 0]
                  ELSE NoValidator],
               power |-> Genesis, last |-> Genesis, queue |-> {},
               dels |-> [d \in Delegators |->
                  [v \in Operators |-> IF v \in Genesis THEN Stake ELSE 0]],
               ubds |-> {}, reds |-> {},
               dist |-> [v \in Operators |-> NoRecords],
               start |-> [d \in Delegators |-> [v \in Operators |-> NoInfo]],
               pool |-> 0, distribution |-> 0,
               bonded |-> stake * Cardinality(Genesis), notBonded |-> 0,
               signing |-> [k \in Genesis |-> 1]]
    IN  ForAll(StartDelegation, ForAll(InitializeValidator, d0, Genesis),
               Delegators \X Genesis)

ChainInit == chain = FirstState /\ blocks = 0
=============================================================================

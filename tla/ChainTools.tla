------------------------------ MODULE ChainTools ------------------------------
(***************************************************************************)
(* A chain and the two commands that rewrite its state: it produces blocks, *)
(* is stopped, made a testnet in place, started again, exported, and        *)
(* imported into a new chain, in any order.                                 *)
(***************************************************************************)
EXTENDS ZeroHeightExport, InPlaceTestnet

CONSTANTS
    Flags,         \* values of --accounts-to-fund, << >> when it is not given
    AllowLists,    \* values of --jail-allowed-addrs, {} when it is not given
    MaxCommands,   \* bound: commands run on the chain
    NoExport       \* nothing has been exported

ASSUME ToolsAssumption ==
    /\ Flags \subseteq Seq(Users \cup ModuleAccounts \cup {Malformed})
    /\ AllowLists \subseteq SUBSET Operators
    /\ MaxCommands \in Nat

VARIABLES
    exported,      \* the exported genesis; the chain stands still meanwhile
    committed,     \* the state is on disk: not before the first block after it
    commands,      \* number of commands run
    testnet,       \* history: an in-place testnet has been started
    reused         \* history: with an operator address that had records

vars == <<chain, blocks, exported, committed, commands, testnet, reused>>

Init ==
    /\ ChainInit
    /\ exported = NoExport /\ committed = TRUE /\ commands = 0
    /\ testnet = FALSE /\ reused = FALSE

Produce ==
    /\ exported = NoExport /\ Block /\ committed' = TRUE
    /\ UNCHANGED <<exported, commands, testnet, reused>>

Command ==
    /\ ~chain.panic /\ exported = NoExport /\ committed
    /\ commands < MaxCommands /\ commands' = commands + 1

\* handleErr and a panic end the process before anything is committed; a run
\* that goes well starts the node, whose first block commits.
InPlace ==
    /\ Command
    /\ \E op \in Operators, flag \in Flags :
          IF Funded(flag)
          THEN /\ chain' = initAppForTestnet(chain, op) /\ committed' = FALSE
               /\ testnet' = TRUE
               /\ reused' = (reused \/ chain.dist[op] # NoRecords)
          ELSE UNCHANGED <<chain, committed, testnet, reused>>
    /\ UNCHANGED <<blocks, exported>>

\* `edud export`, of the latest state.
Export ==
    /\ Command
    /\ \E forZeroHeight \in BOOLEAN, allowed \in AllowLists :
          exported' = [zero |-> forZeroHeight, allowed |-> allowed,
                       state |-> ExportAppStateAndValidators(chain, forZeroHeight, allowed)]
    /\ UNCHANGED <<chain, blocks, committed, testnet, reused>>

-----------------------------------------------------------------------------
(* Import *)

BondedTokens(c) ==
    SumFunction([v \in Operators |-> IF IsBonded(c, v) THEN c.vals[v].tokens ELSE 0])

NotBondedTokens(c) ==
    SumFunction([v \in Operators |-> IF IsBonded(c, v) THEN 0 ELSE c.vals[v].tokens])
    + SumFunction([u \in c.ubds |-> u.amount])

Outstanding(c) == SumFunction([v \in Operators |-> c.dist[v].outstanding])

\* What the distribution and the staking module check when they are given a
\* genesis; they panic when it does not hold.
Importable(c) ==
    /\ c.distribution = Outstanding(c) + c.pool
    /\ c.bonded = BondedTokens(c) /\ c.notBonded = NotBondedTokens(c)
    /\ c.last \subseteq Existing(c)

\* Mutant: a genesis for height zero is taken for one at the next height.
InitGenesisOneBelow(c, zero) ==
    [c EXCEPT !.height = @ - 1,
              !.power = {v \in Existing(c) : ~c.vals[v].jailed},
              !.queue = {v \in Operators : c.vals[v].status = "Unbonding"}]

\* The power index and the queue are made from the validators.
InitGenesis(c, zero) ==
    [c EXCEPT !.height = IF zero THEN 0 ELSE @ - 1,
              !.power = {v \in Existing(c) : ~c.vals[v].jailed},
              !.queue = {v \in Operators : c.vals[v].status = "Unbonding"}]

Import ==
    /\ exported # NoExport /\ ~exported.state.panic /\ Importable(exported.state)
    /\ chain' = InitGenesis(exported.state, exported.zero)
    /\ exported' = NoExport /\ committed' = FALSE
    /\ UNCHANGED <<blocks, commands, testnet, reused>>

Next == Produce \/ InPlace \/ Export \/ Import

Spec == Init /\ [][Next]_vars

-----------------------------------------------------------------------------
(* Properties *)

\* Delegations to validators that are gone.
Orphans(c) == {dv \in Delegations(c) : ~Exists(c, dv[2])}

\* Types; a reward record is kept for one to three references.  Where a testnet
\* reuses an operator, its old delegations may take out more than its records hold.
ChainTypeOK ==
    /\ chain.height \in Nat /\ \A k \in DOMAIN chain.signing : chain.signing[k] \in Nat
    /\ committed \in BOOLEAN
    /\ chain.power \subseteq Operators /\ chain.last \subseteq Operators
    /\ chain.queue \subseteq Operators
    /\ chain.dels \in [Delegators -> [Operators -> Nat]]
    /\ chain.start \in [Delegators -> [Operators -> StartingInfo]]
    /\ chain.ubds \subseteq Entry /\ chain.reds \subseteq Entry
    /\ {chain.bonded, chain.notBonded} \subseteq Nat
    /\ ~reused =>
          /\ chain.vals \in [Operators -> Validator]
          /\ {chain.pool, chain.distribution} \subseteq Nat
          /\ \A v \in Operators :
                LET r == chain.dist[v] IN
                /\ {r.outstanding, r.rewards, r.commission} \subseteq Nat
                /\ DOMAIN r.hist \subseteq Nat
                /\ \A p \in DOMAIN r.hist : r.hist[p].ratio \in Nat /\ r.hist[p].refs \in 1 .. 3

\* Whatever blocks come after an in-place testnet or an import, no begin or end
\* blocker meets a state it panics on: an unbonding validator that is not there,
\* a jailed one in the power index, a period without its records, an empty pool.
NeverHalts == ~chain.panic

\* The distribution account holds the outstanding rewards and the community
\* pool, and nothing else, on every chain the tools make ("so as to keep the
\* CanWithdrawInvariant invariant", app_config.go:112).
FeesAreHeld == ~reused => chain.distribution = Outstanding(chain) + chain.pool

\* The reward of every delegation to a validator that is there can be withdrawn
\* in the next block, after any export, import and testnet.
DelegatorsCanWithdraw ==
    ~reused => \A dv \in Delegations(chain) \ Orphans(chain) :
        ~WithdrawDelegationRewards(BeginBlock(chain), dv[1], dv[2]).panic

\* What is exported from a chain can be imported: the balances of the module
\* accounts are those the staking and the distribution module ask for.
ExportIsImportable ==
    exported # NoExport /\ ~testnet /\ ~exported.state.panic => Importable(exported.state)

References(c, v) ==
    SumFunction([p \in DOMAIN c.dist[v].hist |-> c.dist[v].hist[p].refs])

\* Every reward record is referred to by what refers to it: the current period,
\* the delegations and the slashes of its validator.  A record counted too low
\* is deleted while a delegation still needs it.
ReferencesAreCounted ==
    ~reused => \A v \in Existing(chain) :
        References(chain, v) =
            1 + Cardinality({d \in Delegators : chain.start[d][v] # NoInfo})
              + Len(chain.dist[v].slashes)

\* An export for height zero holds no height of the old chain, in any module.
ZeroHeightIsZero ==
    exported # NoExport /\ exported.zero /\ ~exported.state.panic =>
        LET c == exported.state IN
        /\ \A dv \in Delegations(c) : c.start[dv[1]][dv[2]].height = 0
        /\ \A e \in c.ubds \cup c.reds : e.height = 0
        /\ \A v \in Existing(c) : c.vals[v].unbondingHeight = 0 /\ c.dist[v].slashes = << >>
        /\ \A k \in DOMAIN c.signing : c.signing[k] = 0

\* The export panics in two cases only: a delegation names a validator that an
\* in-place testnet removed, or a list of allowed addresses leaves out a
\* validator the power index still ranks.
ExportPanicsOnlyFor ==
    exported # NoExport /\ ~reused =>
        (exported.state.panic <=>
           /\ exported.zero
           /\ \/ Orphans(chain) # {}
              \/ exported.allowed # {} /\ ~(Reached(chain) \subseteq exported.allowed))

\* Validators outside the list of allowed addresses are not in the active set
\* the new chain starts with.
AllowListIsObeyed ==
    exported # NoExport /\ exported.zero /\ ~exported.state.panic /\ exported.allowed # {} =>
        exported.state.last \subseteq exported.allowed

PaidBy(c, d) == c.distribution - d.distribution

\* An export for height zero pays every commission and every delegation what it
\* could have withdrawn, those of jailed and unbonding validators included.
EveryoneIsPaidAtExport ==
    exported # NoExport /\ exported.zero /\ ~exported.state.panic /\ ~reused =>
        PaidBy(chain, exported.state) =
            SumFunction([v \in Existing(chain) |-> chain.dist[v].commission])
            + SumFunction([dv \in Delegations(chain) |->
                              PaidBy(chain, PayDelegation(chain, dv[1], dv[2]))])

\* "never called as BeforeDelegationCreated always returns nil" (export.go:160):
\* without a list of allowed addresses the export has no other reason to panic.
BeforeDelegationCreatedNeverFails ==
    exported # NoExport /\ exported.allowed = {} => ~exported.state.panic
=============================================================================

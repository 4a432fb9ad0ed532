--------------------------- MODULE ZeroHeightExport ---------------------------
(***************************************************************************)
(* app/export.go: the genesis file of a running chain, either at the next   *)
(* height or prepared for a fresh start at height zero.  The export works   *)
(* on a state it does not commit, alone and in one go, so it is an operator *)
(* from the committed state to the state it exports; where the code panics  *)
(* the command dies and nothing is exported.                                *)
(***************************************************************************)
EXTENDS Chain

\* Errors of single withdrawals are ignored.
WithdrawAllCommission(c) == ForAll(WithdrawValidatorCommission, c, Existing(c))

WithdrawRewardsOf(c, dv) == WithdrawDelegationRewards(c, dv[1], dv[2])

\* Mutant: as below, but only for the validators in the active set.
WithdrawRewardsOfBonded(c) ==
    ForAll(WithdrawRewardsOf, c, {dv \in Delegations(c) : dv[2] \in c.last})

WithdrawAllRewards(c) == ForAll(WithdrawRewardsOf, c, Delegations(c))

\* Mutant: the slash events stay.
ClearHistoryOnly(c) ==
    [c EXCEPT !.dist = [v \in Operators |-> [@[v] EXCEPT !.hist = << >>]]]

\* DeleteAllValidatorSlashEvents, DeleteAllValidatorHistoricalRewards
ClearDistribution(c) ==
    [c EXCEPT !.dist = [v \in Operators |->
        [@[v] EXCEPT !.hist = << >>, !.slashes = << >>]]]

\* Mutant: what nobody withdrew is dropped instead of donated.
ReinitValidatorsWithoutDonation(c) == ForAll(InitializeValidator, c, Existing(c))

\* What nobody withdrew goes to the community pool.
ReinitValidator(c, v) ==
    InitializeValidator([c EXCEPT !.pool = @ + c.dist[v].outstanding], v)

ReinitValidators(c) == ForAll(ReinitValidator, c, Existing(c))

\* Mutant: the period is not ended before each delegation.
ReinitDelegationsInOnePeriod(c, dels) ==
    ForAll(LAMBDA d, dv : InitializeDelegation(d, dv[1], dv[2]), c, dels)

\* For the delegations read before the withdrawals.
ReinitDelegations(c, dels) == ForAll(StartDelegation, c, dels)

\* Mutant: the context keeps the height of the chain.
DistributionAtTheChainsHeight(c) ==
    Then(WithdrawAllRewards(WithdrawAllCommission(c)), LAMBDA d :
         ReinitDelegations(ReinitValidators(ClearDistribution(d)), Delegations(c)))

\* The records are set up anew in a context of height zero.
PrepareDistribution(c) ==
    LET atZero(d) == [ClearDistribution(d) EXCEPT !.height = 0]
    IN  Then(WithdrawAllRewards(WithdrawAllCommission(c)), LAMBDA d :
             [ReinitDelegations(ReinitValidators(atZero(d)), Delegations(c))
              EXCEPT !.height = c.height])

\* Redelegations and unbonding delegations start at height zero.
ResetEntries(c) ==
    LET atZero(entries) == {[e EXCEPT !.height = 0] : e \in entries}
    IN  [c EXCEPT !.reds = atZero(@), !.ubds = atZero(@)]

\* A validator outside a non-empty list of allowed addresses is jailed.  Its
\* entry in the power index stays.
ResetValidators(c, allowed) ==
    [c EXCEPT !.vals = [v \in Operators |->
        IF ~Exists(c, v) THEN NoValidator
        ELSE [c.vals[v] EXCEPT
                 !.unbondingHeight = 0,
                 !.jailed = c.vals[v].jailed \/ (allowed # {} /\ v \notin allowed)]]]

ResetSigningInfos(c) ==
    [c EXCEPT !.signing = [k \in DOMAIN c.signing |-> 0]]

\* Mutant: the active set is updated before the validators are reset.
PrepForZeroHeightUpdatesFirst(c, allowed) ==
    Then(Then(PrepareDistribution(c),
              LAMBDA d : ApplyValidatorSetUpdates(ResetEntries(d))),
         LAMBDA d : ResetSigningInfos(ResetValidators(d, allowed)))

PrepForZeroHeight(c, allowed) ==
    Then(Then(PrepareDistribution(c), LAMBDA d :
              ApplyValidatorSetUpdates(ResetValidators(ResetEntries(d), allowed))),
         ResetSigningInfos)

\* The exported state; its height is the one the new chain starts at.
ExportAppStateAndValidators(c, forZeroHeight, allowed) ==
    IF forZeroHeight THEN [PrepForZeroHeight(c, allowed) EXCEPT !.height = 0]
    ELSE [c EXCEPT !.height = @ + 1]
=============================================================================

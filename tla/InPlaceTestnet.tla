---------------------------- MODULE InPlaceTestnet ----------------------------
(***************************************************************************)
(* cmd/testnet.go: `edud in-place-testnet` takes the state of a chain and   *)
(* makes one validator of the user's its whole validator set, then funds    *)
(* some accounts.  Nothing is committed before the first block, so a run    *)
(* that exits leaves the committed state as it was.                         *)
(***************************************************************************)
EXTENDS Chain

CONSTANTS
    TestTokens,    \* valVotingPower
    TestShares,    \* DelegatorShares of the new validator
    Users,         \* accounts of people, as opposed to module accounts
    Malformed      \* an address that does not parse, such as the empty one

ASSUME InPlaceAssumption ==
    /\ TestTokens \in Nat \ {0} /\ TestShares \in Nat \ {0}
    /\ TestTokens <= Stake * TestShares
    /\ Malformed \notin Users

\* The key of the validator the user brings; every other one is named by the
\* operator that signs with it.
TestKey == 0

-----------------------------------------------------------------------------
(* Module accounts, as app_config.go declares them *)

moduleAccPerms(m) ==
    CASE m = "mint" -> {"minter"}
      [] m \in {"bonded_tokens_pool", "not_bonded_tokens_pool"} -> {"burner", "staking"}
      [] m = "gov" -> {"burner"}
      [] m = "transfer" -> {"minter", "burner"}
      [] OTHER -> {}

ModuleAccounts ==
    {"fee_collector", "distribution", "mint", "bonded_tokens_pool",
     "not_bonded_tokens_pool", "gov", "nft", "transfer", "interchainaccounts"}

blockAccAddrs ==
    {"fee_collector", "distribution", "mint", "bonded_tokens_pool",
     "not_bonded_tokens_pool", "nft"}

\* BlockedAddresses: the listed accounts, or every module account without a list.
BlockedAddresses == IF blockAccAddrs # {} THEN blockAccAddrs ELSE ModuleAccounts

-----------------------------------------------------------------------------
(* Staking, distribution and slashing *)

newVal == [status |-> "Bonded", tokens |-> TestTokens, shares |-> TestShares,
           jailed |-> FALSE, unbondingHeight |-> 0]

\* Mutant: the queue of unbonding validators is left.
RemoveValidatorsKeepQueue(c) ==
    [c EXCEPT !.vals = [v \in Operators |-> NoValidator], !.power = {}, !.last = {}]

\* Mutant: the distribution records go too, and the fees behind them stay.
RemoveValidatorsAndRecords(c) ==
    [RemoveValidatorsKeepQueue(c) EXCEPT !.queue = {},
                                         !.dist = [v \in Operators |-> NoRecords]]

\* Deletes the power index, the last validators, the validators and the queue
\* of unbonding validators; delegations and their records stay.
RemoveValidators(c) ==
    [c EXCEPT !.vals = [v \in Operators |-> NoValidator],
              !.power = {}, !.last = {}, !.queue = {}]

\* Mutant: no record in the distribution stores.
AddTestValidatorWithoutRecords(c, op) ==
    [c EXCEPT !.vals[op] = newVal, !.power = {op}, !.last = {op},
              !.signing = With(@, TestKey, c.height - 1)]

\* The new validator, bonded, with power 0 among the last validators, its
\* distribution records (set by the hook and once more by the command) and the
\* signing info of its key.
AddTestValidator(c, op) ==
    [InitializeValidator([c EXCEPT !.vals[op] = newVal, !.power = {op}, !.last = {op}], op)
     EXCEPT !.signing = With(@, TestKey, c.height - 1)]

-----------------------------------------------------------------------------
(* Bank *)

\* strings.Split("", ",") is one empty string, not none.
accountsToFund(flag) == IF flag = << >> THEN <<Malformed>> ELSE flag

\* Every account is minted coins, which takes the permission, has an address that
\* parses, and may receive coins.  One that cannot be funded ends the run.
Funded(flag) ==
    /\ "minter" \in moduleAccPerms("mint")
    /\ \A account \in Range(accountsToFund(flag)) :
          account # Malformed /\ account \notin BlockedAddresses

\* The state the node starts on.
initAppForTestnet(c, op) == AddTestValidator(RemoveValidators(c), op)
=============================================================================

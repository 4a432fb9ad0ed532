SPECIFICATION Spec
CONSTANTS
    alice = alice
    bob = bob
    malformed = malformed
    Operators = {1, 2, 3}
    Genesis = {1, 2}
    Delegators = {alice, bob}
    Stake = 2
    Reward = 9
    Commission = 1
    MaxBlocks = 3
    TestTokens = 4
    TestShares = 2
    Users = {alice, bob}
    Malformed = malformed
    Flags <- MCFlags
    AllowLists <- MCAllowLists
    MaxCommands = 2
    NoExport = NoExport
INVARIANT
    BeforeDelegationCreatedNeverFails
CHECK_DEADLOCK FALSE

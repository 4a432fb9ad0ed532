SPECIFICATION FairSpec
CONSTANTS
    alice = alice
    bob = bob
    Holders = {alice, bob}
    Coins <- MCCoins
    Times <- MCTimes
    Slots = {1, 2}
    MaxLoads = 2
    MaxFailures = 1
    MaxRemounts = 1
INVARIANTS
    ExplorerTypeOK
    BalancesAreOfTheBlock
    NeverWithoutAccounts
    IntervalIsAMean
PROPERTIES
    BalancesNeverGoBack
    

SPECIFICATION FairSpec
CONSTANTS
    sepolia = sepolia
    local = local
    store = store
    tx1 = tx1
    tx2 = tx2
    Chains = {sepolia, local}
    Contracts = {store}
    Deployed <- MCDeployed
    Hashes = {tx1, tx2}
    Text = {"", "hello"}
    MaxBatch = 2
    MaxHeight = 3
    GraphChain = sepolia
    GraphAddress = store
    StartBlock = 2
    Configs <- MCConfigs
    First = 3
INVARIANTS
    TypeOK
    
    OneEntityPerEvent
    NodeRowsHaveOwnKey
    GraphShowsTheSameEvents
    
PROPERTIES
    IsMaterializedView
    IndexerCatchesUp
CHECK_DEADLOCK FALSE

SPECIFICATION FairWriteSpec
CONSTANTS
    local = local
    sepolia = sepolia
    store = store
    tx1 = tx1
    tx2 = tx2
    Chains = {local}
    Contracts = {store}
    Deployed <- MCDeployed
    Hashes = {tx1, tx2}
    Text = {"hello"}
    MaxBatch = 1
    MaxHeight = 2
    GraphChain = local
    GraphAddress = store
    StartBlock = 1
    NoAddress = NoAddress
    Configs <- MCConfigs
    InitConfigs <- MCConfigs
    First = 2
    MaxIssued = 1
    MaxSubmits = 2
INVARIANTS
    OwnWriteIsShown

    
CHECK_DEADLOCK FALSE

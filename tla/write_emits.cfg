SPECIFICATION WriteSpec
CONSTANTS
    local = local
    sepolia = sepolia
    store = store
    tx1 = tx1
    tx2 = tx2
    Chains = {local, sepolia}
    Contracts = {store}
    Deployed <- MCDeployed
    Hashes = {tx1}
    Text = {"", "hello"}
    MaxBatch = 1
    MaxHeight = 1
    GraphChain = local
    GraphAddress = store
    StartBlock = 1
    NoAddress = NoAddress
    Configs <- MCConfigs
    InitConfigs <- MCConfigs
    First = 2
    MaxIssued = 1
    MaxSubmits = 1
INVARIANTS
    ReportedWriteEmitted
CHECK_DEADLOCK FALSE

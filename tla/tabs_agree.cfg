SPECIFICATION Spec
CONSTANTS
    sepolia = sepolia
    local = local
    store = store
    tx1 = tx1
    tx2 = tx2
    Chains = {sepolia}
    Contracts = {store}
    Deployed <- MCDeployed
    Hashes = {tx1, tx2}
    Text = {"", "hello"}
    MaxBatch = 2
    MaxHeight = 2
    GraphChain = sepolia
    GraphAddress = store
    StartBlock = 1
    Configs <- MCConfigs
    First = 3
SYMMETRY MCSymmetry
INVARIANTS
    TabsAgree
CHECK_DEADLOCK FALSE

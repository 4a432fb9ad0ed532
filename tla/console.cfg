SPECIFICATION FairConsoleSpec
CONSTANTS
    chain = chain
    store = store
    misspelt = misspelt
    tx1 = tx1
    tx2 = tx2
    tx3 = tx3
    Chains = {chain}
    Contracts = {store}
    Deployed <- MCDeployed
    Hashes = {tx1, tx2}
    Text = {"hello"}
    MaxBatch = 1
    MaxHeight = 2
    GraphChain = chain
    GraphAddress = store
    StartBlock = 1
    NoAddress = NoAddress
    Configs <- GraphConfigs
    InitConfigs <- GraphConfigs
    First = 2
    MaxIssued = 2
INVARIANTS
    
    LatestCallShowsReportedEvents
    LoadingMeansReading
PROPERTIES
    LoadingEnds
CHECK_DEADLOCK FALSE

SPECIFICATION Spec
CONSTANTS
    none = none
    MaxNodes = 2
    MaxRuns = 3
    StakeLists <- MCStakeLists
    PortLists <- MCPortLists
    NotANumber = none
    Balance = 5
    DefaultStake = 1
    NoPort = NoPort
    NoState = NoState
INVARIANTS
    MultiNodeTypeOK
    SuccessIsOneNetwork
    FinalGenesesAgree
    GenesisIsOfOneRun
    RefusedForAReason
    
    PortsAreDistinct
CHECK_DEADLOCK FALSE

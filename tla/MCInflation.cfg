SPECIFICATION Spec
CONSTANTS
    Ids = {"day", "week"}
    Duration <- MCDuration
    GenesisTime = 1
    StartTimes = {NoStartTime, 3}
    NoStartTime = NoStartTime
    MaxTime = 16
    MaxGap = 5
    MaxHalvingPeriod = 3
    Pow2 <- MCPow2
    GenesisParams <- MCGenesisParams
    GenesisSupply = 4
    GenesisStartEpochs = {1, 2}
    ParamProposals <- MCProposals
    Unset = Unset
    alice = alice
    bob = bob
    module = module
    Recipients = {alice, bob, module}
    Blocked = {module}
    NoAddress = NoAddress
    Malformed = Malformed
    DefaultMultiSigAddress = bob
    MultiSigProposals = {alice, module}
    BurnAmounts = {2}
    MaxEvents = 2
INVARIANTS
    EpochGrid
    EveryDaySettledOnce
    SupplyUnderHighestCap
    HalvingStateExact
PROPERTIES
    CatchesUp
    ImplementsSchedule
CHECK_DEADLOCK FALSE

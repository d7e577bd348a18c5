CONSTANTS
    user = user
    operator = operator
    c1 = c1
    c2 = c2
    Nodes = {"n1"}
    Wallets <- MCWallets
    Contracts = {c1, c2}
    NoContract = NoContract
    Reverted = Reverted
    Txs <- MCTxs
    ParamSets <- MCParamSets
    GenesisStates <- MCGenesis
    Threshold = 1
    Tolerance = 1
    CacheDuration = 1
    ChainWindow = 1
    WalletWindow = 1
    CleanupInterval = 2
    MaxBlockTxs = 2
    MaxHeight = 3
    MaxClock = 1
SPECIFICATION MCSpec
INVARIANTS LockTakesHold StatusTakesHold

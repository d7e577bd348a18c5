CONSTANTS
    user = user
    operator = operator
    c1 = c1
    c2 = c2
    Nodes = {"n1", "n2"}
    Wallets <- MCWallets
    Contracts = {c1}
    NoContract = NoContract
    Reverted = Reverted
    Txs <- MCReplicaTxs
    ParamSets = {}
    GenesisStates <- MCReplicaGenesis
    Threshold = 1
    Tolerance = 1
    CacheDuration = 1
    ChainWindow = 1
    WalletWindow = 1
    CleanupInterval = 2
    MaxBlockTxs = 2
    MaxHeight = 1
    MaxClock = 0
SPECIFICATION Spec
INVARIANT ReplicasAgree

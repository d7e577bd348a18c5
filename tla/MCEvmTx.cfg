CONSTANTS
    a = a
    b = b
    NoTx = NoTx
    Word = 32
    Unit = 2
    MaxGas = 4
    ParamSets <- MCParamSets
    TxGas = {0, 1, 2, 3, 4, 5, 6, 7, 8, 9, 10, 11, 12, 13, 14, 15, 16, 17, 18, 19, 20, 21, 22, 23, 24, 25, 26, 27, 28, 29, 30, 31}
    HighestCap = 3
    MaxPrice = 4
    MaxUpdates = 1
    MaxHeight = 2
    Accounts = {a, b}
    Messages <- MCMessages
    CosmosTxs <- MCCosmosTxs
    DeclaredGas = {1, 2, 4}
    RejectedGas = {3}
    Intrinsic = 1
    GenesisBalance = 12
    MaxMsgs = 2
SPECIFICATION EvmSpec
INVARIANTS GasWithinLimits
PROPERTIES BooksMatchReceipts NonceUsed ImplementsFeeMarket

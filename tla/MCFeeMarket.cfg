CONSTANTS
    Word = 16
    Unit = 2
    MaxGas = 6
    ParamSets <- MCParamSets
    TxGas = {1, 4}
    HighestCap = 9
    MaxPrice = 12
    MaxUpdates = 2
    MaxHeight = 4
SPECIFICATION FeeLiveSpec
PROPERTIES BusyBlockRaisesPrice UnusedGasRaisesPrice PriceFallsWithinBounds PriceComesDown
CHECK_DEADLOCK FALSE

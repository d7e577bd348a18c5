CONSTANTS
    o = o
    p = p
    a = a
    b = b
    childO = childO
    childA = childA
    Addrs = {o, p, a, b, childO, childA}
    Origin = o
    Targets = {a, b, childA}
    Precompile = p
    Keys = {"k"}
    Values = {0, 1}
    Children <- MCChildren
    GenesisStores <- MCGenesis
    MaxPrecompileCalls = 2
    Failures = {}
    MaxOps = 3
    NoAccount = NoAccount
    NoObj = NoObj
    NoCache = NoCache
    Clean = Clean
SPECIFICATION Spec
INVARIANTS NeverPanics ReadsMatchCommit CoinsConserved
PROPERTIES ImplementsCallFrames
CHECK_DEADLOCK FALSE

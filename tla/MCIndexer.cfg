CONSTANTS
    Chain <- MCChain
    MaxCrashes = 2
    MaxFaults = 1
SPECIFICATION Spec
CHECK_DEADLOCK FALSE
INVARIANTS NoGaps ReachedIsIndexed
PROPERTY CatchesUp

CONSTANTS
    alice = alice
    bob = bob
    Accounts <- MCAccounts
    Pairs <- MCPairs
    Native = native
    Vouchers = {v1, v2}
    Lifetime = 1
    MaxAmount = 2
    MaxTime = 3
    MaxRevoked = 1
SPECIFICATION PrecompileSpec
INVARIANT PrecompilesHaveCode
PROPERTY ImplementsAllowances

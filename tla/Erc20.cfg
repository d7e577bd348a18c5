CONSTANTS
    Users = {alice, bob}
    Module = module
    Escrow = escrow
    Supply = 4
    Packets = {p1, p2}
SPECIFICATION Spec
INVARIANTS Backed EscrowMatches
PROPERTIES NobodyPoorer RefundsSettle

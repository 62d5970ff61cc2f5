SPECIFICATION Spec
CONSTANTS
    alice = alice
    bob = bob
    token = token
    ghost = ghost
    Name <- MCName
    Account = {alice, bob, token}
    Self = token
    Precision = {4, 2}
    Quantities <- MCQuantities
    MaxAmount = 2
    NoStat = NoStat
    NoPayer = NoPayer
INVARIANTS
    TypeOK
    SupplyIsHeld
PROPERTIES
    OwnersSpend
    PayersConsent

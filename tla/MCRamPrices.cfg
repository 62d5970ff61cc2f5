SPECIFICATION Spec
CONSTANTS
    MaxReserve = 24
    MaxBytes = 30
    MaxPrice = 1000
INVARIANTS
    PurchaseKeepsProduct
    SaleKeepsProduct
    RoundTripNeverGains
    FeesAreHalfAPercent

SPECIFICATION Spec
CONSTANTS
    Rate = 10
    Word = 4096
    FeePercent = 3
    HasCollector = TRUE
    MaxSats = 400
    Decimals = 2
INVARIANTS
    UnitsAreTheLeastCover
    UnitsSurviveTheString
    FeeIsTheLeastCover
    InvoiceAmountIsNearest
    WithdrawalIsTheLeastCover
CHECK_DEADLOCK FALSE

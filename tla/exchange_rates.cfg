CONSTANTS
    Ccy <- Currencies
    Usd = "USD"
    Asset <- Pairs
    Per1 <- QuotedPer1
    Thin <- ThinPairs
    Date = {1, 2}
    Worth <- Worths
    Lists <- CrossLists
    MaxCrosses = 2
    MaxRates = 5
    None = None
    Overflow = Overflow
SPECIFICATION Spec
INVARIANTS StoredRight AnsweredRight
PROPERTY KeepsAnswers
CHECK_DEADLOCK FALSE

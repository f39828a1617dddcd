SPECIFICATION MCSpec
CONSTANTS
    None = None
    Kinds = {"forward", "spread", "survival", "vol", "events", "dividend", "future"}
    Date <- MCDate
    Value = {"u", "v"}
    From <- MCFrom
    Initial = 2
    MaxSize = 5
    Key = {1, 2, 3}
    Half = 2
    Maturity = {2, 3}
    Quotes <- MCQuotes
    Given <- MCGiven
    MaxRows = 3
    MaxChanges = 4
INVARIANTS TableOK AnswersNearest LooksUpRight
PROPERTIES NothingLost SearchEnds

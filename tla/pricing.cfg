SPECIFICATION WrongSpec
CONSTANTS
    None = None
    Id = {"a", "b", "c"}
    Asset = {"eurusd", "usdjpy", "eurjpy", "unlisted"}
    Pair = {"eurusd", "usdjpy", "eurjpy"}
    Registered = {"eurusd", "usdjpy", "eurjpy"}
    Triangle <- CrossTriangle
    Offers <- WrongOffers
    Rates <- WrongRates
    Preload <- CyclicPreload
    Client = {"clear", "replace", "copy_market", "copy_adapters"}
    MaxDepth = 5
    MaxGen = 2
    Use = {"usd", "usd basis", "pair"}
    Maps <- MCMaps
    Trades <- MCTrades
INVARIANTS OverflowMeansCycle PricedFromMarket Repeatable
PROPERTIES CatalogueSafety
CHECK_DEADLOCK FALSE

SPECIFICATION WrongSpec
CONSTANTS
    None = None
    Id = {"a", "b", "c"}
    Asset = {"eurusd", "usdjpy", "eurjpy", "unlisted"}
    Pair = {"eurusd", "usdjpy", "eurjpy"}
    Registered = {"eurusd", "usdjpy", "eurjpy"}
    Triangle <- CrossTriangle
    Offers <- WrongOffers
    Rates <- WrongRates
    Preload <- CyclicPreload
    Client = {"clear", "replace", "copy_market", "copy_adapters"}
    MaxDepth = 5
    MaxGen = 2
    Use = {"usd", "usd basis", "pair"}
    Maps <- MCMaps
    Trades <- MCTrades
INVARIANTS RequestCarriesCurves
CHECK_DEADLOCK FALSE

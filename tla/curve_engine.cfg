SPECIFICATION EngineSpec
CONSTANTS
    None = None
    Id = {"a", "b", "c", "d"}
    Asset = {"gold", "eurusd", "unlisted"}
    Pair = {"eurusd"}
    Registered = {"gold", "eurusd"}
    Triangle = {}
    Offers <- EngineOffers
    Rates <- EngineRates
    Preload <- AcyclicPreload
    Client = {"clear"}
    MaxDepth = 5
    MaxGen = 2
INVARIANTS RefsAlive AnswersRight SpotWithCurve
PROPERTIES BuildKeepsCurves CatalogueFair DepsFirst

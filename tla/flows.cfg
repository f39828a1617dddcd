CONSTANTS
    Year = 720
    Last = 4
    Horizon <- MCHorizon
    Curves <- MCCurves
    Foreign <- MCForeign
    Spot = 2880
    Templates <- MCTemplates
    Strikes = {100, 500}
    Spreads = {1}
    HandRates = {360}
    MaxFlows = 1
    MaxEdits = 2
SPECIFICATION FairSpec
INVARIANTS Collared
PROPERTIES FixedOnce FixingsRight EventuallyFixed
CHECK_DEADLOCK FALSE

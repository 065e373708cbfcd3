CONSTANTS
    RequestLens <- MCRequestLens
    InitialPages = 1
    MaxPages = 3
    Returns <- MCReturns
    Fuel = 2
SPECIFICATION FairSpec
INVARIANT
    FuelPerRequest
CHECK_DEADLOCK FALSE

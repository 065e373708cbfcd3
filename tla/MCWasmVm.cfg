CONSTANTS
    RequestLens <- MCRequestLens
    InitialPages = 1
    MaxPages = 3
    Returns <- MCReturns
    Fuel = 2
SPECIFICATION FairSpec
INVARIANTS
    HostAccessInBounds
    RefusalDeserved
    FuelBound
    ResultRetrievable
PROPERTIES
    GrowthIsMinimal
    CallEnds
\* A call that has ended takes no more steps.
CHECK_DEADLOCK FALSE

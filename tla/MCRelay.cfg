CONSTANTS
    Exchanges <- MCExchanges
    MaxAnswer = 4
    UpRoom = 2
    DownRoom = 2
    CopyRoom = 2
    ClientRoom = 1
SPECIFICATION FairSpec
INVARIANTS
    BackPressure
PROPERTIES
    AnswerArrives
    ImplementsProxy
\* The exchange ends, or gateway and upstream wait for each other for ever.
CHECK_DEADLOCK FALSE

CONSTANTS
    Inputs <- MCInputs
SPECIFICATION TextSpec
INVARIANTS
    EncodedIsDecoded
    FormsAreRead
    WordsAreKept
    TransformsDeliver
PROPERTY
    AdvancesInText
\* A request is inspected once.
CHECK_DEADLOCK FALSE

CONSTANTS
    Conditions <- MCConditions
    Requests <- MCRequests
    Empty = ""
    None = None
    NumberOf <- MCNumberOf
    WordsOf <- MCWordsOf
    TextHits <- MCTextHits
    PhrasesOf <- MCPhrasesOf
    Transformed <- MCTransformed
    CookiesIn <- MCCookiesIn
    HeaderCalled <- MCHeaderCalled
SPECIFICATION Spec
INVARIANT
    PhrasesComeFromTheFile
CHECK_DEADLOCK FALSE

CONSTANTS
    Letters <- MCLetters
    Capitals <- MCCapitals
    Files <- MCFiles

SPECIFICATION Spec

INVARIANTS
    TokensTile
    LinesSeparate
    LongestMatch
    ReadAsWritten
    NothingDropped
    RestIsParsedPast

PROPERTY
    StepsConsume

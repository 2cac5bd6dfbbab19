CONSTANTS
    Letters <- MCLetters
    Capitals <- MCCapitals
    Files <- MCRests

SPECIFICATION Spec

INVARIANT RestIsParsed

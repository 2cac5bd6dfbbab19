CONSTANTS
    Letters <- MCLetters
    Capitals <- MCCapitals
    Files <- MCTypes

SPECIFICATION Spec

INVARIANT ArgumentListsClose

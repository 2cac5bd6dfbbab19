\* Import resolution on three families of small module graphs.
CONSTANTS
    Name <- MCName
    PackageName = "pkg"
    Families <- MCFamilies
SPECIFICATION Spec
INVARIANTS
    TypeOK
    ImportsGrounded
    ImportsUnambiguous
    ReadsCompleteExports
    EveryUseAccounted
    ErrorFreeComplete
PROPERTIES
    DoneIsFinal
    RefinesFixpoint
    Termination

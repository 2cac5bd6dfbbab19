CONSTANTS
    Env <- MCEnv
    Patterns <- MCPatterns
    Families <- MCFamilies
    Exprs <- SmallExprs
    Rounds = 2

SPECIFICATION Spec

INVARIANTS
    ItemsStartClean
    AcceptedRuns
    FlatMatchesExact

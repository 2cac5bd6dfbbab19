CONSTANTS
    Env <- MCEnv
    Patterns <- MCPatterns
    Families <- MCQuestions
    Exprs <- SmallExprs
    Rounds = 2

SPECIFICATION Spec

INVARIANT QuestionsInFunctions

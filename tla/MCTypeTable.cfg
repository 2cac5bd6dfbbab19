\* The type tables on three families of small packages.
CONSTANTS
    Name <- MCName
    PackageName = "pkg"
    TypeExpr <- MCTypeExpr
    Families <- MCFamilies
SPECIFICATION Spec
INVARIANTS
    TypesAsDeclared
    NominalsOnce
    EqualityExact
    DiagnosedExactly
PROPERTIES
    EntriesStay
    Termination

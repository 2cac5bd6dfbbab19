\* The module tree of small packages.
CONSTANTS
    Name <- MCName
    PackageName = "main"
    PackageFamilies <- MCPackageFamilies
SPECIFICATION Spec
INVARIANTS
    YieldsModuleGraph
    EveryModAccounted
    UnreachableWarned
    NoFileRecursion
PROPERTIES
    Termination

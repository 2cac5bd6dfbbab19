\* Renaming of the shadowed names of small files.
CONSTANTS
    Name = {"x", "y"}
    KeywordName = {"self"}
    Programs <- MCPrograms
SPECIFICATION Spec
INVARIANTS
    RenamingKeepsMeaning
    ReportsIllScoped

\* One command of the driver on small workspaces.
CONSTANTS
    Part <- MCPart
    Cwd <- A
    SourceName = {"m.al"}
    Steps = 4
    Workspaces <- MCWorkspaces
SPECIFICATION Spec
INVARIANTS
    ExitTellsErrors
    AnalysisInput
    ResolvesExactly
    PackagesShareNoFile
PROPERTY
    Termination

\* Storages near nine small programs, verified and emitted.
CONSTANT Storages <- MCStorages
SPECIFICATION Spec
INVARIANTS
    EmittedExactly
    LoweredFaithfully
    PhisCoverEdges

\* A branch to the second block that takes parameters.
CONSTANT Storages <- MCStorages
SPECIFICATION Spec
INVARIANT BranchArgumentsInPosition

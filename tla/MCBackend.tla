----------------------------- MODULE MCBackend -----------------------------
\* The back end on small storages.
EXTENDS BackendChecks

Small == INSTANCE SmallStorages

MCStorages ==
    UNION {Small!Near(s) : s \in {Small!Straight, Small!Loop, Small!Cells, Small!Others,
                                  Small!Calls, Small!Choice, Small!Shared, Small!Overlap,
                                  Small!Joins}}
    \cup UNION {Small!TwiceNear(s) : s \in {Small!Loop, Small!Choice, Small!Shared, Small!Overlap}}

=============================================================================

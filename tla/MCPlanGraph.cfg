SPECIFICATION Spec
CONSTANTS
    Ids = {1, 2, 3, 4}
    MaxDeps = 3
    Duplicates = FALSE
    Bodies = TRUE
INVARIANTS
    OrderIsLeastReadyFirst
    ClosuresAreReachability

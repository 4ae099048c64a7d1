SPECIFICATION Spec
CONSTANTS
    t1 = t1
    t2 = t2
    Tasks <- MCTasks
    NoTask = NoTask
    Clients <- MCClients
    MaxChunks = 3
    MaxDocs = 3
    MaxFaults = 1
SYMMETRY MCSymmetry
CHECK_DEADLOCK FALSE
INVARIANTS
    VaultIsWhole
    OnlyUnusableIsCleared

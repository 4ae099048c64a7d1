SPECIFICATION TurnsSpec
CONSTANTS
    t1 = t1
    t2 = t2
    p1 = p1
    p2 = p2
    e1 = e1
    Threads = {t1, t2}
    Process <- TwoProcesses
    Mutators = {t1, t2}
    Patches = {p1, p2}
    Edits = {e1}
    Original = Original
    NoPlan = NoPlan
    MaxVersion = 3
    MaxTries = 2
    MaxFaults = 0
    MaxCrashes = 2
INVARIANTS
    PublishedIsMarked
PROPERTIES
    PublicationIsAtomic
    InterruptedCommitCompletes

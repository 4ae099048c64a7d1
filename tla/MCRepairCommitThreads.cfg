SPECIFICATION Spec
SYMMETRY PatchSymmetry
CONSTANTS
    t1 = t1
    t2 = t2
    p1 = p1
    p2 = p2
    e1 = e1
    Threads = {t1, t2}
    Process <- TwoProcesses
    Mutators = {t1, t2}
    Patches = {p1, p2}
    Edits = {e1}
    Original = Original
    NoPlan = NoPlan
    MaxVersion = 2
    MaxTries = 1
    MaxFaults = 1
    MaxCrashes = 1
INVARIANTS
    CurrentIsSnapshot
    JournalOwnsSnapshot
    OneWinner

SPECIFICATION Spec
CONSTANTS
    Workers <- MCWorkers
    Inside <- MCInside
    Ui = "ui"
    MaxCrashes = 1
INVARIANTS
    InstallExcludesWork
    HandoffIsAnnounced
PROPERTIES
    HandoffEnds
CHECK_DEADLOCK FALSE

SPECIFICATION Spec
CONSTANTS
    Tasks = {t1, t2, t3}
    NoTask = NoTask
    Faults <- MCFaults
    MaxFaults = 2
CHECK_DEADLOCK FALSE
INVARIANTS
    WriterOwnsTheRun
    RunningIsWorkedOn
    RegistryMatchesExecution
PROPERTIES
    RecordKeepsContract
    AbortSettles

SPECIFICATION FairSpec
CHECK_DEADLOCK FALSE
CONSTANTS
    Versions = 3
    Plans <- RepairPlans
    StepIds = {1, 2, 3, 4, 5, 6, 7, 8}
INVARIANTS
    CachesAgree
    SucceededRunIsComplete
    SuccessRestsOnSuccess
    SkipsAreJustified
PROPERTIES
    StartsAfterDependencies
    SucceededWorkIsKept
    ExecutionEnds

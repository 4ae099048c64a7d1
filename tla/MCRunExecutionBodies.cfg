SPECIFICATION Spec
CHECK_DEADLOCK FALSE
CONSTANTS
    Versions = 2
    Plans <- BodyPlans
    StepIds = {1, 2, 3, 4, 5, 6, 7, 8}
INVARIANTS
    EndedRunHasNoRunningStep
    BodyOutcomeIsRecorded
    PendingOwnerHasFreshBody

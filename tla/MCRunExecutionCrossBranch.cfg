SPECIFICATION Spec
CHECK_DEADLOCK FALSE
CONSTANTS
    Versions = 1
    Plans <- CrossBranchPlans
    StepIds = {1, 2, 3, 4}
PROPERTIES
    UntakenBranchNeverRuns

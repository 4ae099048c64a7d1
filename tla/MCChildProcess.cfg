SPECIFICATION Spec
CONSTANTS
    Kinds <- MCKinds
    Platforms <- MCPlatforms
    Input = 2
    Capacity = 1
    Limit = 1
    MaxOutput = 3
CHECK_DEADLOCK FALSE
INVARIANTS
    OutputIsComplete
    NothingOutlivesTheCall
PROPERTIES
    CallEnds

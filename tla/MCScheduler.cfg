SPECIFICATION Spec
CONSTANTS
    Processes = {p1, p2}
    Nobody = Nobody
    Lease = 1
    Attempts = 2
    MaxTime = 2
    MaxStarts = 2
    Users = {p2}
    Plans = {plan}
    Schedules = {s1}
    PlanOf <- MCPlanOf
    Slots <- MCSlots
    MaxFailures = 1
CHECK_DEADLOCK FALSE
INVARIANTS
    OverlapHasCause
    FiresOnce
PROPERTIES
    NoSlotIsLost
    WindowsClose

SPECIFICATION Spec
CONSTANTS
    Clients = {"c1"}
    Keys <- MCKeys
    EditKeys <- MCEditKeys
    MaxWorks = 2
    MaxVersion = 2
    HistoryLimit = 1
    MaxDelayed = 1
INVARIANTS
    WorkIsTracked
    HistoryIsTrue
PROPERTIES
    RefusedOnlyWhenOvertaken
    WaitersAreAnswered
    OverviewCatchesUp
CHECK_DEADLOCK FALSE

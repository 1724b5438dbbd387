SPECIFICATION FairSpec
CONSTANTS
    MaxTasks = 4
    Len0 = 2
    Workers = 3
    Items = {1, 4}
INVARIANTS ResultsComplete OneTaskAtATime
PROPERTIES ServerSpec SlotReturns
CHECK_DEADLOCK FALSE

SPECIFICATION Spec
CONSTANTS
    MaxTasks = 3
    Len0 = 2
    Workers = 2
    Items = {1}
PROPERTIES TakenWhenDone
CHECK_DEADLOCK FALSE

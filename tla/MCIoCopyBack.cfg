CONSTANTS
    Dbs = {1, 2, 3}
    Length = 3
    Kind <- MCKind
    NBatches = 2
    Counts = {0, 2}
    Align = 2
SPECIFICATION IoSpec
INVARIANT PayloadsBack
\* The task leaves the group.
CHECK_DEADLOCK FALSE

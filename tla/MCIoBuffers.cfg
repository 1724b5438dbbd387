CONSTANTS
    Dbs = {1, 2, 3}
    Length = 5
    Kind <- MCKind
    NBatches = 2
    Counts = {0, 2}
    Align = 2
SPECIFICATION IoSpec
INVARIANTS FinEndsRun LoadedWhereUsed SavedOnce
           LayoutSound ArgsOwn KernelInputsReady ResultsBack
\* The task leaves the group.
CHECK_DEADLOCK FALSE

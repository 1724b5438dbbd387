CONSTANTS
    Batches = {b1, b2}
    Tasks = {t1, t2}
    IoBases = {io1}
    NElems = 2
    Offloadable <- MCOffloadable
    Fin <- MCFin
    PpDepth = 1
    InQCap = 1
    CompQCap = 1
    MayTerminate = TRUE
    NoTask = NoTask
    NoIo = NoIo
SPECIFICATION FairSpec
CHECK_DEADLOCK FALSE
PROPERTIES
    BatchReturns
    TerminationUnwinds

CONSTANTS
    Batches = {b1, b2, b3, b4}
    Tasks = {t1, t2, t3}
    IoBases = {io1, io2}
    NElems = 2
    Offloadable <- MCOffloadable
    Fin <- MCFin
    PpDepth = 2
    InQCap = 1
    CompQCap = 2
    MayTerminate = TRUE
    NoTask = NoTask
    NoIo = NoIo
SPECIFICATION Spec
SYMMETRY Symmetry
CHECK_DEADLOCK FALSE
INVARIANTS
    TaskConservation

CONSTANTS
    Batches = {b1, b2, b3, b4}
    Tasks = {t1, t2, t3}
    IoBases = {io1}
    NElems = 2
    Offloadable <- MCOffloadable
    Fin <- MCFin
    PpDepth = 1
    InQCap = 1
    CompQCap = 1
    MayTerminate = TRUE
    NoTask = NoTask
    NoIo = NoIo
SPECIFICATION Spec
SYMMETRY Symmetry
CHECK_DEADLOCK FALSE
INVARIANTS
    TypeOK
    TaskConservation
    BatchConservation
    IoBaseOwnership
    TrackerAccounting
    NeverAborts
    NoLostWakeup
    CoprocDrained
    NothingLeftToScan
PROPERTIES
    StableOnDevice
    PathSpec

SPECIFICATION Spec
CONSTANTS
    NPackets = 4
    Batches = {b1, b2, b3, b4}
    classify = classify
    crypt = crypt
    match = match
    check = check
    discard = discard
    Elems = {classify, crypt, check, discard}
    Input = crypt
    Next_elems <- OffloadFirst
    Offloadable = {crypt}
    CombatchSize = 1
    BurstSize = 4
    MayTerminate = FALSE
    Out = Out
    Drop = Drop
    NoBatch = NoBatch
PROPERTY
    EveryBatchReturns

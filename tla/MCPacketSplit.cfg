SPECIFICATION Spec
CONSTANTS
    NPackets = 5
    Batches = {b1, b2, b3}
    classify = classify
    crypt = crypt
    match = match
    check = check
    discard = discard
    Elems = {classify, crypt, match, discard}
    Input = classify
    Next_elems <- BranchFirst
    Offloadable = {crypt, match}
    CombatchSize = 2
    BurstSize = 3
    MayTerminate = TRUE
    Out = Out
    Drop = Drop
    NoBatch = NoBatch
INVARIANTS
    BatchesConserved
    ForwardedOnce
    WhereSent
    WokenWhenFree

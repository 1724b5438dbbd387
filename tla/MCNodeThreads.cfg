CONSTANTS
    IoThreads = {t0, t1, t2}
    Master = t0
    MaxPackets = 1
    MaxReports = 5
    Wrap = 4
SPECIFICATION FairSpec
INVARIANTS Ordered ReportsCounted PacketsCounted
PROPERTIES StartsAndStops
\* The program ends.
CHECK_DEADLOCK FALSE

SPECIFICATION FairSpec
CONSTANTS
    Mail = {m1, m2, m3}
    MaxStalls = 1
    MaxFaults = 2
    None = None
CHECK_DEADLOCK FALSE
INVARIANTS TypeOK CopiesNeedStalls CleanRunIsFifo
PROPERTIES CleanRunDelivers KeepsPromise

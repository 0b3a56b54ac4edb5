SPECIFICATION FairSpec
CONSTANTS
    t1 = t1  t2 = t2  t3 = t3
    None = None
    Threads = {t1, t2, t3}
    kFairnessBatch = 1
    WriterPriority = FALSE
    NestedReads = FALSE
    MaxNest = 2
    MaxCalls <- Calls211
    WriterRange = 3
INVARIANTS WritersExclusive WritersInOrder 
 
CHECK_DEADLOCK FALSE

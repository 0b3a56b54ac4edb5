SPECIFICATION Spec
CONSTANTS
    t1 = t1
    t2 = t2
    Threads = {t1, t2}
    NumMaps = 2
    WorkerIdx <- TwoMaps
    Capacity = 6
    Alignment = 2
    Slab = 2
    BlockSizes <- Buckets
    Sizes = {1, 2, 3}
    GrowthUnit = 2
    Existing = {0, 7}
    MaxFaults = 1
INVARIANTS NoOverlap NothingLost RemainingIsTrue BackedBeforeUse AssemblesWhatFits

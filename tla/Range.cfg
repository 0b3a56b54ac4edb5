SPECIFICATION Spec
CONSTANTS
    Sizes = {1, 2, 3, 4, 5, 6, 7, 8, 9, 10}
    NeighborhoodSizes = {2, 3, 4, 32}
INVARIANTS PiecesPartitionRange RunsAtMostOnce SmallRangeReachesAll
CHECK_DEADLOCK FALSE

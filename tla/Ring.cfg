CONSTANTS
    prodA = prodA
    prodB = prodB
    consA = consA
    consB = consB
    Threads <- MCThreads
    Kinds = {"spsc", "mpsc", "mpmc", "ext"}
    Producers <- MCProducers
    Consumers <- MCConsumers
    Depths = {1, 2}
    Pushes <- MCPushes
SPECIFICATION FairSpec
INVARIANT EmptyMeansDrained
PROPERTY ImplementsFifo
PROPERTY PushesArrive

SPECIFICATION FairSpec
CONSTANTS
    t1 = t1  t2 = t2  t3 = t3  t4 = t4  t5 = t5  t6 = t6  k1 = k1  k2 = k2
    Tasks = {t1, t2, t3, t4, t5, t6}
    Keys = {k1, k2}
    KeyOf <- KeyTwo
    AllToOne = {t1, t2, t3, t4}
    Remote = {t6}
    NumContainers = 2
    MaxUnregister = 1
INVARIANTS CompletedOnce OneAggregatePerKey ClaimIsExact BarrierIsFull
PROPERTY ReadyIsServed
CHECK_DEADLOCK FALSE

SPECIFICATION Spec
CONSTANTS
    w1 = w1  w2 = w2  e1 = e1  e2 = e2  r1 = r1  r2 = r2  s1 = s1  s2 = s2  m1 = m1
    None = None
    Baseline = {w1}
    Elastic = {e1}
    Roots = {r1, r2}
    Subs = {s1, s2}
    ParentOf <- ParentR1
    Periodic = {r2}
    Mergeable = {}
    Merged = {}
    Private = {r2}
    Polling = {}
    LaneDepth = 4
    MaxYields = 1
    Late = {r2, s1, s2}
    MaxWedges = 0
    MaxRescues = 0
    MaxGrown = 1
    AwaitLater = FALSE
    Returns = FALSE
INVARIANTS ExactlyOnePlace NoStrandedWaiter NoLostWakeup
PROPERTY AwaitReturnsComplete
SYMMETRY SubtasksAlike

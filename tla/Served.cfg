SPECIFICATION FairSpec
CONSTANTS
    w1 = w1  w2 = w2  e1 = e1  e2 = e2  r1 = r1  r2 = r2  s1 = s1  s2 = s2  m1 = m1
    None = None
    Baseline = {w1}
    Elastic = {e1}
    Roots = {r1, r2}
    Subs = {s1}
    ParentOf <- OneSub
    Periodic = {}
    Mergeable = {r1, r2}
    Merged = {m1}
    Private = {}
    Polling = {r1}
    LaneDepth = 4
    MaxYields = 1
    Late = {}
    MaxWedges = 1
    MaxRescues = 1
    MaxGrown = 0
    AwaitLater = FALSE
    Returns = FALSE
INVARIANTS ExactlyOnePlace 
PROPERTY RequestsAreAnswered
CHECK_DEADLOCK FALSE

SPECIFICATION Spec
CONSTANTS
  blobA = blobA
  blobB = blobB
  t1 = t1
  t2 = t2
  t3 = t3
  e1 = e1
  e2 = e2
  e3 = e3
  e4 = e4
  None = None
  Tasks = {t1, t2, t3}
  Names = {blobA, blobB}
  Extents = {e1, e2, e3, e4}
  Volatile = {e1, e3}
  CacheNames = {blobB}
  Kinds <- AllKinds
  Ranges <- SomeRanges
  InitPrimary <- PrimaryOfOne
  InitReplica <- ReplicaOfOne
  TagRange = 16
  MaxFaults = 1
SYMMETRY Alike
INVARIANTS PinnedExtentsLive EveryExtentOnce    

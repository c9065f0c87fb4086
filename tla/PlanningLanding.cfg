SPECIFICATION FairSpec
CONSTANTS
  k1 = k1 k2 = k2 q1 = q1 q2 = q2 p1 = p1 p2 = p2 none = none x = x y = y
  Keys = {k1, k2} ConfirmKeys = {q1} Pages = {p1}
  Contents <- OnePlan Empty = none Complete = {x} Block <- OneBlock
  Lease = 1 MaxClock = 1 MaxDrafts = 1 MaxDraftRevision = 1 MaxHead = 1 MaxBasis = 1 MaxBinding = 1 MaxWriting = 0
INVARIANTS TypeOK SlotSound
PROPERTIES EndedForever StopReachesProvider
CHECK_DEADLOCK FALSE

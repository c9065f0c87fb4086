SPECIFICATION Spec
CONSTANTS
  k1 = k1 k2 = k2 q1 = q1 q2 = q2 p1 = p1 p2 = p2 none = none x = x y = y
  Keys = {k1, k2} ConfirmKeys = {q1, q2} Pages = {p1}
  Contents <- PlansOf Empty = none Complete = {x, y} Block <- BlockOf
  Lease = 1 MaxClock = 0 MaxDrafts = 2 MaxDraftRevision = 2 MaxHead = 2
  MaxBasis = 0 MaxBinding = 0 MaxWriting = 1
SYMMETRY KeySymmetry
PROPERTIES OnlyAsShown ContinuationOnItsProgress ActiveBlockStill
CHECK_DEADLOCK FALSE

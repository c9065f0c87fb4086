\* Candidates frozen and loaded, reviews published and adjusted, an authority
\* that drifts away and back, the session closed.
SPECIFICATION Spec
CONSTANTS
  Keys = {k1, k2}
  NoKey = noKey
  Kinds = {"generate"}
  FreezeKeys = {f1}
  Authorities = {a1}
  Unready = unready
  AuthorTexts = 1
  Lease = 1
  MaxEvents = 3
  MaxClock = 0
  LastStart = 0
  MaxRevision = 3
  MaxReviews = 2
SYMMETRY KeySymmetry
INVARIANTS ReviewAdjustedOnce FinalizedIdle

\* Two operations of any kind and the author: previews applied, local rewrites
\* undone, partial outputs kept by a cancel.
SPECIFICATION Spec
CONSTANTS
  Keys = {k1, k2}
  NoKey = noKey
  Kinds = {"generate", "local", "preview"}
  FreezeKeys = {}
  Authorities = {a1}
  Unready = unready
  AuthorTexts = 1
  Lease = 1
  MaxEvents = 3
  MaxClock = 1
  LastStart = 1
  MaxRevision = 5
  MaxReviews = 0
SYMMETRY KeySymmetry
INVARIANTS RecoverySlotsFree ResultOnce
PROPERTIES LandsOnItsBase Recoverable ImplementsAuthorView

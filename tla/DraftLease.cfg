\* Two whole-draft operations against the lease: takeover, stale samples, the
\* event budget, lost workers; the author saves one text.  Every lease can run
\* out before the clock stops.
SPECIFICATION FairSpec
CONSTANTS
  Keys = {k1, k2}
  NoKey = noKey
  Kinds = {"generate"}
  FreezeKeys = {}
  Authorities = {a1}
  Unready = unready
  AuthorTexts = 1
  Lease = 1
  MaxEvents = 3
  MaxClock = 3
  LastStart = 1
  MaxRevision = 2
  MaxReviews = 0
INVARIANTS TypeOK SlotOwned LogSound
PROPERTIES OnlyActiveRowMoves SlotReleased OrphanStops

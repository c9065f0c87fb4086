SPECIFICATION AdvisedSpec
CONSTANTS
  None = None
  Gone = Gone
  Seeds = {s1}
  Contents = {x, y}
  Keys = {k1, k2}
  Requests = {r1}
  MaxRevision = 2
  MaxBinding = 2
  MaxVersion = 2
SYMMETRY Symmetric
INVARIANTS AdviceTypeOK FoundationSound ChosenAsShown
PROPERTIES AskedOnce AdviceKept
CHECK_DEADLOCK FALSE

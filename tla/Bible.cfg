SPECIFICATION Spec
CONSTANTS
  Keys = {k1, k2}
  ConfirmKeys = {c1}
  Contents = {x}
  MaxDrafts = 2
  MaxVersion = 1
  MaxProfile = 2
SYMMETRY Symmetric
INVARIANTS TypeOK FailedMeansUnconfirmed
PROPERTIES NoSaveBuried NothingLate ConfirmedOnce

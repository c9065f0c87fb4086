\* Two tabs on one chapter: preparation, findings, corrections and confirmations
\* that cross each other.
SPECIFICATION Spec
CONSTANTS
  Texts = {t1}
  Copied = {}
  PlanTexts = {p1}
  OutlineTexts = {o1}
  Bindings = {b1, b2}
  ChangeSets = {c1}
  Patching = {}
  Findings = {f1}
  Tabs = {tab1, tab2}
  None = none
  MaxChapters = 1
  MaxPlanRev = 1
  MaxOutlineRev = 1
  MaxAttempts = 2
  MaxRevs = 2
  MaxDecisions = 2
SYMMETRY TabSymmetry
INVARIANTS SlotAgrees ConfirmedReviewIsSettled
CHECK_DEADLOCK FALSE

\* One outline adjusted while its chapter is written.
SPECIFICATION Spec
CONSTANTS
  Texts = {t1}
  Copied = {}
  PlanTexts = {p1}
  OutlineTexts = {o1, o2}
  Bindings = {b1}
  ChangeSets = {c1}
  Patching = {}
  Findings = {}
  Tabs = {tab1}
  None = none
  MaxChapters = 1
  MaxPlanRev = 1
  MaxOutlineRev = 2
  MaxAttempts = 1
  MaxRevs = 2
  MaxDecisions = 2
INVARIANTS CurrentCandidateFinalizable
CHECK_DEADLOCK FALSE

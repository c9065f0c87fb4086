\* One review, and an outline confirmed anew before it is confirmed.
SPECIFICATION FairSpec
CONSTANTS
  Texts = {t1}
  Copied = {}
  PlanTexts = {p1}
  OutlineTexts = {o1}
  Bindings = {b1}
  ChangeSets = {c1}
  Patching = {}
  Findings = {}
  Tabs = {tab1}
  None = none
  MaxChapters = 1
  MaxPlanRev = 1
  MaxOutlineRev = 2
  MaxAttempts = 1
  MaxRevs = 1
  MaxDecisions = 0
PROPERTIES DriftInvalidates
CHECK_DEADLOCK FALSE

\* Two chapters, with planning, outline and texts that move on underneath.
SPECIFICATION Spec
CONSTANTS
  Texts = {t1, t2}
  Copied = {t2}
  PlanTexts = {p1}
  OutlineTexts = {o1, o2}
  Bindings = {b1}
  ChangeSets = {c1}
  Patching = {c1}
  Findings = {}
  Tabs = {tab1}
  None = none
  MaxChapters = 2
  MaxPlanRev = 2
  MaxOutlineRev = 2
  MaxAttempts = 1
  MaxRevs = 1
  MaxDecisions = 0
INVARIANTS TypeOK BookSound
PROPERTIES ImplementsPublication
CHECK_DEADLOCK FALSE

SPECIFICATION Spec
CONSTANTS
  None = None
  SourceTools = {"erp", "warehouse"}
  Roles = {"quality"}
  Questions = {"q1", "q2"}
  Modes <- MCModes
  Diagnoses = {"d1", "d2"}
  Asks = {"a1"}
  Managers = {"m1", "m2"}
  MaxRequests = 2
INVARIANTS PlanIsWarranted RefusalHonoured AnswerHasSettledTeam
PROPERTIES InvestigationSettles
CHECK_DEADLOCK FALSE

SPECIFICATION Spec
CONSTANTS
  None = None
  SourceTypes = {"queue", "erp"}
  Principals = {"operator", "approver"}
  RoleOf <- MCRoleOf
  Workers = {"w1", "w2"}
  Modes <- MCModes
  MaxReads = 3
INVARIANTS PublishedIsDurable ConsoleAgrees
PROPERTIES NothingWithoutCause CommittedIsDetected
CHECK_DEADLOCK FALSE

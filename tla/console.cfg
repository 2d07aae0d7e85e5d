SPECIFICATION AutoSpec
CONSTANTS
  MaxTransfers = 3
  MaxFailures = 1
  LateInserts = TRUE
  MaxRuns = 2
  Budget = 2
  Deployments <- MCDeployments
INVARIANTS ApprovalBindsInvestigation RecoveredOnce SpendsAsPermitted
PROPERTIES EvidenceIsAttended
CHECK_DEADLOCK FALSE

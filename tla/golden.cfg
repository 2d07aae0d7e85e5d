SPECIFICATION GoldenSpec
CONSTANTS
  w1 = w1
  a1 = a1
  a2 = a2
  x1 = x1
  x2 = x2
  x3 = x3
  k1 = k1
  k2 = k2
  k3 = k3
  operator = operator
  approver = approver
  ev0 = ev0
  ev1 = ev1
  Workers = {w1}
  Auths = {a1, a2}
  Execs = {x1, x2, x3}
  Keys = {k1, k2, k3}
  Principals = {operator, approver}
  RoleOf <- MCRoleOf
  Requests <- MCRequests
  DetectorEvidence = {ev0}
  LateEvidence = {ev1}
  OrderedQuantity = 3
  MissingQuantity = 1
  GrantTtl = 0
  RetryChoices = {TRUE}
  WarehouseChoices = {3}
  OtherHoldChoices = {FALSE}
  DriftQuantities = {3}
  MaxTime = 0
  MaxRevision = 2
  MaxVersion = 8
  MaxCrashes = 1
  Manifests <- MCManifests
  ReceiptAuth = a1
  InvoiceAuth = a2
  ReceiptExec = x1
  InvoiceExec = x2
  ReplayExec = x3
  ReceiptKey = k1
  InvoiceKey = k2
  ReplayKey = k3
INVARIANTS AuditAccepts OutcomeIsTrue
PROPERTIES ImplementsSettlement
CHECK_DEADLOCK FALSE

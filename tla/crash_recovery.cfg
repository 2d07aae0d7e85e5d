SPECIFICATION FairSpec
CONSTANTS
  w1 = w1
  w2 = w2
  a1 = a1
  x1 = x1
  k1 = k1
  operator = operator
  approver = approver
  ev0 = ev0
  Workers = {w1, w2}
  Auths = {a1}
  Execs = {x1}
  Keys = {k1}
  Principals = {operator, approver}
  RoleOf <- MCRoleOf
  Requests <- MCRequests
  DetectorEvidence = {ev0}
  LateEvidence = {}
  OrderedQuantity = 3
  MissingQuantity = 1
  GrantTtl = 0
  RetryChoices = {TRUE}
  WarehouseChoices = {3}
  OtherHoldChoices = {TRUE}
  DriftQuantities = {2}
  MaxTime = 1
  MaxRevision = 2
  MaxVersion = 4
  MaxCrashes = 1
INVARIANTS AtMostOneEffect EffectAuthorized LedgersAgree OpenAttemptHoldsCase
PROPERTIES EffectReceipted OneTimeAuthorization
CHECK_DEADLOCK FALSE

SPECIFICATION Spec
CONSTANTS
  w1 = w1
  w2 = w2
  m1 = m1
  m2 = m2
  Workers = {w1, w2}
  Managers = {m1, m2}
  NoManager = NoManager
  MaxVersion = 2
  MaxTokens = 2
  MaxSource = 2
  MaxEdits = 1
  MaxRestarts = 1
SYMMETRY Symmetry
INVARIANTS ConflictMeansEdited InvoiceIsApproved
PROPERTIES ImplementsPromise StoppedStaysStopped
CHECK_DEADLOCK FALSE

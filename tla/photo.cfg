SPECIFICATION Spec
CONSTANTS
  None = None
  Captures = {1, 2}
  Units = {1}
  Events = {"e"}
  Instances = {"i", "j"}
  Photos = {"a", "b"}
  MaxEvents = 5
  MaxBarcodes = 2
  Modes <- MCModes
CHECK_DEADLOCK FALSE
INVARIANTS OneReceiptPerPhoto ConfirmedWhatWasSeen
PROPERTIES EffectsAreLearned

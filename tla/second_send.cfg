SPECIFICATION ConcurrentSpec
CONSTANTS
  Threads = {t1, t2}
  Keys = {k1}
  MaxOutages = 1
  MaxRestarts = 0
  MaxSends = 2
INVARIANTS NeverSecondSend
CHECK_DEADLOCK FALSE

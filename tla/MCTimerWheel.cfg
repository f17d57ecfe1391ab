CONSTANTS
  t1 = t1
  t2 = t2
  Timers = {t1, t2}
  NoTimer = NoTimer
  Jiffies = 2
  SlotNum = 3
  WheelNum = 3
  Width = 1000
  Delays = {0, 6, 15, 55}
  Elapses = {3, 28}
  MaxElapsed = 58
SPECIFICATION Spec
INVARIANTS
  WheelTypeOK
  EachOnce
  OnlyNeighboursSwap
PROPERTY
  ImplementsDueTimers
CHECK_DEADLOCK FALSE

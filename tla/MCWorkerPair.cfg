SPECIFICATION Spec
CONSTANTS
  w1 = w1
  w2 = w2
  Workers = {w1, w2}
  NoWorker = NoWorker
  Nested = FALSE
  Sticky = FALSE
  Runaway = {}
  MaxPost = 0
  MaxReply = 0
SYMMETRY Symmetry
CHECK_DEADLOCK FALSE
INVARIANTS
  RunningIsRegistered
  FinishJoinsAll
  RepliesComplete

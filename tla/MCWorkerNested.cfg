SPECIFICATION Spec
CONSTANTS
  w1 = w1
  Workers = {w1}
  NoWorker = NoWorker
  Nested = TRUE
  Sticky = FALSE
  Runaway = {}
  MaxPost = 2
  MaxReply = 2
CHECK_DEADLOCK FALSE
INVARIANTS
  WorkerTypeOK
  NoOrphans
  RepliesComplete
PROPERTIES
  PostsAreChannels

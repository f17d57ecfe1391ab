SPECIFICATION FairSpec
CONSTANTS
  w1 = w1
  Workers = {w1}
  NoWorker = NoWorker
  Nested = TRUE
  Sticky = TRUE
  Runaway = {}
  MaxPost = 1
  MaxReply = 0
CHECK_DEADLOCK FALSE
PROPERTIES
  FinishReturns
  PostsAreHandled

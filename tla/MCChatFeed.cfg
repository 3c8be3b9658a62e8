SPECIFICATION FeedFairSpec
CONSTANTS
  Messages = {1, 2}
  Mine = {}
  PageSize = 1
  QueueSize = 1
  MaxNotices = 0
  MaxLosses = 0
  MaxVisits = 1
PROPERTIES
  CatchesUp
CHECK_DEADLOCK FALSE

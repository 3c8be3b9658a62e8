SPECIFICATION MCSpec
CONSTANTS
  Messages = {1, 2, 3}
  Mine = {3}
  PageSize = 2
  QueueSize = 1
  MaxNotices = 1
  MaxLosses = 1
  MaxVisits = 2
  Texts = {1, 2}
  Uploads = {1, 2}
  MaxCalls = 4
  NoText = NoText
  NoUpload = NoUpload
  NoAttempt = NoAttempt

INVARIANTS
  ConversationInv

PROPERTIES
  FeedKeepsMessages

\* Calls and visits are bounded.
CHECK_DEADLOCK FALSE

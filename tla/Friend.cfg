SPECIFICATION MCSpec
CONSTANTS
  Friends = {f1, f2}
  None = None
  CacheSize = 2
  FRI_GET_UPDATE_RETRY_MAX = 1
  FRI_POLL_RETRY_MAX = 1
INVARIANTS AnswerIsHead OneFriendPerRequest ClearSparesCurrent
PROPERTIES ReadBeforeTaken HeadMovesOn

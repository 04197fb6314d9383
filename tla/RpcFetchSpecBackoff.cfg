CONSTANTS
  Retries <- MCRetries
  Heights <- MCHeights
  PeerMayHang = FALSE
  NoHash = NoHash
SPECIFICATION Spec
PROPERTY SpecBackoffBeforeRetry
CHECK_DEADLOCK FALSE

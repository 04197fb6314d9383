CONSTANTS
  Retries <- MCRetries
  Heights <- MCHeights
  PeerMayHang = TRUE
  NoHash = NoHash
SPECIFICATION Spec
PROPERTY ImplementsFetchSpec
CHECK_DEADLOCK FALSE

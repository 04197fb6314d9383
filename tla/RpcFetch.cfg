CONSTANTS
  Retries <- MCRetries
  Heights <- MCHeights
  PeerMayHang = FALSE
  NoHash = NoHash
SPECIFICATION Spec
INVARIANT TypeOK
INVARIANT RetryBudgetExact
INVARIANT NoSuccessDiscarded
INVARIANT BackoffDoubles
PROPERTY ImplementsFetchSpec
CHECK_DEADLOCK FALSE

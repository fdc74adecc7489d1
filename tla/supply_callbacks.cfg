SPECIFICATION Spec
CONSTANTS
  s1 = s1
  LocalOrders = {s1}
  MaxAttempts = 2
  MaxMishaps = 1
  Mishaps = {"cancel"}
  RefundKinds = {}
  MaxCallbackRetries = 1
  MaxNotices = 1
  RetryMax = 1
  SyncLimit = 0
  PollLimit = 0
  MaxTasks = 1
  MaxPolls = 1
CHECK_DEADLOCK FALSE
INVARIANTS
  AcceptedPointsToItsOrder
  GoodsWerePaidUpstream
PROPERTIES
  ImplementsDelivery

SPECIFICATION Spec
CONSTANTS
  s1 = s1
  LocalOrders = {s1}
  MaxAttempts = 2
  MaxMishaps = 0
  Mishaps = {}
  RefundKinds = {}
  MaxCallbackRetries = 2
  MaxNotices = 1
  RetryMax = 1
  SyncLimit = 1
  PollLimit = 0
  MaxTasks = 1
  MaxPolls = 1
CHECK_DEADLOCK FALSE
INVARIANTS
  BoughtOnce

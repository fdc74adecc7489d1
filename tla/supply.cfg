SPECIFICATION FairSpec
CONSTANTS
  s1 = s1
  LocalOrders = {s1}
  MaxAttempts = 1
  MaxMishaps = 1
  Mishaps = {"failure", "refund", "retry", "cancel", "marked", "voided"}
  RefundKinds = {"refunded"}
  MaxCallbackRetries = 2
  MaxNotices = 1
  RetryMax = 1
  SyncLimit = 1
  PollLimit = 1
  MaxTasks = 1
  MaxPolls = 1
CHECK_DEADLOCK FALSE
INVARIANTS
  TypeOK
  FulfilledHasGoods
  DeliveryIsAnnounced
PROPERTIES
  AcceptedIsSettled
  GoodsReachBuyer

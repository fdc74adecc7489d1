SPECIFICATION FairSpec
CONSTANTS
  o1 = o1
  o2 = o2
  o3 = o3
  man = man
  aut = aut
  ups = ups
  h1 = h1
  h2 = h2
  w1 = w1
  w2 = w2
  NoOrder = NoOrder
  Orders = {o1}
  ManualSkus = {man}
  AutoSkus = {aut}
  UpstreamSkus = {}
  Quantity <- MixedQuantity
  TotalAmount <- One
  CouponOrders = {o1}
  UsageLimit = 1
  Cards = {1, 2}
  CardSku <- TwoCards
  ManualTotal <- TwoUnits
  OpeningBalance = 2
  Channels = {"chA"}
  Buyers = {h1}
  Gateways = {h1, h2}
  Admins = {h1}
  Workers = {w1}
  MaxPayments = 1
  MaxAborts = 1
CHECK_DEADLOCK FALSE
INVARIANTS
  TypeOK
  ParentAgrees
  ReservationFollowsStatus
  StockConserved
  CouponCountExact
  PendingIsWatched
  PaidIsBacked
PROPERTIES
  TimedOutOrderIsClosed

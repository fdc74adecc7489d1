SPECIFICATION Spec
CONSTANTS
  o1 = o1
  o2 = o2
  o3 = o3
  man = man
  aut = aut
  ups = ups
  h1 = h1
  h2 = h2
  w1 = w1
  w2 = w2
  NoOrder = NoOrder
  Orders = {o1, o2, o3}
  ManualSkus = {man}
  AutoSkus = {aut}
  UpstreamSkus = {}
  Quantity <- SharedQuantity
  TotalAmount <- Three
  CouponOrders = {o1}
  UsageLimit = 1
  Cards = {1}
  CardSku <- OneCard
  ManualTotal <- ThreeUnits
  OpeningBalance = 3
  Channels = {"chA"}
  Buyers = {h1}
  Gateways = {h1}
  Admins = {}
  Workers = {h1}
  MaxPayments = 2
  MaxAborts = 0
CHECK_DEADLOCK FALSE
INVARIANTS
  StockMatchesOrders
  CanceledHoldsNoBalance
PROPERTIES
  CanceledIsFinal
  SuccessIsFinal

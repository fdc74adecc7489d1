SPECIFICATION Spec
CONSTANTS
  o1 = o1
  o2 = o2
  o3 = o3
  man = man
  aut = aut
  ups = ups
  h1 = h1
  h2 = h2
  w1 = w1
  w2 = w2
  NoOrder = NoOrder
  Orders = {o1}
  ManualSkus = {}
  AutoSkus = {}
  UpstreamSkus = {ups}
  Quantity <- UpstreamQuantity
  TotalAmount <- One
  CouponOrders = {}
  UsageLimit = 0
  Cards = {}
  CardSku <- NoUnits
  ManualTotal <- NoUnits
  OpeningBalance = 1
  Channels = {"chA", "chB"}
  Buyers = {h1, h2}
  Gateways = {h2}
  Admins = {}
  Workers = {}
  MaxPayments = 2
  MaxAborts = 0
CHECK_DEADLOCK FALSE
INVARIANTS
  WalletPaidMatchesJournal
  PendingAmountsAddUp
PROPERTIES
  ImplementsLedger

SPECIFICATION Spec
CONSTANTS
  o1 = o1
  o2 = o2
  h1 = h1
  Orders = {o1, o2}
  GuestOrders = {o2}
  Total <- TwoTotals
  Commission <- TwoCommissions
  Handlers = {h1}
  MaxRequests = 2
CHECK_DEADLOCK FALSE
INVARIANTS
  TypeOK
  PaidOutWasEarned
  RequestIsCovered
  ShareFollowsRefunds
PROPERTIES
  TakenBackForGood

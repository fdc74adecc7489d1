SPECIFICATION FairSpec
CONSTANTS
  p1 = p1
  a1 = a1
  a2 = a2
  w1 = w1
  w2 = w2
  NoOrder = NoOrder
  Parents = {p1}
  Children = {a1, a2}
  AutoChildren = {a1, a2}
  ParentOf <- MCParentOf
  Quantity <- OneCardEach
  Total <- MCTotal
  Cards = {1, 2}
  Workers = {w1, w2}
  MaxEvents = 2
CHECK_DEADLOCK FALSE
INVARIANTS
  TypeOK
  UsedCardsAreDelivered
PROPERTIES
  ReservationKept
  ImplementsDelivery
  QueuedIsDelivered
  RefundIsShown
  ParentFollowsChildren

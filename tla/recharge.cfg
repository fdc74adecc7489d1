SPECIFICATION FairSpec
CONSTANTS
  r1 = r1
  r2 = r2
  h1 = h1
  h2 = h2
  Recharges = {r1}
  NoRecharge = NoRecharge
  Amount <- OneAmount
  OpeningBalance = 0
  Buyers = {h1}
  Gateways = {h1, h2}
  MaxAborts = 1
CHECK_DEADLOCK FALSE
INVARIANTS
  TypeOK
  CreditedIffSuccessful
PROPERTIES
  ImplementsLedger
  RechargeSuccessIsFinal
  SettledIsCredited

\* One order, two attempts at its charge, an operator who refunds.
SPECIFICATION JointFairSpec
CONSTANTS
  c1 = c1
  k1 = k1
  u1 = u1
  org1 = org1
  p1 = p1
  Calls = {c1}
  Body <- MCBody
  Anonymous = Anonymous
  NoOrg = NoOrg
  NoKey = NoKey
  Products = {p1}
  Prices = {0, 1}
  Unminted = Unminted
  Gone = Gone
  MaxTotal = 2
  Operators = {}
  Refunders = {op1}
  Nobody = Nobody
  MaxAttempts = 2
  MaxRefundRuns = 1
INVARIANTS OneChargePerOrder CapturedForOrder
PROPERTIES ChargeIsOneStep KeepsPromise SagaEnds
\* Nothing is left to do once every call is answered and its product deleted.
CHECK_DEADLOCK FALSE

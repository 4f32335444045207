\* Two sends of one purchase, an operator, a catalog that changes.
SPECIFICATION FairSpec
CONSTANTS
  c1 = c1
  c2 = c2
  k1 = k1
  u1 = u1
  org1 = org1
  p1 = p1
  Calls = {c1, c2}
  Body <- MCBody
  Anonymous = Anonymous
  NoOrg = NoOrg
  NoKey = NoKey
  Products = {p1}
  Prices = {0, 1, 3}
  Unminted = Unminted
  Gone = Gone
  MaxTotal = 4
  Operators = {op1}
  Nobody = Nobody
  MaxAttempts = 2
INVARIANTS TypeOK ChargeMatchesOrder DecidedOrderHolds PendingOnlyIfGaveUp
PROPERTIES StatusHistory PollResolves KeepsPromise
\* Nothing is left to do once every call is answered and its product deleted.
CHECK_DEADLOCK FALSE

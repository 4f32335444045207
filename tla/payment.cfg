\* Three sends of one charge, two operators.
SPECIFICATION FairSpec
CONSTANTS
  c1 = c1
  c2 = c2
  c3 = c3
  o1 = o1
  Calls = {c1, c2, c3}
  Body <- MCBody
  NoKey = NoKey
  Operators = {op1, op2}
  Nobody = Nobody
  MaxAttempts = 3
  MaxRefundRuns = 2
INVARIANTS TypeOK SameKeySameCharge CapturedOncePerKey StatusTellsMoney
PROPERTIES StatusHistory ChargeResolves KeepsPromise
\* The service may be idle once every request was answered.
CHECK_DEADLOCK FALSE

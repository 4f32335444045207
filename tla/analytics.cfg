SPECIFICATION FairSpec
CONSTANTS
  s1 = s1
  b1 = b1
  Sessions = {s1}
  Batches = {b1}
  Body <- MCBody
  Funnels <- MCFunnels
  Steps <- MCSteps
  Requested <- MCRequested
  Day = 2
  Now = 3
  TrailingDays = 2
  MaxBuckets = 3
  MaxSends = 2
  MaxAttempts = 2
INVARIANTS TypeOK AnswerIsTrue BucketIsExact FailuresAreReported StoredWasPermitted
PROPERTY RunEnds

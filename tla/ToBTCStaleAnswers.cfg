CONSTANTS
  t1 = t1
  c1 = c1
  c2 = c2
  Timers <- MCTimers
  Callers <- MCCallers
  Enabled <- StaleAnswers
  MaxRestarts = 0
SPECIFICATION Spec
\* A settled or forgotten swap leaves nothing to do.
CHECK_DEADLOCK FALSE
INVARIANT TypeOK
INVARIANT ClaimedIsPaid
INVARIANT RefundableCanRefund
INVARIANT ToldTheTruth

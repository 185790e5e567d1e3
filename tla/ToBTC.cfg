CONSTANTS
  t1 = t1
  c1 = c1
  c2 = c2
  Timers <- MCTimers
  Callers <- MCCallers
  Enabled <- UsualCalls
  MaxRestarts = 1
SPECIFICATION FairSpec
\* A settled or forgotten swap leaves nothing to do.
CHECK_DEADLOCK FALSE
INVARIANT RefundedIsReturned
INVARIANT LockedIsTracked
INVARIANT ExpiredQuoteHoldsNothing
PROPERTY TimedOutIsOffered
PROPERTY ClaimIsSeen
PROPERTY RestartRepairs

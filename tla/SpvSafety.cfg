CONSTANTS
  t1 = t1
  c1 = c1
  c2 = c2
  Timers <- MCTimers
  Callers <- MCCallers
  Enabled <- AllCalls
  MaxRestarts = 1
  MinedBetweenReads = FALSE
SPECIFICATION Spec
\* A settled or forgotten swap leaves nothing to do.
CHECK_DEADLOCK FALSE
INVARIANT TypeOK
INVARIANT ClaimedIsClaimed
INVARIANT ClaimableIsConfirmed
INVARIANT PostedIsTracked
INVARIANT ExpiredQuoteHoldsNothing
INVARIANT ToldTheTruth

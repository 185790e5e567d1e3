CONSTANTS
  t1 = t1
  c1 = c1
  c2 = c2
  Timers <- MCTimers
  Callers <- MCCallers
  Enabled <- OnlySubmit
  MaxRestarts = 0
  MinedBetweenReads = TRUE
SPECIFICATION Spec
\* A settled or forgotten swap leaves nothing to do.
CHECK_DEADLOCK FALSE
INVARIANT ExpiredQuoteHoldsNothing

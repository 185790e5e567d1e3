CONSTANTS
  t1 = t1
  c1 = c1
  c2 = c2
  Timers <- MCTimers
  Callers <- MCCallers
  Enabled <- OnlySubmit
  MaxRestarts = 1
  MinedBetweenReads = FALSE
SPECIFICATION FairSpec
\* A settled or forgotten swap leaves nothing to do.
CHECK_DEADLOCK FALSE
PROPERTY ConfirmedIsOffered
PROPERTY RestartRepairs

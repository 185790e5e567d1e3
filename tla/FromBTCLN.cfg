CONSTANTS
  t1 = t1
  c1 = c1
  c2 = c2
  Timers <- MCTimers
  Callers <- MCCallers
  Starter = c1
  Applications <- MCApplications
  Crashing <- MCCrashing
  MaxRestarts = 1
SPECIFICATION FairSpec
\* A settled or forgotten swap leaves nothing to do.
CHECK_DEADLOCK FALSE
INVARIANT TypeOK
INVARIANT SecretOnlyForEscrow
INVARIANT GivenUpIsUncommitted
INVARIANT EscrowIsTracked
PROPERTY KeepsPromise
PROPERTY EscrowIsOffered

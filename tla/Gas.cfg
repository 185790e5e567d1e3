CONSTANTS
  c1 = c1
  c2 = c2
  Callers <- MCCallers
  Starter = c1
  Applications <- MCApplications
  Wallets <- MCWallets
  MaxRestarts = 1
  FeeRate = 1
  QuotedSats = 1000
  GasPerSat = 2
SPECIFICATION FairSpec
\* A settled or forgotten swap leaves nothing to do.
CHECK_DEADLOCK FALSE
INVARIANT ShownIsTrue
INVARIANT SelectionIsSound
PROPERTY WaitIsAnswered

SPECIFICATION FairSpec
CONSTANTS
  Parts = {"quotes", "store"}
  Requests <- MCRequests
  Urls <- MCUrls
  Service <- MCService
  MaxReloads = 1
  Calls = {"call"}
  Amounts = {2, 4}
  Bounds <- MCBounds
  Prices = {1, 2}
  MaxTries = 2
  Swaps = {"swap"}
  Order <- MCOrder
  TypeOf <- MCTypeOf
  LastStep = 2
  MaxObjects = 2
INVARIANT BlacklistIsExact
INVARIANT AnswerIsSound
INVARIANT OneObject
PROPERTY CallIsAnswered
PROPERTY EventIsApplied
\* A call that is settled and a swapper that is stopped leave nothing to do.
CHECK_DEADLOCK FALSE

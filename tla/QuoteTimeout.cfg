SPECIFICATION FairSpec
CONSTANTS
  Parts = {"quotes"}
  Requests <- MCOneRequest
  Urls <- MCUrls3
  Service <- MCService
  MaxReloads = 0
  Calls = {"call"}
  Amounts = {2}
  Bounds <- MCBounds
  Prices = {1}
  MaxTries = 1
  Swaps = {"swap"}
  Order <- MCOrder
  TypeOf <- MCTypeOf
  LastStep = 2
  MaxObjects = 2
PROPERTY QuoteIsWaitedFor
\* A call that is settled leaves nothing to do.
CHECK_DEADLOCK FALSE

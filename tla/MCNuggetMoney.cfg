SPECIFICATION Spec
CONSTANTS
  owner = owner
  member = member
  k1 = k1
  k2 = k2
  h1 = h1
  h2 = h2
  Users = {owner, member}
  Owners = {owner}
  Keys = {k1, k2}
  Handlers = {h1, h2}
  Amount = 2
  Fee = 1
  Start = 4
  RequiredAds = 1
  MaxAds = 1
  MaxCalls = 3
  MaxFaults = 1
SYMMETRY AnyHandlerOrKey
CHECK_DEADLOCK FALSE
INVARIANT MoneyTypeOK
INVARIANT BooksBalance
INVARIANT DecidedWasMoved
INVARIANT KeyMovesOnce
INVARIANT AdsPayOnce

SPECIFICATION FairSpec
CONSTANTS
  a = a
  b = b
  Subs = {1, 2}
  Addresses = {a}
  AddressOf <- OneAddress
  ConfirmLimit = 1
  Window = 1
  Expiry = 1
  PendingLimit = 1
  DailyCap = 1
  Early = {}
  Leavers = {1, 2}
  Matching = {}
  Refused = {}
  Channels = {"on"}
  MaxCrashes = 0
PROPERTIES
  UnconfirmedExpires

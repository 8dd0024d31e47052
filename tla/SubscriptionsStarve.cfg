SPECIFICATION FairSpec
CONSTANTS
  a = a
  b = b
  Subs = {1, 2}
  Addresses = {a, b}
  AddressOf <- FirstApart
  ConfirmLimit = 1
  Window = 1
  Expiry = 1
  PendingLimit = 1
  DailyCap = 1
  Early = {1, 2}
  Leavers = {}
  Matching = {}
  Refused = {1}
  Channels = {"on"}
  MaxCrashes = 0
PROPERTIES
  BacklogAlwaysDrains

SPECIFICATION FairSpec
CONSTANTS
  a = a
  b = b
  Subs = {1, 2, 3}
  Addresses = {a, b}
  AddressOf <- FirstApart
  ConfirmLimit = 1
  Window = 1
  Expiry = 1
  PendingLimit = 2
  DailyCap = 1
  Early = {1, 2, 3}
  Leavers = {3}
  Matching = {}
  Refused = {1}
  Channels = {"off", "blocked", "on"}
  MaxCrashes = 0
PROPERTIES
  BacklogDrains
  MailedIsSettled

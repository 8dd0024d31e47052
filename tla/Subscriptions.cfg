SPECIFICATION Spec
CONSTANTS
  a = a
  b = b
  Subs = {1}
  Addresses = {a}
  AddressOf <- OneAddress
  ConfirmLimit = 2
  Window = 2
  Expiry = 2
  PendingLimit = 2
  DailyCap = 2
  Early = {}
  Leavers = {1}
  Matching = {1}
  Refused = {}
  Channels = {"off", "blocked", "on"}
  MaxCrashes = 2
INVARIANTS
  TypeOK
  AlertNeedsOptIn
  DailyCapHolds
  ConfirmedAtMostTwice
  QuietAfterUnsubscribe

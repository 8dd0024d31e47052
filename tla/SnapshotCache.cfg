SPECIFICATION FairSpec
CONSTANTS
  t1 = t1
  t2 = t2
  Threads = {t1, t2}
  MaxWrites = 2
  Inserts = {1}
  MaxOpen = 1
  SnapshotTTL = 1
  CompaniesTTL = 1
  PollEvery = 2
  Prompt = 1
  MaxWait = 2
  MaxFaults = 1
INVARIANTS
  TypeOK
  ServedFresh
  TokenIsValid
PROPERTIES
  BoardNeverGoesBack
  BoardCatchesUp

SPECIFICATION FairSpec
CONSTANTS
  firm = firm
  url = url
  junk = junk
  Requests = {1, 2, 3}
  Keys = {firm, url, junk}
  Suggested <- MCSuggested
  Companies <- MCCompanies
  Plausible = {firm}
  BoardsOf <- MCBoardsOf
  Budget = 1
  PerCycle = 1
  MaxTurns = 2
  DedupeDays = 1
  CacheDays = 1
  PaidModes = {TRUE, FALSE}
  MaxFaults = 1
INVARIANTS
  TypeOK
  BudgetHolds
  PaidOnce
  PromiseKept
PROPERTIES
  EventuallyAnswered

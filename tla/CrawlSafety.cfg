SPECIFICATION PartsSpec
CONSTANTS
  Dash = dash
  c1 = c1
  c2 = c2
  r1 = r1
  r2 = r2
  Cli <- OneCli
  Reqs <- TwoReqs
  MaxSessions = 2
  MaxCrashes = 1
  StaleAfter = 2
  MaxBeatAge = 2
  Faults <- AllFaults
  Urls <- FivePages
  DomainOf <- TwoDomains
  Seeds <- SomeSeeds
  LinkLists <- SomeLinks
  MaxDepth = 2
  MaxConcurrent = 2
  MaxPagesPerDomain = 2
  Hits = 4
  MaxSize = 2
SYMMETRY ReqSymmetry
INVARIANTS
  AtMostOneRunning
  WorkerMatchesRow
  ShortestDepth
  CompletedIsComplete
  MarkedIsTried
PROPERTIES
  FreshCliCrawlKept
  DashStopIsFresh

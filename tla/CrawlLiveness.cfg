SPECIFICATION FairSpec
CONSTANTS
  Dash = dash
  c1 = c1
  c2 = c2
  r1 = r1
  r2 = r2
  Cli <- OneCli
  Reqs <- OneReq
  MaxSessions = 2
  MaxCrashes = 1
  StaleAfter = 2
  MaxBeatAge = 2
  Faults <- AllFaults
PROPERTIES
  RegistrySpec
  GoneSessionEnds
  InterruptedCrawlHalts
  FlagIsSeen
  ClaimIsReturned

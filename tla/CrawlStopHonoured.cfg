SPECIFICATION FairSpec
CONSTANTS
  Dash = dash
  c1 = c1
  c2 = c2
  r1 = r1
  r2 = r2
  Cli <- NoCli
  Reqs <- OneReq
  MaxSessions = 2
  MaxCrashes = 0
  StaleAfter = 2
  MaxBeatAge = 2
  Faults <- NoFaults
PROPERTY StopIsHonoured

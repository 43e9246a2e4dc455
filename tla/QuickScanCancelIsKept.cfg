SPECIFICATION ScanSpec
CONSTANTS
  r1 = r1
  r2 = r2
  Reqs <- TwoReqs
  MaxScans = 2
  MaxRestarts = 0
  Slots = 2
  Faults <- NoFaults
PROPERTY CancelIsKept

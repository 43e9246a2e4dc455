SPECIFICATION PartsSpec
CONSTANTS
  t1 = t1
  t2 = t2
  k1 = k1
  k2 = k2
  k3 = k3
  e1 = e1
  e2 = e2
  e3 = e3
  e4 = e4
  e5 = e5
  e6 = e6
  Threads <- TwoThreads
  Keys <- ThreeKeys
  Entries <- SixEntries
  KeyOf <- TwoPerKey
  MaxEntries = 1
  TTL = 1
  StaleFor = 0
  ErrorTTL = 1
  Hosts = {h1, h2, h3}
  Listed = {h1, h2}
  Addresses = {p1, p2, p3, i1}
  Internal = {i1}
  MaxRedirects = 3
  MaxAddresses = 2
  r1 = r1
  r2 = r2
  Reqs <- TwoReqs
  MaxScans = 2
  MaxRestarts = 1
  Slots = 2
  Faults <- AllFaults
INVARIANTS
  OneFlight
  OnlyWhatWasChecked
  GoneMeansFinal
PROPERTIES
  WaiterIsServed
  OutageCostsOneCall
  CallReturns
  SeenCancelIsKept
  ActiveEnds

SPECIFICATION PartsSpec
CONSTANTS
  u1 = u1
  u2 = u2
  u3 = u3
  o1 = o1
  o2 = o2
  o3 = o3
  o4 = o4
  o5 = o5
  Users <- ThreeUsers
  Ops <- FourOps
  UserOf <- FourUsers
  KindOf <- FourKinds
  MaxTotal = 3
  MaxPerUser = 2
  Faults <- AllFaults
  l1 = l1
  l2 = l2
  l3 = l3
  Lookups <- ThreeLookups
  IpOf <- TwoAddresses
  MaxPending = 1
  MaxCalls = 2
  Per = 2
  Hosts = {"dom", "www", "out", "inner"}
  Domain = "dom"
  Below = {"www"}
  Wordlist = {"www"}
  NonPublic = {"inner"}
  IPs = {"a1", "i1"}
  Inside = {"i1"}
  GeoMax = 1
  Enrichers = {e1}
  Entries = {"a", "b", "c"}
  Valid = {"a", "b"}
  Bundled = {"a", "c"}
  Ransomware = {"b"}
  SettingReqs = {w1, w2}
  ProjectIds = {"p1", "p2"}
  RowIds = {"x1", "x2"}
  People = {p0}
  Administrators = {}
  ProjectReqs = {q1}
  NewHits = {"h1"}
  Values <- SomeValues
  Meets <- AllMeet
INVARIANTS
  CountsExact
  PendingIsAtWork
  ReconStaysOutside
  MatchedIsRecorded
PROPERTIES
  ChangesAreAtomic

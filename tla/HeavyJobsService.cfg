SPECIFICATION PartsSpec
CONSTANTS
  u1 = u1
  u2 = u2
  u3 = u3
  o1 = o1
  o2 = o2
  o3 = o3
  o4 = o4
  o5 = o5
  Users <- ThreeUsers
  Ops <- FiveOps
  UserOf <- FiveUsers
  KindOf <- FiveKinds
  MaxTotal = 2
  MaxPerUser = 1
  Faults <- RowAndStart
  c1 = c1
  c2 = c2
  c3 = c3
  NoInner = NoInner
  Calls <- ThreeCalls
  Inner <- TwoLevels
  Timed = {c1, c2}
  Workers = {w1, w2}
  Parallel = 2
INVARIANTS
  WorkWithinLimits
  OneDigest
PROPERTIES
  SlotComesBack
  DigestCanBeSent
  JobRowEnds
  EveryCallReturns
  AnswerStays

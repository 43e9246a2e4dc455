SPECIFICATION PartsSpec
CONSTANTS
    Browsers = {b1, b2}
    Requests = {r1, r2}
    Secrets = {k1, k2}
    MaxStep = 2
    MaxVersion = 3
    MaxPasswordFailures = 1
    MaxCodeFailures = 2
    Starters = {s1, s2, s3}
    DashThreads = {s1, s2}
    MaxDowngrades = 1
SYMMETRY Symmetry
INVARIANTS
    OldSessionIsOut
    LockHolds
    MarkIsTrue
PROPERTIES
    CodeWorksOnce

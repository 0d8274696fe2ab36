SPECIFICATION FairSpec
CONSTANTS
    m1 = m1
    m2 = m2
    s1 = s1
    s2 = s2
    Subs = {s1, s2}
    Members = {m1, m2}
    Owner <- TwoOwners
    Requests = {r1}
    Sweepers = {w1}
    Keys = {}
    NoKey = NoKey
    Idle = Idle
    None = None
    Duration = 2
    Window = 1
    Grace = 1
    Batch = 1
    MaxSwitches = 1
    AdminCancels = FALSE
    Coins = 1
    MaxTopUps = 1
    MaxTime = 3
    MaxFaults = 1
PROPERTIES DueIsDecided RunEnds
CHECK_DEADLOCK FALSE

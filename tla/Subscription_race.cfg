SPECIFICATION Spec
CONSTANTS
    m1 = m1
    m2 = m2
    s1 = s1
    s2 = s2
    Subs = {s1}
    Members = {m1}
    Owner <- OneOwner
    Requests = {r1, r2}
    Sweepers = {w1, w2}
    Keys = {k1}
    NoKey = NoKey
    Idle = Idle
    None = None
    Duration = 2
    Window = 1
    Grace = 1
    Batch = 2
    MaxSwitches = 0
    AdminCancels = TRUE
    Coins = 2
    MaxTopUps = 0
    MaxTime = 3
    MaxFaults = 0
SYMMETRY Symmetry
INVARIANTS EveryCoinPaysOneCycle PlanIsPaidUp
CHECK_DEADLOCK FALSE

SPECIFICATION Spec
CONSTANTS
    m1 = m1
    m2 = m2
    s1 = s1
    s2 = s2
    Subs = {s1}
    Members = {m1}
    Owner <- OneOwner
    Requests = {r1}
    Sweepers = {w1, w2}
    Keys = {}
    NoKey = NoKey
    Idle = Idle
    None = None
    Duration = 2
    Window = 1
    Grace = 2
    Batch = 2
    MaxSwitches = 0
    AdminCancels = FALSE
    Coins = 3
    MaxTopUps = 0
    MaxTime = 4
    MaxFaults = 0
SYMMETRY Symmetry
INVARIANT NoEarlyCharge
CHECK_DEADLOCK FALSE

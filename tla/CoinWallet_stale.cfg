SPECIFICATION Spec
CONSTANTS
    Wallets = {w1}
    Keys = {k1}
    NoKey = NoKey
    Clients = {c1}
    Sweepers = {s1, s2}
    Idle = Idle
    ExpiryDays = {1, 2}
    Batch = 1
    Spends = {1, 2}
    Credits <- SweepCredits
    Corrections <- SweepCorrections
    MaxTime = 2
    MaxEntries = 3
INVARIANT
    BonusNeverNegative
CHECK_DEADLOCK FALSE

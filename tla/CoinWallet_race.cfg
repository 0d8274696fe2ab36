SPECIFICATION Spec
CONSTANTS
    Wallets = {w1}
    Keys = {k1}
    NoKey = NoKey
    Clients = {c1, c2}
    Sweepers = {}
    Idle = Idle
    ExpiryDays = {1, 2}
    Batch = 1
    Spends = {1, 2}
    Credits <- RaceCredits
    Corrections <- RaceCorrections
    MaxTime = 1
    MaxEntries = 3
SYMMETRY Symmetry
INVARIANTS TypeOK NothingOverdrawn KeyMovesCoinsOnce
PROPERTIES SpendAsQuoted
CHECK_DEADLOCK FALSE

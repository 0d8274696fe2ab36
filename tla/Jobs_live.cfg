SPECIFICATION SpecJobs
CONSTANTS
    Wallets = {w1}
    Keys = {k1}
    NoKey = NoKey
    Clients = {c1}
    Sweepers = {s1, s2}
    Idle = Idle
    ExpiryDays = {1, 2}
    Batch = 1
    Spends = {1, 2}
    Credits <- SweepCredits
    Corrections <- SweepCorrections
    MaxTime = 2
    MaxEntries = 2
    Workers = {m1, m2}
    Attempts = 3
    MaxFaults = 2
    Episodes = {e1, e2}
    MaxChanges = 3
    MaxDeaths = 1
INVARIANTS LedgerExplainsWallet BonusIsBacked OneMail
PROPERTIES ExpiryIsFinal ExpiredLotCloses JobEnds StaysReported
CHECK_DEADLOCK FALSE

SPECIFICATION Spec
CONSTANTS
    Requests = {r1, r2}
    MaxTokens = 3
    MaxUpdates = 1
    Instances = {i1, i2}
    Ttl = 1
    MaxNow = 2
    MaxVersion = 2
    Keys = {k1}
    NoKey = NoKey
    Ladder = 2
    MaxDay = 3
    MaxRules = 1
    MaxOffers = 2
    MaxEntries = 2
    PlanPrices = {1, 2}
    MaxTime = 2
    MaxRows = 3
    Prices = {0, 1, 2}
    NoPrice = 99
    Coins = {0, 1, 2}
    Orders = {o1}
    Amounts = {1, 3}
    Rates = {1, 2}
    MaxChanges = 3
    Subs = {s1, s2}
    NoReport = NoReport
    MaxCycles = 2
    MaxMoment = 1
    Names = {n1}
    Inside = Inside
    Outside = Outside
    MaxRedirects = 1
    MaxBytes = 2
    MaxMoves = 2
INVARIANTS RewardIsEarned OneLiveToken StaleForTtl Seamless OffersAreTrue PaymentIsTrue FiguresAreTrue FetchIsSafe
CHECK_DEADLOCK FALSE

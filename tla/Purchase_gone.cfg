SPECIFICATION Spec
CONSTANTS
    v1 = v1
    k1 = k1
    k2 = k2
    Members = {m1}
    Episodes = {e1}
    Movies = {v1}
    MovieOf <- OneMovie
    FreeStarters = {}
    Keys = {k1, k2, k3}
    NoKey = NoKey
    KeysOf <- KeysByTable
    Requests = {r1, r2}
    Idle = Idle
    NoPrice = NoPrice
    Prices = {1}
    RefundOnRemoval = TRUE
    Funds = 2
    MaxSales = 2
SYMMETRY Symmetry
INVARIANTS NobodyPaidForGone

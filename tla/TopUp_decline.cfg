SPECIFICATION Spec
CONSTANTS
    Orders = {o1}
    Handlers = {h1, h2}
    Probers = {}
    Sweepers = {}
    Idle = Idle
    None = None
    Batch = 1
    RetryAfterDecline = TRUE
    AlwaysTells = TRUE
    MaxFaults = 0
SYMMETRY Symmetry
INVARIANT CreditedOrderIsPaid
CHECK_DEADLOCK FALSE

SPECIFICATION FairSpec
CONSTANTS
    Orders = {o1}
    Handlers = {h1, h2}
    Probers = {p1}
    Sweepers = {s1}
    Idle = Idle
    None = None
    Batch = 1
    RetryAfterDecline = FALSE
    AlwaysTells = TRUE
    MaxFaults = 1
INVARIANTS PaidIffCredited
PROPERTIES Promised ConfirmedSettles OpenDeliveryFinishes
CHECK_DEADLOCK FALSE

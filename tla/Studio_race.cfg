SPECIFICATION StudioSpec
CONSTANTS
    Staff = {r1, r2}
    Movies = {m1, m2}
    LastDay = 2
    MaxPlanned = 3
    MaxHandoffs = 3
    MaxLinks = 4
    MaxDeliveries = 2
    MaxAmount = 2
    MaxGranted = 3
    EpisodePrices = {1, 2, 3}
    MaxAlerts = 3
SYMMETRY Symmetry
INVARIANTS AlertIsAboutThePrice FeesAreCovered
PROPERTIES PlanIsKept StudioHasTheLink
CHECK_DEADLOCK FALSE

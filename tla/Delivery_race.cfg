SPECIFICATION Spec
CONSTANTS
    Requests = {r1, r2, r3}
    Operations = {"submit", "approve", "changes"}
    Workers = {w1, w2}
    Deployments = {TRUE, FALSE}
    Attempts = 2
    MaxVersions = 3
    MaxRetries = 0
    MaxStrays = 0
    MaxCrashes = 2
    MaxRestarts = 1
SYMMETRY Symmetry
INVARIANTS ProcessingIsHeld VersionUnderReview
CHECK_DEADLOCK FALSE

SPECIFICATION Spec
CONSTANTS
    Requests = {r1, r2}
    Operations = {"submit", "retry", "approve", "changes"}
    Workers = {w1, w2}
    Deployments = {TRUE}
    Attempts = 2
    MaxVersions = 2
    MaxRetries = 0
    MaxStrays = 0
    MaxCrashes = 0
    MaxRestarts = 0
SYMMETRY Symmetry
PROPERTIES ApprovedIsReady
CHECK_DEADLOCK FALSE

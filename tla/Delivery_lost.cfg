SPECIFICATION FairSpec
CONSTANTS
    Requests = {r1, r2}
    Operations = {"submit", "approve", "changes"}
    Workers = {w1, w2}
    Deployments = {TRUE}
    Attempts = 2
    MaxVersions = 2
    MaxRetries = 0
    MaxStrays = 0
    MaxCrashes = 1
    MaxRestarts = 0
PROPERTIES ProcessingEnds
CHECK_DEADLOCK FALSE

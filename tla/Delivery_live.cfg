SPECIFICATION FairSpec
CONSTANTS
    Requests = {r1}
    Operations = {"submit", "retry", "approve", "changes"}
    Workers = {w1, w2}
    Deployments = {TRUE, FALSE}
    Attempts = 2
    MaxVersions = 3
    MaxRetries = 1
    MaxStrays = 1
    MaxCrashes = 0
    MaxRestarts = 2
PROPERTIES ProcessingEnds
CHECK_DEADLOCK FALSE

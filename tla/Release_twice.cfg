SPECIFICATION Spec
CONSTANTS
    Episodes = {e1}
    Requests = {r1, r2}
    Scheduler = scheduler
    Commitments = {TRUE}
    Answers <- TwoAnswers
    MaxVersions = 1
    MaxReleases = 2
    MaxFailures = 0
SYMMETRY Symmetry
INVARIANT OneLive
CHECK_DEADLOCK FALSE

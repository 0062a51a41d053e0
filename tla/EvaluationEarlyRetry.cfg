\* One worker and one recruiter who retries early.
CONSTANTS
    Workers = {w1}
    Recruiters = {r1}
    Scores = {40, 80}
    NoScore = NoScore
    NoWorker = NoWorker
    MaxAttempts = 3
    CrashPossible = FALSE
SPECIFICATION FairSpec
CHECK_DEADLOCK FALSE
PROPERTY
    EarlyRetryIsHarmless

\* Two workers, so that a stalled job runs twice; one recruiter; three attempts.
CONSTANTS
    Workers = {w1, w2}
    Recruiters = {r1}
    Scores = {40, 80}
    NoScore = NoScore
    NoWorker = NoWorker
    MaxAttempts = 3
    CrashPossible = TRUE
SPECIFICATION FairSpec
CHECK_DEADLOCK FALSE
INVARIANTS
    ScoresAgree
    CompletedIsEvaluated
    EvaluatedFromText
    NotifiedOnce
PROPERTIES
    EvaluatedOnce
    WaitingIsConcluded

\* One hand-over at a time, one worker, nothing crashes.
CONSTANTS
    Answers = {a1, a2, a3}
    Enqueuers = {e1}
    Workers = {w1}
    NoAnswer = NoAnswer
    CrashPossible = FALSE
SPECIFICATION FairSpec
CHECK_DEADLOCK FALSE
INVARIANT
    QueuedHasAudio
PROPERTIES
    ResultKept
    PendingSettles
    SentIsConcluded
    AudioIsRemoved

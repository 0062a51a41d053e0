\* One hand-over, one worker.
CONSTANTS
    Answers = {a1, a2}
    Enqueuers = {e1}
    Workers = {w1}
    NoAnswer = NoAnswer
    CrashPossible = FALSE
SPECIFICATION Spec
CHECK_DEADLOCK FALSE
INVARIANT
    TranscriptIsComplete

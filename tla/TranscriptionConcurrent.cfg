\* Two hand-overs at once beside a worker, crashes between awaits, redelivered events.
CONSTANTS
    Answers = {a1, a2}
    Enqueuers = {e1, e2}
    Workers = {w1}
    NoAnswer = NoAnswer
    CrashPossible = TRUE
SPECIFICATION Spec
SYMMETRY Symmetry
CHECK_DEADLOCK FALSE
INVARIANTS
    TranscriptIsTranscribed
PROPERTIES
    TranscriptWrittenOnce
    ImplementsAssembly

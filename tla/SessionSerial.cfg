\* One request at a time: two questions, three recordings, crashes between awaits.
CONSTANTS
    Handlers = {h1}
    Questions = {q1, q2}
    Egresses = {e1, e2, e3}
    Durations = {0, 1}
    MaxTime = 1
    NotStarted = NotStarted
    NoQuestion = NoQuestion
    NoEgress = NoEgress
    Offered <- AllOperations
    CrashPossible = TRUE
SPECIFICATION Spec
SYMMETRY Symmetry
INVARIANTS
    OneAnswerRecording
    SubmittedIsQuiet
    HandedOverIsSettled
    UploadedHasItsFile
PROPERTIES
    FinalAnswerKept
    ClockKept
    AnswersFrozen
    CancelledNotReopened
    ImplementsRound

\* Two handlers interleaving at every await.
CONSTANTS
    Handlers = {h1, h2}
    Questions = {q1, q2}
    Egresses = {e1, e2}
    Durations = {0}
    MaxTime = 1
    NotStarted = NotStarted
    NoQuestion = NoQuestion
    NoEgress = NoEgress
    Offered <- RecordingOperations
    CrashPossible = TRUE
SPECIFICATION Spec
SYMMETRY Symmetry
INVARIANTS
    EgressOfItsQuestion
    StartedWhenActive
    UploadedWasRecorded

CONSTANTS
    Handlers = {h1}
    Questions = {q1}
    Egresses = {e1, e2}
    Durations = {1}
    MaxTime = 2
    NotStarted = NotStarted
    NoQuestion = NoQuestion
    NoEgress = NoEgress
    Offered <- AllOperations
    CrashPossible = FALSE
SPECIFICATION FairSpec
PROPERTIES
    SubmittedIsHandedOver
    ProcessingSettles
    CancelClosesLinks

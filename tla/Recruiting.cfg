\* One candidate, two jobs, two recruiters' requests at once.
CONSTANTS
    Candidates = {c1}
    Jobs = {j1, j2}
    Handlers = {h1, h2}
    RoundLists <- MCRoundLists
    Indexes = {0}
    Targets = {"offer", "rejected"}
    Offered = {"createJob", "updateJob", "removeJob", "createCandidate", "updateCandidate",
               "updateStage", "addNote", "removeCandidate", "schedule", "crash"}
    MaxRequests = 6
    None = None
    Never = Never
    Gone = Gone
SPECIFICATION Spec
CHECK_DEADLOCK FALSE
SYMMETRY Symmetry
PROPERTIES
    StageMovesForward
    ListsAreReplaced
    ScheduledOnce

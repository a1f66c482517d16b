SPECIFICATION FairSpec
CONSTANTS
    Files = {f1, f2}
    NoFile = NoFile
    MaxTasks = 2
    MaxAborts = 1
    LossyCalls = TRUE
    Turns = TRUE
    OldSnapshot = FALSE
INVARIANTS
    PassedWasReviewed
    PlanWasReviewed
PROPERTIES
    ParseEnds

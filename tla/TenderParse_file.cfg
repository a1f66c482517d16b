SPECIFICATION Spec
CONSTANTS
    Files = {f1, f2}
    NoFile = NoFile
    MaxTasks = 2
    MaxAborts = 0
    LossyCalls = FALSE
    Turns = TRUE
    OldSnapshot = FALSE
INVARIANTS
    ContentOfFile

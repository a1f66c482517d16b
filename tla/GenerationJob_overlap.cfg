SPECIFICATION Spec
CONSTANTS
    NumSteps = 2
    Tasks = {t1, t2}
    Handlers = {g1, g2}
    NoTask = NoTask
    NoHandler = NoHandler
    MaxAborts = 1
    LossyCalls = TRUE
    Overlap = TRUE
INVARIANTS
    StepFollowsTask
    AppliedOnce
SYMMETRY Interchangeable

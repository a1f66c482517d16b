SPECIFICATION FairSpec
CONSTANTS
    NumSteps = 2
    Tasks = {t1, t2}
    Handlers = {g1, g2}
    NoTask = NoTask
    NoHandler = NoHandler
    MaxAborts = 0
    LossyCalls = TRUE
    Overlap = FALSE
PROPERTIES
    JobSettles

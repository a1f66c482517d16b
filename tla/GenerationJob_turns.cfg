SPECIFICATION Spec
CONSTANTS
    NumSteps = 3
    Tasks = {t1, t2, t3, t4}
    Handlers = {g1, g2}
    NoTask = NoTask
    NoHandler = NoHandler
    MaxAborts = 1
    LossyCalls = TRUE
    Overlap = FALSE
INVARIANTS
    OneStepRunning
    DoneMeansWritten
    GeneratingHasTask
PROPERTIES
    CancelIsFinal
SYMMETRY Interchangeable

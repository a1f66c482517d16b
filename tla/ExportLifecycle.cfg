SPECIFICATION FairSpec
CONSTANTS
    Exports = {e1, e2}
    NoExport = NoExport
    MaxAborts = 1
    LossyCalls = TRUE
    Prompt = TRUE
INVARIANTS
    DoneHasFile
PROPERTIES
    ExportEnds

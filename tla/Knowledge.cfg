\* One uploaded file, the file of a case, two tasks.
SPECIFICATION Spec
CONSTANTS
    Uploads = {upload}
    Cases = {case}
    Labels = {label}
    MaxDocs = 2
    MaxTasks = 2
INVARIANTS
    ProcessedHasOneRun
    QueuedIsAwaited
PROPERTIES
    QueuedEnds

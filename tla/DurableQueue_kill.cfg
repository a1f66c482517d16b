\* Two workers, two jobs, the process killed at any point, SQLite errors.
SPECIFICATION Spec
CONSTANTS
    Jobs = {j1, j2}
    Workers = {w1, w2}
    NoJob = NoJob
    Urls = {"ok", "none"}
    GiveUpAfter = 2
    MaxSends = 1
    MaxCrashes = 1
    StoreFails = TRUE
    GracefulClose = FALSE
INVARIANTS
    ClaimExclusive
    ModelRunsBounded
PROPERTIES
    NoRerunAfterSave
    ImplementsOutbox
SYMMETRY Interchangeable

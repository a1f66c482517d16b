\* One worker, a poisoned job next to a healthy one, shutdown in order and
\* otherwise; SQLite works, so every reachable job must be answered.
SPECIFICATION FairSpec
CONSTANTS
    Jobs = {j1, j2}
    Workers = {w1}
    NoJob = NoJob
    Urls = {"ok", "refused"}
    GiveUpAfter = 1
    MaxSends = 2
    MaxCrashes = 1
    StoreFails = FALSE
    GracefulClose = TRUE
INVARIANTS
    DoneWasHeard
PROPERTIES
    AnswerIsFinal
    EveryJobAnswered

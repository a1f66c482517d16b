\* One chapter: written by two tasks, of users or of two generation jobs, or by
\* one that comes late while two submissions for approval are under way.
SPECIFICATION MCSpec
CONSTANTS
    Chapters = {c1}
    Bodies = {"hint", "written"}
    Unresolved = {}
    Hint = "hint"
    Requirements = {"r"}
    MaxSteps = 2
    MaxTasks = 2
    MaxInstances = 2
    LateCommits = FALSE
INVARIANT
    WaitsUnlessCancelled
    InReviewIsPending
PROPERTY
    SubmittedWasApproved
    LateReviewKeepsText

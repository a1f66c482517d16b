\* Two users, two requests at a time and two of whatever they compete for.
SPECIFICATION OfficeSpec
CONSTANTS
    Users = {u1, u2}
    Roles = {1, 2}
    CompanyAdmin = 1
    FullRoles = {1}
    ReadRoles = {2}
    Servers = {s1, s2}
    MaxChanges = 3
    MaxLogouts = 1
    MaxTokens = 2
    MaxShifts = 2
    MaxChains = 1
    MaxEdits = 2
    MaxSubmits = 1
    StepLists <- MCStepLists
    Staff = {u1, u2}
    Milestones = {m1}
    Clients = {s1, s2}
    MaxMoves = 5
    MaxAdvice = 2
    TenderIds = {m1}
    SourceIds = {u1, u2}
    Titles = {"a", "b"}
    SourceNames = {"m", "n"}
    TenderInputs <- MCTenderInputs
    TenderPatches <- MCTenderPatches
    SourceInputs <- MCSourceInputs
    SourcePatches <- MCSourcePatches
    Editors = {s1, s2}
    NoSource = NoSource
    Keys = {k1, k2}
    Bodies = {b1, b2}
    Collectors = {s1, s2}
    MaxLen = 2
    MaxRuns = 2
    Calls = {s1, s2}
    Budgets = {0, 3, 5}
    Costs = {0, 1, 2}
    MaxConfigs = 3
    MaxSpent = 9
    Files = {f1}
    People = {p1}
    HandCerts = {h1}
    HandPeople = {}
    Syncs = {s1, s2}
    Texts <- MCTexts
    MaxSource = 2
    MaxReviews = 2
    Codes = {u1, u2}
    RuleLevels = {"L1"}
    Severities = {"warn"}
    Fact = Fact
    Handlers = {s1, s2}
    MaxChecks = 2
    MaxUpdates = 2
    Requests = {s1, s2}
    Providers = {"primary", "second", "mock"}
    ZeroCost = {"mock"}
    Mock = "mock"
    Routes <- MCRoutes
    Overrides <- MCOverrides
    NoTarget = NoTarget
    Budget = 2
    Downgrades = TRUE
    MaxCost = 2
    Tabs = {s1, s2}
    Loads = {u1, u2}
    MaxLogins = 2
    MaxIssued = 4
SYMMETRY Sym
INVARIANTS
    TenantHasAdmin
    ApprovedByEveryStep
    OwnerRemains
    PoolIsSerial
    OverspendBounded
    VerdictKept
    FactsNotWaived
    GateFollowsCheck
    QuotaBounded
    TriedAsAllowed
    SessionOfLastLogin
PROPERTIES
    LogoutIsFinal
    AdviceAnsweredOnce
    OnlyNamedChange
CHECK_DEADLOCK FALSE

SPECIFICATION X402Spec
CONSTANTS
    root = root
    x1 = x1
    p1 = p1
    NoCard = NoCard
    NoKey = NoKey
    Sweeper = Sweeper
    NoRow = NoRow
    Parent <- Tree
    Cards = {root}
    PayCalls = {}
    X402Calls = {x1}
    Auths = {}
    Keys = {}
    PeriodCap <- Cap6
    LifetimeCap <- Cap6
    MaxUses <- Uses9
    Amounts = {1}
    Fees <- OwnFees
    FeeHeadroom = 1
    X402Headroom = 2
    SettlementOn = FALSE
    AuthCard <- NoAuth
    EstimateRetries = 2
    SettleAttempts = 1
    CollectorMatches = TRUE
    AmbiguousSend = TRUE
    FalseFailures = {"included"}
    LogErrors = FALSE
    MaxWindow = 0
    MaxCrashes = 0
    MaxControls = 0
INVARIANTS
    AnswerKeepsFee
CHECK_DEADLOCK FALSE

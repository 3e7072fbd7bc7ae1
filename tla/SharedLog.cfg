SPECIFICATION Spec
CONSTANTS
    root = root
    sub = sub
    a1 = a1
    a2 = a2
    p1 = p1
    p2 = p2
    k1 = k1
    NoCard = NoCard
    NoKey = NoKey
    Sweeper = Sweeper
    NoRow = NoRow
    Parent <- Tree
    X402Calls = {}
    Cards = {root}
    PayCalls = {p1, p2}
    Auths = {}
    Keys = {k1}
    PeriodCap <- Cap4
    LifetimeCap <- Cap5
    MaxUses <- Uses9
    Amounts = {1}
    Fees <- OneFee
    FeeHeadroom = 1
    SettlementOn = TRUE
    AuthCard <- OnRoot
    EstimateRetries = 2
    SettleAttempts = 2
    CollectorMatches = TRUE
    AmbiguousSend = FALSE
    FalseFailures = {}
    LogErrors = FALSE
    MaxWindow = 0
    MaxCrashes = 0
    MaxControls = 0
INVARIANTS
    ConfirmedIsMined
CHECK_DEADLOCK FALSE

SPECIFICATION FairSpec
CONSTANTS
    pay = pay
    open = open
    close = close
    gone = gone
    s1 = s1
    s2 = s2
    Kind <- Kind3
    Opening <- OpeningOf
    Outcome <- OutcomeOf
    Subject <- AboutPay
    Jobs = {open, close, gone}
    Sweeps = {s1}
    BatchSize = 1
    MaxAttempts = 2
    MaxRetries = 0
    MaxCrashes = 0
INVARIANTS
    AnchorIsOwn
    TallyAddsUp
PROPERTIES
    ImplementsVerifiedOnce
    AnchoringNeverStarves
CHECK_DEADLOCK FALSE

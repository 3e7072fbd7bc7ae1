SPECIFICATION FairSpec
CONSTANTS
    pay = pay
    open = open
    close = close
    gone = gone
    s1 = s1
    s2 = s2
    Kind <- Kind3
    Opening <- OpeningOf
    Outcome <- OutcomeOf
    Subject <- AboutPay
    Jobs = {pay}
    Sweeps = {s1, s2}
    BatchSize = 1
    MaxAttempts = 3
    MaxRetries = 1
    MaxCrashes = 1
INVARIANTS
    VerifiedIsRecorded
    CreditCountsOnce
PROPERTIES
    RowsEnd
CHECK_DEADLOCK FALSE

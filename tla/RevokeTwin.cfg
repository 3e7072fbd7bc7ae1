SPECIFICATION Spec
CONSTANTS
    r1 = r1
    s1 = s1
    NoCard = NoCard
    Parent <- Tree
    Cards = {r1, s1}
    Issued = {r1}
    Expiring = {r1}
    Ops = {1}
    Calls = {1}
    Fee <- OneFee
    SpendFees = {1}
    MaxCrashes = 0
    Requests = {1}
    MaxTokens = 2
INVARIANTS
    RevokedIsDisabled
CHECK_DEADLOCK FALSE

SPECIFICATION FairSpec
CONSTANTS
    r1 = r1
    s1 = s1
    NoCard = NoCard
    Parent <- Tree
    Cards = {r1, s1}
    Issued = {}
    Expiring = {r1}
    Ops = {1}
    Calls = {1, 2}
    Fee <- OwnFees
    SpendFees = {3}
    MaxCrashes = 1
    Requests = {1, 2}
    MaxTokens = 2
INVARIANTS
    RevokedIsDisabled
    AdminSentOnce
    EndedStaysDead
PROPERTIES
    GrantsEnd
CHECK_DEADLOCK FALSE

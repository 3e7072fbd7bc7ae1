SPECIFICATION FairSpec
CONSTANTS
    r1 = r1
    s1 = s1
    NoCard = NoCard
    Parent <- Tree
    Cards = {r1, s1}
    Issued = {r1}
    Expiring = {r1}
    Ops = {1}
    Calls = {1}
    Fee <- OwnFees
    SpendFees = {3}
    MaxCrashes = 1
    Requests = {1}
    MaxTokens = 2
PROPERTIES
    NoGrantSurvives
CHECK_DEADLOCK FALSE

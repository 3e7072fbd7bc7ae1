SPECIFICATION Spec
CONSTANTS
    dex = dex
    usdc = usdc
    swap = swap
    approve = approve
    shop = shop
    other = other
    Targets = {dex, usdc}
    Methods = {swap, approve}
    Approve = approve
    USDC = usdc
    Payees = {shop, other}
    MinPeriod = 1
    Backdate = 1
    MaxExecutions = 3
    RootTerms <- Roots
    ChildTerms <- Requests
    Amounts = {1, 2}
    Fees = {1}
    MaxRows = 4
    MaxTime = 3
INVARIANTS
    NarrowerThanAncestors
    ChainNeverPreempts
CHECK_DEADLOCK FALSE

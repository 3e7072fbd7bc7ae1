SPECIFICATION FairSpec
CONSTANTS
    lender = lender
    borrower = borrower
    guarantor = guarantor
    l1 = l1
    l2 = l2
    l3 = l3
    d1 = d1
    d2 = d2
    d3 = d3
    r1 = r1
    Lines = {l1, l2, l3}
    Accounts = {lender, borrower, guarantor}
    Terms <- TwoNonces
    Transfers = {d1, d2, d3, r1}
    Transfer <- Moved
    MaxTime = 3
    Guarantors = {lender, guarantor}
    BondAmounts = {3}
    UnbondDelay = 1
    WeiPerAtom = 2
    MaxHeld = 6
INVARIANTS
    LineInv
    RecordsAddUp
    BondsAddUp
PROPERTIES
    LinesMoveForward
    SlashPaysTheDebt
    ExpiredLinesEnd
CHECK_DEADLOCK FALSE

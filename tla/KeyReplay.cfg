SPECIFICATION Spec
CONSTANTS
    lender = lender
    borrower = borrower
    stranger = stranger
    l1 = l1
    d1 = d1
    d2 = d2
    r1 = r1
    p1 = p1
    k1 = k1
    k2 = k2
    c1 = c1
    c2 = c2
    c3 = c3
    o1 = o1
    o2 = o2
    Lines = {l1}
    Accounts = {lender, borrower, stranger}
    Terms <- OneLine
    Transfers = {d1, d2}
    Transfer <- Moves
    MaxTime = 1
    Signings = {c1, c2}
    Signing <- Signers
    Openers = {o1}
    Pays = {}
    Payment <- Elsewhere
    Keys = {k1, k2}
    Key <- SharedKey
    Keyed = {d1, d2}
    MaxCrashes = 1
INVARIANTS
    FactsArePaid
CHECK_DEADLOCK FALSE

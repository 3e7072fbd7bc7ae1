-------------------------- MODULE CreditProperties --------------------------
(* What the credit-line and guarantee contracts promise. *)
EXTENDS Guarantee, FiniteSetsExt

CreditTypeOK ==
    /\ now \in 1..MaxTime
    /\ line \in [Lines -> Line]
    /\ nonceUsed \subseteq Accounts \X Nat
    /\ record \in [Accounts -> BorrowerRecord]
    /\ fact \in [Transfers -> {"none", "timely", "late"}]
    /\ proven \subseteq Transfers

\* Every variable has the type of its Solidity counterpart
\* (AttestPayCreditLine.sol, AttestPayGuarantee.sol); in particular no
\* subtraction of bonds goes below zero, where the contract would revert.
TypeOK ==
    /\ CreditTypeOK
    /\ bonds \in [Borrowers -> [Guarantors -> [amount : Nat,
                                            unbondRequestedAt : 0..MaxTime]]]
    /\ \A b \in Borrowers : guarantors[b] \in Seq(Guarantors)
    /\ totalBonded \in [Borrowers -> Nat]
    /\ slashedForLine \in [Lines -> Nat]
    /\ held \in Nat

-----------------------------------------------------------------------------
(* Lines *)

\* The status of a line agrees with its balance: nothing is drawn before the
\* first proven draw, an active or defaulted line still owes something, and a
\* repaid line owes nothing.  (So markDefaulted can never be refused for an
\* expired active line, and a repaid line can never have defaulted unpaid.)
BalanceMatchesStatus(l, r) ==
    /\ r.drawn <= Terms[l].limit
    /\ r.status \in {"none", "open", "closed"} => r.drawn = 0 /\ r.repaid = 0
    /\ r.status \in {"active", "defaulted"} => r.repaid < Owed(l, r.drawn)
    /\ r.status = "repaid" => r.drawn > 0 /\ r.repaid >= Owed(l, r.drawn)

\* A lender's nonce opens one line at most: of two sets of terms signed with
\* one nonce, the second is refused for ever (openLine).
OneLinePerNonce ==
    \A l, m \in Lines :
        /\ line[l].status # "none" => NonceOf(l) \in nonceUsed
        /\ line[l].status # "none" /\ line[m].status # "none" /\ l # m
              => NonceOf(l) # NonceOf(m)

\* A default stays on record: a line was marked defaulted exactly when its
\* defaultedAt is set, which a late repayment does not clear, and that was
\* after its expiry (markDefaulted, _repay).
DefaultOnRecord(l, r) ==
    /\ r.status = "defaulted" => r.defaultedAt # 0
    /\ r.status \in {"none", "open", "active", "closed"} => r.defaultedAt = 0
    /\ r.defaultedAt # 0 => r.defaultedAt > Terms[l].expiresAt

\* The invariant of a line, whatever the order in which draws and repayments
\* are proven, before or after its default (AttestPayCreditLine.sol).
LineInv ==
    /\ \A l \in Lines : BalanceMatchesStatus(l, line[l]) /\ DefaultOnRecord(l, line[l])
    /\ OneLinePerNonce

AmountOf(kind, l) ==
    MapThenSumSet(LAMBDA x : Transfer[x].amount,
                  {x \in proven : Transfer[x].kind = kind /\ Transfer[x].line = l})

BorrowersLines(b, test(_)) == {l \in Lines : Terms[l].borrower = b /\ test(line[l])}

\* Each anchored transfer is counted once, in its own line and in the record
\* of that line's borrower, and the record counts each line that opened, was
\* repaid or defaulted once (provenEvents, BorrowerRecord): the passport
\* scores an agent by these sums.
RecordsAddUp ==
    /\ \A l \in Lines : line[l].drawn = AmountOf("draw", l)
                     /\ line[l].repaid = AmountOf("repayment", l)
    /\ \A b \in Accounts :
          /\ record[b].linesOpened =
                Cardinality(BorrowersLines(b, LAMBDA r : r.status # "none"))
          /\ record[b].linesRepaid =
                Cardinality(BorrowersLines(b, LAMBDA r : r.status = "repaid"))
          /\ record[b].linesDefaulted =
                Cardinality(BorrowersLines(b, LAMBDA r : r.defaultedAt # 0))
          /\ record[b].totalDrawn =
                MapThenSumSet(LAMBDA l : line[l].drawn, BorrowersLines(b, LAMBDA r : TRUE))
          /\ record[b].totalRepaid =
                MapThenSumSet(LAMBDA l : line[l].repaid, BorrowersLines(b, LAMBDA r : TRUE))

\* A line only moves forward: from open to active, then to repaid or
\* defaulted, a defaulted line to repaid, an unused one to closed; what was
\* drawn or repaid is never taken back; and once a line has defaulted its debt
\* is fixed (a draw proven late is refused), which is what slashing relies on.
Forward(old, new) ==
    /\ old.status # new.status =>
          <<old.status, new.status>> \in
              {<<"none", "open">>, <<"open", "active">>, <<"open", "closed">>,
               <<"active", "repaid">>, <<"active", "defaulted">>,
               <<"defaulted", "repaid">>}
    /\ new.drawn >= old.drawn /\ new.repaid >= old.repaid
    /\ old.status \in {"repaid", "defaulted", "closed"} => new.drawn = old.drawn
    /\ old.status \in {"repaid", "closed"} => new = old

LinesMoveForward == [][\A l \in Lines : Forward(line[l], line'[l])]_vars

\* An expired line does not stay open or active: the sweep can always close
\* or default it (sweepCreditLines, markDefaulted, closeUnused).
ExpiredLinesEnd ==
    \A l \in Lines :
        line[l].status \in {"open", "active"} /\ PastExpiry(l)
            ~> line[l].status \notin {"open", "active"}

-----------------------------------------------------------------------------
(* Bonds *)

\* The contract's CTC is what its books say: the bonds behind a borrower sum
\* to totalBonded, all of them to the balance, and every bond that counts is
\* in the list that slash walks, once.
BondsAddUp ==
    /\ held = MapThenSumSet(LAMBDA b : totalBonded[b], Borrowers)
    /\ \A b \in Borrowers :
          /\ totalBonded[b] = MapThenSumSet(LAMBDA g : bonds[b][g].amount, Guarantors)
          /\ \A g \in Guarantors : bonds[b][g].amount > 0 => g \in Range(guarantors[b])
          /\ IsInjective(guarantors[b])

\* A slash pays a lender what the line still owes him, in wei: never more than
\* the debt less what the bonds and the borrower have already paid, and less
\* only when nothing is bonded behind the borrower any more, however slashes,
\* top-ups and late repayments alternate (slash, slashedForLine).
SlashPaysTheDebt ==
    [][\A l \in Lines : slashedForLine'[l] > slashedForLine[l] =>
           LET paid == slashedForLine'[l] + WeiPerAtom * line[l].repaid
               owed == WeiPerAtom * Owed(l, line[l].drawn)
           IN  /\ paid <= owed
               /\ paid < owed => totalBonded'[Terms[l].borrower] = 0]_vars
=============================================================================

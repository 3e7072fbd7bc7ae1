---------------------------- MODULE CreditProofs ----------------------------
(* The line contract, for every set of lines and transfers: the invariant of *)
(* a line holds in whatever order facts are proven, and lines only move      *)
(* forward.  Bonds never write a line, so both hold next to the guarantees.  *)
EXTENDS CreditProperties, SetSums, TLAPS

-----------------------------------------------------------------------------
(* Interest. *)

\* What is owed is a natural number, nothing is owed before a draw, and each
\* unit drawn adds at least one unit to it, rounded down or not.
LEMMA OwedGrows ==
  ASSUME NEW l \in Lines, NEW d \in Nat, NEW a \in Nat
  PROVE  /\ Owed(l, d) \in Nat /\ Owed(l, 0) = 0
         /\ Owed(l, d + a) >= Owed(l, d) + a
<1> DEFINE b == Terms[l].interestBps
           k == 10000 + b
<1>1. b \in Nat
  BY CreditAssumption DEF LineTerms
<1> HIDE DEF b
<1>2. d * k \in Nat /\ a * b \in Nat /\ 0 * k = 0
  BY <1>1
<1>3. (d + a) * k = d * k + (10000 * a + a * b)
  BY <1>1
<1>4. ASSUME NEW x \in Nat, NEW y \in Nat
      PROVE  /\ x \div 10000 \in Nat
             /\ (x + (10000 * a + y)) \div 10000 >= (x \div 10000) + a
  OBVIOUS
<1>5. /\ (d * k) \div 10000 \in Nat
      /\ (d * k + (10000 * a + a * b)) \div 10000 >= ((d * k) \div 10000) + a
  BY <1>2, <1>4
<1>6. (0 * k) \div 10000 = 0
  BY <1>2
<1> QED
  BY <1>3, <1>5, <1>6 DEF Owed, b

-----------------------------------------------------------------------------
(* The inductive invariant: types, the invariant of a line, and amounts that *)
(* were anchored only when positive.                                         *)

AnchoredPositive == \A x \in Transfers : fact[x] # "none" => Transfer[x].amount > 0

CreditInv == CreditTypeOK /\ LineInv /\ AnchoredPositive

LEMMA TransferFields ==
  ASSUME NEW x \in Transfers
  PROVE  Transfer[x].line \in Lines /\ Transfer[x].amount \in Nat
  BY CreditAssumption

LEMMA TermsFields ==
  ASSUME NEW l \in Lines
  PROVE  /\ Terms[l].lender \in Accounts /\ Terms[l].borrower \in Accounts
         /\ Terms[l].limit \in Nat /\ Terms[l].expiresAt \in Nat
         /\ Terms[l].nonce \in Nat
  BY CreditAssumption DEF LineTerms

LEMMA CreditInitInv == CreditInit => CreditInv
<1> SUFFICES ASSUME CreditInit PROVE CreditInv
  OBVIOUS
<1>1. CreditTypeOK
  BY CreditAssumption
     DEF CreditInit, CreditTypeOK, Line, LineStatuses, NoLine, BorrowerRecord, NoRecord
<1> QED
  BY <1>1, TermsFields
     DEF CreditInit, CreditInv, LineInv, BalanceMatchesStatus, DefaultOnRecord,
         OneLinePerNonce, AnchoredPositive, NoLine
-----------------------------------------------------------------------------
(* What one call may write to a line. *)

\* The new value of a line keeps its type, agrees with its balance and its
\* default, and moves forward.
GoodWrite(l, new) ==
    /\ new \in Line
    /\ BalanceMatchesStatus(l, new)
    /\ DefaultOnRecord(l, new)
    /\ Forward(line[l], new)

\* A call that makes a good write to one opened line keeps the line invariant
\* and moves every line forward.
LEMMA OneLineWritten ==
  ASSUME CreditInv, NEW l \in Lines, NEW new, GoodWrite(l, new),
         line[l].status # "none", line' = [line EXCEPT ![l] = new],
         UNCHANGED nonceUsed
  PROVE  LineInv' /\ line' \in [Lines -> Line]
         /\ \A m \in Lines : Forward(line[m], line'[m])
<1>1. /\ line \in [Lines -> Line] /\ new \in Line
      /\ BalanceMatchesStatus(l, new) /\ DefaultOnRecord(l, new)
      /\ Forward(line[l], new)
  BY DEF CreditInv, CreditTypeOK, GoodWrite
<1>2. \A m \in Lines : line'[m] = IF m = l THEN new ELSE line[m]
  BY <1>1
<1>3. ASSUME NEW m \in Lines
      PROVE  /\ BalanceMatchesStatus(m, line'[m]) /\ DefaultOnRecord(m, line'[m])
             /\ Forward(line[m], line'[m])
  <2>1. Forward(line[m], line[m])
    BY <1>1 DEF Forward, Line
  <2> QED
    BY <1>1, <1>2, <2>1 DEF CreditInv, LineInv
<1>4. \A m \in Lines : line'[m].status # "none" => line[m].status # "none"
  BY <1>2
<1>5. OneLinePerNonce'
  BY <1>4 DEF CreditInv, LineInv, OneLinePerNonce, NonceOf
<1>6. \A m \in Lines : /\ BalanceMatchesStatus(m, line[m])'
                       /\ DefaultOnRecord(m, line[m])'
  BY <1>3 DEF BalanceMatchesStatus, DefaultOnRecord, Owed
<1> QED
  BY <1>1, <1>3, <1>5, <1>6 DEF LineInv

LEMMA DrawWrites ==
  ASSUME CreditInv, NEW x \in Transfers, ProveDraw(x)
  PROVE  LET l == Transfer[x].line
             new == [line[l] EXCEPT !.drawn = @ + Transfer[x].amount, !.status = "active"]
         IN  GoodWrite(l, new) /\ line[l].status # "none"
             /\ line' = [line EXCEPT ![l] = new]
<1> DEFINE l == Transfer[x].line
           a == Transfer[x].amount
           new == [line[l] EXCEPT !.drawn = @ + a, !.status = "active"]
<1>1. l \in Lines /\ a \in Nat /\ a > 0
  BY TransferFields DEF ProveDraw, Provable, CreditInv, AnchoredPositive
<1>2. /\ line[l] \in Line /\ line[l].status \in {"open", "active"}
      /\ line[l].drawn + a <= Terms[l].limit
      /\ BalanceMatchesStatus(l, line[l]) /\ DefaultOnRecord(l, line[l])
  BY <1>1 DEF ProveDraw, Drawable, CreditInv, CreditTypeOK, LineInv
<1>3. line' = [line EXCEPT ![l] = new]
  BY <1>1 DEF ProveDraw, CreditInv, CreditTypeOK, Line
<1>4. line[l].drawn \in Nat /\ line[l].repaid \in Nat
  BY <1>2 DEF Line
<1> HIDE DEF l, a
<1>5. /\ new \in Line /\ new.status = "active" /\ new.drawn = line[l].drawn + a
      /\ new.repaid = line[l].repaid /\ new.defaultedAt = line[l].defaultedAt
  <2>1. line[l].drawn + a \in Nat
    BY <1>1, <1>4
  <2> QED
    BY <1>2, <2>1 DEF Line, LineStatuses
<1> HIDE DEF new
<1>6. BalanceMatchesStatus(l, new)
  <2>1. /\ Owed(l, line[l].drawn) \in Nat
        /\ Owed(l, line[l].drawn + a) >= Owed(l, line[l].drawn) + a
    BY <1>1, <1>4, OwedGrows
  <2>2. Owed(l, line[l].drawn + a) \in Nat
    <3>1. line[l].drawn + a \in Nat
      BY <1>1, <1>4
    <3> QED
      BY <1>1, <3>1, OwedGrows
  <2>3. line[l].repaid < Owed(l, line[l].drawn + a)
    BY <1>1, <1>2, <1>4, <2>1, <2>2 DEF BalanceMatchesStatus
  <2> QED
    BY <1>2, <1>5, <2>3 DEF BalanceMatchesStatus
<1>7. DefaultOnRecord(l, new)
  BY <1>2, <1>5 DEF DefaultOnRecord
<1>8. Forward(line[l], new)
  BY <1>1, <1>2, <1>4, <1>5 DEF Forward
<1> QED
  BY <1>2, <1>3, <1>5, <1>6, <1>7, <1>8 DEF GoodWrite, new, l, a

LEMMA RepaymentWrites ==
  ASSUME CreditInv, NEW x \in Transfers, ProveRepayment(x)
  PROVE  LET l == Transfer[x].line
             repaid == line[l].repaid + Transfer[x].amount
             new == [line[l] EXCEPT !.repaid = repaid,
                                    !.status = IF InFull(l, repaid) THEN "repaid" ELSE @]
         IN  GoodWrite(l, new) /\ line[l].status # "none"
             /\ line' = [line EXCEPT ![l] = new]
<1> DEFINE l == Transfer[x].line
           repaid == line[l].repaid + Transfer[x].amount
           new == [line[l] EXCEPT !.repaid = repaid,
                                  !.status = IF InFull(l, repaid) THEN "repaid" ELSE @]
<1>1. l \in Lines /\ Transfer[x].amount \in Nat
  BY TransferFields
<1>2. /\ line[l] \in Line /\ line[l].status \in {"active", "defaulted"}
      /\ BalanceMatchesStatus(l, line[l]) /\ DefaultOnRecord(l, line[l])
  BY <1>1 DEF ProveRepayment, CreditInv, CreditTypeOK, LineInv
<1>3. line' = [line EXCEPT ![l] = new]
  BY <1>1 DEF ProveRepayment, CreditInv, CreditTypeOK, Line
<1>4. /\ line[l].drawn \in Nat /\ line[l].repaid \in Nat
      /\ repaid \in Nat /\ repaid >= line[l].repaid
  BY <1>1, <1>2 DEF Line
<1>5. /\ new \in Line /\ new.drawn = line[l].drawn /\ new.repaid = repaid
      /\ new.defaultedAt = line[l].defaultedAt
      /\ new.status = IF InFull(l, repaid) THEN "repaid" ELSE line[l].status
  BY <1>2, <1>4 DEF Line, LineStatuses
<1> HIDE DEF new, l, repaid
<1>6. /\ Owed(l, 0) = 0 /\ Owed(l, line[l].drawn) \in Nat
  BY <1>1, <1>4, OwedGrows
<1>7. BalanceMatchesStatus(l, new)
  BY <1>2, <1>4, <1>5, <1>6 DEF BalanceMatchesStatus, InFull
<1>8. DefaultOnRecord(l, new)
  BY <1>2, <1>5 DEF DefaultOnRecord
<1>9. Forward(line[l], new)
  BY <1>2, <1>4, <1>5 DEF Forward
<1> QED
  BY <1>2, <1>3, <1>5, <1>7, <1>8, <1>9 DEF GoodWrite, new, l, repaid

-----------------------------------------------------------------------------
(* Every call keeps the invariant and moves lines forward. *)

AllForward == \A l \in Lines : Forward(line[l], line'[l])

LEMMA UnwrittenLines ==
  ASSUME CreditInv, UNCHANGED <<line, nonceUsed>>
  PROVE  LineInv' /\ AllForward
<1>1. \A l \in Lines : line[l] \in Line
  BY DEF CreditInv, CreditTypeOK
<1> QED
  BY <1>1 DEF CreditInv, LineInv, BalanceMatchesStatus, DefaultOnRecord, Owed,
              OneLinePerNonce, NonceOf, AllForward, Forward, Line

\* A borrower's record stays a record when some of its counters grow.
LEMMA RecordWritten ==
  ASSUME CreditTypeOK, NEW b \in Accounts, NEW r \in BorrowerRecord,
         record' = [record EXCEPT ![b] = r]
  PROVE  record' \in [Accounts -> BorrowerRecord]
  BY DEF CreditTypeOK

LEMMA OpenLineInv ==
  ASSUME CreditInv, NEW l \in Lines, OpenLine(l)
  PROVE  CreditInv' /\ AllForward
<1> DEFINE new == [line[l] EXCEPT !.status = "open"]
           b == Terms[l].borrower
           r == [record[b] EXCEPT !.linesOpened = @ + 1]
<1>1. /\ line \in [Lines -> Line] /\ record \in [Accounts -> BorrowerRecord]
      /\ b \in Accounts
      /\ BalanceMatchesStatus(l, line[l]) /\ DefaultOnRecord(l, line[l])
      /\ line[l].status = "none" /\ NonceOf(l) \notin nonceUsed
  BY TermsFields DEF OpenLine, NonceFree, CreditInv, CreditTypeOK, LineInv
<1>2. /\ line' = [line EXCEPT ![l] = new] /\ nonceUsed' = nonceUsed \cup {NonceOf(l)}
      /\ record' = [record EXCEPT ![b] = r]
  BY <1>1 DEF OpenLine
<1>3. /\ new \in Line /\ new.status = "open" /\ new.drawn = line[l].drawn
      /\ new.repaid = line[l].repaid /\ new.defaultedAt = line[l].defaultedAt
  BY <1>1 DEF Line, LineStatuses
<1>4. r \in BorrowerRecord
  BY <1>1 DEF BorrowerRecord
<1> HIDE DEF new, b, r
<1>5. /\ BalanceMatchesStatus(l, new) /\ DefaultOnRecord(l, new)
      /\ Forward(line[l], new)
  BY <1>1, <1>3 DEF BalanceMatchesStatus, DefaultOnRecord, Forward, Line
<1>6. \A m \in Lines : line'[m] = IF m = l THEN new ELSE line[m]
  BY <1>1, <1>2
<1>7. ASSUME NEW m \in Lines
      PROVE  /\ BalanceMatchesStatus(m, line'[m]) /\ DefaultOnRecord(m, line'[m])
             /\ Forward(line[m], line'[m])
  <2>1. Forward(line[m], line[m])
    BY <1>1 DEF Forward, Line
  <2> QED
    BY <1>5, <1>6, <2>1 DEF CreditInv, LineInv
<1>8. \A m \in Lines : /\ BalanceMatchesStatus(m, line[m])'
                       /\ DefaultOnRecord(m, line[m])'
  BY <1>7 DEF BalanceMatchesStatus, DefaultOnRecord, Owed
<1>9. OneLinePerNonce'
  <2>1. \A m \in Lines : line[m].status # "none" => NonceOf(m) \in nonceUsed
    BY DEF CreditInv, LineInv, OneLinePerNonce
  <2> QED
    BY <1>1, <1>2, <1>6, <2>1 DEF CreditInv, LineInv, OneLinePerNonce, NonceOf
<1>10. CreditTypeOK'
  <2>1. NonceOf(l) \in Accounts \X Nat
    BY TermsFields DEF NonceOf
  <2>2. record' \in [Accounts -> BorrowerRecord]
    BY <1>1, <1>2, <1>4, RecordWritten DEF CreditInv
  <2>3. line' \in [Lines -> Line]
    BY <1>1, <1>2, <1>3
  <2>4. nonceUsed' \subseteq Accounts \X Nat
    BY <1>2, <2>1 DEF CreditInv, CreditTypeOK
  <2> QED
    BY <2>2, <2>3, <2>4 DEF OpenLine, CreditInv, CreditTypeOK
<1>11. AnchoredPositive'
  BY DEF OpenLine, CreditInv, AnchoredPositive
<1> QED
  BY <1>7, <1>8, <1>9, <1>10, <1>11 DEF CreditInv, LineInv, AllForward

LEMMA AnchorTransferInv ==
  ASSUME CreditInv, NEW x \in Transfers, AnchorTransfer(x)
  PROVE  CreditInv' /\ AllForward
<1>1. LineInv' /\ AllForward
  BY UnwrittenLines DEF AnchorTransfer
<1>2. PICK at \in {"timely", "late"} : fact' = [fact EXCEPT ![x] = at]
  BY DEF AnchorTransfer
<1>3. CreditTypeOK'
  BY <1>2 DEF AnchorTransfer, CreditInv, CreditTypeOK
<1>4. AnchoredPositive'
  BY <1>2 DEF AnchorTransfer, CreditInv, CreditTypeOK, AnchoredPositive
<1> QED
  BY <1>1, <1>3, <1>4 DEF CreditInv

LEMMA ProveDrawInv ==
  ASSUME CreditInv, NEW x \in Transfers, ProveDraw(x)
  PROVE  CreditInv' /\ AllForward
<1> DEFINE l == Transfer[x].line
           b == Terms[l].borrower
           r == [record[b] EXCEPT !.totalDrawn = @ + Transfer[x].amount]
<1>1. l \in Lines /\ b \in Accounts /\ Transfer[x].amount \in Nat
  BY TransferFields, TermsFields
<1>2. LineInv' /\ line' \in [Lines -> Line] /\ AllForward
  BY <1>1, DrawWrites, OneLineWritten DEF ProveDraw, AllForward
<1>3. r \in BorrowerRecord /\ record' = [record EXCEPT ![b] = r]
  <2>1. record \in [Accounts -> BorrowerRecord]
    BY DEF CreditInv, CreditTypeOK
  <2>2. record' = [record EXCEPT ![b] = r]
    BY <1>1, <2>1 DEF ProveDraw, BorrowerRecord
  <2> HIDE DEF b
  <2> QED
    BY <1>1, <2>1, <2>2 DEF BorrowerRecord
<1>4. CreditTypeOK'
  BY <1>1, <1>2, <1>3, RecordWritten DEF ProveDraw, CreditInv, CreditTypeOK
<1> QED
  BY <1>2, <1>4 DEF CreditInv, ProveDraw, AnchoredPositive

LEMMA ProveRepaymentInv ==
  ASSUME CreditInv, NEW x \in Transfers, ProveRepayment(x)
  PROVE  CreditInv' /\ AllForward
<1> DEFINE l == Transfer[x].line
           b == Terms[l].borrower
           full == InFull(l, line[l].repaid + Transfer[x].amount)
           r == [record[b] EXCEPT !.totalRepaid = @ + Transfer[x].amount,
                                  !.linesRepaid = IF full THEN @ + 1 ELSE @]
<1>1. l \in Lines /\ b \in Accounts /\ Transfer[x].amount \in Nat
  BY TransferFields, TermsFields
<1>2. LineInv' /\ line' \in [Lines -> Line] /\ AllForward
  BY <1>1, RepaymentWrites, OneLineWritten DEF ProveRepayment, AllForward
<1>3. r \in BorrowerRecord /\ record' = [record EXCEPT ![b] = r]
  <2>1. record \in [Accounts -> BorrowerRecord]
    BY DEF CreditInv, CreditTypeOK
  <2>2. record' = [record EXCEPT ![b] = r]
    BY <1>1, <2>1 DEF ProveRepayment, BorrowerRecord
  <2> HIDE DEF b, full
  <2>3. /\ record[b] \in BorrowerRecord
        /\ record[b].totalRepaid + Transfer[x].amount \in Nat
        /\ record[b].linesRepaid + 1 \in Nat /\ record[b].linesRepaid \in Nat
    BY <1>1, <2>1 DEF BorrowerRecord
  <2>4. r \in BorrowerRecord
    BY <2>3 DEF BorrowerRecord
  <2> QED
    BY <2>2, <2>4
<1>4. CreditTypeOK'
  BY <1>1, <1>2, <1>3, RecordWritten DEF ProveRepayment, CreditInv, CreditTypeOK
<1> QED
  BY <1>2, <1>4 DEF CreditInv, ProveRepayment, AnchoredPositive

LEMMA MarkDefaultedInv ==
  ASSUME CreditInv, NEW l \in Lines, MarkDefaulted(l)
  PROVE  CreditInv' /\ AllForward
<1> DEFINE b == Terms[l].borrower
           r == [record[b] EXCEPT !.linesDefaulted = @ + 1]
           new == [line[l] EXCEPT !.status = "defaulted", !.defaultedAt = now]
<1>1. /\ line \in [Lines -> Line] /\ line[l].status = "active"
      /\ now \in Nat /\ now # 0 /\ now > Terms[l].expiresAt /\ b \in Accounts
      /\ BalanceMatchesStatus(l, line[l]) /\ DefaultOnRecord(l, line[l])
  BY TermsFields, CreditAssumption
     DEF MarkDefaulted, PastExpiry, CreditInv, CreditTypeOK, LineInv
<1>2. line' = [line EXCEPT ![l] = new]
  BY <1>1 DEF MarkDefaulted
<1>3. /\ new \in Line /\ new.status = "defaulted" /\ new.defaultedAt = now
      /\ new.drawn = line[l].drawn /\ new.repaid = line[l].repaid
  BY <1>1 DEF Line, LineStatuses
<1>4. r \in BorrowerRecord /\ record' = [record EXCEPT ![b] = r]
  BY <1>1 DEF MarkDefaulted, CreditInv, CreditTypeOK, BorrowerRecord
<1> HIDE DEF new, r, b
<1>5. GoodWrite(l, new)
  BY <1>1, <1>3
     DEF GoodWrite, BalanceMatchesStatus, DefaultOnRecord, Forward, Line
<1>6. LineInv' /\ line' \in [Lines -> Line] /\ AllForward
  BY <1>1, <1>2, <1>5, OneLineWritten DEF MarkDefaulted, AllForward
<1>7. CreditTypeOK'
  BY <1>1, <1>4, <1>6, RecordWritten DEF MarkDefaulted, CreditInv, CreditTypeOK
<1> QED
  BY <1>6, <1>7 DEF CreditInv, MarkDefaulted, AnchoredPositive

LEMMA CloseUnusedInv ==
  ASSUME CreditInv, NEW l \in Lines, CloseUnused(l)
  PROVE  CreditInv' /\ AllForward
<1> DEFINE new == [line[l] EXCEPT !.status = "closed"]
<1>1. /\ line \in [Lines -> Line] /\ line[l].status = "open"
      /\ BalanceMatchesStatus(l, line[l]) /\ DefaultOnRecord(l, line[l])
  BY DEF CloseUnused, CreditInv, CreditTypeOK, LineInv
<1>2. line' = [line EXCEPT ![l] = new]
  BY <1>1 DEF CloseUnused
<1>3. /\ new \in Line /\ new.status = "closed" /\ new.defaultedAt = line[l].defaultedAt
      /\ new.drawn = line[l].drawn /\ new.repaid = line[l].repaid
  BY <1>1 DEF Line, LineStatuses
<1> HIDE DEF new
<1>4. GoodWrite(l, new)
  BY <1>1, <1>3
     DEF GoodWrite, BalanceMatchesStatus, DefaultOnRecord, Forward, Line
<1>5. LineInv' /\ line' \in [Lines -> Line] /\ AllForward
  BY <1>1, <1>2, <1>4, OneLineWritten DEF CloseUnused, AllForward
<1> QED
  BY <1>5 DEF CloseUnused, CreditInv, CreditTypeOK, AnchoredPositive

LEMMA TickInv ==
  ASSUME CreditInv, Tick
  PROVE  CreditInv' /\ AllForward
<1>1. LineInv' /\ AllForward
  BY UnwrittenLines DEF Tick
<1>2. now' \in 1..MaxTime
  BY CreditAssumption DEF Tick, CreditInv, CreditTypeOK
<1> QED
  BY <1>1, <1>2 DEF Tick, CreditInv, CreditTypeOK, AnchoredPositive

\* A step of the bonds writes nothing of a line.
LEMMA BondSteps ==
  ASSUME BondNext \/ \E l \in Lines : Slash(l)
  PROVE  UNCHANGED creditVars
  BY DEF BondNext, Bond, RequestUnbond, Unbond, Slash

LEMMA CreditStep ==
  ASSUME CreditInv, [Next]_vars
  PROVE  CreditInv' /\ AllForward
<1>1. CASE UNCHANGED creditVars
  <2>1. LineInv' /\ AllForward
    BY <1>1, UnwrittenLines DEF creditVars
  <2> QED
    BY <1>1, <2>1 DEF creditVars, CreditInv, CreditTypeOK, AnchoredPositive
<1>2. CASE CreditNext
  BY <1>2, OpenLineInv, AnchorTransferInv, ProveDrawInv, ProveRepaymentInv,
     MarkDefaultedInv, CloseUnusedInv, TickInv DEF CreditNext
<1> QED
  BY <1>1, <1>2, BondSteps DEF Next, vars

-----------------------------------------------------------------------------
(* The books: what is drawn and repaid under a line against the transfers    *)
(* proven, and a borrower's record against his lines.  The operators take    *)
(* the values of the variables, so that a lemma speaks of a value and not of *)
(* a state.                                                                  *)

Amounts == [x \in Transfers |-> Transfer[x].amount]

MovedBy(P, kind, l) == {x \in P : Transfer[x].kind = kind /\ Transfer[x].line = l}

LineAddsUp(l, r, P) ==
    /\ r.drawn = SumOver(Amounts, MovedBy(P, "draw", l))
    /\ r.repaid = SumOver(Amounts, MovedBy(P, "repayment", l))

LinesOf(b) == {l \in Lines : Terms[l].borrower = b}

DrawnOf(L) == [l \in Lines |-> L[l].drawn]
RepaidOf(L) == [l \in Lines |-> L[l].repaid]

OpenedOf(L, b) == {l \in LinesOf(b) : L[l].status # "none"}
FullyRepaidOf(L, b) == {l \in LinesOf(b) : L[l].status = "repaid"}
DefaultedOf(L, b) == {l \in LinesOf(b) : L[l].defaultedAt # 0}

RecordAddsUp(b, r, L) ==
    /\ r.linesOpened = Cardinality(OpenedOf(L, b))
    /\ r.linesRepaid = Cardinality(FullyRepaidOf(L, b))
    /\ r.linesDefaulted = Cardinality(DefaultedOf(L, b))
    /\ r.totalDrawn = SumOver(DrawnOf(L), LinesOf(b))
    /\ r.totalRepaid = SumOver(RepaidOf(L), LinesOf(b))

AddsUp(L, R, P) ==
    /\ \A l \in Lines : LineAddsUp(l, L[l], P)
    /\ \A b \in Accounts : RecordAddsUp(b, R[b], L)

BooksInv == AddsUp(line, record, proven) /\ IsFiniteSet(proven)

\* The sums of the property are these.
LEMMA AmountsSum ==
  ASSUME NEW P, P \subseteq Transfers, IsFiniteSet(P)
  PROVE  MapThenSumSet(LAMBDA x : Transfer[x].amount, P) = SumOver(Amounts, P)
<1> DEFINE Rec(g) == g = [A \in SUBSET P |-> IF A = {} THEN 0
                                 ELSE Transfer[First(A)].amount + g[A \ {First(A)}]]
<1>1. \A A \in SUBSET P : A # {} => Amounts[First(A)] = Transfer[First(A)].amount
  BY FirstMember DEF Amounts
<1>2. ASSUME NEW g
      PROVE  IsPartialSums(Amounts, P, g) <=> Rec(g)
  <2> DEFINE u == [A \in SUBSET P |-> PartialSum(Amounts, g, A)]
             v == [A \in SUBSET P |-> IF A = {} THEN 0
                                     ELSE Transfer[First(A)].amount + g[A \ {First(A)}]]
  <2>1. \A A \in SUBSET P : u[A] = v[A]
    BY <1>1 DEF PartialSum
  <2>2. u = v
    BY <2>1
  <2> QED
    BY <2>2 DEF IsPartialSums
<1>3. MapThenSumSet(LAMBDA x : Transfer[x].amount, P) = (CHOOSE g : Rec(g))[P]
  BY DEF MapThenSumSet, MapThenFoldSet, First
<1> HIDE DEF Rec
<1>4. IsPartialSums(Amounts, P, CHOOSE g : Rec(g))
  BY <1>2, PartialSumsExist
<1> QED
  BY <1>3, <1>4, SumOverIs

LEMMA DrawnSum ==
  ASSUME NEW L, NEW S, S \subseteq Lines
  PROVE  MapThenSumSet(LAMBDA l : L[l].drawn, S) = SumOver(DrawnOf(L), S)
<1> DEFINE Rec(g) == g = [A \in SUBSET S |-> IF A = {} THEN 0
                                 ELSE L[First(A)].drawn + g[A \ {First(A)}]]
<1>1. \A A \in SUBSET S : A # {} => DrawnOf(L)[First(A)] = L[First(A)].drawn
  BY FirstMember DEF DrawnOf
<1>2. ASSUME NEW g
      PROVE  IsPartialSums(DrawnOf(L), S, g) <=> Rec(g)
  <2> DEFINE u == [A \in SUBSET S |-> PartialSum(DrawnOf(L), g, A)]
             v == [A \in SUBSET S |-> IF A = {} THEN 0
                                     ELSE L[First(A)].drawn + g[A \ {First(A)}]]
  <2>1. \A A \in SUBSET S : u[A] = v[A]
    BY <1>1 DEF PartialSum
  <2>2. u = v
    BY <2>1
  <2> QED
    BY <2>2 DEF IsPartialSums
<1>3. MapThenSumSet(LAMBDA l : L[l].drawn, S) = (CHOOSE g : Rec(g))[S]
  BY DEF MapThenSumSet, MapThenFoldSet, First
<1> HIDE DEF Rec
<1>4. IsFiniteSet(S)
  BY CreditAssumption, FS_Subset
<1>5. IsPartialSums(DrawnOf(L), S, CHOOSE g : Rec(g))
  BY <1>2, <1>4, PartialSumsExist
<1> QED
  BY <1>3, <1>4, <1>5, SumOverIs

LEMMA RepaidSum ==
  ASSUME NEW L, NEW S, S \subseteq Lines
  PROVE  MapThenSumSet(LAMBDA l : L[l].repaid, S) = SumOver(RepaidOf(L), S)
<1> DEFINE Rec(g) == g = [A \in SUBSET S |-> IF A = {} THEN 0
                                 ELSE L[First(A)].repaid + g[A \ {First(A)}]]
<1>1. \A A \in SUBSET S : A # {} => RepaidOf(L)[First(A)] = L[First(A)].repaid
  BY FirstMember DEF RepaidOf
<1>2. ASSUME NEW g
      PROVE  IsPartialSums(RepaidOf(L), S, g) <=> Rec(g)
  <2> DEFINE u == [A \in SUBSET S |-> PartialSum(RepaidOf(L), g, A)]
             v == [A \in SUBSET S |-> IF A = {} THEN 0
                                     ELSE L[First(A)].repaid + g[A \ {First(A)}]]
  <2>1. \A A \in SUBSET S : u[A] = v[A]
    BY <1>1 DEF PartialSum
  <2>2. u = v
    BY <2>1
  <2> QED
    BY <2>2 DEF IsPartialSums
<1>3. MapThenSumSet(LAMBDA l : L[l].repaid, S) = (CHOOSE g : Rec(g))[S]
  BY DEF MapThenSumSet, MapThenFoldSet, First
<1> HIDE DEF Rec
<1>4. IsFiniteSet(S)
  BY CreditAssumption, FS_Subset
<1>5. IsPartialSums(RepaidOf(L), S, CHOOSE g : Rec(g))
  BY <1>2, <1>4, PartialSumsExist
<1> QED
  BY <1>3, <1>4, <1>5, SumOverIs

\* So the property is that the books add up.
LEMMA BooksAreRecords ==
  ASSUME CreditTypeOK, BooksInv
  PROVE  RecordsAddUp
<1>1. ASSUME NEW l \in Lines, NEW kind \in {"draw", "repayment"}
      PROVE  AmountOf(kind, l) = SumOver(Amounts, MovedBy(proven, kind, l))
  <2> DEFINE P == {x \in proven : Transfer[x].kind = kind /\ Transfer[x].line = l}
  <2>1. P \subseteq Transfers /\ IsFiniteSet(P)
    BY FS_Subset DEF BooksInv, CreditTypeOK
  <2> HIDE DEF P
  <2>2. MapThenSumSet(LAMBDA x : Transfer[x].amount, P) = SumOver(Amounts, P)
    BY <2>1, AmountsSum
  <2> USE DEF P
  <2>3. AmountOf(kind, l) = SumOver(Amounts, P)
    BY <2>2 DEF AmountOf
  <2> QED
    BY <2>3 DEF MovedBy
<1>2. ASSUME NEW b
      PROVE  /\ BorrowersLines(b, LAMBDA r : r.status # "none") = OpenedOf(line, b)
             /\ BorrowersLines(b, LAMBDA r : r.status = "repaid") = FullyRepaidOf(line, b)
             /\ BorrowersLines(b, LAMBDA r : r.defaultedAt # 0) = DefaultedOf(line, b)
             /\ BorrowersLines(b, LAMBDA r : TRUE) = LinesOf(b)
  BY DEF BorrowersLines, OpenedOf, FullyRepaidOf, DefaultedOf, LinesOf
<1>3. \A b : LinesOf(b) \subseteq Lines
  BY DEF LinesOf
<1>4. ASSUME NEW b \in Accounts
      PROVE  /\ record[b].linesOpened =
                   Cardinality(BorrowersLines(b, LAMBDA r : r.status # "none"))
             /\ record[b].linesRepaid =
                   Cardinality(BorrowersLines(b, LAMBDA r : r.status = "repaid"))
             /\ record[b].linesDefaulted =
                   Cardinality(BorrowersLines(b, LAMBDA r : r.defaultedAt # 0))
  BY <1>2 DEF BooksInv, AddsUp, RecordAddsUp
<1>5. ASSUME NEW b \in Accounts
      PROVE  /\ record[b].totalDrawn =
                   MapThenSumSet(LAMBDA l : line[l].drawn,
                                 BorrowersLines(b, LAMBDA r : TRUE))
             /\ record[b].totalRepaid =
                   MapThenSumSet(LAMBDA l : line[l].repaid,
                                 BorrowersLines(b, LAMBDA r : TRUE))
  <2> DEFINE S == BorrowersLines(b, LAMBDA r : TRUE)
  <2>1. S \subseteq Lines /\ S = LinesOf(b)
    BY <1>2, <1>3
  <2> HIDE DEF S
  <2>2. MapThenSumSet(LAMBDA l : line[l].drawn, S) = SumOver(DrawnOf(line), S)
    BY <2>1, DrawnSum
  <2>3. MapThenSumSet(LAMBDA l : line[l].repaid, S) = SumOver(RepaidOf(line), S)
    BY <2>1, RepaidSum
  <2>4. /\ record[b].totalDrawn = SumOver(DrawnOf(line), S)
        /\ record[b].totalRepaid = SumOver(RepaidOf(line), S)
    BY <2>1 DEF BooksInv, AddsUp, RecordAddsUp
  <2> QED
    BY <2>2, <2>3, <2>4 DEF S
<1>6. \A l \in Lines : line[l].drawn = AmountOf("draw", l)
                     /\ line[l].repaid = AmountOf("repayment", l)
  BY <1>1 DEF BooksInv, AddsUp, LineAddsUp
<1> QED
  BY <1>4, <1>5, <1>6 DEF RecordsAddUp

-----------------------------------------------------------------------------
(* What a write to one line does to the record of its borrower. *)

\* A line enters a count when it comes to satisfy what is counted.
LEMMA CountGrows ==
  ASSUME NEW S, NEW T, NEW x, IsFiniteSet(S), T \in {S, S \cup {x}}
  PROVE  /\ IsFiniteSet(T)
         /\ Cardinality(T) = Cardinality(S) + (IF x \in T /\ x \notin S THEN 1 ELSE 0)
<1>1. CASE T = S
  BY <1>1, FS_CardinalityType
<1>2. CASE T = S \cup {x}
  BY <1>2, FS_AddElement, FS_CardinalityType
<1> QED
  BY <1>1, <1>2

\* When line l is written, no count or sum of another borrower changes, and
\* those of its own change by what l changes.
LEMMA RecordFollows ==
  ASSUME NEW L \in [Lines -> Line], NEW l \in Lines, NEW n \in Line,
         NEW M, M = [L EXCEPT ![l] = n],
         NEW b, NEW r \in BorrowerRecord, NEW q \in BorrowerRecord,
         b = Terms[l].borrower, RecordAddsUp(b, r, L),
         L[l].status # "none" => n.status # "none",
         L[l].status = "repaid" => n.status = "repaid",
         L[l].defaultedAt # 0 => n.defaultedAt # 0,
         q.linesOpened = r.linesOpened
            + (IF n.status # "none" /\ L[l].status = "none" THEN 1 ELSE 0),
         q.linesRepaid = r.linesRepaid
            + (IF n.status = "repaid" /\ L[l].status # "repaid" THEN 1 ELSE 0),
         q.linesDefaulted = r.linesDefaulted
            + (IF n.defaultedAt # 0 /\ L[l].defaultedAt = 0 THEN 1 ELSE 0),
         q.totalDrawn + L[l].drawn = r.totalDrawn + n.drawn,
         q.totalRepaid + L[l].repaid = r.totalRepaid + n.repaid
  PROVE  RecordAddsUp(b, q, M)
<1>1. \A m \in Lines : M[m] = IF m = l THEN n ELSE L[m]
  OBVIOUS
<1>2. l \in LinesOf(b) /\ LinesOf(b) \subseteq Lines /\ IsFiniteSet(LinesOf(b))
  BY CreditAssumption, FS_Subset DEF LinesOf
<1>3. q.linesOpened = Cardinality(OpenedOf(M, b))
  <2> DEFINE S == OpenedOf(L, b)
             T == OpenedOf(M, b)
  <2>1. IsFiniteSet(S)
    BY <1>2, FS_Subset DEF OpenedOf
  <2>2. T \in {S, S \cup {l}}
    BY <1>1, <1>2 DEF OpenedOf
  <2>3. l \in T /\ l \notin S <=> n.status # "none" /\ L[l].status = "none"
    BY <1>1, <1>2 DEF OpenedOf
  <2> HIDE DEF S, T
  <2>4. Cardinality(T) = Cardinality(S) + (IF l \in T /\ l \notin S THEN 1 ELSE 0)
    BY <2>1, <2>2, CountGrows
  <2> QED
    BY <2>3, <2>4 DEF RecordAddsUp, S, T
<1>4. q.linesRepaid = Cardinality(FullyRepaidOf(M, b))
  <2> DEFINE S == FullyRepaidOf(L, b)
             T == FullyRepaidOf(M, b)
  <2>1. IsFiniteSet(S)
    BY <1>2, FS_Subset DEF FullyRepaidOf
  <2>2. T \in {S, S \cup {l}}
    BY <1>1, <1>2 DEF FullyRepaidOf
  <2>3. l \in T /\ l \notin S <=> n.status = "repaid" /\ L[l].status # "repaid"
    BY <1>1, <1>2 DEF FullyRepaidOf
  <2> HIDE DEF S, T
  <2>4. Cardinality(T) = Cardinality(S) + (IF l \in T /\ l \notin S THEN 1 ELSE 0)
    BY <2>1, <2>2, CountGrows
  <2> QED
    BY <2>3, <2>4 DEF RecordAddsUp, S, T
<1>5. q.linesDefaulted = Cardinality(DefaultedOf(M, b))
  <2> DEFINE S == DefaultedOf(L, b)
             T == DefaultedOf(M, b)
  <2>1. IsFiniteSet(S)
    BY <1>2, FS_Subset DEF DefaultedOf
  <2>2. T \in {S, S \cup {l}}
    BY <1>1, <1>2 DEF DefaultedOf
  <2>3. l \in T /\ l \notin S <=> n.defaultedAt # 0 /\ L[l].defaultedAt = 0
    BY <1>1, <1>2 DEF DefaultedOf
  <2> HIDE DEF S, T
  <2>4. Cardinality(T) = Cardinality(S) + (IF l \in T /\ l \notin S THEN 1 ELSE 0)
    BY <2>1, <2>2, CountGrows
  <2> QED
    BY <2>3, <2>4 DEF RecordAddsUp, S, T
<1>6. /\ \A m \in Lines : L[m].drawn \in Nat /\ M[m].drawn \in Nat
      /\ \A m \in Lines : L[m].repaid \in Nat /\ M[m].repaid \in Nat
  BY <1>1 DEF Line
<1>7. q.totalDrawn = SumOver(DrawnOf(M), LinesOf(b))
  <2> DEFINE S == LinesOf(b)
             F == DrawnOf(L)
             G == DrawnOf(M)
  <2>1. \A m \in S : F[m] \in Nat /\ G[m] \in Nat
    BY <1>2, <1>6 DEF DrawnOf
  <2>2. \A m \in S \ {l} : F[m] = G[m]
    BY <1>1, <1>2 DEF DrawnOf
  <2>3. F[l] = L[l].drawn /\ G[l] = n.drawn
    BY <1>1 DEF DrawnOf
  <2>4. r.totalDrawn = SumOver(F, S) /\ q.totalDrawn \in Nat
    BY DEF RecordAddsUp, BorrowerRecord
  <2>5. q.totalDrawn + F[l] = r.totalDrawn + G[l]
    BY <2>3
  <2>6. IsFiniteSet(S) /\ l \in S
    BY <1>2
  <2> HIDE DEF S, F, G
  <2>7. q.totalDrawn = SumOver(G, S)
    BY <2>1, <2>2, <2>4, <2>5, <2>6, TotalFollows
  <2> QED
    BY <2>7 DEF S, G
<1>8. q.totalRepaid = SumOver(RepaidOf(M), LinesOf(b))
  <2> DEFINE S == LinesOf(b)
             F == RepaidOf(L)
             G == RepaidOf(M)
  <2>1. \A m \in S : F[m] \in Nat /\ G[m] \in Nat
    BY <1>2, <1>6 DEF RepaidOf
  <2>2. \A m \in S \ {l} : F[m] = G[m]
    BY <1>1, <1>2 DEF RepaidOf
  <2>3. F[l] = L[l].repaid /\ G[l] = n.repaid
    BY <1>1 DEF RepaidOf
  <2>4. r.totalRepaid = SumOver(F, S) /\ q.totalRepaid \in Nat
    BY DEF RecordAddsUp, BorrowerRecord
  <2>5. q.totalRepaid + F[l] = r.totalRepaid + G[l]
    BY <2>3
  <2>6. IsFiniteSet(S) /\ l \in S
    BY <1>2
  <2> HIDE DEF S, F, G
  <2>7. q.totalRepaid = SumOver(G, S)
    BY <2>1, <2>2, <2>4, <2>5, <2>6, TotalFollows
  <2> QED
    BY <2>7 DEF S, G
<1> QED
  BY <1>3, <1>4, <1>5, <1>7, <1>8 DEF RecordAddsUp

LEMMA OthersFollow ==
  ASSUME NEW L \in [Lines -> Line], NEW l \in Lines, NEW n \in Line,
         NEW M, M = [L EXCEPT ![l] = n],
         NEW b, b # Terms[l].borrower, NEW r, RecordAddsUp(b, r, L)
  PROVE  RecordAddsUp(b, r, M)
<1>1. LinesOf(b) \subseteq Lines /\ l \notin LinesOf(b) /\ IsFiniteSet(LinesOf(b))
  BY CreditAssumption, FS_Subset DEF LinesOf
<1>2. \A m \in LinesOf(b) : M[m] = L[m]
  BY <1>1
<1>3. /\ OpenedOf(M, b) = OpenedOf(L, b) /\ DefaultedOf(M, b) = DefaultedOf(L, b)
      /\ FullyRepaidOf(M, b) = FullyRepaidOf(L, b)
  BY <1>2 DEF OpenedOf, FullyRepaidOf, DefaultedOf
<1>4. /\ SumOver(DrawnOf(M), LinesOf(b)) = SumOver(DrawnOf(L), LinesOf(b))
      /\ SumOver(RepaidOf(M), LinesOf(b)) = SumOver(RepaidOf(L), LinesOf(b))
  <2>1. \A m \in LinesOf(b) : DrawnOf(M)[m] = DrawnOf(L)[m]
    BY <1>1, <1>2 DEF DrawnOf
  <2>2. \A m \in LinesOf(b) : RepaidOf(M)[m] = RepaidOf(L)[m]
    BY <1>1, <1>2 DEF RepaidOf
  <2>3. SumOver(DrawnOf(M), LinesOf(b)) = SumOver(DrawnOf(L), LinesOf(b))
    BY <1>1, <2>1, SumOverEqual
  <2>4. SumOver(RepaidOf(M), LinesOf(b)) = SumOver(RepaidOf(L), LinesOf(b))
    BY <1>1, <2>2, SumOverEqual
  <2> QED
    BY <2>3, <2>4
<1> QED
  BY <1>3, <1>4 DEF RecordAddsUp

-----------------------------------------------------------------------------
(* Every call keeps the books. *)

\* A transfer proven for the first time is added to its own line's sums.
LEMMA TransferCounted ==
  ASSUME NEW P, P \subseteq Transfers, IsFiniteSet(P), NEW x \in Transfers, x \notin P,
         NEW kind \in {"draw", "repayment"}, NEW l \in Lines
  PROVE  SumOver(Amounts, MovedBy(P \cup {x}, kind, l)) =
            SumOver(Amounts, MovedBy(P, kind, l))
              + (IF Transfer[x].kind = kind /\ Transfer[x].line = l
                 THEN Transfer[x].amount ELSE 0)
<1> DEFINE S == MovedBy(P, kind, l)
           T == MovedBy(P \cup {x}, kind, l)
<1>1. S \subseteq Transfers /\ IsFiniteSet(S) /\ x \notin S
  BY FS_Subset DEF MovedBy
<1>2. \A y \in Transfers : Amounts[y] \in Nat
  BY TransferFields DEF Amounts
<1>3. CASE Transfer[x].kind = kind /\ Transfer[x].line = l
  <2>1. T = S \cup {x}
    BY <1>3 DEF MovedBy
  <2>2. \A y \in S \cup {x} : Amounts[y] \in Nat
    BY <1>1, <1>2
  <2>3. Amounts[x] = Transfer[x].amount
    BY DEF Amounts
  <2> HIDE DEF S, T
  <2>4. SumOver(Amounts, S \cup {x}) = SumOver(Amounts, S) + Amounts[x]
    BY <1>1, <2>2, SumOverAdds
  <2> QED
    BY <1>3, <2>1, <2>3, <2>4 DEF S, T
<1>4. CASE ~(Transfer[x].kind = kind /\ Transfer[x].line = l)
  <2>1. T = S
    BY <1>4 DEF MovedBy
  <2>2. \A y \in S : Amounts[y] \in Nat
    BY <1>1, <1>2
  <2> HIDE DEF S, T
  <2>3. SumOver(Amounts, S) \in Nat
    BY <1>1, <2>2, SumOverNat
  <2> QED
    BY <1>4, <2>1, <2>3 DEF S, T
<1> QED
  BY <1>3, <1>4

\* So a call that writes a line and its borrower's record as RecordFollows has
\* it, and the line's sums as the new proven set has them, keeps the books.
LEMMA BooksFollow ==
  ASSUME CreditTypeOK, BooksInv, NEW l \in Lines, NEW n \in Line,
         NEW q \in BorrowerRecord,
         line' = [line EXCEPT ![l] = n],
         record' = [record EXCEPT ![Terms[l].borrower] = q],
         RecordAddsUp(Terms[l].borrower, q, [line EXCEPT ![l] = n]),
         IsFiniteSet(proven'),
         \A m \in Lines : LineAddsUp(m, [line EXCEPT ![l] = n][m], proven')
  PROVE  BooksInv'
<1> DEFINE M == [line EXCEPT ![l] = n]
           b == Terms[l].borrower
<1>1. b \in Accounts
  BY TermsFields
<1>2. line \in [Lines -> Line] /\ record \in [Accounts -> BorrowerRecord]
  BY DEF CreditTypeOK
<1>3. ASSUME NEW c \in Accounts
      PROVE  RecordAddsUp(c, record'[c], M)
  <2>1. CASE c = b
    BY <1>1, <1>2, <2>1
  <2>2. CASE c # b
    <3>1. RecordAddsUp(c, record[c], line)
      BY DEF BooksInv, AddsUp
    <3>2. record'[c] = record[c]
      BY <1>2, <2>2
    <3> QED
      BY <1>2, <2>2, <3>1, <3>2, OthersFollow
  <2> QED
    BY <2>1, <2>2
<1>4. \A m \in Lines : LineAddsUp(m, line'[m], proven')
  OBVIOUS
<1>5. \A c \in Accounts : RecordAddsUp(c, record'[c], line')
  BY <1>3
<1>6. AddsUp(line', record', proven')
  BY <1>4, <1>5 DEF AddsUp
<1>7. AddsUp(line, record, proven)'
  BY <1>6 DEF AddsUp, LineAddsUp, RecordAddsUp, DrawnOf, RepaidOf, OpenedOf,
              FullyRepaidOf, DefaultedOf, LinesOf, MovedBy, Amounts
<1> QED
  BY <1>7 DEF BooksInv

\* Where nothing is proven, only what a line has drawn and repaid matters.
LEMMA SameSums ==
  ASSUME CreditTypeOK, BooksInv, NEW l \in Lines, NEW n,
         n.drawn = line[l].drawn, n.repaid = line[l].repaid, UNCHANGED proven
  PROVE  /\ IsFiniteSet(proven')
         /\ \A m \in Lines : LineAddsUp(m, [line EXCEPT ![l] = n][m], proven')
<1>1. \A m \in Lines : LineAddsUp(m, line[m], proven)
  BY DEF BooksInv, AddsUp
<1>2. ASSUME NEW m \in Lines
      PROVE  LineAddsUp(m, [line EXCEPT ![l] = n][m], proven)
  BY <1>1 DEF LineAddsUp, CreditTypeOK
<1> QED
  BY <1>2 DEF BooksInv

LEMMA OpenLineBooks ==
  ASSUME CreditTypeOK, BooksInv, NEW l \in Lines, OpenLine(l)
  PROVE  BooksInv'
<1> DEFINE n == [line[l] EXCEPT !.status = "open"]
           b == Terms[l].borrower
           r == record[b]
           q == [r EXCEPT !.linesOpened = @ + 1]
<1>1. /\ line \in [Lines -> Line] /\ record \in [Accounts -> BorrowerRecord]
      /\ b \in Accounts /\ r \in BorrowerRecord /\ line[l] \in Line
  BY TermsFields DEF CreditTypeOK
<1>2. /\ line[l].status = "none" /\ line' = [line EXCEPT ![l] = n]
      /\ record' = [record EXCEPT ![b] = q] /\ UNCHANGED proven
  BY <1>1 DEF OpenLine
<1>3. /\ n \in Line /\ n.status = "open" /\ n.drawn = line[l].drawn
      /\ n.repaid = line[l].repaid /\ n.defaultedAt = line[l].defaultedAt
  BY <1>1 DEF Line, LineStatuses
<1> HIDE DEF r
<1>4. /\ q \in BorrowerRecord /\ q.linesOpened = r.linesOpened + 1
      /\ q.linesRepaid = r.linesRepaid + 0 /\ q.linesDefaulted = r.linesDefaulted + 0
      /\ q.totalDrawn = r.totalDrawn /\ q.totalRepaid = r.totalRepaid
  BY <1>1 DEF BorrowerRecord
<1> HIDE DEF n, q
<1>5. RecordAddsUp(b, r, line)
  BY <1>1 DEF BooksInv, AddsUp, r
<1> HIDE DEF b
<1>6. RecordAddsUp(b, q, [line EXCEPT ![l] = n])
  <2>1. b = Terms[l].borrower
    BY DEF b
  <2>2. /\ line[l].status # "none" => n.status # "none"
        /\ line[l].status = "repaid" => n.status = "repaid"
        /\ line[l].defaultedAt # 0 => n.defaultedAt # 0
    BY <1>2, <1>3
  <2>3. /\ q.linesOpened = r.linesOpened
              + (IF n.status # "none" /\ line[l].status = "none" THEN 1 ELSE 0)
        /\ q.linesRepaid = r.linesRepaid
              + (IF n.status = "repaid" /\ line[l].status # "repaid" THEN 1 ELSE 0)
        /\ q.linesDefaulted = r.linesDefaulted
              + (IF n.defaultedAt # 0 /\ line[l].defaultedAt = 0 THEN 1 ELSE 0)
    BY <1>2, <1>3, <1>4
  <2>4. /\ q.totalDrawn + line[l].drawn = r.totalDrawn + n.drawn
        /\ q.totalRepaid + line[l].repaid = r.totalRepaid + n.repaid
    BY <1>3, <1>4
  <2> QED
    BY <1>1, <1>3, <1>4, <1>5, <2>1, <2>2, <2>3, <2>4, RecordFollows
<1> QED
  BY <1>1, <1>2, <1>3, <1>4, <1>6, SameSums, BooksFollow DEF b

LEMMA MarkDefaultedBooks ==
  ASSUME CreditInv, BooksInv, NEW l \in Lines, MarkDefaulted(l)
  PROVE  BooksInv'
<1> DEFINE n == [line[l] EXCEPT !.status = "defaulted", !.defaultedAt = now]
           b == Terms[l].borrower
           r == record[b]
           q == [r EXCEPT !.linesDefaulted = @ + 1]
<1>1. /\ CreditTypeOK
      /\ line \in [Lines -> Line] /\ record \in [Accounts -> BorrowerRecord]
      /\ b \in Accounts /\ r \in BorrowerRecord /\ line[l] \in Line
      /\ now \in Nat /\ now # 0
  BY TermsFields, CreditAssumption DEF CreditInv, CreditTypeOK
<1>2. /\ line[l].status = "active" /\ line[l].defaultedAt = 0
      /\ line' = [line EXCEPT ![l] = n]
      /\ record' = [record EXCEPT ![b] = q] /\ UNCHANGED proven
  BY <1>1 DEF MarkDefaulted, CreditInv, LineInv, DefaultOnRecord
<1>3. /\ n \in Line /\ n.status = "defaulted" /\ n.drawn = line[l].drawn
      /\ n.repaid = line[l].repaid /\ n.defaultedAt # 0
  BY <1>1 DEF Line, LineStatuses
<1> HIDE DEF r
<1>4. /\ q \in BorrowerRecord /\ q.linesOpened = r.linesOpened + 0
      /\ q.linesRepaid = r.linesRepaid + 0 /\ q.linesDefaulted = r.linesDefaulted + 1
      /\ q.totalDrawn = r.totalDrawn /\ q.totalRepaid = r.totalRepaid
  BY <1>1 DEF BorrowerRecord
<1> HIDE DEF n, q
<1>5. RecordAddsUp(b, r, line)
  BY <1>1 DEF BooksInv, AddsUp, r
<1> HIDE DEF b
<1>6. RecordAddsUp(b, q, [line EXCEPT ![l] = n])
  <2>1. b = Terms[l].borrower
    BY DEF b
  <2>2. /\ line[l].status # "none" => n.status # "none"
        /\ line[l].status = "repaid" => n.status = "repaid"
        /\ line[l].defaultedAt # 0 => n.defaultedAt # 0
    BY <1>2, <1>3
  <2>3. /\ q.linesOpened = r.linesOpened
              + (IF n.status # "none" /\ line[l].status = "none" THEN 1 ELSE 0)
        /\ q.linesRepaid = r.linesRepaid
              + (IF n.status = "repaid" /\ line[l].status # "repaid" THEN 1 ELSE 0)
        /\ q.linesDefaulted = r.linesDefaulted
              + (IF n.defaultedAt # 0 /\ line[l].defaultedAt = 0 THEN 1 ELSE 0)
    BY <1>2, <1>3, <1>4
  <2>4. /\ q.totalDrawn + line[l].drawn = r.totalDrawn + n.drawn
        /\ q.totalRepaid + line[l].repaid = r.totalRepaid + n.repaid
    BY <1>1, <1>3, <1>4
  <2> QED
    BY <1>1, <1>3, <1>4, <1>5, <2>1, <2>2, <2>3, <2>4, RecordFollows
<1> QED
  BY <1>1, <1>2, <1>3, <1>4, <1>6, SameSums, BooksFollow DEF b

LEMMA CloseUnusedBooks ==
  ASSUME CreditTypeOK, BooksInv, NEW l \in Lines, CloseUnused(l)
  PROVE  BooksInv'
<1> DEFINE n == [line[l] EXCEPT !.status = "closed"]
           b == Terms[l].borrower
           r == record[b]
           q == r
<1>1. /\ line \in [Lines -> Line] /\ record \in [Accounts -> BorrowerRecord]
      /\ b \in Accounts /\ r \in BorrowerRecord /\ line[l] \in Line
  BY TermsFields DEF CreditTypeOK
<1>2. /\ line[l].status = "open" /\ line' = [line EXCEPT ![l] = n]
      /\ record' = [record EXCEPT ![b] = q] /\ UNCHANGED proven
  BY <1>1 DEF CloseUnused
<1>3. /\ n \in Line /\ n.status = "closed" /\ n.drawn = line[l].drawn
      /\ n.repaid = line[l].repaid /\ n.defaultedAt = line[l].defaultedAt
  BY <1>1 DEF Line, LineStatuses
<1> HIDE DEF r
<1>4. /\ q \in BorrowerRecord /\ q.linesOpened = r.linesOpened + 0
      /\ q.linesRepaid = r.linesRepaid + 0 /\ q.linesDefaulted = r.linesDefaulted + 0
      /\ q.totalDrawn = r.totalDrawn /\ q.totalRepaid = r.totalRepaid
  BY <1>1 DEF BorrowerRecord
<1> HIDE DEF n, q
<1>5. RecordAddsUp(b, r, line)
  BY <1>1 DEF BooksInv, AddsUp, r
<1> HIDE DEF b
<1>6. RecordAddsUp(b, q, [line EXCEPT ![l] = n])
  <2>1. b = Terms[l].borrower
    BY DEF b
  <2>2. /\ line[l].status # "none" => n.status # "none"
        /\ line[l].status = "repaid" => n.status = "repaid"
        /\ line[l].defaultedAt # 0 => n.defaultedAt # 0
    BY <1>2, <1>3
  <2>3. /\ q.linesOpened = r.linesOpened
              + (IF n.status # "none" /\ line[l].status = "none" THEN 1 ELSE 0)
        /\ q.linesRepaid = r.linesRepaid
              + (IF n.status = "repaid" /\ line[l].status # "repaid" THEN 1 ELSE 0)
        /\ q.linesDefaulted = r.linesDefaulted
              + (IF n.defaultedAt # 0 /\ line[l].defaultedAt = 0 THEN 1 ELSE 0)
    BY <1>2, <1>3, <1>4
  <2>4. /\ q.totalDrawn + line[l].drawn = r.totalDrawn + n.drawn
        /\ q.totalRepaid + line[l].repaid = r.totalRepaid + n.repaid
    BY <1>1, <1>3, <1>4
  <2> QED
    BY <1>1, <1>3, <1>4, <1>5, <2>1, <2>2, <2>3, <2>4, RecordFollows
<1> QED
  BY <1>1, <1>2, <1>3, <1>4, <1>6, SameSums, BooksFollow DEF b

\* The sums of the lines follow a transfer x proven for the first time.
LEMMA SumsFollow ==
  ASSUME CreditTypeOK, BooksInv, NEW x \in Transfers, x \notin proven,
         NEW l \in Lines, l = Transfer[x].line, NEW n,
         n.drawn = line[l].drawn
            + (IF Transfer[x].kind = "draw" THEN Transfer[x].amount ELSE 0),
         n.repaid = line[l].repaid
            + (IF Transfer[x].kind = "repayment" THEN Transfer[x].amount ELSE 0),
         proven' = proven \cup {x}
  PROVE  /\ IsFiniteSet(proven')
         /\ \A m \in Lines : LineAddsUp(m, [line EXCEPT ![l] = n][m], proven')
<1>1. proven \subseteq Transfers /\ IsFiniteSet(proven) /\ IsFiniteSet(proven')
  BY FS_AddElement DEF CreditTypeOK, BooksInv
<1>2. ASSUME NEW m \in Lines
      PROVE  LineAddsUp(m, [line EXCEPT ![l] = n][m], proven \cup {x})
  <2> DEFINE a == Transfer[x].amount
             k == Transfer[x].kind
             d == SumOver(Amounts, MovedBy(proven, "draw", m))
             p == SumOver(Amounts, MovedBy(proven, "repayment", m))
  <2>1. line[m].drawn = d /\ line[m].repaid = p /\ line[m] \in Line
    BY DEF BooksInv, AddsUp, LineAddsUp, CreditTypeOK
  <2>2. d \in Nat /\ p \in Nat
    BY <2>1 DEF Line
  <2>3. SumOver(Amounts, MovedBy(proven \cup {x}, "draw", m)) =
           d + (IF k = "draw" /\ l = m THEN a ELSE 0)
    BY <1>1, TransferCounted
  <2>4. SumOver(Amounts, MovedBy(proven \cup {x}, "repayment", m)) =
           p + (IF k = "repayment" /\ l = m THEN a ELSE 0)
    BY <1>1, TransferCounted
  <2>5. [line EXCEPT ![l] = n][m] = IF m = l THEN n ELSE line[m]
    BY DEF CreditTypeOK
  <2> HIDE DEF a, k, d, p
  <2>6. /\ [line EXCEPT ![l] = n][m].drawn = d + (IF k = "draw" /\ l = m THEN a ELSE 0)
        /\ [line EXCEPT ![l] = n][m].repaid =
              p + (IF k = "repayment" /\ l = m THEN a ELSE 0)
    <3>1. CASE m = l
      BY <2>1, <2>5, <3>1 DEF a, k
    <3>2. CASE m # l
      BY <2>1, <2>2, <2>5, <3>2
    <3> QED
      BY <3>1, <3>2
  <2> QED
    BY <2>3, <2>4, <2>6 DEF LineAddsUp
<1> QED
  BY <1>1, <1>2

LEMMA ProveDrawBooks ==
  ASSUME CreditInv, BooksInv, NEW x \in Transfers, ProveDraw(x)
  PROVE  BooksInv'
<1> DEFINE l == Transfer[x].line
           a == Transfer[x].amount
           n == [line[l] EXCEPT !.drawn = @ + a, !.status = "active"]
           b == Terms[l].borrower
           r == record[b]
           q == [r EXCEPT !.totalDrawn = @ + a]
<1>1. /\ CreditTypeOK /\ l \in Lines /\ a \in Nat
      /\ line \in [Lines -> Line] /\ record \in [Accounts -> BorrowerRecord]
      /\ b \in Accounts /\ r \in BorrowerRecord /\ line[l] \in Line
  BY TermsFields, TransferFields DEF CreditInv, CreditTypeOK
<1>2. /\ line[l].status \in {"open", "active"}
      /\ line' = [line EXCEPT ![l] = n]
      /\ record' = [record EXCEPT ![b] = q] /\ proven' = proven \cup {x}
      /\ x \notin proven /\ Transfer[x].kind = "draw"
  BY <1>1 DEF ProveDraw, Provable, Drawable
<1>3. /\ n \in Line /\ n.status = "active" /\ n.drawn = line[l].drawn + a
      /\ n.repaid = line[l].repaid /\ n.defaultedAt = line[l].defaultedAt
  <2>1. line[l].drawn + a \in Nat
    BY <1>1 DEF Line
  <2> HIDE DEF a, l
  <2> QED
    BY <1>1, <2>1 DEF Line, LineStatuses
<1> HIDE DEF r
<1>4. /\ q \in BorrowerRecord /\ q.linesOpened = r.linesOpened + 0
      /\ q.linesRepaid = r.linesRepaid + 0 /\ q.linesDefaulted = r.linesDefaulted + 0
      /\ q.totalDrawn = r.totalDrawn + a /\ q.totalRepaid = r.totalRepaid
  <2>1. r.totalDrawn + a \in Nat
    BY <1>1 DEF BorrowerRecord
  <2> HIDE DEF a
  <2> QED
    BY <1>1, <2>1 DEF BorrowerRecord
<1> HIDE DEF n, q
<1>5. RecordAddsUp(b, r, line)
  BY <1>1 DEF BooksInv, AddsUp, r
<1>6. /\ IsFiniteSet(proven')
      /\ \A m \in Lines : LineAddsUp(m, [line EXCEPT ![l] = n][m], proven')
  <2>1. n.repaid = line[l].repaid + 0
    BY <1>1, <1>3 DEF Line
  <2> QED
    BY <1>1, <1>2, <1>3, <2>1, SumsFollow
<1> HIDE DEF b, l, a
<1>7. RecordAddsUp(b, q, [line EXCEPT ![l] = n])
  <2>1. b = Terms[l].borrower
    BY DEF b
  <2>2. /\ line[l].status # "none" => n.status # "none"
        /\ line[l].status = "repaid" => n.status = "repaid"
        /\ line[l].defaultedAt # 0 => n.defaultedAt # 0
    BY <1>2, <1>3
  <2>3. /\ q.linesOpened = r.linesOpened
              + (IF n.status # "none" /\ line[l].status = "none" THEN 1 ELSE 0)
        /\ q.linesRepaid = r.linesRepaid
              + (IF n.status = "repaid" /\ line[l].status # "repaid" THEN 1 ELSE 0)
        /\ q.linesDefaulted = r.linesDefaulted
              + (IF n.defaultedAt # 0 /\ line[l].defaultedAt = 0 THEN 1 ELSE 0)
    BY <1>2, <1>3, <1>4
  <2>4. /\ q.totalDrawn + line[l].drawn = r.totalDrawn + n.drawn
        /\ q.totalRepaid + line[l].repaid = r.totalRepaid + n.repaid
    BY <1>1, <1>3, <1>4 DEF Line, BorrowerRecord
  <2> QED
    BY <1>1, <1>3, <1>4, <1>5, <2>1, <2>2, <2>3, <2>4, RecordFollows
<1> QED
  BY <1>1, <1>2, <1>3, <1>4, <1>6, <1>7, BooksFollow DEF b

LEMMA ProveRepaymentBooks ==
  ASSUME CreditInv, BooksInv, NEW x \in Transfers, ProveRepayment(x)
  PROVE  BooksInv'
<1> DEFINE l == Transfer[x].line
           a == Transfer[x].amount
           full == InFull(l, line[l].repaid + a)
           n == [line[l] EXCEPT !.repaid = line[l].repaid + a,
                                !.status = IF full THEN "repaid" ELSE @]
           b == Terms[l].borrower
           r == record[b]
           q == [r EXCEPT !.totalRepaid = @ + a,
                          !.linesRepaid = IF full THEN @ + 1 ELSE @]
<1>1. /\ CreditTypeOK /\ l \in Lines /\ a \in Nat
      /\ line \in [Lines -> Line] /\ record \in [Accounts -> BorrowerRecord]
      /\ b \in Accounts /\ r \in BorrowerRecord /\ line[l] \in Line
  BY TermsFields, TransferFields DEF CreditInv, CreditTypeOK
<1>2. /\ line[l].status \in {"active", "defaulted"}
      /\ line' = [line EXCEPT ![l] = n]
      /\ record' = [record EXCEPT ![b] = q] /\ proven' = proven \cup {x}
      /\ x \notin proven /\ Transfer[x].kind = "repayment"
  BY <1>1 DEF ProveRepayment, Provable
<1> HIDE DEF full
<1>3. /\ n \in Line /\ n.status = (IF full THEN "repaid" ELSE line[l].status)
      /\ n.drawn = line[l].drawn
      /\ n.repaid = line[l].repaid + a /\ n.defaultedAt = line[l].defaultedAt
  <2>1. line[l].repaid + a \in Nat
    BY <1>1 DEF Line
  <2> HIDE DEF a, l
  <2> QED
    BY <1>1, <2>1 DEF Line, LineStatuses
<1> HIDE DEF r
<1>4. /\ q \in BorrowerRecord /\ q.linesOpened = r.linesOpened + 0
      /\ q.linesRepaid = r.linesRepaid + (IF full THEN 1 ELSE 0)
      /\ q.linesDefaulted = r.linesDefaulted + 0
      /\ q.totalDrawn = r.totalDrawn /\ q.totalRepaid = r.totalRepaid + a
  <2> DEFINE paid == r.totalRepaid + a
             repaid == IF full THEN r.linesRepaid + 1 ELSE r.linesRepaid
  <2>1. paid \in Nat /\ repaid \in Nat /\ repaid = r.linesRepaid + (IF full THEN 1 ELSE 0)
    BY <1>1 DEF BorrowerRecord
  <2>2. q = [r EXCEPT !.totalRepaid = paid, !.linesRepaid = repaid]
    BY <1>1 DEF BorrowerRecord
  <2>3. paid = r.totalRepaid + a
    OBVIOUS
  <2> HIDE DEF paid, repaid, q, a
  <2>4. q \in BorrowerRecord
    BY <1>1, <2>1, <2>2 DEF BorrowerRecord
  <2>5. /\ q.linesOpened = r.linesOpened /\ q.linesDefaulted = r.linesDefaulted
        /\ q.totalDrawn = r.totalDrawn /\ q.totalRepaid = paid /\ q.linesRepaid = repaid
    BY <1>1, <2>2 DEF BorrowerRecord
  <2>6. r.linesOpened \in Nat /\ r.linesDefaulted \in Nat
    BY <1>1 DEF BorrowerRecord
  <2> QED
    BY <2>1, <2>3, <2>4, <2>5, <2>6
<1> HIDE DEF n, q
<1>5. RecordAddsUp(b, r, line)
  BY <1>1 DEF BooksInv, AddsUp, r
<1>6. /\ IsFiniteSet(proven')
      /\ \A m \in Lines : LineAddsUp(m, [line EXCEPT ![l] = n][m], proven')
  <2>1. n.drawn = line[l].drawn + 0
    BY <1>1, <1>3 DEF Line
  <2> QED
    BY <1>1, <1>2, <1>3, <2>1, SumsFollow
<1> HIDE DEF b, l, a
<1>7. RecordAddsUp(b, q, [line EXCEPT ![l] = n])
  <2>1. b = Terms[l].borrower
    BY DEF b
  <2>2. /\ line[l].status # "none" => n.status # "none"
        /\ line[l].status = "repaid" => n.status = "repaid"
        /\ line[l].defaultedAt # 0 => n.defaultedAt # 0
    BY <1>2, <1>3
  <2>3. /\ q.linesOpened = r.linesOpened
              + (IF n.status # "none" /\ line[l].status = "none" THEN 1 ELSE 0)
        /\ q.linesRepaid = r.linesRepaid
              + (IF n.status = "repaid" /\ line[l].status # "repaid" THEN 1 ELSE 0)
        /\ q.linesDefaulted = r.linesDefaulted
              + (IF n.defaultedAt # 0 /\ line[l].defaultedAt = 0 THEN 1 ELSE 0)
    BY <1>2, <1>3, <1>4
  <2>4. /\ q.totalDrawn + line[l].drawn = r.totalDrawn + n.drawn
        /\ q.totalRepaid + line[l].repaid = r.totalRepaid + n.repaid
    BY <1>1, <1>3, <1>4 DEF Line, BorrowerRecord
  <2> QED
    BY <1>1, <1>3, <1>4, <1>5, <2>1, <2>2, <2>3, <2>4, RecordFollows
<1> QED
  BY <1>1, <1>2, <1>3, <1>4, <1>6, <1>7, BooksFollow DEF b

LEMMA BooksStep ==
  ASSUME CreditInv, BooksInv, [Next]_vars
  PROVE  BooksInv'
<1>1. CASE UNCHANGED <<line, record, proven>>
  BY <1>1 DEF BooksInv, AddsUp, LineAddsUp, RecordAddsUp, DrawnOf, RepaidOf, OpenedOf,
              FullyRepaidOf, DefaultedOf, LinesOf, MovedBy, Amounts
<1>2. CASE UNCHANGED creditVars
  BY <1>1, <1>2 DEF creditVars
<1>3. CASE CreditNext
  <2>1. CreditTypeOK
    BY DEF CreditInv
  <2>2. ASSUME NEW x \in Transfers, AnchorTransfer(x)
        PROVE  BooksInv'
    BY <1>1, <2>2 DEF AnchorTransfer
  <2>3. CASE Tick
    BY <1>1, <2>3 DEF Tick
  <2> QED
    BY <1>3, <2>1, <2>2, <2>3, OpenLineBooks, MarkDefaultedBooks, CloseUnusedBooks,
       ProveDrawBooks, ProveRepaymentBooks DEF CreditNext
<1> QED
  BY <1>2, <1>3, BondSteps DEF Next, vars

LEMMA BooksInit == CreditInit => BooksInv
<1> SUFFICES ASSUME CreditInit PROVE BooksInv
  OBVIOUS
<1>1. /\ line = [l \in Lines |-> NoLine] /\ proven = {}
      /\ record = [a \in Accounts |-> NoRecord]
  BY DEF CreditInit
<1>2. \A k, l : MovedBy({}, k, l) = {}
  BY DEF MovedBy
<1>3. \A l \in Lines : LineAddsUp(l, line[l], proven)
  BY <1>1, <1>2, SumOverNothing DEF LineAddsUp, NoLine
<1>4. ASSUME NEW b \in Accounts
      PROVE  RecordAddsUp(b, record[b], line)
  <2>1. LinesOf(b) \subseteq Lines /\ IsFiniteSet(LinesOf(b))
    BY CreditAssumption, FS_Subset DEF LinesOf
  <2>2. /\ OpenedOf(line, b) = {} /\ FullyRepaidOf(line, b) = {}
        /\ DefaultedOf(line, b) = {}
    BY <1>1, <2>1 DEF OpenedOf, FullyRepaidOf, DefaultedOf, NoLine
  <2>3. \A l \in LinesOf(b) : DrawnOf(line)[l] = 0 /\ RepaidOf(line)[l] = 0
    BY <1>1, <2>1 DEF DrawnOf, RepaidOf, NoLine
  <2>4. SumOver(DrawnOf(line), LinesOf(b)) = 0
    BY <2>1, <2>3, SumOverZero
  <2>5. SumOver(RepaidOf(line), LinesOf(b)) = 0
    BY <2>1, <2>3, SumOverZero
  <2> QED
    BY <1>1, <2>2, <2>4, <2>5, FS_EmptySet DEF RecordAddsUp, NoRecord
<1> QED
  BY <1>1, <1>3, <1>4, FS_EmptySet DEF BooksInv, AddsUp

-----------------------------------------------------------------------------
(* Bonds.  The recursion of slash is over the position in the list of        *)
(* guarantors; what it computes is known by its equations, and a least       *)
(* position refutes nothing of it.                                           *)

BondRecord == [amount : Nat, unbondRequestedAt : 0..MaxTime]

AmountsIn(B) == [g \in Guarantors |-> B[g].amount]

BondsInv ==
    /\ bonds \in [Borrowers -> [Guarantors -> BondRecord]]
    /\ guarantors \in [Borrowers -> Seq(Guarantors)]
    /\ totalBonded \in [Borrowers -> Nat]
    /\ slashedForLine \in [Lines -> Nat]
    /\ held = SumOver(totalBonded, Borrowers)
    /\ \A b \in Borrowers :
          /\ totalBonded[b] = SumOver(AmountsIn(bonds[b]), Guarantors)
          /\ \A g \in Guarantors : bonds[b][g].amount > 0 => g \in Range(guarantors[b])
          /\ IsInjective(guarantors[b])

LEMMA BorrowersFinite ==
  IsFiniteSet(Borrowers) /\ \A l \in Lines : Terms[l].borrower \in Borrowers
<1> DEFINE f == [l \in Lines |-> Terms[l].borrower]
<1>1. f \in Surjection(Lines, Borrowers)
  BY DEF Surjection, Borrowers
<1> QED
  BY <1>1, CreditAssumption, FS_Surjection DEF Borrowers

\* left is what remains of `due` after each of n payers with amounts a.
Remaining(left, due, n, a) ==
    left = [i \in 0..n |-> IF i = 0 THEN due ELSE left[i-1] - Lesser(left[i-1], a[i])]

LEMMA RemainingExists ==
  ASSUME NEW due, NEW n \in Nat, NEW a
  PROVE  \E left : Remaining(left, due, n, a)
<1> DEFINE Bad == {k \in Nat : ~ \E left : Remaining(left, due, k, a)}
<1>1. SUFFICES ASSUME Bad # {} PROVE FALSE
  OBVIOUS
<1>2. PICK k \in Bad : \A m \in Bad : k <= m
  BY <1>1, LeastNat
<1>3. CASE k = 0
  <2> DEFINE f == [i \in 0..0 |-> due]
  <2>1. f = [i \in 0..0 |-> IF i = 0 THEN due ELSE f[i-1] - Lesser(f[i-1], a[i])]
    OBVIOUS
  <2> QED
    BY <1>2, <1>3, <2>1 DEF Remaining
<1>4. CASE k # 0
  <2>1. k \in Nat /\ k - 1 \in Nat /\ k - 1 \notin Bad
    BY <1>2, <1>4
  <2>2. PICK f : Remaining(f, due, k - 1, a)
    BY <2>1
  <2> DEFINE last == f[k-1] - Lesser(f[k-1], a[k])
             h == [i \in 0..k |-> IF i = k THEN last ELSE f[i]]
  <2>3. \A i \in 0..k-1 : h[i] = f[i]
    BY <2>1
  <2>4. ASSUME NEW i \in 0..k
        PROVE  h[i] = IF i = 0 THEN due ELSE h[i-1] - Lesser(h[i-1], a[i])
    <3>1. CASE i = k
      BY <1>4, <2>1, <2>3, <3>1
    <3>2. CASE i # k
      <4>1. i \in 0..k-1 /\ (i # 0 => i - 1 \in 0..k-1)
        BY <2>1, <3>2
      <4>2. f[i] = IF i = 0 THEN due ELSE f[i-1] - Lesser(f[i-1], a[i])
        BY <2>2, <4>1 DEF Remaining
      <4> QED
        BY <2>3, <4>1, <4>2
    <3> QED
      BY <3>1, <3>2
  <2>5. Remaining(h, due, k, a)
    BY <2>4 DEF Remaining
  <2> QED
    BY <1>2, <2>5
<1> QED
  BY <1>3, <1>4

\* Each payer pays at most what he has, and what remains is a natural number.
LEMMA RemainingFacts ==
  ASSUME NEW due \in Nat, NEW n \in Nat, NEW a, \A i \in 1..n : a[i] \in Nat,
         NEW left, Remaining(left, due, n, a)
  PROVE  /\ left[0] = due
         /\ \A i \in 0..n : left[i] \in Nat
         /\ \A i \in 1..n : left[i-1] - left[i] \in 0..a[i]
         /\ left[n] > 0 => \A i \in 1..n : left[i-1] - left[i] = a[i]
<1>1. \A i \in 0..n : left[i] = IF i = 0 THEN due ELSE left[i-1] - Lesser(left[i-1], a[i])
  BY DEF Remaining
<1>2. \A i \in 0..n : left[i] \in Nat
  <2> DEFINE Bad == {k \in 0..n : left[k] \notin Nat}
  <2>1. SUFFICES ASSUME Bad # {} PROVE FALSE
    OBVIOUS
  <2>2. PICK k \in Bad : \A m \in Bad : k <= m
    <3>1. Bad \subseteq Nat
      OBVIOUS
    <3> HIDE DEF Bad
    <3> QED
      BY <2>1, <3>1, LeastNat
  <2>3. k # 0
    BY <1>1, <2>2
  <2>4. k - 1 \in 0..n /\ left[k-1] \in Nat
    BY <2>2, <2>3
  <2>5. left[k] = left[k-1] - Lesser(left[k-1], a[k]) /\ a[k] \in Nat
    BY <1>1, <2>2, <2>3
  <2> QED
    BY <2>2, <2>4, <2>5 DEF Lesser
<1>3. ASSUME NEW i \in 1..n
      PROVE  left[i-1] - left[i] \in 0..a[i]
  <2>1. i \in 0..n /\ i - 1 \in 0..n /\ i # 0
    OBVIOUS
  <2>2. left[i] = left[i-1] - Lesser(left[i-1], a[i]) /\ left[i-1] \in Nat /\ a[i] \in Nat
    BY <1>1, <1>2, <2>1
  <2> QED
    BY <2>2 DEF Lesser
\* Where one payer did not give all he has nothing remains, nor after him.
<1>4. ASSUME left[n] > 0, NEW i \in 1..n
      PROVE  left[i-1] - left[i] = a[i]
  <2> DEFINE Zero == {k \in i..n : left[k] # 0}
  <2>1. i \in 0..n /\ i - 1 \in 0..n /\ i # 0
    OBVIOUS
  <2>2. left[i] = left[i-1] - Lesser(left[i-1], a[i]) /\ left[i-1] \in Nat /\ a[i] \in Nat
    BY <1>1, <1>2, <2>1
  <2>3. SUFFICES ASSUME left[i] = 0 PROVE FALSE
    BY <2>2, <2>3 DEF Lesser
  <2>4. n \in Zero
    BY <1>4
  <2>5. PICK k \in Zero : \A m \in Zero : k <= m
    <3>1. Zero \subseteq Nat /\ Zero # {}
      BY <2>4
    <3> HIDE DEF Zero
    <3> QED
      BY <3>1, LeastNat
  <2>6. k # i /\ k - 1 \in i..n /\ k \in 0..n /\ k # 0 /\ k \in 1..n
    BY <2>1, <2>3, <2>5
  <2>7. left[k-1] = 0
    BY <2>5, <2>6
  <2>8. left[k] = left[k-1] - Lesser(left[k-1], a[k]) /\ a[k] \in Nat
    BY <1>1, <2>6
  <2>9. left[k] = 0
    BY <2>7, <2>8 DEF Lesser
  <2> QED
    BY <2>5, <2>9
<1> QED
  BY <1>1, <1>2, <1>3, <1>4

\* When each of the listed gives what he pays, and nobody is listed twice, the
\* sum falls by what was paid in all.
LEMMA PaymentsAddUp ==
  ASSUME NEW due \in Nat, NEW gs \in Seq(Guarantors), IsInjective(gs),
         NEW F \in [Guarantors -> Nat], NEW H \in [Guarantors -> Nat],
         NEW left, \A i \in 0..Len(gs) : left[i] \in Nat,
         \A i \in 1..Len(gs) : H[gs[i]] + (left[i-1] - left[i]) = F[gs[i]],
         \A g \in Guarantors : g \notin Range(gs) => H[g] = F[g]
  PROVE  SumOver(H, Guarantors) + (left[0] - left[Len(gs)]) = SumOver(F, Guarantors)
<1> DEFINE n == Len(gs)
           K(k) == [g \in Guarantors |-> IF \E i \in 1..k : gs[i] = g THEN H[g] ELSE F[g]]
           Off(k) == SumOver(K(k), Guarantors) + (left[0] - left[k]) # SumOver(F, Guarantors)
           Bad == {k \in 0..n : Off(k)}
<1>1. n \in Nat /\ DOMAIN gs = 1..n /\ \A i \in 1..n : gs[i] \in Guarantors
  OBVIOUS
<1>2. IsFiniteSet(Guarantors)
  BY GuaranteeAssumption
<1>3. \A k : \A g \in Guarantors : K(k)[g] \in Nat /\ F[g] \in Nat
  OBVIOUS
<1>4. Bad = {}
  <2>1. SUFFICES ASSUME Bad # {} PROVE FALSE
    OBVIOUS
  <2>2. PICK k \in Bad : \A m \in Bad : k <= m
    <3>1. Bad \subseteq Nat
      BY <1>1
    <3> HIDE DEF Bad
    <3> QED
      BY <2>1, <3>1, LeastNat
  <2>3. CASE k = 0
    <3>1. K(0) = F
      OBVIOUS
    <3>2. left[0] - left[0] = 0 /\ SumOver(F, Guarantors) \in Nat
      <4>1. left[0] \in Nat
        BY <1>1
      <4> QED
        BY <1>2, <1>3, <4>1, SumOverNat
    <3> HIDE DEF K
    <3> QED
      BY <2>2, <2>3, <3>1, <3>2
  <2>4. CASE k # 0
    <3> DEFINE x == gs[k]
               A == K(k-1)
               B == K(k)
    <3>1. k \in 1..n /\ k - 1 \in 0..n /\ k - 1 \notin Bad
      <4>1. k \in 1..n /\ k - 1 \in 0..n /\ ~(k <= k - 1)
        BY <1>1, <2>2, <2>4
      <4> HIDE DEF Bad
      <4> QED
        BY <2>2, <4>1
    <3>2. x \in Guarantors
      BY <1>1, <3>1
    <3>3. \A i \in 1..k-1 : gs[i] # x
      <4>1. \A i \in 1..k-1 : i \in DOMAIN gs /\ k \in DOMAIN gs /\ i # k
        BY <1>1, <3>1
      <4> QED
        BY <4>1 DEF IsInjective
    <3>4. A[x] = F[x] /\ B[x] = H[x]
      <4>1. k \in 1..k
        BY <3>1
      <4> QED
        BY <3>2, <3>3, <4>1
    <3>5. \A g \in Guarantors \ {x} : A[g] = B[g]
      <4>1. 1..k = (1..k-1) \cup {k}
        BY <3>1
      <4>2. \A g : g # x => ((\E i \in 1..k-1 : gs[i] = g) <=> (\E i \in 1..k : gs[i] = g))
        BY <4>1
      <4> HIDE DEF x
      <4> QED
        BY <4>2
    <3>6. \A g \in Guarantors : A[g] \in Nat /\ B[g] \in Nat
      BY <1>3
    <3>7. ~Off(k-1) /\ Off(k)
      BY <2>2, <3>1
    <3> HIDE DEF A, B, x, Bad, K, Off
    <3>8. SumOver(B, Guarantors) + A[x] = SumOver(A, Guarantors) + B[x]
      BY <1>2, <3>2, <3>5, <3>6, SumOverChanged, Z3
    <3>9. /\ SumOver(A, Guarantors) \in Nat /\ SumOver(B, Guarantors) \in Nat
      BY <1>2, <3>6, SumOverNat
    <3>10. SumOver(F, Guarantors) \in Nat
      BY <1>2, <1>3, SumOverNat
    <3>11. /\ left[k-1] \in Nat /\ left[k] \in Nat /\ left[0] \in Nat
           /\ H[x] + (left[k-1] - left[k]) = F[x]
           /\ H[x] \in Nat /\ F[x] \in Nat
      BY <1>1, <3>1, <3>2 DEF x
    <3>12. /\ SumOver(A, Guarantors) + (left[0] - left[k-1]) = SumOver(F, Guarantors)
           /\ SumOver(B, Guarantors) + (left[0] - left[k]) # SumOver(F, Guarantors)
      BY <3>7 DEF A, B, Off
    <3> DEFINE sa == SumOver(A, Guarantors)
               sb == SumOver(B, Guarantors)
               sf == SumOver(F, Guarantors)
               l0 == left[0]
               l1 == left[k-1]
               l2 == left[k]
               f == F[x]
               h == H[x]
    <3>13. sb + f = sa + h
      BY <3>4, <3>8
    <3>14. /\ sa \in Nat /\ sb \in Nat /\ sf \in Nat /\ l0 \in Nat /\ l1 \in Nat
           /\ l2 \in Nat /\ f \in Nat /\ h \in Nat
           /\ h + (l1 - l2) = f /\ sa + (l0 - l1) = sf /\ sb + (l0 - l2) # sf
      BY <3>9, <3>10, <3>11, <3>12
    <3> HIDE DEF sa, sb, sf, l0, l1, l2, f, h
    <3> QED
      BY <3>13, <3>14
  <2> QED
    BY <2>3, <2>4
<1>5. K(n) = H
  <2>1. \A g \in Guarantors : g \in Range(gs) <=> \E i \in 1..n : gs[i] = g
    BY <1>1 DEF Range
  <2> QED
    BY <2>1
<1>6. ~Off(n)
  <2>1. n \in 0..n
    BY <1>1
  <2> HIDE DEF Off
  <2> QED
    BY <1>4, <2>1
<1> HIDE DEF K
<1> QED
  BY <1>5, <1>6

\* What slash takes from the bonds.
LEMMA RemainingAfterIs ==
  ASSUME BondsInv, NEW b \in Borrowers, NEW due \in Nat
  PROVE  LET gs == guarantors[b]
             left == RemainingAfter(b, due)
         IN  /\ left[0] = due
             /\ \A i \in 0..Len(gs) : left[i] \in Nat
             /\ \A i \in 1..Len(gs) : left[i-1] - left[i] \in 0..bonds[b][gs[i]].amount
             /\ left[Len(gs)] > 0 =>
                   \A i \in 1..Len(gs) : left[i-1] - left[i] = bonds[b][gs[i]].amount
<1> DEFINE gs == guarantors[b]
           n == Len(gs)
           a == [i \in 1..n |-> bonds[b][gs[i]].amount]
           Rec(f) == f = [i \in 0..n |-> IF i = 0 THEN due
                                         ELSE f[i-1] - Lesser(f[i-1], bonds[b][gs[i]].amount)]
<1>1. /\ gs \in Seq(Guarantors) /\ n \in Nat
      /\ \A i \in 1..n : bonds[b][gs[i]].amount \in Nat
  BY DEF BondsInv, BondRecord
<1>2. ASSUME NEW f
      PROVE  Remaining(f, due, n, a) <=> Rec(f)
  <2> DEFINE u == [i \in 0..n |-> IF i = 0 THEN due ELSE f[i-1] - Lesser(f[i-1], a[i])]
             v == [i \in 0..n |-> IF i = 0 THEN due
                                  ELSE f[i-1] - Lesser(f[i-1], bonds[b][gs[i]].amount)]
  <2>1. \A i \in 0..n : u[i] = v[i]
    BY <1>1
  <2>2. u = v
    BY <2>1
  <2> QED
    BY <2>2 DEF Remaining
<1>3. RemainingAfter(b, due) = CHOOSE f : Rec(f)
  BY DEF RemainingAfter
<1> HIDE DEF Rec
<1>4. Remaining(RemainingAfter(b, due), due, n, a)
  BY <1>1, <1>2, <1>3, RemainingExists
<1>5. \A i \in 1..n : a[i] \in Nat /\ a[i] = bonds[b][gs[i]].amount
  BY <1>1
<1> DEFINE left == RemainingAfter(b, due)
<1>7. n \in Nat /\ \A i \in 1..n : a[i] \in Nat
  BY <1>1, <1>5
<1>8. Remaining(left, due, n, a)
  BY <1>4
<1> HIDE DEF a, left, n
<1>6. /\ left[0] = due
      /\ \A i \in 0..n : left[i] \in Nat
      /\ \A i \in 1..n : left[i-1] - left[i] \in 0..a[i]
      /\ left[n] > 0 => \A i \in 1..n : left[i-1] - left[i] = a[i]
  BY <1>7, <1>8, RemainingFacts
<1> USE DEF n
<1> QED
  BY <1>5, <1>6 DEF left

-----------------------------------------------------------------------------
(* Every call on the bonds keeps them. *)

\* The bonds behind b are B after the call and total t; the list of its
\* guarantors is gs.
BondsOK(B, gs, t) ==
    /\ B \in [Guarantors -> BondRecord] /\ gs \in Seq(Guarantors) /\ t \in Nat
    /\ t = SumOver(AmountsIn(B), Guarantors)
    /\ \A g \in Guarantors : B[g].amount > 0 => g \in Range(gs)
    /\ IsInjective(gs)

LEMMA BondsOf ==
  ASSUME BondsInv, NEW b \in Borrowers
  PROVE  BondsOK(bonds[b], guarantors[b], totalBonded[b])
BY DEF BondsInv, BondsOK

\* A call that writes the bonds behind one borrower, and the balance by as much
\* as his total.
LEMMA BondsFollow ==
  ASSUME BondsInv, NEW b \in Borrowers, NEW B, NEW gs, NEW t, BondsOK(B, gs, t),
         bonds' = [bonds EXCEPT ![b] = B], guarantors' = [guarantors EXCEPT ![b] = gs],
         totalBonded' = [totalBonded EXCEPT ![b] = t],
         held' \in Int, held' + totalBonded[b] = held + t,
         slashedForLine' \in [Lines -> Nat]
  PROVE  BondsInv'
<1>1. /\ bonds' \in [Borrowers -> [Guarantors -> BondRecord]]
      /\ guarantors' \in [Borrowers -> Seq(Guarantors)]
      /\ totalBonded' \in [Borrowers -> Nat]
  BY DEF BondsInv, BondsOK
<1>2. ASSUME NEW c \in Borrowers
      PROVE  BondsOK(bonds'[c], guarantors'[c], totalBonded'[c])
  <2>1. CASE c = b
    BY <2>1 DEF BondsInv
  <2>2. CASE c # b
    <3>1. /\ bonds'[c] = bonds[c] /\ guarantors'[c] = guarantors[c]
          /\ totalBonded'[c] = totalBonded[c]
      BY <2>2 DEF BondsInv
    <3> QED
      BY <3>1, BondsOf
  <2> QED
    BY <2>1, <2>2
<1>3. held' = SumOver(totalBonded', Borrowers)
  <2> DEFINE F == totalBonded
             G == [totalBonded EXCEPT ![b] = t]
             S == SumOver(F, Borrowers)
             T == SumOver(G, Borrowers)
  <2>1. /\ \A c \in Borrowers : F[c] \in Nat /\ G[c] \in Nat
        /\ \A c \in Borrowers \ {b} : F[c] = G[c]
        /\ F[b] = totalBonded[b] /\ G[b] = t /\ t \in Nat
    BY DEF BondsInv, BondsOK
  <2>2. totalBonded' = G /\ held = S
    BY DEF BondsInv
  <2>3. IsFiniteSet(Borrowers)
    BY BorrowersFinite
  <2> HIDE DEF F, G
  <2>4. T + F[b] = S + G[b]
    BY <2>1, <2>3, SumOverChanged, Z3
  <2>5. S \in Nat /\ T \in Nat
    BY <2>1, <2>3, SumOverNat
  <2>6. held' + F[b] = S + G[b] /\ F[b] \in Nat /\ G[b] \in Nat
    BY <2>1, <2>2
  <2> HIDE DEF S, T
  <2>7. held' = T
    BY <2>4, <2>5, <2>6
  <2> QED
    BY <2>2, <2>7 DEF T
<1>4. \A c \in Borrowers :
         /\ totalBonded'[c] = SumOver(AmountsIn(bonds'[c]), Guarantors)
         /\ \A g \in Guarantors : bonds'[c][g].amount > 0 => g \in Range(guarantors'[c])
         /\ IsInjective(guarantors'[c])
  BY <1>2 DEF BondsOK
<1> QED
  BY <1>1, <1>3, <1>4 DEF BondsInv, AmountsIn

\* One bond behind a borrower is written.
LEMMA BondWritten ==
  ASSUME NEW B, NEW gs, NEW t, BondsOK(B, gs, t), NEW g \in Guarantors,
         NEW r \in BondRecord, NEW hs \in Seq(Guarantors), IsInjective(hs),
         Range(gs) \subseteq Range(hs), r.amount > 0 => g \in Range(hs),
         NEW u \in Int, u + B[g].amount = t + r.amount
  PROVE  BondsOK([B EXCEPT ![g] = r], hs, u)
<1> DEFINE C == [B EXCEPT ![g] = r]
           F == AmountsIn(B)
           G == AmountsIn(C)
<1>1. \A h \in Guarantors : C[h] = IF h = g THEN r ELSE B[h]
  BY DEF BondsOK
<1>2. C \in [Guarantors -> BondRecord]
  BY DEF BondsOK
<1>3. \A h \in Guarantors : F[h] \in Nat /\ G[h] \in Nat
  BY <1>2 DEF AmountsIn, BondsOK, BondRecord
<1>4. /\ \A h \in Guarantors \ {g} : F[h] = G[h]
      /\ F[g] = B[g].amount /\ G[g] = r.amount
  BY <1>1 DEF AmountsIn
<1>5. IsFiniteSet(Guarantors) /\ t = SumOver(F, Guarantors) /\ t \in Nat
  BY GuaranteeAssumption DEF BondsOK
<1>6. \A h \in Guarantors : C[h].amount > 0 => h \in Range(hs)
  BY <1>1 DEF BondsOK
<1> HIDE DEF C, F, G
<1>7. SumOver(G, Guarantors) + F[g] = SumOver(F, Guarantors) + G[g]
  BY <1>3, <1>4, <1>5, SumOverChanged, Z3
<1>8. SumOver(G, Guarantors) \in Nat /\ F[g] \in Nat /\ G[g] \in Nat
  BY <1>3, <1>5, SumOverNat
<1>9. u = SumOver(G, Guarantors) /\ u \in Nat
  BY <1>4, <1>5, <1>7, <1>8
<1> QED
  BY <1>2, <1>6, <1>9 DEF BondsOK, C, G

LEMMA Listed ==
  ASSUME NEW gs \in Seq(Guarantors), IsInjective(gs), NEW g \in Guarantors, g \notin Range(gs)
  PROVE  /\ Append(gs, g) \in Seq(Guarantors) /\ IsInjective(Append(gs, g))
         /\ Range(gs) \subseteq Range(Append(gs, g)) /\ g \in Range(Append(gs, g))
<1> DEFINE n == Len(gs)
           hs == Append(gs, g)
<1>1. /\ hs \in Seq(Guarantors) /\ n \in Nat /\ DOMAIN gs = 1..n /\ DOMAIN hs = 1..(n+1)
      /\ \A i \in 1..n : hs[i] = gs[i]
      /\ hs[n+1] = g
  OBVIOUS
<1>2. \A i \in 1..n : gs[i] # g
  BY <1>1 DEF Range
<1> HIDE DEF n, hs
<1>3. IsInjective(hs)
  <2>1. ASSUME NEW i \in 1..(n+1), NEW k \in 1..(n+1), hs[i] = hs[k]
        PROVE  i = k
    <3>1. (i \in 1..n \/ i = n+1) /\ (k \in 1..n \/ k = n+1)
      BY <1>1
    <3>2. CASE i \in 1..n /\ k \in 1..n
      BY <1>1, <2>1, <3>2 DEF IsInjective
    <3>3. CASE i = n+1 /\ k \in 1..n
      BY <1>1, <1>2, <2>1, <3>3
    <3>4. CASE i \in 1..n /\ k = n+1
      BY <1>1, <1>2, <2>1, <3>4
    <3> QED
      BY <3>1, <3>2, <3>3, <3>4
  <2> QED
    BY <1>1, <2>1 DEF IsInjective
<1>4. Range(gs) \subseteq Range(hs) /\ g \in Range(hs)
  <2>1. \A i \in 1..n : i \in 1..(n+1)
    BY <1>1
  <2>2. n+1 \in 1..(n+1)
    BY <1>1
  <2> QED
    BY <1>1, <2>1, <2>2 DEF Range
<1> QED
  BY <1>1, <1>3, <1>4 DEF hs

LEMMA BondKeeps ==
  ASSUME BondsInv, NEW b \in Borrowers, NEW g \in Guarantors, NEW value \in BondAmounts,
         Bond(b, g, value)
  PROVE  BondsInv'
<1> DEFINE B == bonds[b]
           gs == guarantors[b]
           t == totalBonded[b]
           r == [amount |-> B[g].amount + value, unbondRequestedAt |-> 0]
           hs == IF Known(b, g) THEN gs ELSE Append(gs, g)
<1>1. BondsOK(B, gs, t) /\ value \in Nat /\ held \in Nat
  <2>1. held \in Nat
    BY BorrowersFinite, SumOverNat DEF BondsInv
  <2> QED
    BY <2>1, BondsOf, GuaranteeAssumption
<1>2. /\ bonds' = [bonds EXCEPT ![b] = [B EXCEPT ![g] = r]]
      /\ guarantors' = [guarantors EXCEPT ![b] = hs]
      /\ totalBonded' = [totalBonded EXCEPT ![b] = t + value]
      /\ held' = held + value /\ UNCHANGED slashedForLine
  BY DEF Bond, BondsInv
<1>3. B[g] \in BondRecord /\ B[g].amount \in Nat /\ t \in Nat
  BY <1>1 DEF BondsOK, BondRecord
<1>4. r \in BondRecord /\ r.amount = B[g].amount + value
  BY <1>1, <1>3, CreditAssumption DEF BondRecord
<1>5. /\ hs \in Seq(Guarantors) /\ IsInjective(hs)
      /\ Range(gs) \subseteq Range(hs) /\ g \in Range(hs)
  BY <1>1, Listed DEF BondsOK, Known
<1> HIDE DEF B, gs, t, r, hs
<1>6. BondsOK([B EXCEPT ![g] = r], hs, t + value)
  <2>1. t + value \in Int /\ (t + value) + B[g].amount = t + r.amount
    BY <1>1, <1>3, <1>4
  <2> QED
    BY <1>1, <1>4, <1>5, <2>1, BondWritten
<1>7. held' \in Int /\ held' + totalBonded[b] = held + (t + value)
  BY <1>1, <1>2, <1>3 DEF t
<1> QED
  BY <1>2, <1>6, <1>7, BondsFollow DEF BondsInv

LEMMA RequestUnbondKeeps ==
  ASSUME BondsInv, NEW b \in Borrowers, NEW g \in Guarantors, RequestUnbond(b, g),
         now \in 1..MaxTime
  PROVE  BondsInv'
<1> DEFINE B == bonds[b]
           gs == guarantors[b]
           t == totalBonded[b]
           r == [B[g] EXCEPT !.unbondRequestedAt = now]
<1>1. BondsOK(B, gs, t) /\ held \in Nat
  <2>1. held \in Nat
    BY BorrowersFinite, SumOverNat DEF BondsInv
  <2> QED
    BY <2>1, BondsOf
<1>2. /\ bonds' = [bonds EXCEPT ![b] = [B EXCEPT ![g] = r]]
      /\ guarantors' = [guarantors EXCEPT ![b] = gs]
      /\ totalBonded' = [totalBonded EXCEPT ![b] = t]
      /\ held' = held /\ UNCHANGED slashedForLine
  BY DEF RequestUnbond, BondsInv
<1>3. B[g] \in BondRecord /\ B[g].amount \in Nat /\ t \in Nat /\ gs \in Seq(Guarantors)
      /\ IsInjective(gs)
  BY <1>1 DEF BondsOK, BondRecord
<1>4. r \in BondRecord /\ r.amount = B[g].amount
  BY <1>3, CreditAssumption DEF BondRecord
<1>5. r.amount > 0 => g \in Range(gs)
  BY <1>1, <1>4 DEF BondsOK
<1> HIDE DEF B, gs, t, r
<1>6. BondsOK([B EXCEPT ![g] = r], gs, t)
  <2>1. t \in Int /\ t + B[g].amount = t + r.amount
    BY <1>3, <1>4
  <2> QED
    BY <1>1, <1>3, <1>4, <1>5, <2>1, BondWritten
<1>7. held' \in Int /\ held' + totalBonded[b] = held + t
  BY <1>1, <1>2 DEF t
<1> QED
  BY <1>2, <1>6, <1>7, BondsFollow DEF BondsInv

LEMMA UnbondKeeps ==
  ASSUME BondsInv, NEW b \in Borrowers, NEW g \in Guarantors, Unbond(b, g)
  PROVE  BondsInv'
<1> DEFINE B == bonds[b]
           gs == guarantors[b]
           t == totalBonded[b]
           u == t - B[g].amount
<1>1. BondsOK(B, gs, t) /\ held \in Nat
  <2>1. held \in Nat
    BY BorrowersFinite, SumOverNat DEF BondsInv
  <2> QED
    BY <2>1, BondsOf
<1>2. /\ bonds' = [bonds EXCEPT ![b] = [B EXCEPT ![g] = NoBond]]
      /\ guarantors' = [guarantors EXCEPT ![b] = gs]
      /\ totalBonded' = [totalBonded EXCEPT ![b] = u]
      /\ held' = held - B[g].amount /\ UNCHANGED slashedForLine
  BY DEF Unbond, BondsInv
<1>3. B[g] \in BondRecord /\ B[g].amount \in Nat /\ t \in Nat /\ gs \in Seq(Guarantors)
      /\ IsInjective(gs)
  BY <1>1 DEF BondsOK, BondRecord
<1>4. NoBond \in BondRecord /\ NoBond.amount = 0
  BY CreditAssumption DEF BondRecord, NoBond
<1> HIDE DEF B, gs
<1>5. BondsOK([B EXCEPT ![g] = NoBond], gs, u)
  <2>1. u \in Int /\ u + B[g].amount = t + NoBond.amount /\ ~(NoBond.amount > 0)
    BY <1>3, <1>4
  <2> HIDE DEF u, t
  <2> QED
    BY <1>1, <1>3, <1>4, <2>1, BondWritten
<1>6. held' \in Int /\ held' + totalBonded[b] = held + u
  BY <1>1, <1>2, <1>3 DEF B
<1> HIDE DEF u
<1> QED
  BY <1>2, <1>5, <1>6, BondsFollow DEF BondsInv

\* What a slash of m must have paid by its end, in wei.
PaysTheDebt(m) ==
    LET paid == slashedForLine'[m] + WeiPerAtom * line[m].repaid
        owed == WeiPerAtom * Owed(m, line[m].drawn)
    IN  /\ paid <= owed
        /\ paid < owed => totalBonded'[Terms[m].borrower] = 0

\* What a line owes in wei, repayments aside.
LEMMA DueInWei ==
  ASSUME CreditTypeOK, NEW l \in Lines, Due(l) > 0
  PROVE  /\ Due(l) \in Nat /\ line[l].repaid \in Nat /\ Owed(l, line[l].drawn) \in Nat
         /\ WeiPerAtom \in Nat
         /\ Due(l) + WeiPerAtom * line[l].repaid = WeiPerAtom * Owed(l, line[l].drawn)
<1>1. line[l].drawn \in Nat /\ line[l].repaid \in Nat /\ WeiPerAtom \in Nat \ {0}
  BY GuaranteeAssumption DEF CreditTypeOK, Line
<1>2. Owed(l, line[l].drawn) \in Nat
  BY <1>1, OwedGrows
<1> DEFINE o == Owed(l, line[l].drawn)
           r == line[l].repaid
           out == Outstanding(l)
<1>3. out = IF o > r THEN o - r ELSE 0
  BY DEF Outstanding
<1>4. out * WeiPerAtom > 0
  BY DEF Due
<1> HIDE DEF o, r, out
<1>5. o \in Nat /\ r \in Nat
  BY <1>1, <1>2 DEF o, r
<1>6. o > r /\ out = o - r
  BY <1>1, <1>3, <1>4, <1>5
<1>7. out \in Nat /\ o = out + r
  BY <1>5, <1>6
<1>8. out * WeiPerAtom + WeiPerAtom * r = WeiPerAtom * (out + r) /\ out * WeiPerAtom \in Nat
  BY <1>1, <1>5, <1>7
<1> QED
  BY <1>1, <1>2, <1>7, <1>8 DEF Due, o, r, out

\* A slash keeps the bonds, and the lender has by now been paid no more from
\* them than the line owes him, and less only where nothing is left of them.
LEMMA SlashKeeps ==
  ASSUME BondsInv, CreditTypeOK, NEW l \in Lines, Slash(l)
  PROVE  /\ BondsInv'
         /\ \A m \in Lines : slashedForLine'[m] > slashedForLine[m] => PaysTheDebt(m)
<1> DEFINE b == Terms[l].borrower
           B == bonds[b]
           gs == guarantors[b]
           t == totalBonded[b]
           due == Due(l)
           s == slashedForLine[l]
           left == RemainingAfter(b, due - s)
           n == Len(gs)
           paid == left[0] - left[n]
           at(g) == CHOOSE j \in DOMAIN gs : gs[j] = g
           C == [g \in Guarantors |->
                    IF g \in Range(gs)
                    THEN [B[g] EXCEPT !.amount = @ - (left[at(g)-1] - left[at(g)])]
                    ELSE B[g]]
<1>1. b \in Borrowers /\ BondsOK(B, gs, t) /\ held \in Nat /\ s \in Nat
  <2>1. held \in Nat
    BY BorrowersFinite, SumOverNat DEF BondsInv
  <2>2. b \in Borrowers
    BY BorrowersFinite
  <2> QED
    BY <2>1, <2>2, BondsOf DEF BondsInv
<1> DEFINE repaid == WeiPerAtom * line[l].repaid
           owed == WeiPerAtom * Owed(l, line[l].drawn)
<1>2. /\ due \in Nat /\ due > s /\ due + repaid = owed
      /\ repaid \in Nat /\ owed \in Nat
  <2>1. Due(l) > s
    BY DEF Slash
  <2>2. Due(l) \in Int /\ Due(l) > 0
    <3>1. line[l].drawn \in Nat /\ line[l].repaid \in Nat /\ WeiPerAtom \in Nat
      BY GuaranteeAssumption DEF CreditTypeOK, Line
    <3>2. Owed(l, line[l].drawn) \in Nat
      BY <3>1, OwedGrows
    <3>3. Outstanding(l) \in Nat
      BY <3>1, <3>2 DEF Outstanding
    <3>4. Due(l) \in Nat
      BY <3>1, <3>3 DEF Due
    <3> QED
      BY <1>1, <2>1, <3>4
  <2>3. /\ line[l].repaid \in Nat /\ Owed(l, line[l].drawn) \in Nat /\ WeiPerAtom \in Nat
        /\ Due(l) \in Nat /\ Due(l) + repaid = owed
    BY <2>2, DueInWei
  <2>4. repaid \in Nat /\ owed \in Nat
    BY <2>3
  <2> QED
    BY <2>1, <2>3, <2>4
<1> HIDE DEF repaid, owed
<1>3. /\ bonds' = [bonds EXCEPT ![b] = C]
      /\ guarantors' = [guarantors EXCEPT ![b] = gs]
      /\ totalBonded' = [totalBonded EXCEPT ![b] = t - paid]
      /\ slashedForLine' = [slashedForLine EXCEPT ![l] = s + paid]
      /\ held' = held - paid
  BY <1>1 DEF Slash, BondsInv
<1>4. /\ left[0] = due - s
      /\ \A i \in 0..n : left[i] \in Nat
      /\ \A i \in 1..n : left[i-1] - left[i] \in 0..B[gs[i]].amount
      /\ left[n] > 0 => \A i \in 1..n : left[i-1] - left[i] = B[gs[i]].amount
  <2>1. due - s \in Nat
    BY <1>1, <1>2
  <2> HIDE DEF due, s
  <2> QED
    BY <1>1, <2>1, RemainingAfterIs
<1>5. /\ gs \in Seq(Guarantors) /\ IsInjective(gs) /\ n \in Nat /\ DOMAIN gs = 1..n
      /\ \A g \in Guarantors : B[g] \in BondRecord
      /\ t \in Nat /\ t = SumOver(AmountsIn(B), Guarantors)
      /\ \A g \in Guarantors : B[g].amount > 0 => g \in Range(gs)
  BY <1>1 DEF BondsOK
<1>6. \A i \in 1..n : gs[i] \in Guarantors /\ gs[i] \in Range(gs) /\ at(gs[i]) = i
  BY <1>5 DEF Range, IsInjective
<1>7. \A g \in Range(gs) : at(g) \in 1..n /\ gs[at(g)] = g
  BY <1>5 DEF Range
<1> HIDE DEF B, left, at, due, s, gs, b, n
<1>8. ASSUME NEW g \in Guarantors
      PROVE  /\ C[g] \in BondRecord
             /\ C[g].amount <= B[g].amount
             /\ g \notin Range(gs) => C[g] = B[g]
             /\ g \in Range(gs) =>
                   C[g].amount = B[g].amount - (left[at(g)-1] - left[at(g)])
  <2>1. B[g] \in BondRecord /\ B[g].amount \in Nat
    BY <1>5 DEF BondRecord
  <2>2. CASE g \notin Range(gs)
    BY <2>1, <2>2
  <2>3. CASE g \in Range(gs)
    <3> DEFINE p == left[at(g)-1] - left[at(g)]
    <3>1. p \in 0..B[g].amount
      BY <1>4, <1>7, <2>3
    <3>2. C[g] = [B[g] EXCEPT !.amount = @ - p]
      BY <2>3
    <3> HIDE DEF p, C
    <3>3. B[g].amount - p \in Nat /\ B[g].amount - p <= B[g].amount
      BY <2>1, <3>1
    <3>4. C[g] \in BondRecord /\ C[g].amount = B[g].amount - p
      BY <2>1, <3>2, <3>3 DEF BondRecord
    <3> QED
      BY <2>3, <3>3, <3>4 DEF p
  <2> QED
    BY <2>2, <2>3
<1>9. C \in [Guarantors -> BondRecord]
  BY <1>8
<1> HIDE DEF C
<1>10. SumOver(AmountsIn(C), Guarantors) + (left[0] - left[n]) = SumOver(AmountsIn(B), Guarantors)
  <2> DEFINE F == AmountsIn(B)
             H == AmountsIn(C)
  <2>1. F \in [Guarantors -> Nat] /\ H \in [Guarantors -> Nat]
    BY <1>5, <1>8 DEF AmountsIn, BondRecord
  <2>2. \A i \in 1..n : H[gs[i]] + (left[i-1] - left[i]) = F[gs[i]]
    <3>1. ASSUME NEW i \in 1..n
          PROVE  H[gs[i]] + (left[i-1] - left[i]) = F[gs[i]]
      <4>1. /\ H[gs[i]] = C[gs[i]].amount /\ F[gs[i]] = B[gs[i]].amount
            /\ C[gs[i]].amount = B[gs[i]].amount - (left[i-1] - left[i])
        BY <1>6, <1>8 DEF AmountsIn
      <4>2. i - 1 \in 0..n /\ i \in 0..n
        BY <1>5
      <4>3. B[gs[i]].amount \in Nat /\ left[i-1] \in Nat /\ left[i] \in Nat
        BY <1>4, <1>5, <1>6, <4>2 DEF BondRecord
      <4> QED
        BY <4>1, <4>3
    <3> QED
      BY <3>1
  <2>3. \A g \in Guarantors : g \notin Range(gs) => H[g] = F[g]
    BY <1>8 DEF AmountsIn
  <2> HIDE DEF F, H
  <2> QED
    BY <1>4, <1>5, <2>1, <2>2, <2>3, PaymentsAddUp DEF F, H, n
<1>11. left[0] \in Nat /\ left[n] \in Nat
  BY <1>4, <1>5
<1>12. SumOver(AmountsIn(C), Guarantors) \in Nat
  <2>1. \A g \in Guarantors : AmountsIn(C)[g] \in Nat
    BY <1>9 DEF AmountsIn, BondRecord
  <2> QED
    BY <2>1, GuaranteeAssumption, SumOverNat
<1>13. BondsOK(C, gs, t - paid)
  <2>1. t - paid = SumOver(AmountsIn(C), Guarantors)
    BY <1>5, <1>10, <1>11, <1>12
  <2>2. \A g \in Guarantors : C[g].amount > 0 => g \in Range(gs)
    <3>1. \A g \in Guarantors : B[g].amount \in Nat /\ C[g].amount \in Nat
      BY <1>5, <1>9 DEF BondRecord
    <3> QED
      BY <1>5, <1>8, <3>1
  <2> QED
    BY <1>5, <1>9, <1>12, <2>1, <2>2 DEF BondsOK
<1>14. paid \in 0..(due - s)
  <2>1. left[n] <= left[0]
    <3>1. \A g \in Guarantors : AmountsIn(C)[g] \in Nat /\ AmountsIn(B)[g] \in Nat
                               /\ AmountsIn(C)[g] <= AmountsIn(B)[g]
      BY <1>5, <1>8, <1>9 DEF AmountsIn, BondRecord
    <3>2. SumOver(AmountsIn(C), Guarantors) <= SumOver(AmountsIn(B), Guarantors)
      BY <3>1, GuaranteeAssumption, SumOverMonotone
    <3> QED
      BY <1>5, <1>10, <1>11, <1>12, <3>2
  <2> QED
    BY <1>1, <1>2, <1>4, <1>11, <2>1
<1>15. BondsInv'
  <2>1. slashedForLine' \in [Lines -> Nat]
    BY <1>1, <1>2, <1>3, <1>14 DEF BondsInv, s
  <2>2. held' \in Int /\ held' + totalBonded[b] = held + (t - paid)
    BY <1>1, <1>3, <1>5, <1>11
  <2> HIDE DEF paid
  <2> QED
    BY <1>1, <1>3, <1>13, <2>1, <2>2, BondsFollow
<1>16. left[n] > 0 => t - paid = 0
  <2> SUFFICES ASSUME left[n] > 0 PROVE t - paid = 0
    OBVIOUS
  <2>1. ASSUME NEW g \in Guarantors PROVE AmountsIn(C)[g] = 0
    <3>1. B[g].amount \in Nat /\ C[g].amount \in Nat
      BY <1>5, <1>9 DEF BondRecord
    <3>2. CASE g \in Range(gs)
      <4>1. left[at(g)-1] - left[at(g)] = B[g].amount
        BY <1>4, <1>7, <3>2
      <4> QED
        BY <1>8, <3>1, <3>2, <4>1 DEF AmountsIn
    <3>3. CASE g \notin Range(gs)
      BY <1>5, <1>8, <3>1, <3>3 DEF AmountsIn
    <3> QED
      BY <3>2, <3>3
  <2>2. SumOver(AmountsIn(C), Guarantors) = 0
    BY <2>1, GuaranteeAssumption, SumOverZero
  <2> QED
    BY <1>5, <1>10, <1>11, <2>2
<1>17. PaysTheDebt(l)
  <2>1. slashedForLine'[l] = s + paid /\ totalBonded'[b] = t - paid
    BY <1>1, <1>3 DEF BondsInv
  <2>2. s + paid + repaid <= owed
    BY <1>1, <1>2, <1>14
  <2>3. s + paid + repaid < owed => left[n] > 0
    BY <1>1, <1>2, <1>4, <1>11
  <2> QED
    BY <1>16, <2>1, <2>2, <2>3 DEF PaysTheDebt, repaid, owed, b
<1>18. \A m \in Lines \ {l} : slashedForLine'[m] = slashedForLine[m]
                              /\ slashedForLine[m] \in Nat
  BY <1>3 DEF BondsInv
<1> QED
  BY <1>15, <1>17, <1>18

LEMMA BondsInit ==
  ASSUME Init
  PROVE  BondsInv
<1>1. /\ bonds = [b \in Borrowers |-> [g \in Guarantors |-> NoBond]]
      /\ guarantors = [b \in Borrowers |-> <<>>]
      /\ totalBonded = [b \in Borrowers |-> 0]
      /\ slashedForLine = [l \in Lines |-> 0] /\ held = 0
  BY DEF Init
<1>2. NoBond \in BondRecord /\ NoBond.amount = 0
  BY CreditAssumption DEF BondRecord, NoBond
<1>3. <<>> \in Seq(Guarantors) /\ IsInjective(<<>>)
  BY DEF IsInjective
<1>4. /\ bonds \in [Borrowers -> [Guarantors -> BondRecord]]
      /\ guarantors \in [Borrowers -> Seq(Guarantors)]
      /\ totalBonded \in [Borrowers -> Nat] /\ slashedForLine \in [Lines -> Nat]
  BY <1>1, <1>2, <1>3
<1>5. held = SumOver(totalBonded, Borrowers)
  <2>1. \A b \in Borrowers : totalBonded[b] = 0
    BY <1>1
  <2> QED
    BY <1>1, <2>1, BorrowersFinite, SumOverZero
<1>6. ASSUME NEW b \in Borrowers
      PROVE  /\ totalBonded[b] = SumOver(AmountsIn(bonds[b]), Guarantors)
             /\ \A g \in Guarantors : bonds[b][g].amount > 0 => g \in Range(guarantors[b])
             /\ IsInjective(guarantors[b])
  <2>1. \A g \in Guarantors : bonds[b][g].amount = 0
    BY <1>1, <1>2
  <2>2. \A g \in Guarantors : AmountsIn(bonds[b])[g] = 0
    BY <2>1 DEF AmountsIn
  <2>3. SumOver(AmountsIn(bonds[b]), Guarantors) = 0
    BY <2>2, GuaranteeAssumption, SumOverZero
  <2> QED
    BY <1>1, <1>3, <2>1, <2>3
<1> QED
  BY <1>4, <1>5, <1>6 DEF BondsInv

\* A slash never pays more than is owed; no other step slashes.
WithinDebt ==
    \A m \in Lines : slashedForLine'[m] > slashedForLine[m] => PaysTheDebt(m)

LEMMA BondsStep ==
  ASSUME CreditTypeOK, BondsInv, [Next]_vars
  PROVE  BondsInv' /\ WithinDebt
<1>1. ASSUME UNCHANGED slashedForLine PROVE WithinDebt
  BY <1>1 DEF WithinDebt, BondsInv
<1>2. CASE UNCHANGED bondVars
  BY <1>1, <1>2 DEF bondVars, BondsInv
<1>3. CASE BondNext
  <2>1. PICK b \in Borrowers, g \in Guarantors :
           \/ \E value \in BondAmounts : Bond(b, g, value)
           \/ RequestUnbond(b, g)
           \/ Unbond(b, g)
    BY <1>3 DEF BondNext
  <2>2. now \in 1..MaxTime
    BY DEF CreditTypeOK
  <2>3. UNCHANGED slashedForLine
    BY <2>1 DEF Bond, RequestUnbond, Unbond
  <2> QED
    BY <1>1, <2>1, <2>2, <2>3, BondKeeps, RequestUnbondKeeps, UnbondKeeps
<1>4. CASE \E l \in Lines : Slash(l)
  BY <1>4, SlashKeeps DEF WithinDebt
<1> QED
  BY <1>2, <1>3, <1>4 DEF Next, vars

\* The sum of the property is this.
LEMMA BondSum ==
  ASSUME NEW B
  PROVE  MapThenSumSet(LAMBDA g : B[g].amount, Guarantors) = SumOver(AmountsIn(B), Guarantors)
<1> DEFINE Rec(f) == f = [A \in SUBSET Guarantors |-> IF A = {} THEN 0
                                 ELSE B[First(A)].amount + f[A \ {First(A)}]]
<1>1. \A A \in SUBSET Guarantors : A # {} => AmountsIn(B)[First(A)] = B[First(A)].amount
  BY FirstMember DEF AmountsIn
<1>2. ASSUME NEW f
      PROVE  IsPartialSums(AmountsIn(B), Guarantors, f) <=> Rec(f)
  <2> DEFINE u == [A \in SUBSET Guarantors |-> PartialSum(AmountsIn(B), f, A)]
             v == [A \in SUBSET Guarantors |-> IF A = {} THEN 0
                                     ELSE B[First(A)].amount + f[A \ {First(A)}]]
  <2>1. \A A \in SUBSET Guarantors : u[A] = v[A]
    BY <1>1 DEF PartialSum
  <2>2. u = v
    BY <2>1
  <2> QED
    BY <2>2 DEF IsPartialSums
<1>3. MapThenSumSet(LAMBDA g : B[g].amount, Guarantors) = (CHOOSE f : Rec(f))[Guarantors]
  BY DEF MapThenSumSet, MapThenFoldSet, First
<1> HIDE DEF Rec
<1>4. IsPartialSums(AmountsIn(B), Guarantors, CHOOSE f : Rec(f))
  BY <1>2, GuaranteeAssumption, PartialSumsExist
<1> QED
  BY <1>3, <1>4, GuaranteeAssumption, SumOverIs

LEMMA BondsInvMeans ==
  ASSUME BondsInv
  PROVE  BondsAddUp
<1>1. held = MapThenSumSet(LAMBDA b : totalBonded[b], Borrowers)
  BY DEF BondsInv, SumOver
<1>2. ASSUME NEW b \in Borrowers
      PROVE  totalBonded[b] = MapThenSumSet(LAMBDA g : bonds[b][g].amount, Guarantors)
  <2> DEFINE B == bonds[b]
  <2>1. totalBonded[b] = SumOver(AmountsIn(B), Guarantors)
    BY DEF BondsInv
  <2> HIDE DEF B
  <2>2. totalBonded[b] = MapThenSumSet(LAMBDA g : B[g].amount, Guarantors)
    BY <2>1, BondSum
  <2> QED
    BY <2>2 DEF B
<1> QED
  BY <1>1, <1>2 DEF BondsAddUp, BondsInv

-----------------------------------------------------------------------------
\* Types, the invariant of a line, and anchored amounts, in every state.
THEOREM CreditInvariant == Spec => []CreditInv
<1>1. Init => CreditInv
  BY CreditInitInv DEF Init
<1>2. CreditInv /\ [Next]_vars => CreditInv'
  BY CreditStep
<1> QED
  BY <1>1, <1>2, PTL DEF Spec

\* A line's status agrees with its balance, a default stays on record, and a
\* nonce opens one line at most, however the proofs of its draws and
\* repayments are ordered or delayed (AttestPayCreditLine.sol).
THEOREM LineInvariant == Spec => []LineInv
<1>1. CreditInv => LineInv
  BY DEF CreditInv
<1> QED
  BY <1>1, CreditInvariant, PTL

\* Lines only move forward, and a defaulted line's debt is fixed.
THEOREM MoveForward == Spec => LinesMoveForward
<1>1. CreditInv /\ [Next]_vars => [\A l \in Lines : Forward(line[l], line'[l])]_vars
  BY CreditStep DEF AllForward
<1> QED
  BY <1>1, CreditInvariant, PTL DEF Spec, LinesMoveForward

\* What the contract has drawn and repaid under a line is the sum of the
\* transfers proven, each once, and a borrower's record counts and sums his
\* lines (provenEvents, BorrowerRecord), for any number of either.
THEOREM RecordsHold == Spec => []RecordsAddUp
<1>1. Init => BooksInv
  BY BooksInit DEF Init
<1>2. CreditInv /\ BooksInv /\ [Next]_vars => BooksInv'
  BY BooksStep
<1>3. CreditInv /\ BooksInv => RecordsAddUp
  BY BooksAreRecords DEF CreditInv
<1> QED
  BY <1>1, <1>2, <1>3, CreditInvariant, PTL DEF Spec

\* The contract's CTC is what its books say after every bond, unbond and
\* slash, and every bond that counts is in the list that slash walks, once
\* (AttestPayGuarantee.sol).
THEOREM BondsHold == Spec => []BondsAddUp
<1>1. Init => BondsInv
  BY BondsInit
<1>2. CreditInv /\ BondsInv /\ [Next]_vars => BondsInv'
  BY BondsStep DEF CreditInv
<1>3. BondsInv => BondsAddUp
  BY BondsInvMeans
<1> QED
  BY <1>1, <1>2, <1>3, CreditInvariant, PTL DEF Spec

\* A slash pays a lender what the line still owes him, in wei: no more, and less
\* only where nothing is left bonded, whatever slashes, top-ups and late repayments
\* came before and whatever the factor between the two units (slash).
THEOREM SlashWithinDebt == Spec => SlashPaysTheDebt
<1>1. Init => BondsInv
  BY BondsInit
<1>2. CreditInv /\ BondsInv /\ [Next]_vars =>
         BondsInv' /\ [\A l \in Lines : slashedForLine'[l] > slashedForLine[l] =>
             LET paid == slashedForLine'[l] + WeiPerAtom * line[l].repaid
                 owed == WeiPerAtom * Owed(l, line[l].drawn)
             IN  /\ paid <= owed
                 /\ paid < owed => totalBonded'[Terms[l].borrower] = 0]_vars
  BY BondsStep DEF CreditInv, WithinDebt, PaysTheDebt
<1> QED
  BY <1>1, <1>2, CreditInvariant, PTL DEF Spec, SlashPaysTheDebt

\* Every variable of both contracts keeps its type: no subtraction of bonds
\* goes below zero, where the contract would revert.
THEOREM CreditTyped == Spec => []TypeOK
<1>1. Init => BondsInv
  BY BondsInit
<1>2. CreditInv /\ BondsInv /\ [Next]_vars => BondsInv'
  BY BondsStep DEF CreditInv
<1>3. CreditInv /\ BondsInv => TypeOK
  <2> SUFFICES ASSUME CreditInv, BondsInv PROVE TypeOK
    OBVIOUS
  <2>1. held \in Nat
    BY BorrowersFinite, SumOverNat DEF BondsInv
  <2> QED
    BY <2>1 DEF CreditInv, BondsInv, BondRecord, TypeOK
<1> QED
  BY <1>1, <1>2, <1>3, CreditInvariant, PTL DEF Spec
=============================================================================

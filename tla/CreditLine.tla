----------------------------- MODULE CreditLine -----------------------------
(***************************************************************************)
(* The credit-line contracts: the draw and repayment part of FactAnchor,   *)
(* the consumption of its proven events in ProvenFacts, and                *)
(* AttestPayCreditLine (contracts/src).  A transfer of USDC under a line   *)
(* is anchored on the source chain by the trusted anchorer, at any time    *)
(* after it was made, and its event is proven to the line contract by      *)
(* anyone, any number of times and in any order.                           *)
(*                                                                         *)
(* A line is identified with its signed terms (its id is their hash): two  *)
(* lines may be signed with the same lender nonce, and only one of them    *)
(* can open.  One anchoring transaction holds one event, as the worker     *)
(* sends them, so an event is identified with its transfer; its parties    *)
(* are those of the line, which the worker reads from the line's row, and  *)
(* its anchorer is the trusted one.  Timestamps that no rule reads         *)
(* (openedAt, lastEventAt, repaidAt) are left out.                         *)
(***************************************************************************)
EXTENDS Integers, FiniteSets

CONSTANTS
    Lines,       \* line ids: terms both parties have signed
    Accounts,    \* addresses of lenders, borrowers and guarantors
    Terms,       \* the LineTerms of each line
    Transfers,   \* draws and repayments made on the payment chain
    Transfer,    \* kind, line and amount of each of them
    MaxTime      \* bound on the clock

LineTerms == [lender : Accounts, borrower : Accounts, limit : Nat,
              interestBps : Nat, expiresAt : Nat, nonce : Nat]

\* Line ids are hashes of 32 bytes.
ASSUME CreditAssumption ==
    /\ IsFiniteSet(Lines)
    /\ Terms \in [Lines -> LineTerms]
    /\ Transfer \in [Transfers -> [kind : {"draw", "repayment"},
                                   line : Lines, amount : Nat]]
    /\ MaxTime \in Nat \ {0}

VARIABLES
    now,         \* block.timestamp
    line,        \* _lines
    nonceUsed,   \* nonceUsed, as the set of used (lender, nonce) pairs
    record,      \* _borrowers
    fact,        \* FactAnchor: the transfers anchored; a draw is "late" when
                 \* the time its event carries is past the line's expiry
    proven       \* provenEvents

creditVars == <<now, line, nonceUsed, record, fact, proven>>

LineStatuses == {"none", "open", "active", "repaid", "defaulted", "closed"}

Line == [status : LineStatuses, drawn : Nat, repaid : Nat, defaultedAt : Nat]

BorrowerRecord == [linesOpened : Nat, linesRepaid : Nat, linesDefaulted : Nat,
                   totalDrawn : Nat, totalRepaid : Nat]

NoLine == [status |-> "none", drawn |-> 0, repaid |-> 0, defaultedAt |-> 0]

NoRecord == [linesOpened |-> 0, linesRepaid |-> 0, linesDefaulted |-> 0,
             totalDrawn |-> 0, totalRepaid |-> 0]

CreditInit ==
    /\ now = 1
    /\ line = [l \in Lines |-> NoLine]
    /\ nonceUsed = {}
    /\ record = [a \in Accounts |-> NoRecord]
    /\ fact = [x \in Transfers |-> "none"]
    /\ proven = {}

-----------------------------------------------------------------------------
(* Views. *)

\* Drawn plus simple interest, rounded down.
Owed(l, drawn) == (drawn * (10000 + Terms[l].interestBps)) \div 10000

\* Mutant: repayments do not lower the debt.
OwedInFull(l) == Owed(l, line[l].drawn)

\* What is still due, floored at zero.
Outstanding(l) ==
    LET total == Owed(l, line[l].drawn)
    IN  IF total > line[l].repaid THEN total - line[l].repaid ELSE 0

PastExpiry(l) == now > Terms[l].expiresAt

NonceOf(l) == <<Terms[l].lender, Terms[l].nonce>>

-----------------------------------------------------------------------------
(* Opening a line. *)

ValidTerms(l) ==
    /\ Terms[l].lender # Terms[l].borrower
    /\ Terms[l].limit > 0
    /\ Terms[l].expiresAt > now
    /\ Terms[l].interestBps <= 10000

\* Mutant: the nonce is not checked.
NonceAny(l) == l \in Lines

NonceFree(l) == NonceOf(l) \notin nonceUsed

OpenLine(l) ==
    /\ ValidTerms(l)
    /\ NonceFree(l)
    /\ line[l].status = "none"
    /\ nonceUsed' = nonceUsed \cup {NonceOf(l)}
    /\ line' = [line EXCEPT ![l].status = "open"]
    /\ record' = [record EXCEPT ![Terms[l].borrower].linesOpened = @ + 1]
    /\ UNCHANGED <<now, fact, proven>>

-----------------------------------------------------------------------------
(* FactAnchor: one anchor per transfer, ever.  The event's time is when    *)
(* the transfer was made, which may lie before the expiry however late it  *)
(* is anchored.                                                            *)
AnchorTransfer(x) ==
    /\ Transfer[x].amount > 0
    /\ fact[x] = "none"
    /\ \E at \in {"timely", "late"} :
          /\ at = "late" => Transfer[x].kind = "draw" /\ PastExpiry(Transfer[x].line)
          /\ fact' = [fact EXCEPT ![x] = at]
    /\ UNCHANGED <<now, line, nonceUsed, record, proven>>

-----------------------------------------------------------------------------
(* verifyFacts: the proof of an event marks it and applies it, or reverts  *)
(* and leaves nothing.                                                     *)
\* Mutant: no replay guard.
AnchoredOnly(x) == fact[x] # "none"

Provable(x) == fact[x] # "none" /\ x \notin proven

\* Mutant: a default does not end the draws.
DrawableLate(l) == line[l].status \in {"open", "active", "defaulted"}

Drawable(l) == line[l].status \in {"open", "active"}

ProveDraw(x) ==
    LET l == Transfer[x].line
        a == Transfer[x].amount
    IN  /\ Provable(x)
        /\ Transfer[x].kind = "draw"
        /\ Drawable(l)
        /\ fact[x] = "timely"
        /\ line[l].drawn + a <= Terms[l].limit
        /\ line' = [line EXCEPT ![l].drawn = @ + a, ![l].status = "active"]
        /\ record' = [record EXCEPT ![Terms[l].borrower].totalDrawn = @ + a]
        /\ proven' = proven \cup {x}
        /\ UNCHANGED <<now, nonceUsed, fact>>

\* Mutant: > for >=.
MoreThanOwed(l, repaid) == repaid > Owed(l, line[l].drawn)

InFull(l, repaid) == repaid >= Owed(l, line[l].drawn)

\* A repayment may be recorded after a default; it closes the line when
\* nothing is left.
ProveRepayment(x) ==
    LET l == Transfer[x].line
        a == Transfer[x].amount
        repaid == line[l].repaid + a
        full == InFull(l, repaid)
    IN  /\ Provable(x)
        /\ Transfer[x].kind = "repayment"
        /\ line[l].status \in {"active", "defaulted"}
        /\ line' = [line EXCEPT ![l].repaid = repaid,
                                ![l].status = IF full THEN "repaid" ELSE @]
        /\ record' = [record EXCEPT
                         ![Terms[l].borrower].totalRepaid = @ + a,
                         ![Terms[l].borrower].linesRepaid =
                              IF full THEN @ + 1 ELSE @]
        /\ proven' = proven \cup {x}
        /\ UNCHANGED <<now, nonceUsed, fact>>

-----------------------------------------------------------------------------
(* Transitions by time; anyone may call them. *)

MarkDefaulted(l) ==
    /\ line[l].status = "active"
    /\ PastExpiry(l)
    /\ Outstanding(l) > 0
    /\ line' = [line EXCEPT ![l].status = "defaulted", ![l].defaultedAt = now]
    /\ record' = [record EXCEPT ![Terms[l].borrower].linesDefaulted = @ + 1]
    /\ UNCHANGED <<now, nonceUsed, fact, proven>>

CloseUnused(l) ==
    /\ line[l].status = "open"
    /\ PastExpiry(l)
    /\ line' = [line EXCEPT ![l].status = "closed"]
    /\ UNCHANGED <<now, nonceUsed, record, fact, proven>>

Tick ==
    /\ now < MaxTime
    /\ now' = now + 1
    /\ UNCHANGED <<line, nonceUsed, record, fact, proven>>

CreditNext ==
    \/ \E l \in Lines : OpenLine(l) \/ MarkDefaulted(l) \/ CloseUnused(l)
    \/ \E x \in Transfers : AnchorTransfer(x) \/ ProveDraw(x) \/ ProveRepayment(x)
    \/ Tick

=============================================================================

------------------------------ MODULE MCCredit ------------------------------
(* Instances of the credit-line contracts for TLC. *)
EXTENDS CreditProperties

CONSTANTS lender, borrower, guarantor, l1, l2, l3, d1, d2, d3, r1

\* l2 is signed with the nonce of l1; l3 is a second line of the borrower.
TwoNonces ==
    LET terms(limit, bps, nonce) ==
            [lender |-> lender, borrower |-> borrower, limit |-> limit,
             interestBps |-> bps, expiresAt |-> 2, nonce |-> nonce]
    IN  [l \in Lines |-> CASE l = l1 -> terms(3, 5000, 1)
                           [] l = l2 -> terms(1, 0, 1)
                           [] l = l3 -> terms(1, 10000, 2)]

\* Two draws and a repayment of the first line, a draw of the other.  With half
\* interest, d1 alone owes 1 (rounded down), d2 alone 3, both together 4.
Moved ==
    LET of(kind, l, amount) == [kind |-> kind, line |-> l, amount |-> amount]
    IN  [x \in Transfers |-> CASE x = d1 -> of("draw", l1, 1)
                               [] x = d2 -> of("draw", l1, 2)
                               [] x = d3 -> of("draw", l3, 1)
                               [] x = r1 -> of("repayment", l1, 3)]
=============================================================================

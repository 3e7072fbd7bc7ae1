------------------------------- MODULE MCLine -------------------------------
(* Instances of the server side of credit lines for TLC. *)
EXTENDS LineProperties

CONSTANTS lender, borrower, stranger, l1, d1, d2, r1, p1, k1, k2, c1, c2, c3, o1, o2

\* One line of 2 atoms without interest.
OneLine == [l \in Lines |-> [lender |-> lender, borrower |-> borrower, limit |-> 2,
                             interestBps |-> 0, expiresAt |-> 2, nonce |-> 1]]

\* Draws of 1 and of 2 atoms and a repayment.
Moves == [x \in Transfers |->
            [kind |-> IF x = r1 THEN "repayment" ELSE "draw", line |-> l1,
             amount |-> IF x = d2 THEN 2 ELSE 1]]

\* The draws and an ordinary payment share a key of the lender's card.
SharedKey == [m \in Payers |-> IF m = r1 THEN k2 ELSE k1]

\* An atom to somebody else.
Elsewhere == [p \in Pays |-> [to |-> stranger, amount |-> 1]]

\* The lender signs once, the borrower perhaps twice.
Signers == [c \in Signings |-> [line |-> l1,
                                party |-> IF c = c1 THEN "lender" ELSE "borrower"]]
=============================================================================

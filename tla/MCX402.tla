------------------------------- MODULE MCX402 -------------------------------
(* An instance of x402 payments for TLC. *)
EXTENDS X402Properties

CONSTANTS root, x1, p1

Tree == [c \in Cards |-> NoCard]
NoAuth == [a \in Auths |-> root]
OwnFees == [i \in ChargeIds |-> IF i \in X402Calls THEN {1, 2} ELSE {3}]

Cap6 == [c \in Cards |-> 6]
Uses9 == [c \in Cards |-> 9]
=============================================================================

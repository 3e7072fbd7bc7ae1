------------------------------ MODULE MCSpend ------------------------------
(* Instances of the pipeline for TLC. *)
EXTENDS SpendProperties, TLC

CONSTANTS root, sub, a1, a2, p1, p2, k1

Tree == [c \in Cards |-> IF c = root THEN NoCard ELSE root]
OnSub == [a \in Auths |-> sub]
OnRoot == [a \in Auths |-> root]

OneFee == [i \in ChargeIds |-> {1}]
TwoFees == [i \in ChargeIds |-> {1, 2}]
OwnFees == [i \in ChargeIds |-> IF i \in Auths THEN {1} ELSE {2, 3}]

Cap4 == [c \in Cards |-> 4]
Cap5 == [c \in Cards |-> 5]
Uses2 == [c \in Cards |-> 2]
Uses9 == [c \in Cards |-> 9]

Symmetry == Permutations(PayCalls)
=============================================================================

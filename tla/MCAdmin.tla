------------------------------ MODULE MCAdmin ------------------------------
(* Instances of card administration for TLC. *)
EXTENDS AdminProperties, TLC

CONSTANTS r1, s1

OwnFees == [o \in Ops |-> o]
OneFee == [o \in Ops |-> 1]
Tree == [c \in Cards |-> IF c = s1 THEN r1 ELSE NoCard]
=============================================================================

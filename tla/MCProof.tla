------------------------------- MODULE MCProof -------------------------------
(* Instances of the proof pipeline for TLC. *)
EXTENDS ProofProperties

CONSTANTS pay, open, close, gone, s1, s2

\* A payment, a dispute that is upheld, a revocation.
Kind3 == [j \in Jobs |-> CASE j = pay -> "payment" [] j = open -> "opened"
                           [] j = close -> "resolved" [] j = gone -> "revoked"]
OpeningOf == [j \in Jobs \cap {close} |-> open]
OutcomeOf == [j \in Jobs \cap {close} |-> "upheld"]
AboutPay == [j \in Jobs \cap {open} |-> pay]
=============================================================================

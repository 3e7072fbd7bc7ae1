---------------------------- MODULE Verification ----------------------------
(***************************************************************************)
(* The contracts behind the proof pipeline (contracts/src): on the source  *)
(* chain PaymentAnchor and the dispute and revocation part of FactAnchor,  *)
(* on Creditcoin AttestPayASC for payments and AttestPayLedger for         *)
(* disputes and revocations, which consume the anchored events once they   *)
(* are proven.  (Draws and repayments, the other half of FactAnchor, are   *)
(* the subject of module CreditLine.)                                      *)
(*                                                                         *)
(* A job is one thing to be proven: a payment, the opening of a dispute,   *)
(* its resolution, or the revocation of a card.  The source chain is the   *)
(* sequence of the jobs anchored on it, one per transaction: its length is *)
(* the height, and an event is named by its position, which is what the    *)
(* replay keys of the consumers are made of.  A dispute is identified with *)
(* the job that opens it.  All jobs are of one payer and written by the    *)
(* trusted anchorer; amounts, terms and timestamps are left out.           *)
(***************************************************************************)
EXTENDS Integers, Sequences, FiniteSets

CONSTANTS
    Jobs,
    Kind,       \* what each job proves
    Opening,    \* the job that opened the dispute a resolution is about
    Outcome     \* the outcome a resolution carries

Kinds == {"payment", "opened", "resolved", "revoked"}
Outcomes == {"upheld", "rejected", "withdrawn"}
OfKind(k) == {j \in Jobs : Kind[j] = k}
Openings == OfKind("opened")

\* A resolution is named by its dispute and the outcome it carries.
ASSUME JobsAssumption ==
    /\ IsFiniteSet(Jobs)
    /\ Kind \in [Jobs -> Kinds]
    /\ \A j \in OfKind("resolved") :
          Opening[j] \in Openings /\ Outcome[j] \in Outcomes
    /\ \A j, k \in OfKind("resolved") :
          Opening[j] = Opening[k] /\ Outcome[j] = Outcome[k] => j = k

VARIABLES
    chain,      \* the source chain: the jobs anchored, one per height
    attested,   \* the height the attestors have covered
    proven,     \* provenEvents of both consumers, as positions of the chain
    credited,   \* AttestPayASC: how often each payment counts in the credit
    dispute,    \* AttestPayLedger: status of each dispute
    tally,      \* AttestPayLedger: the payer's DisputeRecord
    revoked     \* AttestPayLedger: the revocations recorded

contractVars == <<chain, attested, proven, credited, dispute, tally, revoked>>

Heights == 1 .. Len(chain)

NoDisputes == [opened |-> 0, upheld |-> 0, rejected |-> 0, withdrawn |-> 0]

ContractInit ==
    /\ chain = <<>>
    /\ attested = 0
    /\ proven = {}
    /\ credited = [j \in OfKind("payment") |-> 0]
    /\ dispute = [j \in Openings |-> "none"]
    /\ tally = NoDisputes
    /\ revoked = {}

-----------------------------------------------------------------------------
(* The source chain. *)

IsAnchored(j) == \E h \in Heights : chain[h] = j

\* Mutant: no replay guard.
AnchorableAgain(j) == Kind[j] = "resolved" => IsAnchored(Opening[j])

\* Mutant: a resolution is anchored without its opening.
AnchorableEarly(j) == ~IsAnchored(j)

\* The replay guard of each kind; a resolution needs an anchored opening.
Anchorable(j) ==
    /\ ~IsAnchored(j)
    /\ Kind[j] = "resolved" => IsAnchored(Opening[j])

\* An anchoring transaction is executed: it emits its event or reverts.
ExecuteAnchor(j) ==
    /\ chain' = IF Anchorable(j) THEN Append(chain, j) ELSE chain
    /\ UNCHANGED <<attested, proven, credited, dispute, tally, revoked>>

\* The attestors cover more of the chain.
Attest ==
    /\ attested < Len(chain)
    /\ \E h \in (attested + 1) .. Len(chain) : attested' = h
    /\ UNCHANGED <<chain, proven, credited, dispute, tally, revoked>>

-----------------------------------------------------------------------------
(* The consumers. *)

\* Mutant: the ledger takes a resolution of a dispute it has not seen.
ConsumableEarly(j) ==
    CASE Kind[j] = "opened" -> dispute[j] = "none"
      [] Kind[j] = "revoked" -> j \notin revoked
      [] OTHER -> TRUE

\* What the ledger refuses: an event that contradicts what it has recorded.
Consumable(j) ==
    CASE Kind[j] = "opened" -> dispute[j] = "none"
      [] Kind[j] = "resolved" -> dispute[Opening[j]] = "open"
      [] Kind[j] = "revoked" -> j \notin revoked
      [] OTHER -> TRUE

\* A proof of height h goes through unless it is new and contradicts the state.
Acceptable(h) == h \in proven \/ Consumable(chain[h])

RecordPayment(j) ==
    /\ credited' = [credited EXCEPT ![j] = @ + 1]
    /\ UNCHANGED <<dispute, tally, revoked>>

RecordOpening(j) ==
    /\ dispute' = [dispute EXCEPT ![j] = "open"]
    /\ tally' = [tally EXCEPT !.opened = @ + 1]
    /\ UNCHANGED <<credited, revoked>>

RecordOutcome(j) ==
    /\ dispute' = [dispute EXCEPT ![Opening[j]] = Outcome[j]]
    /\ tally' = [tally EXCEPT ![Outcome[j]] = @ + 1]
    /\ UNCHANGED <<credited, revoked>>

RecordRevocation(j) ==
    /\ revoked' = revoked \cup {j}
    /\ UNCHANGED <<credited, dispute, tally>>

Consume(j) ==
    CASE Kind[j] = "payment" -> RecordPayment(j)
      [] Kind[j] = "opened" -> RecordOpening(j)
      [] Kind[j] = "resolved" -> RecordOutcome(j)
      [] Kind[j] = "revoked" -> RecordRevocation(j)

\* A proof of height h is executed: it records its event, does nothing when
\* the event was recorded before, or reverts.
ExecuteProof(h) ==
    /\ IF h \notin proven /\ Consumable(chain[h])
       THEN proven' = proven \cup {h} /\ Consume(chain[h])
       ELSE UNCHANGED <<proven, credited, dispute, tally, revoked>>
    /\ UNCHANGED <<chain, attested>>
=============================================================================

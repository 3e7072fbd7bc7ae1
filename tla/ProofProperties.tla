--------------------------- MODULE ProofProperties ---------------------------
(* Correctness properties of the proof pipeline. *)
EXTENDS ProofWorker

-----------------------------------------------------------------------------
(* Types. *)

SweepState == [at : Points, facts : BOOLEAN, todo : Seq(Snapshot)]

\* Every variable has its type.
TypeOK ==
    /\ chain \in Seq(Jobs) /\ attested \in 0 .. Len(chain)
    /\ proven \subseteq Heights
    /\ credited \in [OfKind("payment") -> Nat]
    /\ dispute \in [Openings -> {"none", "open"} \cup Outcomes]
    /\ tally \in [{"opened"} \cup Outcomes -> Nat]
    /\ revoked \subseteq OfKind("revoked")
    /\ row \in [Jobs -> Row]
    /\ place \in [Jobs -> Nat]
    /\ sweep \in [Sweeps -> SweepState]
    /\ \A s \in Sweeps : sweep[s].at \notin {"idle", "next"} => sweep[s].todo # <<>>
    /\ orphans \subseteq Txs
    /\ retries \in 0 .. MaxRetries /\ crashes \in 0 .. MaxCrashes

-----------------------------------------------------------------------------
(* Safety. *)

\* The anchor a row names is its own, and a row past anchoring has one, with
\* sweeps overlapping, answers lost and rows retried: worker.ts never meets its
\* "attested row has no anchor transaction hash".
AnchorIsOwn ==
    \A j \in Jobs :
        /\ row[j].anchor # 0 => row[j].anchor \in Heights /\ chain[row[j].anchor] = j
        /\ row[j].status \in {"anchored", "attested", "proving", "verified"}
              => row[j].anchor # 0

\* A row says verified only when the consumer on Creditcoin has recorded its
\* event (worker.ts 312-325): no lost or stale answer makes it run ahead.
VerifiedIsRecorded ==
    \A j \in Jobs : row[j].status = "verified" => row[j].anchor \in proven

\* PaymentAnchor's and AttestPayASC's replay guards together: however often a
\* payment was sent and proven, it counts once in the payer's credit, and it
\* counts when its event was proven.
CreditCountsOnce ==
    \A j \in OfKind("payment") :
        credited[j] = Cardinality({h \in proven : chain[h] = j})
        /\ credited[j] <= 1

\* The payer's DisputeRecord agrees with the disputes, and a dispute has the
\* outcome its resolution carried, whatever order the facts were proven in.
TallyAddsUp ==
    /\ tally.opened = Cardinality({o \in Openings : dispute[o] # "none"})
    /\ \A v \in Outcomes :
          tally[v] = Cardinality({o \in Openings : dispute[o] = v})
    /\ \A r \in OfKind("resolved") :
          (\E h \in proven : chain[h] = r) <=> dispute[Opening[r]] = Outcome[r]

-----------------------------------------------------------------------------
(* Refinement. *)

IsRecorded(j) == \E h \in proven : chain[h] = j

StageOf(j) ==
    IF IsRecorded(j) THEN "recorded"
    ELSE IF IsAnchored(j) THEN "anchored"
    ELSE IF Enqueued(j) THEN "asked" ELSE "unknown"

Promise == INSTANCE VerifiedOnce WITH
    stage <- [j \in Jobs |-> StageOf(j)],
    believed <- {j \in Jobs : row[j].status = "verified"},
    Before <- [j \in Jobs |-> IF Kind[j] = "resolved" THEN {Opening[j]} ELSE {}]

\* The worker and the contracts implement VerifiedOnce.
ImplementsVerifiedOnce == Promise!Spec

-----------------------------------------------------------------------------
(* Liveness. *)

Ended(j) == row[j].status \in {"verified", "failed"}

\* A row waiting for the attestors, however long, does not keep the rows behind
\* it from being anchored: every look at it moves it to the back of the queue
\* (worker.ts 286-292, store.ts 231-243).
AnchoringNeverStarves ==
    \A j \in Jobs : row[j].status = "pending" ~> IsAnchored(j) \/ Ended(j)

\* When the attestors keep up with the chain, every row ends verified or
\* failed: no interleaving of sweeps, errors and retries keeps it for ever.
RowsEnd ==
    []<>(attested = Len(chain)) => \A j \in Jobs : Enqueued(j) ~> Ended(j)
=============================================================================

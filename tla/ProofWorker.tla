----------------------------- MODULE ProofWorker -----------------------------
(***************************************************************************)
(* The proof pipeline: the rows of attestcoin_proofs and attestcoin_facts  *)
(* (packages/engine/src/attestcoin/store.ts), the worker that drives them  *)
(* (worker.ts) through the client (client.ts), and the disputes and        *)
(* revocations that enqueue facts (facts.ts).                              *)
(*                                                                         *)
(* A sweep reads a batch of rows and advances them one after the other,    *)
(* with awaits in between; nothing keeps the timer from starting a sweep   *)
(* while another is at work, so sweeps act on rows as they once read them. *)
(* A sweep is cut at its awaits.  A transaction that was sent may be       *)
(* executed after the sweep lost its answer, or after a crash.             *)
(*                                                                         *)
(* A payment is enqueued once its charge is confirmed, with a transaction  *)
(* and a recipient, so the branch for a row that cannot be anchored is     *)
(* left out, as are the error texts and the local mirrors (credit cache,   *)
(* line mirror), which are refreshed after a row is verified.              *)
(***************************************************************************)
EXTENDS Verification

CONSTANTS
    Sweeps,        \* sweeps that may overlap
    Subject,       \* the confirmed charge each dispute is about
    BatchSize,     \* deps.batchSize
    MaxAttempts,   \* MAX_ATTEMPTS
    MaxRetries, MaxCrashes   \* bounds of the model

ASSUME WorkerAssumption ==
    /\ IsFiniteSet(Sweeps)
    /\ DOMAIN Subject = Openings
    /\ BatchSize \in Nat \ {0} /\ MaxAttempts \in Nat \ {0}
    /\ MaxRetries \in Nat /\ MaxCrashes \in Nat

VARIABLES
    row,       \* the pipeline row of each job
    place,     \* the rank of each row by updated_at, 0 for no row
    sweep,     \* local state of each sweep
    orphans,   \* transactions nobody waits for and that may still execute
    retries, crashes

workerVars == <<row, place, sweep, orphans, retries, crashes>>
vars == <<chain, attested, proven, credited, dispute, tally, revoked,
          row, place, sweep, orphans, retries, crashes>>

Working == {"pending", "anchoring", "anchored", "attested", "proving"}
Statuses == {"none", "verified", "failed"} \cup Working

\* anchor stands for anchor_tx_hash and anchor_height, 0 for null.
Row == [status : Statuses, attempts : 0 .. MaxAttempts, anchor : Nat]
NoRow == [status |-> "none", attempts |-> 0, anchor |-> 0]

Points == {"idle", "next", "anchor", "scan", "sent", "landed", "reverted",
           "height", "prover", "submitted", "accepted", "refused"}

\* What a sweep holds between two awaits: the rows left to do, as it read them.
Snapshot == [job : Jobs, row : Row]
Idle == [at |-> "idle", facts |-> FALSE, todo |-> <<>>]

Txs == [call : {"anchor"}, of : Jobs] \cup [call : {"proof"}, of : Nat]

WorkerInit ==
    /\ row = [j \in Jobs |-> NoRow]
    /\ place = [j \in Jobs |-> 0]
    /\ sweep = [s \in Sweeps |-> Idle]
    /\ orphans = {}
    /\ retries = 0
    /\ crashes = 0

Init == ContractInit /\ WorkerInit

-----------------------------------------------------------------------------
(* The store. *)

Enqueued(j) == row[j].status # "none"

Last == Cardinality(Jobs)

\* The row goes behind all others, which close ranks.
Behind(j) == [k \in Jobs |-> IF k = j THEN Last
                             ELSE IF place[k] > place[j] THEN place[k] - 1
                             ELSE place[k]]

\* Mutant: an update that changes no column leaves updated_at alone.
TouchedIfNew(j) == IF Enqueued(j) THEN place ELSE Behind(j)

\* updated_at is set by every update.
Touched(j) == Behind(j)

Write(j, r) ==
    /\ row' = [row EXCEPT ![j] = r]
    /\ place' = Touched(j)

\* Mutant: attempts are not counted.
BumpedNot(n) == n

\* attempts + 1; beyond MaxAttempts all counts are alike.
Bumped(n) == IF n < MaxAttempts THEN n + 1 ELSE n

\* The rows in a working state, of the table a sweep is at.
Due(facts) == {j \in Jobs : /\ row[j].status \in Working
                            /\ facts = (Kind[j] # "payment")}

Rank(j, due) == Cardinality({k \in due : place[k] <= place[j]})

\* The oldest of the due rows, in their order, as they are now.
Batches(due) ==
    LET oldest == {j \in due : Rank(j, due) <= BatchSize}
    IN  {todo \in [1 .. Cardinality(oldest) -> {[job |-> j, row |-> row[j]] : j \in oldest}] :
            \A i \in DOMAIN todo : Rank(todo[i].job, due) = i}

\* What a sweep may read, of which there is one.
Claimable(facts) == UNION {Batches(due) : due \in {Due(facts)}}

\* Who may ask for a job: a payment that confirmed, a dispute about it unless
\* one is open, the resolution of an open dispute, a revocation.
OpenDispute(j) ==
    /\ Enqueued(j)
    /\ \A r \in OfKind("resolved") : Opening[r] = j => ~Enqueued(r)

MayEnqueue(j) ==
    CASE Kind[j] = "opened" -> \A o \in Openings :
                                   Subject[o] = Subject[j] => ~OpenDispute(o)
      [] Kind[j] = "resolved" -> OpenDispute(Opening[j])
      [] OTHER -> TRUE

\* The confirmed-charge hook, openDispute, resolveDispute, revocations: an
\* insert that does nothing when the row exists.
Enqueue(j) ==
    /\ ~Enqueued(j)
    /\ MayEnqueue(j)
    /\ Write(j, [status |-> "pending", attempts |-> 0, anchor |-> 0])
    /\ UNCHANGED <<sweep, orphans, retries, crashes>>
    /\ UNCHANGED contractVars

\* The operator retries a failed row; what was anchored stays on the row.
RetryFailed(j) ==
    /\ row[j].status = "failed"
    /\ retries < MaxRetries
    /\ Write(j, [row[j] EXCEPT !.status = "pending", !.attempts = 0])
    /\ retries' = retries + 1
    /\ UNCHANGED <<sweep, orphans, crashes>>
    /\ UNCHANGED contractVars

-----------------------------------------------------------------------------
(* A sweep between two rows. *)

Goes(s, point) == sweep' = [sweep EXCEPT ![s].at = point]

\* The row the sweep is at, as it read it.
Current(s) == sweep[s].todo[1]
JobOf(s) == Current(s).job
Seen(s) == Current(s).row

\* The sweep is done with its row.
Done(s) == sweep' = [sweep EXCEPT ![s].at = "next", ![s].todo = Tail(@)]

\* Errors: a permanent one fails the row, any other only touches it.
Fail(s) ==
    /\ Write(JobOf(s), [row[JobOf(s)] EXCEPT !.status = "failed"])
    /\ Done(s)

Later(s) ==
    /\ Write(JobOf(s), row[JobOf(s)])
    /\ Done(s)

StartSweep(s) ==
    /\ sweep[s].at = "idle"
    /\ \E todo \in Claimable(FALSE) :
          sweep' = [sweep EXCEPT ![s] = [at |-> "next", facts |-> FALSE,
                                         todo |-> todo]]
    /\ UNCHANGED <<row, place, orphans, retries, crashes>>
    /\ UNCHANGED contractVars

\* sweepProofs has ended and sweepFacts reads its rows; or both have ended.
NextTable(s) ==
    /\ sweep[s].at = "next" /\ sweep[s].todo = <<>>
    /\ \/ sweep[s].facts /\ sweep' = [sweep EXCEPT ![s] = Idle]
       \/ /\ ~sweep[s].facts
          /\ \E todo \in Claimable(TRUE) :
                sweep' = [sweep EXCEPT ![s] = [at |-> "next", facts |-> TRUE,
                                               todo |-> todo]]
    /\ UNCHANGED <<row, place, orphans, retries, crashes>>
    /\ UNCHANGED contractVars

\* advance() up to its first await.  Status and attempts are those of the
\* snapshot; the update is of the row as it is now.
Enter(s, status, point) ==
    /\ Write(JobOf(s), [row[JobOf(s)] EXCEPT !.status = status,
                                             !.attempts = Bumped(@)])
    /\ Goes(s, point)

Advance(s) ==
    /\ sweep[s].at = "next" /\ sweep[s].todo # <<>>
    /\ \/ /\ Seen(s).attempts >= MaxAttempts
          /\ Fail(s)
       \/ /\ Seen(s).attempts < MaxAttempts
          /\ \/ /\ Seen(s).status \in {"pending", "anchoring"}
                /\ Enter(s, "anchoring", "anchor")
             \/ /\ Seen(s).status \in {"anchored", "attested", "proving"}
                /\ Seen(s).anchor = 0
                /\ Fail(s)
             \/ /\ Seen(s).status = "anchored" /\ Seen(s).anchor # 0
                /\ Goes(s, "height")
                /\ UNCHANGED <<row, place>>
             \/ /\ Seen(s).status \in {"attested", "proving"}
                /\ Seen(s).anchor # 0
                /\ Enter(s, "proving", "prover")
    /\ UNCHANGED <<orphans, retries, crashes>>
    /\ UNCHANGED contractVars

-----------------------------------------------------------------------------
(* Anchoring: isAnchored, then the log scan or the transaction. *)

ReadAnchored(s) ==
    /\ sweep[s].at = "anchor"
    /\ \/ Later(s)                                   \* the read fails
       \/ /\ Goes(s, IF IsAnchored(JobOf(s)) THEN "scan" ELSE "sent")
          /\ UNCHANGED <<row, place>>
    /\ UNCHANGED <<orphans, retries, crashes>>
    /\ UNCHANGED contractVars

\* Mutant: any event of the anchor contract is taken for the job's.
LocatedAnywhere(j) == Heights

\* findExisting: where the job's own event is.
Located(j) == {h \in Heights : chain[h] = j}

WriteAnchored(s, h) ==
    /\ Write(JobOf(s), [row[JobOf(s)] EXCEPT !.status = "anchored", !.anchor = h])
    /\ Done(s)

\* A scan that fails is a null, and a null is permanent.
ScanLogs(s) ==
    /\ sweep[s].at = "scan"
    /\ \/ \E h \in Located(JobOf(s)) : WriteAnchored(s, h)
       \/ Fail(s)
    /\ UNCHANGED <<orphans, retries, crashes>>
    /\ UNCHANGED contractVars

\* The transaction the sweep waits for is executed.
MineAnchor(s) ==
    /\ sweep[s].at = "sent"
    /\ ExecuteAnchor(JobOf(s))
    /\ Goes(s, IF Anchorable(JobOf(s)) THEN "landed" ELSE "reverted")
    /\ UNCHANGED <<row, place, orphans, retries, crashes>>

ReceiveAnchor(s) ==
    /\ \/ /\ sweep[s].at = "landed"
          /\ \E h \in Heights : chain[h] = JobOf(s) /\ WriteAnchored(s, h)
       \/ /\ sweep[s].at = "reverted"
          /\ Later(s)
    /\ UNCHANGED <<orphans, retries, crashes>>
    /\ UNCHANGED contractVars

-----------------------------------------------------------------------------
(* The wait for the attestors. *)

\* Not attested yet, or the read fails: the row is touched, nothing counted.
ReadHeightInVain(s) ==
    /\ sweep[s].at = "height"
    /\ Later(s)
    /\ UNCHANGED <<orphans, retries, crashes>>
    /\ UNCHANGED contractVars

ReadHeight(s) ==
    /\ sweep[s].at = "height"
    /\ Seen(s).anchor <= attested
    /\ Write(JobOf(s), [row[JobOf(s)] EXCEPT !.status = "attested"])
    /\ Done(s)
    /\ UNCHANGED <<orphans, retries, crashes>>
    /\ UNCHANGED contractVars

-----------------------------------------------------------------------------
(* Proving: generateProof, the simulation, then the transaction. *)

GenerateProof(s) ==
    /\ sweep[s].at = "prover"
    /\ \/ Later(s)      \* no proof yet, or the simulation is refused
       \/ /\ Seen(s).anchor <= attested
          /\ Acceptable(Seen(s).anchor)
          /\ Goes(s, "submitted")
          /\ UNCHANGED <<row, place>>
    /\ UNCHANGED <<orphans, retries, crashes>>
    /\ UNCHANGED contractVars

MineProof(s) ==
    /\ sweep[s].at = "submitted"
    /\ ExecuteProof(Seen(s).anchor)
    /\ Goes(s, IF Acceptable(Seen(s).anchor) THEN "accepted" ELSE "refused")
    /\ UNCHANGED <<row, place, orphans, retries, crashes>>

\* Nothing new recorded is a success too.
ReceiveProof(s) ==
    /\ \/ /\ sweep[s].at = "accepted"
          /\ Write(JobOf(s), [row[JobOf(s)] EXCEPT !.status = "verified"])
          /\ Done(s)
       \/ /\ sweep[s].at = "refused"
          /\ Later(s)
    /\ UNCHANGED <<orphans, retries, crashes>>
    /\ UNCHANGED contractVars

-----------------------------------------------------------------------------
(* Lost answers and crashes. *)

\* The transactions in flight that a sweep waits for.
InFlight(s) ==
    CASE sweep[s].at = "sent" -> {[call |-> "anchor", of |-> JobOf(s)]}
      [] sweep[s].at = "submitted" -> {[call |-> "proof", of |-> Seen(s).anchor]}
      [] OTHER -> {}

\* Mutant: an answer that was lost counts as a success.
LoseAnswerGladly(s) ==
    /\ sweep[s].at \in {"sent", "landed", "submitted", "accepted"}
    /\ orphans' = orphans \cup InFlight(s)
    /\ Write(JobOf(s), [row[JobOf(s)] EXCEPT !.status =
          IF sweep[s].at \in {"submitted", "accepted"} THEN "verified" ELSE @])
    /\ Done(s)
    /\ UNCHANGED <<retries, crashes>>
    /\ UNCHANGED contractVars

\* send or wait() throws, whether or not the transaction was or will be mined.
LoseAnswer(s) ==
    /\ sweep[s].at \in {"sent", "landed", "submitted", "accepted"}
    /\ orphans' = orphans \cup InFlight(s)
    /\ Later(s)
    /\ UNCHANGED <<retries, crashes>>
    /\ UNCHANGED contractVars

MineOrphan(x) ==
    /\ IF x.call = "anchor" THEN ExecuteAnchor(x.of) ELSE ExecuteProof(x.of)
    /\ orphans' = orphans \ {x}
    /\ UNCHANGED <<row, place, sweep, retries, crashes>>

Crash ==
    /\ crashes < MaxCrashes
    /\ crashes' = crashes + 1
    /\ orphans' = orphans \cup UNION {InFlight(s) : s \in Sweeps}
    /\ sweep' = [s \in Sweeps |-> Idle]
    /\ UNCHANGED <<row, place, retries>>
    /\ UNCHANGED contractVars

-----------------------------------------------------------------------------
Step(s) ==
    \/ NextTable(s) \/ Advance(s) \/ ReadAnchored(s) \/ ScanLogs(s)
    \/ MineAnchor(s) \/ ReceiveAnchor(s) \/ ReadHeightInVain(s) \/ ReadHeight(s)
    \/ GenerateProof(s) \/ MineProof(s) \/ ReceiveProof(s) \/ LoseAnswer(s)

Next ==
    \/ \E j \in Jobs : Enqueue(j) \/ RetryFailed(j)
    \/ \E s \in Sweeps : StartSweep(s) \/ Step(s)
    \/ \E x \in orphans : MineOrphan(x)
    \/ Attest
       /\ UNCHANGED workerVars
    \/ Crash

Spec == Init /\ [][Next]_vars

\* The timer fires, every await ends, and a height read that could succeed
\* again and again does so some day.
Fairness ==
    \A s \in Sweeps : /\ WF_vars(StartSweep(s))
                      /\ WF_vars(Step(s))
                      /\ SF_vars(ReadHeight(s))

FairSpec == Spec /\ Fairness
=============================================================================

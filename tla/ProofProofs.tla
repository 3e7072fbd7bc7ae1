----------------------------- MODULE ProofProofs -----------------------------
(***************************************************************************)
(* Proofs about the proof pipeline (module ProofWorker), for all sets of   *)
(* jobs and of overlapping sweeps.                                         *)
(*                                                                         *)
(* The invariant has three parts.  ContractInv is about the contracts      *)
(* alone: a job is anchored at one height, and only what is anchored is    *)
(* recorded.  RowInv relates the rows to the contracts, SweepInv what a    *)
(* sweep holds, however old, to both.  What keeps the last two is that     *)
(* contracts and rows only grow: no height is reused, nothing recorded is  *)
(* forgotten and no row loses its anchor (ContractsGrow, RowsGrow).  So    *)
(* the lemmas are: contracts grow and keep ContractInv, a written row      *)
(* keeps RowInv, growth keeps SweepInv; then one step per action.          *)
(***************************************************************************)
EXTENDS ProofProperties, FiniteSetTheorems, TLAPS

-----------------------------------------------------------------------------
(* The invariant. *)

DisputeStates == {"none", "open"} \cup Outcomes

ContractTypes ==
    /\ chain \in Seq(Jobs) /\ attested \in 0 .. Len(chain)
    /\ proven \subseteq Heights
    /\ credited \in [OfKind("payment") -> Nat]
    /\ dispute \in [Openings -> DisputeStates]
    /\ tally \in [{"opened"} \cup Outcomes -> Nat]
    /\ revoked \subseteq OfKind("revoked")

UniqueAnchors == \A h, k \in Heights : chain[h] = chain[k] => h = k

\* A dispute the ledger knows has been recorded, before any outcome.
OpeningsRecorded == \A o \in Openings : dispute[o] # "none" => IsRecorded(o)

ContractInv == ContractTypes /\ UniqueAnchors /\ OpeningsRecorded

Past == {"anchored", "attested", "proving", "verified"}

\* What a row r of job j may say.
RowOK(j, r) ==
    /\ r \in Row
    /\ r.anchor # 0 => r.anchor \in Heights /\ chain[r.anchor] = j
    /\ r.status \in Past => r.anchor # 0
    /\ r.status = "verified" => r.anchor \in proven
    /\ r.status = "none" => r.anchor = 0

\* (r names the row as a value, so that RowOK(j, r) can be primed apart from it.)
RowInv ==
    /\ row \in [Jobs -> Row] /\ place \in [Jobs -> Nat]
    /\ \A j \in Jobs : \A r \in {row[j]} : RowOK(j, r)
    /\ \A h \in Heights : Enqueued(chain[h])

\* A snapshot may be old; the anchor it read is still the row's.
SnapshotOK(x) ==
    /\ x \in Snapshot
    /\ Enqueued(x.job)
    /\ x.row.anchor # 0 => /\ x.row.anchor \in Heights /\ chain[x.row.anchor] = x.job
                           /\ row[x.job].anchor # 0

\* The points at which a sweep has read the anchor of its row.
AnchorRead == {"height", "prover", "submitted", "accepted", "refused"}

SweepOK(w) ==
    /\ w \in SweepState
    /\ \A i \in 1 .. Len(w.todo) : SnapshotOK(w.todo[i])
    /\ w.at \notin {"idle", "next"} => w.todo # <<>>
    /\ w.at \in AnchorRead => w.todo[1].row.anchor # 0
    /\ w.at = "accepted" => w.todo[1].row.anchor \in proven

TxOK(x) ==
    /\ x \in Txs
    /\ x.call = "anchor" => x.of \in Jobs /\ Enqueued(x.of)
    /\ x.call = "proof" => x.of \in Heights

SweepInv ==
    /\ sweep \in [Sweeps -> SweepState]
    /\ \A s \in Sweeps : \A w \in {sweep[s]} : SweepOK(w)
    /\ \A x \in orphans : TxOK(x)
    /\ retries \in 0 .. MaxRetries /\ crashes \in 0 .. MaxCrashes

Inv == ContractInv /\ RowInv /\ SweepInv

-----------------------------------------------------------------------------
(* Growth. *)

ContractsGrow ==
    /\ Heights \subseteq Heights'
    /\ \A h \in Heights : chain'[h] = chain[h]
    /\ proven \subseteq proven'

RowsGrow ==
    \A j \in Jobs : /\ Enqueued(j) => Enqueued(j)'
                    /\ row[j].anchor # 0 => row'[j].anchor # 0

-----------------------------------------------------------------------------
(* The contracts. *)

\* A transaction on the source chain only appends, and at most its own job.
LEMMA AnchorExecuted ==
    ASSUME ContractInv, NEW j \in Jobs, ExecuteAnchor(j)
    PROVE  /\ ContractInv' /\ ContractsGrow
           /\ \A h \in Heights' : h \in Heights \/ chain'[h] = j
<1>1. CASE ~Anchorable(j)
  <2>1. UNCHANGED contractVars
    BY <1>1 DEF ExecuteAnchor, contractVars
  <2> QED
    BY <2>1 DEF ContractInv, ContractTypes, UniqueAnchors, OpeningsRecorded, IsRecorded,
                ContractsGrow, Heights, contractVars
<1>2. CASE Anchorable(j)
  <2>1. chain \in Seq(Jobs) /\ chain' = Append(chain, j)
    BY <1>2 DEF ExecuteAnchor, ContractInv, ContractTypes
  <2>2. /\ chain' \in Seq(Jobs) /\ Len(chain') = Len(chain) + 1
        /\ Heights \subseteq Heights' /\ Heights' = Heights \cup {Len(chain) + 1}
        /\ \A h \in Heights : chain'[h] = chain[h]
        /\ chain'[Len(chain) + 1] = j
    BY <2>1 DEF Heights
  <2>3. UNCHANGED <<attested, proven, credited, dispute, tally, revoked>>
    BY DEF ExecuteAnchor
  <2>4. ContractTypes'
    <3>1. attested \in 0 .. Len(chain)'
      BY <2>1, <2>2 DEF ContractInv, ContractTypes
    <3> QED
      BY <2>2, <2>3, <3>1 DEF ContractInv, ContractTypes, DisputeStates
  <2>5. UniqueAnchors'
    <3>1. \A h \in Heights : chain[h] # j
      BY <1>2 DEF Anchorable, IsAnchored
    <3> QED
      BY <2>2, <3>1 DEF ContractInv, UniqueAnchors
  <2>6. OpeningsRecorded'
    BY <2>2, <2>3 DEF ContractInv, ContractTypes, OpeningsRecorded, IsRecorded
  <2> QED
    BY <2>2, <2>3, <2>4, <2>5, <2>6 DEF ContractInv, ContractsGrow
<1> QED
  BY <1>1, <1>2

\* What a consumer does with a new event keeps the types of its books.
LEMMA BooksTyped ==
    ASSUME ContractTypes, NEW j \in Jobs, Consume(j)
    PROVE  /\ credited' \in [OfKind("payment") -> Nat]
           /\ dispute' \in [Openings -> DisputeStates]
           /\ tally' \in [{"opened"} \cup Outcomes -> Nat]
           /\ revoked' \subseteq OfKind("revoked")
           /\ \A o \in Openings : dispute'[o] # "none" => dispute[o] # "none" \/ o = j
                                                       \/ (Kind[j] = "resolved" /\ o = Opening[j])
<1>1. Kind[j] \in Kinds /\ j \in OfKind(Kind[j])
  BY JobsAssumption DEF OfKind
<1>2. CASE Kind[j] = "payment"
  <2>1. RecordPayment(j)
    BY <1>2 DEF Consume
  <2> QED
    BY <1>1, <1>2, <2>1 DEF RecordPayment, ContractTypes
<1>3. CASE Kind[j] = "opened"
  <2>1. RecordOpening(j)
    BY <1>3 DEF Consume
  <2> QED
    BY <1>1, <1>3, <2>1 DEF RecordOpening, ContractTypes, DisputeStates, Openings
<1>4. CASE Kind[j] = "resolved"
  <2>1. RecordOutcome(j)
    BY <1>4 DEF Consume
  <2>2. Opening[j] \in Openings /\ Outcome[j] \in Outcomes
    BY <1>1, <1>4, JobsAssumption
  <2>3. dispute' = [dispute EXCEPT ![Opening[j]] = Outcome[j]]
        /\ tally' = [tally EXCEPT ![Outcome[j]] = @ + 1]
        /\ UNCHANGED <<credited, revoked>>
    BY <2>1 DEF RecordOutcome
  <2> QED
    BY <1>4, <2>2, <2>3 DEF ContractTypes, DisputeStates
<1>5. CASE Kind[j] = "revoked"
  <2>1. RecordRevocation(j)
    BY <1>5 DEF Consume
  <2> QED
    BY <1>1, <1>5, <2>1 DEF RecordRevocation, ContractTypes
<1> QED
  BY <1>1, <1>2, <1>3, <1>4, <1>5 DEF Kinds

\* A proof of a height the chain has records at most its event; when it is
\* accepted the event is recorded.
LEMMA ProofExecuted ==
    ASSUME ContractInv, NEW h \in Heights, ExecuteProof(h)
    PROVE  /\ ContractInv' /\ ContractsGrow
           /\ chain' = chain
           /\ Acceptable(h) => h \in proven'
<1>1. chain' = chain /\ attested' = attested /\ Heights' = Heights
  BY DEF ExecuteProof, Heights
<1>2. CASE ~(h \notin proven /\ Consumable(chain[h]))
  <2>1. UNCHANGED <<proven, credited, dispute, tally, revoked>>
    BY <1>2 DEF ExecuteProof
  <2> QED
    BY <1>1, <1>2, <2>1 DEF ContractInv, ContractTypes, UniqueAnchors, OpeningsRecorded,
          IsRecorded, ContractsGrow, Acceptable, DisputeStates
<1>3. CASE h \notin proven /\ Consumable(chain[h])
  <2>1. proven' = proven \cup {h} /\ Consume(chain[h])
    BY <1>3 DEF ExecuteProof
  <2>2. chain[h] \in Jobs
    BY DEF ContractInv, ContractTypes, Heights
  <2>3. ContractTypes'
    BY <1>1, <2>1, <2>2, BooksTyped DEF ContractInv, ContractTypes, DisputeStates
  <2>4. OpeningsRecorded'
    <3> SUFFICES ASSUME NEW o \in Openings, dispute'[o] # "none"
                 PROVE  IsRecorded(o)'
      BY DEF OpeningsRecorded
    <3>1. CASE dispute[o] # "none"
      BY <1>1, <2>1, <3>1 DEF ContractInv, OpeningsRecorded, IsRecorded
    <3>2. CASE o = chain[h]
      BY <1>1, <2>1, <3>2 DEF IsRecorded
    <3>3. CASE Kind[chain[h]] = "resolved" /\ o = Opening[chain[h]]
      <4>1. dispute[o] = "open"
        BY <1>3, <3>3 DEF Consumable
      <4> QED
        BY <3>1, <4>1
    <3> QED
      BY <2>1, <2>2, <3>1, <3>2, <3>3, BooksTyped DEF ContractInv
  <2> QED
    BY <1>1, <2>1, <2>3, <2>4 DEF ContractInv, UniqueAnchors, ContractsGrow
<1> QED
  BY <1>2, <1>3

LEMMA ContractsStay ==
    ASSUME ContractInv, UNCHANGED <<chain, proven, credited, dispute, tally, revoked>>,
           attested' \in 0 .. Len(chain)
    PROVE  ContractInv' /\ ContractsGrow
BY DEF ContractInv, ContractTypes, UniqueAnchors, OpeningsRecorded, IsRecorded,
       ContractsGrow, Heights, DisputeStates

-----------------------------------------------------------------------------
(* Rows and sweeps. *)

\* What was true of a row before the contracts grew is true after.
LEMMA RowStays ==
    ASSUME NEW j \in Jobs, NEW r, RowOK(j, r), ContractsGrow
    PROVE  RowOK(j, r)'
BY DEF RowOK, ContractsGrow

LEMMA RowsStay ==
    ASSUME RowInv, ContractsGrow, UNCHANGED <<row, place>>,
           \A h \in Heights' : h \in Heights \/ Enqueued(chain'[h])
    PROVE  RowInv' /\ RowsGrow
<1>1. \A j \in Jobs : \A r \in {row[j]} : RowOK(j, r)'
  BY RowStays DEF RowInv
<1>2. \A h \in Heights' : Enqueued(chain[h])'
  BY DEF RowInv, ContractsGrow, Enqueued
<1> QED
  BY <1>1, <1>2 DEF RowInv, RowsGrow, Enqueued

LEMMA PlaceTyped ==
    ASSUME place \in [Jobs -> Nat], NEW j \in Jobs
    PROVE  Touched(j) \in [Jobs -> Nat]
<1>1. Last \in Nat
  BY JobsAssumption, FS_CardinalityType DEF Last
<1> QED
  BY <1>1 DEF Touched, Behind

\* An update of a row that keeps its anchor, if it had one, and says of its own
\* job no more than what is so.
LEMMA RowWritten ==
    ASSUME RowInv, UNCHANGED contractVars, NEW j \in Jobs, NEW r, Write(j, r),
           RowOK(j, r), r.status # "none", row[j].anchor # 0 => r.anchor # 0
    PROVE  RowInv' /\ RowsGrow
<1>1. row \in [Jobs -> Row] /\ row' = [row EXCEPT ![j] = r] /\ r \in Row
  BY DEF RowInv, Write, RowOK
<1>2. row' \in [Jobs -> Row] /\ row'[j] = r /\ \A k \in Jobs : k # j => row'[k] = row[k]
  BY <1>1
<1>3. place' \in [Jobs -> Nat]
  BY PlaceTyped DEF RowInv, Write
<1>4. chain' = chain /\ proven' = proven /\ Heights' = Heights
  BY DEF contractVars, Heights
<1>5. \A k \in Jobs : \A q \in {row'[k]} : RowOK(k, q)'
  BY <1>2, <1>4 DEF RowInv, RowOK
<1>6. \A k \in Jobs : Enqueued(k) => Enqueued(k)'
  BY <1>2 DEF Enqueued
<1>7. \A h \in Heights' : Enqueued(chain[h])'
  <2>1. \A h \in Heights : chain[h] \in Jobs \/ chain[h] \notin Jobs
    OBVIOUS
  <2> QED
    BY <1>1, <1>2, <1>4 DEF RowInv, Enqueued
<1> QED
  BY <1>1, <1>2, <1>3, <1>5, <1>6, <1>7 DEF RowInv, RowsGrow

LEMMA SnapshotStays ==
    ASSUME NEW x, SnapshotOK(x), ContractsGrow, RowsGrow
    PROVE  SnapshotOK(x)'
BY DEF SnapshotOK, ContractsGrow, RowsGrow, Snapshot

LEMMA SweepStays ==
    ASSUME NEW w, SweepOK(w), ContractsGrow, RowsGrow
    PROVE  SweepOK(w)'
BY SnapshotStays DEF SweepOK, ContractsGrow

LEMMA TxStays ==
    ASSUME NEW x, TxOK(x), ContractsGrow, RowsGrow
    PROVE  TxOK(x)'
BY DEF TxOK, ContractsGrow, RowsGrow

\* The sweeps that do not move, and the orphans, keep what they know.
LEMMA SweepMoved ==
    ASSUME SweepInv, ContractsGrow, RowsGrow, NEW s \in Sweeps, NEW w,
           sweep' = [sweep EXCEPT ![s] = w], SweepOK(w)',
           \A x \in orphans' : x \in orphans \/ TxOK(x),
           retries' = retries, crashes' = crashes
    PROVE  SweepInv'
<1>1. w \in SweepState
  BY DEF SweepOK
<1>2. \A t \in Sweeps : \A v \in {sweep'[t]} : SweepOK(v)'
  BY <1>1, SweepStays DEF SweepInv
<1>3. \A x \in orphans' : TxOK(x)'
  BY TxStays DEF SweepInv
<1> QED
  BY <1>1, <1>2, <1>3 DEF SweepInv

LEMMA SweepsStay ==
    ASSUME SweepInv, ContractsGrow, RowsGrow, sweep' = sweep,
           \A x \in orphans' : x \in orphans \/ TxOK(x),
           retries' \in 0 .. MaxRetries, crashes' = crashes
    PROVE  SweepInv'
<1>1. \A t \in Sweeps : \A v \in {sweep[t]} : SweepOK(v)'
  BY SweepStays DEF SweepInv
<1>2. \A x \in orphans' : TxOK(x)'
  BY TxStays DEF SweepInv
<1> QED
  BY <1>1, <1>2 DEF SweepInv

\* What a sweep knows of the row it is at.
LEMMA AtRow ==
    ASSUME ContractInv, RowInv, SweepInv, NEW s \in Sweeps, sweep[s].todo # <<>>
    PROVE  /\ sweep[s].todo \in Seq(Snapshot) /\ Len(sweep[s].todo) > 0
           /\ JobOf(s) \in Jobs /\ Seen(s) \in Row /\ Enqueued(JobOf(s))
           /\ RowOK(JobOf(s), row[JobOf(s)])
           /\ Seen(s).anchor # 0 =>
                 /\ Seen(s).anchor \in Heights /\ chain[Seen(s).anchor] = JobOf(s)
                 /\ row[JobOf(s)].anchor = Seen(s).anchor
<1>1. SweepOK(sweep[s])
  BY DEF SweepInv
<1>2. sweep[s].todo \in Seq(Snapshot) /\ Len(sweep[s].todo) > 0
  BY <1>1 DEF SweepOK, SweepState
<1>3. SnapshotOK(Current(s)) /\ Current(s) \in Snapshot
  BY <1>1, <1>2 DEF SweepOK, Current
<1>4. JobOf(s) \in Jobs /\ Seen(s) \in Row /\ Enqueued(JobOf(s))
  BY <1>3 DEF SnapshotOK, Snapshot, JobOf, Seen
<1>5. RowOK(JobOf(s), row[JobOf(s)])
  BY <1>4 DEF RowInv
<1>6. ASSUME Seen(s).anchor # 0
      PROVE  /\ Seen(s).anchor \in Heights /\ chain[Seen(s).anchor] = JobOf(s)
             /\ row[JobOf(s)].anchor = Seen(s).anchor
  <2>1. /\ Seen(s).anchor \in Heights /\ chain[Seen(s).anchor] = JobOf(s)
        /\ row[JobOf(s)].anchor # 0
    BY <1>3, <1>6 DEF SnapshotOK, JobOf, Seen
  <2> QED
    BY <1>5, <2>1 DEF RowOK, ContractInv, UniqueAnchors
<1> QED
  BY <1>2, <1>4, <1>5, <1>6

\* Going on to the next row is always sound.
LEMMA DoneSound ==
    ASSUME SweepInv, ContractsGrow, RowsGrow, NEW s \in Sweeps,
           sweep[s].todo # <<>>, Done(s),
           \A x \in orphans' : x \in orphans \/ TxOK(x),
           retries' = retries, crashes' = crashes
    PROVE  SweepInv'
<1> PICK w : w = [sweep[s] EXCEPT !.at = "next", !.todo = Tail(@)]
  OBVIOUS
<1>1. SweepOK(sweep[s]) /\ sweep[s] \in SweepState
  BY DEF SweepInv
<1>2. sweep[s].todo \in Seq(Snapshot) /\ Len(sweep[s].todo) > 0
  BY <1>1 DEF SweepState
<1>3. /\ Tail(sweep[s].todo) \in Seq(Snapshot)
      /\ Len(Tail(sweep[s].todo)) = Len(sweep[s].todo) - 1
      /\ \A i \in 1 .. Len(Tail(sweep[s].todo)) : Tail(sweep[s].todo)[i] = sweep[s].todo[i + 1]
  BY <1>2
<1>4. w \in SweepState /\ w.at = "next" /\ w.todo = Tail(sweep[s].todo)
  BY <1>1, <1>3 DEF SweepState, Points
<1>5. \A i \in 1 .. Len(w.todo) : SnapshotOK(w.todo[i])
  <2> TAKE i \in 1 .. Len(w.todo)
  <2>1. i + 1 \in 1 .. Len(sweep[s].todo) /\ w.todo[i] = sweep[s].todo[i + 1]
    BY <1>2, <1>3, <1>4
  <2> QED
    BY <1>1, <2>1 DEF SweepOK
<1>6. SweepOK(w)
  BY <1>4, <1>5 DEF SweepOK, AnchorRead
<1>7. SweepOK(w)'
  BY <1>6, SweepStays
<1>8. sweep' = [sweep EXCEPT ![s] = w]
  BY DEF Done, SweepInv
<1> QED
  BY <1>7, <1>8, SweepMoved

\* Going on to another point, with the same rows to do, is sound when what the
\* point stands for is so.
LEMMA GoesSound ==
    ASSUME SweepInv, ContractsGrow, RowsGrow, NEW s \in Sweeps, NEW p \in Points,
           sweep[s].todo # <<>>, Goes(s, p),
           p \in AnchorRead => Seen(s).anchor # 0,
           p = "accepted" => Seen(s).anchor \in proven',
           orphans' = orphans, retries' = retries, crashes' = crashes
    PROVE  SweepInv'
<1> PICK v : v = sweep[s]
  OBVIOUS
<1> PICK w : w = [v EXCEPT !.at = p]
  OBVIOUS
<1>1. SweepOK(v) /\ v \in SweepState
  BY DEF SweepInv
<1>0. SweepOK(v)'
  BY <1>1, SweepStays
<1>2. w \in SweepState /\ w.at = p /\ w.todo = v.todo
  BY <1>1 DEF SweepState
<1>3. Seen(s) = w.todo[1].row
  BY <1>2 DEF Seen, Current
<1>4. SweepOK(w)'
  BY <1>0, <1>1, <1>2, <1>3 DEF SweepOK
<1>5. sweep' = [sweep EXCEPT ![s] = w]
  BY DEF Goes
<1> QED
  BY <1>4, <1>5, SweepMoved

-----------------------------------------------------------------------------
(* The shapes of a step. *)

\* No contract moves.
LEMMA ContractsSame ==
    ASSUME ContractInv, UNCHANGED contractVars
    PROVE  ContractInv' /\ ContractsGrow
<1>1. attested' \in 0 .. Len(chain)
  BY DEF ContractInv, ContractTypes, contractVars
<1> QED
  BY <1>1, ContractsStay DEF contractVars

\* No contract and no row moves.
LEMMA RowsSame ==
    ASSUME Inv, UNCHANGED contractVars, UNCHANGED <<row, place>>
    PROVE  ContractInv' /\ ContractsGrow /\ RowInv' /\ RowsGrow
<1>1. ContractInv' /\ ContractsGrow
  BY ContractsSame DEF Inv
<1>2. Heights' = Heights
  BY DEF contractVars, Heights
<1> QED
  BY <1>1, <1>2, RowsStay DEF Inv

\* A sweep writes its row and is done with it.
LEMMA WrittenAndDone ==
    ASSUME Inv, NEW s \in Sweeps, sweep[s].todo # <<>>, NEW r,
           Write(JobOf(s), r), Done(s), UNCHANGED contractVars,
           RowOK(JobOf(s), r), r.status # "none",
           row[JobOf(s)].anchor # 0 => r.anchor # 0,
           \A x \in orphans' : x \in orphans \/ TxOK(x),
           retries' = retries, crashes' = crashes
    PROVE  Inv'
<1>1. JobOf(s) \in Jobs
  BY AtRow DEF Inv
<1>2. ContractInv' /\ ContractsGrow
  BY ContractsSame DEF Inv
<1>3. RowInv' /\ RowsGrow
  BY <1>1, RowWritten DEF Inv
<1>4. SweepInv'
  BY <1>2, <1>3, DoneSound DEF Inv
<1> QED
  BY <1>2, <1>3, <1>4 DEF Inv

\* A status that says nothing new may be written over any other.
LEMMA StatusWritten ==
    ASSUME NEW j \in Jobs, NEW r, RowOK(j, r), r.status # "none",
           NEW v \in Statuses \ {"none", "verified"}, v \in Past => r.anchor # 0,
           NEW n \in 0 .. MaxAttempts
    PROVE  RowOK(j, [r EXCEPT !.status = v, !.attempts = n])
BY DEF RowOK, Row

LEMMA BumpedTyped ==
    ASSUME NEW n \in 0 .. MaxAttempts
    PROVE  Bumped(n) \in 0 .. MaxAttempts
BY WorkerAssumption DEF Bumped

\* An error is harmless at any time.
LEMMA LaterSound ==
    ASSUME Inv, NEW s \in Sweeps, sweep[s].todo # <<>>, Later(s), UNCHANGED contractVars,
           \A x \in orphans' : x \in orphans \/ TxOK(x),
           retries' = retries, crashes' = crashes
    PROVE  Inv'
<1>1. JobOf(s) \in Jobs /\ RowOK(JobOf(s), row[JobOf(s)]) /\ row[JobOf(s)].status # "none"
  BY AtRow DEF Inv, Enqueued
<1> QED
  BY <1>1, WrittenAndDone DEF Later

LEMMA FailSound ==
    ASSUME Inv, NEW s \in Sweeps, sweep[s].todo # <<>>, Fail(s), UNCHANGED contractVars,
           UNCHANGED <<orphans, retries, crashes>>
    PROVE  Inv'
<1> DEFINE r == [row[JobOf(s)] EXCEPT !.status = "failed"]
<1>1. JobOf(s) \in Jobs /\ RowOK(JobOf(s), row[JobOf(s)]) /\ row[JobOf(s)].status # "none"
  BY AtRow DEF Inv, Enqueued
<1>2. RowOK(JobOf(s), r) /\ r.status # "none" /\ r.anchor = row[JobOf(s)].anchor
  BY <1>1 DEF RowOK, Row, Statuses, Past
<1>3. Write(JobOf(s), r) /\ Done(s)
  BY DEF Fail
<1> HIDE DEF r
<1> QED
  BY <1>2, <1>3, WrittenAndDone

\* A sweep that waits is at a row; at points past anchoring it has the anchor.
LEMMA Waiting ==
    ASSUME Inv, NEW s \in Sweeps, sweep[s].at \notin {"idle", "next"}
    PROVE  /\ sweep[s].todo # <<>>
           /\ sweep[s].at \in AnchorRead => Seen(s).anchor # 0
           /\ sweep[s].at = "accepted" => Seen(s).anchor \in proven
BY DEF Inv, SweepInv, SweepOK, Seen, Current

\* A transaction in flight is one that a row asked for.
LEMMA InFlightSound ==
    ASSUME Inv, NEW s \in Sweeps, NEW x \in InFlight(s)
    PROVE  TxOK(x)
<1>1. CASE sweep[s].at = "sent"
  <2>1. x = [call |-> "anchor", of |-> JobOf(s)]
    BY <1>1 DEF InFlight
  <2>2. JobOf(s) \in Jobs /\ Enqueued(JobOf(s))
    BY <1>1, Waiting, AtRow DEF Inv
  <2> QED
    BY <2>1, <2>2 DEF TxOK, Txs
<1>2. CASE sweep[s].at = "submitted"
  <2>1. x = [call |-> "proof", of |-> Seen(s).anchor]
    BY <1>2 DEF InFlight
  <2>2. Seen(s).anchor \in Heights
    BY <1>2, Waiting, AtRow DEF Inv, AnchorRead
  <2> QED
    BY <2>1, <2>2 DEF TxOK, Txs, Heights
<1>3. CASE sweep[s].at \notin {"sent", "submitted"}
  BY <1>3 DEF InFlight
<1> QED
  BY <1>1, <1>2, <1>3

-----------------------------------------------------------------------------
(* The steps. *)

LEMMA EnqueueSound ==
    ASSUME Inv, NEW j \in Jobs, Enqueue(j)
    PROVE  Inv'
<1> DEFINE r == [status |-> "pending", attempts |-> 0, anchor |-> 0]
<1>1. Write(j, r) /\ row[j].status = "none" /\ UNCHANGED contractVars
  BY DEF Enqueue, Enqueued
<1>2. RowOK(j, r) /\ row[j].anchor = 0 /\ r.status # "none"
  BY <1>1, WorkerAssumption DEF Inv, RowInv, RowOK, Row, Statuses, Working, Past
<1> HIDE DEF r
<1>3. ContractInv' /\ ContractsGrow
  BY <1>1, ContractsSame DEF Inv
<1>4. RowInv' /\ RowsGrow
  BY <1>1, <1>2, RowWritten DEF Inv
<1>5. SweepInv'
  BY <1>3, <1>4, SweepsStay DEF Enqueue, Inv, SweepInv
<1> QED
  BY <1>3, <1>4, <1>5 DEF Inv

LEMMA RetrySound ==
    ASSUME Inv, NEW j \in Jobs, RetryFailed(j)
    PROVE  Inv'
<1> DEFINE r == [row[j] EXCEPT !.status = "pending", !.attempts = 0]
<1>1. Write(j, r) /\ row[j].status = "failed" /\ UNCHANGED contractVars
  BY DEF RetryFailed
<1>2. RowOK(j, row[j])
  BY DEF Inv, RowInv
<1>3. RowOK(j, r) /\ r.anchor = row[j].anchor /\ r.status # "none"
  <2>1. 0 \in 0 .. MaxAttempts /\ "pending" \in Statuses \ ({"none", "verified"} \cup Past)
    BY WorkerAssumption DEF Statuses, Working, Past
  <2>2. RowOK(j, r)
    BY <1>1, <1>2, <2>1, StatusWritten
  <2> QED
    BY <1>2, <2>2 DEF RowOK, Row
<1> HIDE DEF r
<1>4. ContractInv' /\ ContractsGrow
  BY <1>1, ContractsSame DEF Inv
<1>5. RowInv' /\ RowsGrow
  BY <1>1, <1>3, RowWritten DEF Inv
<1>6. retries' \in 0 .. MaxRetries
  BY WorkerAssumption DEF RetryFailed, Inv, SweepInv
<1>7. SweepInv'
  BY <1>4, <1>5, <1>6, SweepsStay DEF RetryFailed, Inv
<1> QED
  BY <1>4, <1>5, <1>7 DEF Inv

\* What a sweep reads are rows in a working state, as they are.
LEMMA BatchSound ==
    ASSUME Inv, NEW facts \in BOOLEAN, NEW todo \in Claimable(facts)
    PROVE  todo \in Seq(Snapshot) /\ \A i \in 1 .. Len(todo) : SnapshotOK(todo[i])
<1> PICK due : due = Due(facts) /\ todo \in Batches(due)
  BY DEF Claimable
<1> DEFINE oldest == {j \in due : Rank(j, due) <= BatchSize}
           shots == {[job |-> j, row |-> row[j]] : j \in oldest}
<1>1. todo \in [1 .. Cardinality(oldest) -> shots]
  BY DEF Batches
<1>2. oldest \subseteq Jobs /\ \A j \in oldest : Enqueued(j)
  BY DEF Due, Working, Enqueued
<1>3. Cardinality(oldest) \in Nat
  BY <1>2, JobsAssumption, FS_Subset, FS_CardinalityType
<1>4. \A x \in shots : SnapshotOK(x)
  <2> SUFFICES ASSUME NEW j \in oldest, NEW x, x = [job |-> j, row |-> row[j]]
               PROVE  SnapshotOK(x)
    OBVIOUS
  <2>1. RowOK(j, row[j])
    BY <1>2 DEF Inv, RowInv
  <2> QED
    BY <1>2, <2>1 DEF SnapshotOK, Snapshot, RowOK
<1>5. shots \subseteq Snapshot
  BY <1>4 DEF SnapshotOK
<1> HIDE DEF oldest, shots
<1>6. todo \in Seq(Snapshot) /\ Len(todo) = Cardinality(oldest)
  BY <1>1, <1>3, <1>5
<1> QED
  BY <1>1, <1>4, <1>6

\* A sweep that reads its rows.
LEMMA ClaimSound ==
    ASSUME Inv, NEW s \in Sweeps, NEW facts \in BOOLEAN, NEW todo \in Claimable(facts),
           sweep' = [sweep EXCEPT ![s] = [at |-> "next", facts |-> facts, todo |-> todo]],
           UNCHANGED <<row, place, orphans, retries, crashes>>, UNCHANGED contractVars
    PROVE  Inv'
<1> PICK w : w = [at |-> "next", facts |-> facts, todo |-> todo]
  OBVIOUS
<1>1. ContractInv' /\ ContractsGrow /\ RowInv' /\ RowsGrow
  BY RowsSame
<1>2. SweepOK(w)
  BY BatchSound DEF SweepOK, SweepState, Points, AnchorRead
<1>3. SweepOK(w)'
  BY <1>1, <1>2, SweepStays
<1>4. SweepInv'
  BY <1>1, <1>3, SweepMoved DEF Inv
<1> QED
  BY <1>1, <1>4 DEF Inv

\* A sweep that has ended knows nothing.
LEMMA IdleSound == SweepOK(Idle) /\ Idle \in SweepState
<1>1. Idle.todo = <<>> /\ Len(Idle.todo) = 0 /\ Idle.at = "idle"
  BY DEF Idle
<1>2. <<>> \in Seq(Snapshot)
  OBVIOUS
<1>3. Idle \in SweepState
  BY <1>2 DEF Idle, SweepState, Points
<1> QED
  BY <1>1, <1>3 DEF SweepOK, AnchorRead

LEMMA NextTableSound ==
    ASSUME Inv, NEW s \in Sweeps, NextTable(s)
    PROVE  Inv'
<1>1. CASE sweep' = [sweep EXCEPT ![s] = Idle]
  <2>1. ContractInv' /\ ContractsGrow /\ RowInv' /\ RowsGrow
    BY RowsSame DEF NextTable
  <2> PICK w : w = Idle
    OBVIOUS
  <2>2. SweepOK(w)'
    BY <2>1, IdleSound, SweepStays
  <2>3. SweepInv'
    BY <1>1, <2>1, <2>2, SweepMoved DEF NextTable, Inv
  <2> QED
    BY <2>1, <2>3 DEF Inv
<1>2. CASE \E todo \in Claimable(TRUE) :
              sweep' = [sweep EXCEPT ![s] = [at |-> "next", facts |-> TRUE, todo |-> todo]]
  BY <1>2, ClaimSound DEF NextTable
<1> QED
  BY <1>1, <1>2 DEF NextTable

\* A sweep that only goes on to another point.
LEMMA PointSound ==
    ASSUME Inv, NEW s \in Sweeps, NEW p \in Points, sweep[s].todo # <<>>, Goes(s, p),
           UNCHANGED <<row, place, orphans, retries, crashes>>, UNCHANGED contractVars,
           p \in AnchorRead => Seen(s).anchor # 0, p # "accepted"
    PROVE  Inv'
<1>1. ContractInv' /\ ContractsGrow /\ RowInv' /\ RowsGrow
  BY RowsSame
<1>2. SweepInv'
  BY <1>1, GoesSound DEF Inv
<1> QED
  BY <1>1, <1>2 DEF Inv

LEMMA EnterSound ==
    ASSUME Inv, NEW s \in Sweeps, sweep[s].todo # <<>>,
           NEW v, NEW p, <<v, p>> \in {<<"anchoring", "anchor">>, <<"proving", "prover">>},
           v = "proving" => Seen(s).anchor # 0, Enter(s, v, p),
           UNCHANGED <<orphans, retries, crashes>>, UNCHANGED contractVars
    PROVE  Inv'
<1> DEFINE r == [row[JobOf(s)] EXCEPT !.status = v, !.attempts = Bumped(@)]
<1>1. /\ JobOf(s) \in Jobs /\ RowOK(JobOf(s), row[JobOf(s)])
      /\ row[JobOf(s)].status # "none" /\ row[JobOf(s)] \in Row
      /\ Seen(s).anchor # 0 => row[JobOf(s)].anchor = Seen(s).anchor
  BY AtRow DEF Inv, Enqueued, RowOK
<1>2. Bumped(row[JobOf(s)].attempts) \in 0 .. MaxAttempts
  BY <1>1, BumpedTyped DEF Row
<1>3. r.anchor = row[JobOf(s)].anchor /\ r.status # "none" /\ RowOK(JobOf(s), r)
  BY <1>1, <1>2, StatusWritten DEF Statuses, Working, Past, Row
<1>4. Write(JobOf(s), r) /\ Goes(s, p) /\ p \in Points
  BY DEF Enter, Points
<1> HIDE DEF r
<1>5. ContractInv' /\ ContractsGrow
  BY ContractsSame DEF Inv
<1>6. RowInv' /\ RowsGrow
  BY <1>1, <1>3, <1>4, RowWritten DEF Inv
<1>7. SweepInv'
  BY <1>4, <1>5, <1>6, GoesSound DEF Inv, AnchorRead
<1> QED
  BY <1>5, <1>6, <1>7 DEF Inv

LEMMA AdvanceSound ==
    ASSUME Inv, NEW s \in Sweeps, Advance(s)
    PROVE  Inv'
<1>1. sweep[s].todo # <<>> /\ UNCHANGED <<orphans, retries, crashes>> /\ UNCHANGED contractVars
  BY DEF Advance
<1>2. CASE Fail(s)
  BY <1>1, <1>2, FailSound
<1>3. CASE Enter(s, "anchoring", "anchor")
  BY <1>1, <1>3, EnterSound
<1>4. CASE Goes(s, "height") /\ Seen(s).anchor # 0 /\ UNCHANGED <<row, place>>
  BY <1>1, <1>4, PointSound DEF Points
<1>5. CASE Enter(s, "proving", "prover") /\ Seen(s).anchor # 0
  BY <1>1, <1>5, EnterSound
<1> QED
  BY <1>2, <1>3, <1>4, <1>5 DEF Advance

LEMMA ReadAnchoredSound ==
    ASSUME Inv, NEW s \in Sweeps, ReadAnchored(s)
    PROVE  Inv'
<1>1. sweep[s].todo # <<>>
  BY Waiting DEF ReadAnchored
<1>2. CASE Later(s)
  BY <1>1, <1>2, LaterSound DEF ReadAnchored
<1>3. CASE /\ Goes(s, IF IsAnchored(JobOf(s)) THEN "scan" ELSE "sent")
           /\ UNCHANGED <<row, place>>
  <2> PICK p : p = IF IsAnchored(JobOf(s)) THEN "scan" ELSE "sent"
    OBVIOUS
  <2>1. p \in Points \ AnchorRead /\ p # "accepted"
    BY DEF Points, AnchorRead
  <2> QED
    BY <1>1, <1>3, <2>1, PointSound DEF ReadAnchored
<1> QED
  BY <1>2, <1>3 DEF ReadAnchored

\* The height of the job's own event may always be written to its row.
LEMMA WriteAnchoredSound ==
    ASSUME Inv, NEW s \in Sweeps, sweep[s].todo # <<>>,
           NEW h \in Heights, chain[h] = JobOf(s), WriteAnchored(s, h),
           UNCHANGED <<orphans, retries, crashes>>, UNCHANGED contractVars
    PROVE  Inv'
<1> DEFINE r == [row[JobOf(s)] EXCEPT !.status = "anchored", !.anchor = h]
<1>1. JobOf(s) \in Jobs /\ row[JobOf(s)] \in Row
  BY AtRow DEF Inv, RowOK
<1>2. h \in Nat /\ h # 0
  BY DEF Heights
<1>3. RowOK(JobOf(s), r) /\ r.status # "none" /\ r.anchor # 0
  BY <1>1, <1>2 DEF RowOK, Row, Statuses, Working
<1>4. Write(JobOf(s), r) /\ Done(s)
  BY DEF WriteAnchored
<1> HIDE DEF r
<1> QED
  BY <1>3, <1>4, WrittenAndDone

LEMMA ScanLogsSound ==
    ASSUME Inv, NEW s \in Sweeps, ScanLogs(s)
    PROVE  Inv'
<1>1. sweep[s].todo # <<>>
  BY Waiting DEF ScanLogs
<1>2. ASSUME NEW h \in Located(JobOf(s)), WriteAnchored(s, h)
      PROVE  Inv'
  BY <1>1, <1>2, WriteAnchoredSound DEF Located, ScanLogs
<1>3. CASE Fail(s)
  BY <1>1, <1>3, FailSound DEF ScanLogs
<1> QED
  BY <1>2, <1>3 DEF ScanLogs

\* A transaction on the source chain for a job that has a row.
LEMMA AnchorGrows ==
    ASSUME Inv, NEW j \in Jobs, Enqueued(j), ExecuteAnchor(j), UNCHANGED <<row, place>>
    PROVE  ContractInv' /\ ContractsGrow /\ RowInv' /\ RowsGrow
<1>1. /\ ContractInv' /\ ContractsGrow
      /\ \A h \in Heights' : h \in Heights \/ chain'[h] = j
  BY AnchorExecuted DEF Inv
<1> QED
  BY <1>1, RowsStay DEF Inv

LEMMA ProofGrows ==
    ASSUME Inv, NEW h \in Heights, ExecuteProof(h), UNCHANGED <<row, place>>
    PROVE  ContractInv' /\ ContractsGrow /\ RowInv' /\ RowsGrow
<1>1. ContractInv' /\ ContractsGrow /\ chain' = chain
  BY ProofExecuted DEF Inv
<1>2. Heights' = Heights
  BY <1>1 DEF Heights
<1> QED
  BY <1>1, <1>2, RowsStay DEF Inv

LEMMA MineAnchorSound ==
    ASSUME Inv, NEW s \in Sweeps, MineAnchor(s)
    PROVE  Inv'
<1>1. sweep[s].todo # <<>>
  BY Waiting DEF MineAnchor
<1>2. JobOf(s) \in Jobs /\ Enqueued(JobOf(s))
  BY <1>1, AtRow DEF Inv
<1>3. ContractInv' /\ ContractsGrow /\ RowInv' /\ RowsGrow
  BY <1>2, AnchorGrows DEF MineAnchor
<1> PICK p : p = IF Anchorable(JobOf(s)) THEN "landed" ELSE "reverted"
  OBVIOUS
<1>4. p \in Points \ AnchorRead /\ p # "accepted"
  BY DEF Points, AnchorRead
<1>5. SweepInv'
  BY <1>1, <1>3, <1>4, GoesSound DEF MineAnchor, Inv
<1> QED
  BY <1>3, <1>5 DEF Inv

LEMMA ReceiveAnchorSound ==
    ASSUME Inv, NEW s \in Sweeps, ReceiveAnchor(s)
    PROVE  Inv'
<1>1. sweep[s].todo # <<>>
  BY Waiting DEF ReceiveAnchor
<1>2. ASSUME NEW h \in Heights, chain[h] = JobOf(s), WriteAnchored(s, h)
      PROVE  Inv'
  BY <1>1, <1>2, WriteAnchoredSound DEF ReceiveAnchor
<1>3. CASE Later(s)
  BY <1>1, <1>3, LaterSound DEF ReceiveAnchor
<1> QED
  BY <1>2, <1>3 DEF ReceiveAnchor

LEMMA ReadHeightSound ==
    ASSUME Inv, NEW s \in Sweeps, ReadHeightInVain(s) \/ ReadHeight(s)
    PROVE  Inv'
<1>1. sweep[s].todo # <<>> /\ Seen(s).anchor # 0
  BY Waiting DEF ReadHeightInVain, ReadHeight, AnchorRead
<1>2. CASE ReadHeightInVain(s)
  BY <1>1, <1>2, LaterSound DEF ReadHeightInVain
<1>3. CASE ReadHeight(s)
  <2> DEFINE r == [row[JobOf(s)] EXCEPT !.status = "attested"]
  <2>1. /\ row[JobOf(s)].anchor # 0 /\ RowOK(JobOf(s), row[JobOf(s)])
        /\ row[JobOf(s)] \in Row
    BY <1>1, AtRow DEF Inv, RowOK
  <2>2. RowOK(JobOf(s), r) /\ r.status # "none" /\ r.anchor # 0
    BY <2>1 DEF RowOK, Row, Statuses, Working
  <2>3. Write(JobOf(s), r) /\ Done(s)
    BY <1>3 DEF ReadHeight
  <2> HIDE DEF r
  <2> QED
    BY <1>1, <1>3, <2>2, <2>3, WrittenAndDone DEF ReadHeight
<1> QED
  BY <1>2, <1>3

LEMMA GenerateProofSound ==
    ASSUME Inv, NEW s \in Sweeps, GenerateProof(s)
    PROVE  Inv'
<1>1. sweep[s].todo # <<>> /\ Seen(s).anchor # 0
  BY Waiting DEF GenerateProof, AnchorRead
<1>2. CASE Later(s)
  BY <1>1, <1>2, LaterSound DEF GenerateProof
<1>3. CASE Goes(s, "submitted") /\ UNCHANGED <<row, place>>
  BY <1>1, <1>3, PointSound DEF GenerateProof, Points
<1> QED
  BY <1>2, <1>3 DEF GenerateProof

LEMMA MineProofSound ==
    ASSUME Inv, NEW s \in Sweeps, MineProof(s)
    PROVE  Inv'
<1>1. sweep[s].todo # <<>> /\ Seen(s).anchor # 0
  BY Waiting DEF MineProof, AnchorRead
<1>2. Seen(s).anchor \in Heights
  BY <1>1, AtRow DEF Inv
<1>3. ContractInv' /\ ContractsGrow /\ RowInv' /\ RowsGrow
  BY <1>2, ProofGrows DEF MineProof
<1>4. Acceptable(Seen(s).anchor) => Seen(s).anchor \in proven'
  BY <1>2, ProofExecuted DEF MineProof, Inv
<1> PICK p : p = IF Acceptable(Seen(s).anchor) THEN "accepted" ELSE "refused"
  OBVIOUS
<1>6. p \in Points
  BY DEF Points
<1>7. SweepInv'
  BY <1>1, <1>3, <1>4, <1>6, GoesSound DEF MineProof, Inv
<1> QED
  BY <1>3, <1>7 DEF Inv

LEMMA ReceiveProofSound ==
    ASSUME Inv, NEW s \in Sweeps, ReceiveProof(s)
    PROVE  Inv'
<1>1. sweep[s].todo # <<>> /\ Seen(s).anchor # 0
  BY Waiting DEF ReceiveProof, AnchorRead
<1>2. CASE /\ sweep[s].at = "accepted" /\ Done(s)
           /\ Write(JobOf(s), [row[JobOf(s)] EXCEPT !.status = "verified"])
  <2> DEFINE r == [row[JobOf(s)] EXCEPT !.status = "verified"]
  <2>1. /\ row[JobOf(s)].anchor = Seen(s).anchor /\ RowOK(JobOf(s), row[JobOf(s)])
        /\ row[JobOf(s)] \in Row
    BY <1>1, AtRow DEF Inv, RowOK
  <2>2. Seen(s).anchor \in proven
    BY <1>2, Waiting
  <2>3. RowOK(JobOf(s), r) /\ r.status # "none" /\ r.anchor # 0
    BY <1>1, <2>1, <2>2 DEF RowOK, Row, Statuses
  <2> HIDE DEF r
  <2>4. Write(JobOf(s), r) /\ Done(s)
    BY <1>2 DEF r
  <2> QED
    BY <1>1, <2>3, <2>4, WrittenAndDone DEF ReceiveProof
<1>3. CASE Later(s)
  BY <1>1, <1>3, LaterSound DEF ReceiveProof
<1> QED
  BY <1>2, <1>3 DEF ReceiveProof

LEMMA LoseAnswerSound ==
    ASSUME Inv, NEW s \in Sweeps, LoseAnswer(s)
    PROVE  Inv'
<1>1. sweep[s].todo # <<>>
  BY Waiting DEF LoseAnswer
<1>2. \A x \in orphans' : x \in orphans \/ TxOK(x)
  BY InFlightSound DEF LoseAnswer
<1> QED
  BY <1>1, <1>2, LaterSound DEF LoseAnswer

LEMMA MineOrphanSound ==
    ASSUME Inv, NEW x \in orphans, MineOrphan(x)
    PROVE  Inv'
<1>1. TxOK(x) /\ (x.call = "anchor" \/ x.call = "proof")
  BY DEF Inv, SweepInv, TxOK, Txs
<1>2. ContractInv' /\ ContractsGrow /\ RowInv' /\ RowsGrow
  <2>1. CASE x.call = "anchor"
    BY <1>1, <2>1, AnchorGrows DEF MineOrphan, TxOK
  <2>2. CASE x.call = "proof"
    BY <1>1, <2>2, ProofGrows DEF MineOrphan, TxOK
  <2> QED
    BY <1>1, <2>1, <2>2
<1>3. SweepInv'
  BY <1>2, SweepsStay DEF MineOrphan, Inv, SweepInv
<1> QED
  BY <1>2, <1>3 DEF Inv

LEMMA CrashSound ==
    ASSUME Inv, Crash
    PROVE  Inv'
<1>1. ContractInv' /\ ContractsGrow /\ RowInv' /\ RowsGrow
  BY RowsSame DEF Crash
<1> PICK w : w = Idle
  OBVIOUS
<1>2. SweepOK(w)' /\ w \in SweepState
  BY <1>1, IdleSound, SweepStays
<1>3. \A x \in orphans' : TxOK(x)'
  <2>1. \A x \in orphans' : TxOK(x)
    BY InFlightSound DEF Crash, Inv, SweepInv
  <2> QED
    BY <1>1, <2>1, TxStays
<1>4. crashes' \in 0 .. MaxCrashes /\ retries' = retries
  BY WorkerAssumption DEF Crash, Inv, SweepInv
<1>5. SweepInv'
  BY <1>2, <1>3, <1>4 DEF Crash, Inv, SweepInv
<1> QED
  BY <1>1, <1>5 DEF Inv

LEMMA AttestSound ==
    ASSUME Inv, Attest, UNCHANGED workerVars
    PROVE  Inv'
<1>1. attested' \in 0 .. Len(chain)
  BY DEF Attest, Inv, ContractInv, ContractTypes
<1>2. ContractInv' /\ ContractsGrow /\ Heights' = Heights
  BY <1>1, ContractsStay DEF Attest, Inv, Heights
<1>3. RowInv' /\ RowsGrow
  BY <1>2, RowsStay DEF workerVars, Inv
<1>4. SweepInv'
  BY <1>2, <1>3, SweepsStay DEF workerVars, Inv, SweepInv
<1> QED
  BY <1>2, <1>3, <1>4 DEF Inv

-----------------------------------------------------------------------------
(* The invariant holds. *)

LEMMA InitSound == Init => Inv
<1> SUFFICES ASSUME Init PROVE Inv
  OBVIOUS
<1>1. chain = <<>> /\ Len(chain) = 0 /\ Heights = {}
  BY DEF Init, ContractInit, Heights
<1>2. ContractInv
  <2>1. tally \in [{"opened"} \cup Outcomes -> Nat]
    BY DEF Init, ContractInit, NoDisputes, Outcomes
  <2> QED
    BY <1>1, <2>1 DEF Init, ContractInit, ContractInv, ContractTypes, UniqueAnchors,
          OpeningsRecorded, DisputeStates
<1>3. RowInv
  <2>1. NoRow \in Row /\ NoRow.status = "none" /\ NoRow.anchor = 0
    BY WorkerAssumption DEF NoRow, Row, Statuses
  <2> QED
    BY <1>1, <2>1 DEF Init, WorkerInit, RowInv, RowOK, Past
<1>4. SweepInv
  BY IdleSound, WorkerAssumption DEF Init, WorkerInit, SweepInv
<1> QED
  BY <1>2, <1>3, <1>4 DEF Inv

LEMMA StepSound == Inv /\ [Next]_vars => Inv'
<1> SUFFICES ASSUME Inv, [Next]_vars PROVE Inv'
  OBVIOUS
<1>1. CASE UNCHANGED vars
  <2>1. ContractInv' /\ ContractsGrow /\ RowInv' /\ RowsGrow
    BY <1>1, RowsSame DEF vars, contractVars
  <2>2. SweepInv'
    BY <1>1, <2>1, SweepsStay DEF vars, Inv, SweepInv
  <2> QED
    BY <2>1, <2>2 DEF Inv
<1>2. ASSUME NEW j \in Jobs, Enqueue(j) \/ RetryFailed(j) PROVE Inv'
  BY <1>2, EnqueueSound, RetrySound
<1>3. ASSUME NEW s \in Sweeps, StartSweep(s) PROVE Inv'
  BY <1>3, ClaimSound DEF StartSweep
<1>4. ASSUME NEW s \in Sweeps, Step(s) PROVE Inv'
  BY <1>4, NextTableSound, AdvanceSound, ReadAnchoredSound, ScanLogsSound, MineAnchorSound,
     ReceiveAnchorSound, ReadHeightSound, GenerateProofSound, MineProofSound,
     ReceiveProofSound, LoseAnswerSound DEF Step
<1>5. ASSUME NEW x \in orphans, MineOrphan(x) PROVE Inv'
  BY <1>5, MineOrphanSound
<1>6. CASE Attest /\ UNCHANGED workerVars
  BY <1>6, AttestSound
<1>7. CASE Crash
  BY <1>7, CrashSound
<1> QED
  BY <1>1, <1>2, <1>3, <1>4, <1>5, <1>6, <1>7 DEF Next

THEOREM ProofInvariant == Spec => []Inv
BY InitSound, StepSound, PTL DEF Spec

-----------------------------------------------------------------------------
(* What follows from it. *)

\* Every variable keeps its type, whatever the sweeps do.
THEOREM ProofTypes == Spec => []TypeOK
<1>1. Inv => TypeOK
  BY DEF Inv, ContractInv, ContractTypes, RowInv, SweepInv, SweepOK, TxOK, TypeOK, DisputeStates
<1> QED
  BY <1>1, ProofInvariant, PTL

\* The anchor a row names is its own, and a row past anchoring has one
\* (worker.ts: "attested row has no anchor transaction hash" is never met).
THEOREM AnchorsAreOwn == Spec => []AnchorIsOwn
<1>1. Inv => AnchorIsOwn
  BY DEF Inv, RowInv, RowOK, Past, AnchorIsOwn
<1> QED
  BY <1>1, ProofInvariant, PTL

\* The books call a payment or a fact verified only when the consumer on
\* Creditcoin has recorded its event.
THEOREM BooksNeverAhead == Spec => []VerifiedIsRecorded
<1>1. Inv => VerifiedIsRecorded
  BY DEF Inv, RowInv, RowOK, VerifiedIsRecorded
<1> QED
  BY <1>1, ProofInvariant, PTL

-----------------------------------------------------------------------------
(* Counting. *)

\* Every step moves the contracts in one of four ways.
LEMMA FourMoves ==
    ASSUME Inv, [Next]_vars
    PROVE  \/ UNCHANGED contractVars
           \/ Attest
           \/ \E j \in Jobs : Enqueued(j) /\ ExecuteAnchor(j)
           \/ \E h \in Heights : ExecuteProof(h)
<1>1. CASE UNCHANGED vars
  BY <1>1 DEF vars, contractVars
<1>2. ASSUME NEW j \in Jobs, Enqueue(j) \/ RetryFailed(j) PROVE UNCHANGED contractVars
  BY <1>2 DEF Enqueue, RetryFailed
<1>3. ASSUME NEW s \in Sweeps, MineAnchor(s)
      PROVE  \E j \in Jobs : Enqueued(j) /\ ExecuteAnchor(j)
  BY <1>3, Waiting, AtRow DEF MineAnchor, Inv
<1>4. ASSUME NEW s \in Sweeps, MineProof(s) PROVE \E h \in Heights : ExecuteProof(h)
  BY <1>4, Waiting, AtRow DEF MineProof, Inv, AnchorRead
<1>5. ASSUME NEW s \in Sweeps, StartSweep(s) \/ Step(s), ~MineAnchor(s), ~MineProof(s)
      PROVE  UNCHANGED contractVars
  BY <1>5 DEF StartSweep, Step, NextTable, Advance, ReadAnchored, ScanLogs, ReceiveAnchor,
     ReadHeightInVain, ReadHeight, GenerateProof, ReceiveProof, LoseAnswer
<1>6. ASSUME NEW x \in orphans, MineOrphan(x)
      PROVE  \/ \E j \in Jobs : Enqueued(j) /\ ExecuteAnchor(j)
             \/ \E h \in Heights : ExecuteProof(h)
  BY <1>6 DEF MineOrphan, Inv, SweepInv, TxOK, Txs
<1>7. CASE Crash
  BY <1>7 DEF Crash
<1> QED
  BY <1>1, <1>2, <1>3, <1>4, <1>5, <1>6, <1>7 DEF Next

\* Where the events of a job that were recorded are.
RecordedAt(j) == {h \in proven : chain[h] = j}

LEMMA RecordedOnce ==
    ASSUME ContractInv, NEW j, NEW h \in proven, chain[h] = j
    PROVE  RecordedAt(j) = {h} /\ Cardinality(RecordedAt(j)) = 1
<1>1. RecordedAt(j) = {h}
  BY DEF ContractInv, ContractTypes, UniqueAnchors, RecordedAt
<1> QED
  BY <1>1, FS_Singleton

LEMMA RecordedNever ==
    ASSUME NEW j, \A h \in proven : chain[h] # j
    PROVE  RecordedAt(j) = {} /\ Cardinality(RecordedAt(j)) = 0
<1>1. RecordedAt(j) = {}
  BY DEF RecordedAt
<1> QED
  BY <1>1, FS_EmptySet

\* A payment counts as often as its events were recorded.
Counted == \A j \in OfKind("payment") : credited[j] = Cardinality(RecordedAt(j))

LEMMA RecordingCounts ==
    ASSUME ContractInv, Counted, NEW h \in Heights, ExecuteProof(h)
    PROVE  Counted'
<1>1. chain' = chain /\ chain[h] \in Jobs
  BY DEF ExecuteProof, ContractInv, ContractTypes, Heights
<1>2. CASE ~(h \notin proven /\ Consumable(chain[h]))
  <2>1. UNCHANGED <<chain, proven, credited>>
    BY <1>2 DEF ExecuteProof
  <2> QED
    BY <2>1 DEF Counted, RecordedAt
<1>3. CASE h \notin proven /\ Consumable(chain[h])
  <2>1. proven' = proven \cup {h} /\ Consume(chain[h])
    BY <1>3 DEF ExecuteProof
  <2> SUFFICES ASSUME NEW j \in OfKind("payment")
               PROVE  credited'[j] = Cardinality(RecordedAt(j))'
    BY DEF Counted
  <2>2. CASE j = chain[h]
    <3>1. credited' = [credited EXCEPT ![j] = @ + 1]
      BY <2>1, <2>2 DEF Consume, OfKind, RecordPayment
    <3>2. \A k \in proven : chain[k] # j
      BY <1>3, <2>2 DEF ContractInv, ContractTypes, UniqueAnchors
    <3>3. credited[j] = 0
      BY <3>2, RecordedNever DEF Counted
    <3>4. credited'[j] = 1
      BY <3>1, <3>3 DEF ContractInv, ContractTypes
    <3>5. RecordedAt(j)' = {h}
      BY <1>1, <2>1, <2>2, <3>2 DEF RecordedAt
    <3>6. Cardinality({h}) = 1
      BY FS_Singleton
    <3> QED
      BY <3>4, <3>5, <3>6
  <2>3. CASE j # chain[h]
    <3>1. RecordedAt(j)' = RecordedAt(j)
      BY <1>1, <2>1, <2>3 DEF RecordedAt
    <3>2. credited'[j] = credited[j]
      <4>1. Kind[chain[h]] \in Kinds
        BY <1>1, JobsAssumption
      <4>2. CASE Kind[chain[h]] = "payment"
        <5>1. RecordPayment(chain[h])
          BY <2>1, <4>2 DEF Consume
        <5> QED
          BY <2>3, <5>1 DEF RecordPayment, ContractInv, ContractTypes
      <4>3. CASE Kind[chain[h]] # "payment"
        <5>1. credited' = credited
          BY <2>1, <4>1, <4>3 DEF Consume, Kinds, RecordOpening, RecordOutcome, RecordRevocation
        <5> QED
          BY <5>1
      <4> QED
        BY <4>2, <4>3
    <3> QED
      BY <3>1, <3>2 DEF Counted
  <2> QED
    BY <2>2, <2>3
<1> QED
  BY <1>2, <1>3

LEMMA CountedKept == Inv /\ Counted /\ [Next]_vars => Counted'
<1> SUFFICES ASSUME Inv, Counted, [Next]_vars PROVE Counted'
  OBVIOUS
<1>1. CASE UNCHANGED contractVars \/ Attest
  BY <1>1 DEF contractVars, Attest, Counted, RecordedAt
<1>2. ASSUME NEW j \in Jobs, ExecuteAnchor(j) PROVE Counted'
  <2>1. ContractsGrow
    BY <1>2, AnchorExecuted DEF Inv
  <2>2. proven' = proven /\ credited' = credited /\ proven \subseteq Heights
    BY <1>2 DEF ExecuteAnchor, Inv, ContractInv, ContractTypes
  <2>3. \A k \in OfKind("payment") : RecordedAt(k)' = RecordedAt(k)
    BY <2>1, <2>2 DEF ContractsGrow, RecordedAt
  <2> QED
    BY <2>2, <2>3 DEF Counted
<1>3. ASSUME NEW h \in Heights, ExecuteProof(h) PROVE Counted'
  BY <1>3, RecordingCounts DEF Inv
<1> QED
  BY <1>1, <1>2, <1>3, FourMoves

\* However often a payment is sent and proven, it counts once in the payer's
\* credit, and only when its event was recorded.
THEOREM CreditedOnce == Spec => []CreditCountsOnce
<1>1. Init => Counted
  <2> SUFFICES ASSUME Init PROVE Counted
    OBVIOUS
  <2>1. proven = {} /\ credited = [j \in OfKind("payment") |-> 0]
    BY DEF Init, ContractInit
  <2> QED
    BY <2>1, RecordedNever DEF Counted
<1>2. Inv /\ Counted => CreditCountsOnce
  <2> SUFFICES ASSUME Inv, Counted, NEW j \in OfKind("payment")
               PROVE  credited[j] = Cardinality(RecordedAt(j)) /\ credited[j] <= 1
    BY DEF CreditCountsOnce, RecordedAt
  <2>1. Cardinality(RecordedAt(j)) \in {0, 1}
    BY RecordedOnce, RecordedNever DEF Inv
  <2> QED
    BY <2>1 DEF Counted
<1> QED
  BY <1>1, <1>2, CountedKept, ProofInvariant, PTL DEF Spec

-----------------------------------------------------------------------------
(* The ledger's books.  D stands for the disputes, T for the tally. *)

Holding(D, v) == {o \in Openings : D[o] = v}
Begun(D) == {o \in Openings : D[o] # "none"}

TallyOf(D, T) ==
    /\ T.opened = Cardinality(Begun(D))
    /\ \A v \in Outcomes : T[v] = Cardinality(Holding(D, v))

\* A dispute has an outcome when the resolution that carried it was recorded.
LedgerInv ==
    /\ TallyOf(dispute, tally)
    /\ \A r \in OfKind("resolved") : IsRecorded(r) => dispute[Opening[r]] = Outcome[r]
    /\ \A o \in Openings : dispute[o] \in Outcomes =>
          \E r \in OfKind("resolved") :
              IsRecorded(r) /\ Opening[r] = o /\ Outcome[r] = dispute[o]

LEMMA OpeningsFinite ==
    ASSUME NEW D
    PROVE  /\ IsFiniteSet(Begun(D)) /\ Cardinality(Begun(D)) \in Nat
           /\ \A v : IsFiniteSet(Holding(D, v)) /\ Cardinality(Holding(D, v)) \in Nat
<1>1. IsFiniteSet(Openings)
  BY JobsAssumption, FS_Subset DEF Openings, OfKind
<1> QED
  BY <1>1, FS_Subset, FS_CardinalityType DEF Begun, Holding

\* A new dispute adds one to those opened and none to the outcomes.
LEMMA OpeningTallied ==
    ASSUME NEW D \in [Openings -> DisputeStates], NEW T \in [{"opened"} \cup Outcomes -> Nat],
           TallyOf(D, T), NEW x \in Openings, D[x] = "none"
    PROVE  TallyOf([D EXCEPT ![x] = "open"], [T EXCEPT !.opened = @ + 1])
<1> DEFINE E == [D EXCEPT ![x] = "open"]
           U == [T EXCEPT !.opened = @ + 1]
<1>1. Begun(E) = Begun(D) \cup {x} /\ x \notin Begun(D)
  BY DEF Begun
<1>2. \A v \in Outcomes : Holding(E, v) = Holding(D, v)
  BY DEF Holding, Outcomes
<1>3. U.opened = T.opened + 1 /\ \A v \in Outcomes : U[v] = T[v]
  BY DEF Outcomes
<1> HIDE DEF E, U
<1>4. Cardinality(Begun(E)) = Cardinality(Begun(D)) + 1
  BY <1>1, OpeningsFinite, FS_AddElement
<1>5. TallyOf(E, U)
  BY <1>2, <1>3, <1>4 DEF TallyOf
<1> QED
  BY <1>5 DEF E, U

\* An open dispute that gets its outcome adds one to it.
LEMMA OutcomeTallied ==
    ASSUME NEW D \in [Openings -> DisputeStates], NEW T \in [{"opened"} \cup Outcomes -> Nat],
           TallyOf(D, T), NEW x \in Openings, D[x] = "open", NEW w \in Outcomes
    PROVE  TallyOf([D EXCEPT ![x] = w], [T EXCEPT ![w] = @ + 1])
<1> DEFINE E == [D EXCEPT ![x] = w]
           U == [T EXCEPT ![w] = @ + 1]
<1>1. Begun(E) = Begun(D)
  BY DEF Begun, Outcomes
<1>2. Holding(E, w) = Holding(D, w) \cup {x} /\ x \notin Holding(D, w)
  BY DEF Holding, Outcomes
<1>3. \A v \in Outcomes \ {w} : Holding(E, v) = Holding(D, v)
  BY DEF Holding, Outcomes
<1>4. U.opened = T.opened /\ U[w] = T[w] + 1 /\ \A v \in Outcomes \ {w} : U[v] = T[v]
  BY DEF Outcomes
<1> HIDE DEF E, U
<1>5. Cardinality(Holding(E, w)) = Cardinality(Holding(D, w)) + 1
  BY <1>2, OpeningsFinite, FS_AddElement
<1>6. \A v \in Outcomes : U[v] = Cardinality(Holding(E, v))
  BY <1>3, <1>4, <1>5 DEF TallyOf
<1>7. TallyOf(E, U)
  BY <1>1, <1>4, <1>6 DEF TallyOf
<1> QED
  BY <1>7 DEF E, U

LEMMA RecordingTallied ==
    ASSUME ContractInv, LedgerInv, NEW h \in Heights, ExecuteProof(h)
    PROVE  LedgerInv'
<1>1. chain' = chain /\ chain[h] \in Jobs
  BY DEF ExecuteProof, ContractInv, ContractTypes, Heights
<1>2. CASE UNCHANGED <<proven, dispute, tally>>
  BY <1>1, <1>2 DEF LedgerInv, IsRecorded
<1>3. CASE h \notin proven /\ Consumable(chain[h])
  <2> DEFINE j == chain[h]
  <2>1. proven' = proven \cup {h} /\ Consume(j)
    BY <1>3 DEF ExecuteProof
  <2>2. \A r \in Jobs : IsRecorded(r)' <=> IsRecorded(r) \/ r = j
    BY <1>1, <2>1 DEF IsRecorded
  <2>3. dispute \in [Openings -> DisputeStates] /\ tally \in [{"opened"} \cup Outcomes -> Nat]
    BY DEF ContractInv, ContractTypes
  <2>4. j \in OfKind(Kind[j]) /\ Kind[j] \in Kinds
    BY <1>1, JobsAssumption DEF OfKind
  <2>5. \A r \in OfKind("resolved") : Opening[r] \in Openings /\ Outcome[r] \in Outcomes
                                      /\ r \in Jobs /\ Kind[r] = "resolved"
    BY JobsAssumption DEF OfKind
  <2> HIDE DEF j
  <2>6. CASE Kind[j] \in {"payment", "revoked"}
    <3>1. dispute' = dispute /\ tally' = tally
      BY <2>1, <2>6 DEF Consume, RecordPayment, RecordRevocation
    <3>2. \A r \in OfKind("resolved") : IsRecorded(r)' <=> IsRecorded(r)
      BY <2>2, <2>5, <2>6
    <3> QED
      BY <3>1, <3>2 DEF LedgerInv
  <2>7. CASE Kind[j] = "opened"
    <3>1. /\ dispute' = [dispute EXCEPT ![j] = "open"]
          /\ tally' = [tally EXCEPT !.opened = @ + 1]
      BY <2>1, <2>7 DEF Consume, RecordOpening
    <3>2. j \in Openings /\ dispute[j] = "none"
      BY <1>3, <2>4, <2>7 DEF Consumable, Openings, j
    <3>3. TallyOf(dispute', tally')
      BY <2>3, <3>1, <3>2, OpeningTallied DEF LedgerInv
    <3>4. \A r \in OfKind("resolved") : IsRecorded(r)' <=> IsRecorded(r)
      BY <2>2, <2>5, <2>7
    <3>5. \A r \in OfKind("resolved") : IsRecorded(r) => Opening[r] # j
      BY <2>5, <3>2 DEF LedgerInv, Outcomes
    <3>6. \A r \in OfKind("resolved") : IsRecorded(r)' => dispute'[Opening[r]] = Outcome[r]
      BY <2>3, <2>5, <3>1, <3>4, <3>5 DEF LedgerInv
    <3>7. \A o \in Openings : dispute'[o] \in Outcomes => dispute'[o] = dispute[o]
      BY <2>3, <3>1 DEF Outcomes
    <3> QED
      BY <3>3, <3>4, <3>6, <3>7 DEF LedgerInv
  <2>8. CASE Kind[j] = "resolved"
    <3> DEFINE x == Opening[j]
               w == Outcome[j]
    <3>1. dispute' = [dispute EXCEPT ![x] = w] /\ tally' = [tally EXCEPT ![w] = @ + 1]
      BY <2>1, <2>8 DEF Consume, RecordOutcome
    <3>2. j \in OfKind("resolved") /\ x \in Openings /\ w \in Outcomes
      BY <2>4, <2>5, <2>8
    <3>3. dispute[x] = "open"
      BY <1>3, <2>8 DEF Consumable, j
    <3>4. TallyOf(dispute', tally')
      BY <2>3, <3>1, <3>2, <3>3, OutcomeTallied DEF LedgerInv
    <3>5. \A r \in OfKind("resolved") : IsRecorded(r) => Opening[r] # x
      BY <2>5, <3>3 DEF LedgerInv, Outcomes
    <3>6. dispute'[x] = w /\ \A o \in Openings \ {x} : dispute'[o] = dispute[o]
      BY <2>3, <3>1, <3>2
    <3>7. \A r \in OfKind("resolved") : IsRecorded(r)' => dispute'[Opening[r]] = Outcome[r]
      BY <2>2, <2>5, <3>5, <3>6 DEF LedgerInv
    <3>8. ASSUME NEW o \in Openings, dispute'[o] \in Outcomes
          PROVE  \E r \in OfKind("resolved") :
                    IsRecorded(r)' /\ Opening[r] = o /\ Outcome[r] = dispute'[o]
      <4>1. CASE o = x
        BY <2>2, <2>5, <3>2, <3>6, <4>1
      <4>2. CASE o # x
        BY <2>2, <2>5, <3>6, <3>8, <4>2 DEF LedgerInv
      <4> QED
        BY <4>1, <4>2
    <3> QED
      BY <3>4, <3>7, <3>8 DEF LedgerInv
  <2> QED
    BY <2>4, <2>6, <2>7, <2>8 DEF Kinds
<1> QED
  BY <1>2, <1>3 DEF ExecuteProof

LEMMA LedgerKept == Inv /\ LedgerInv /\ [Next]_vars => LedgerInv'
<1> SUFFICES ASSUME Inv, LedgerInv, [Next]_vars PROVE LedgerInv'
  OBVIOUS
<1>1. CASE UNCHANGED contractVars \/ Attest
  BY <1>1 DEF contractVars, Attest, LedgerInv, IsRecorded
<1>2. ASSUME NEW j \in Jobs, ExecuteAnchor(j) PROVE LedgerInv'
  <2>1. ContractsGrow
    BY <1>2, AnchorExecuted DEF Inv
  <2>2. UNCHANGED <<proven, dispute, tally>> /\ proven \subseteq Heights
    BY <1>2 DEF ExecuteAnchor, Inv, ContractInv, ContractTypes
  <2>3. \A r \in Jobs : IsRecorded(r)' <=> IsRecorded(r)
    BY <2>1, <2>2 DEF ContractsGrow, IsRecorded
  <2> QED
    BY <2>2, <2>3 DEF LedgerInv, OfKind
<1>3. ASSUME NEW h \in Heights, ExecuteProof(h) PROVE LedgerInv'
  BY <1>3, RecordingTallied DEF Inv
<1> QED
  BY <1>1, <1>2, <1>3, FourMoves

\* The payer's DisputeRecord counts his disputes and their outcomes, and a
\* dispute has an outcome exactly when the resolution carrying it was
\* recorded, whatever order the facts were proven in (AttestPayLedger.sol).
THEOREM TallyHolds == Spec => []TallyAddsUp
<1>1. Init => LedgerInv
  <2> SUFFICES ASSUME Init PROVE LedgerInv
    OBVIOUS
  <2>1. proven = {} /\ dispute = [j \in Openings |-> "none"] /\ tally = NoDisputes
    BY DEF Init, ContractInit
  <2>2. Begun(dispute) = {} /\ \A v \in Outcomes : Holding(dispute, v) = {}
    BY <2>1 DEF Begun, Holding, Outcomes
  <2>3. Cardinality({}) = 0
    BY FS_EmptySet
  <2>4. TallyOf(dispute, tally)
    BY <2>1, <2>2, <2>3 DEF TallyOf, NoDisputes, Outcomes
  <2> QED
    BY <2>1, <2>4 DEF LedgerInv, IsRecorded, Outcomes
<1>2. LedgerInv => TallyAddsUp
  <2> SUFFICES ASSUME LedgerInv PROVE TallyAddsUp
    OBVIOUS
  <2>1. ASSUME NEW r \in OfKind("resolved"), dispute[Opening[r]] = Outcome[r]
        PROVE  IsRecorded(r)
    <3>1. Opening[r] \in Openings /\ Outcome[r] \in Outcomes
      BY JobsAssumption
    <3> QED
      BY <2>1, <3>1, JobsAssumption DEF LedgerInv
  <2> QED
    BY <2>1 DEF LedgerInv, TallyOf, TallyAddsUp, Begun, Holding, IsRecorded
<1> QED
  BY <1>1, <1>2, LedgerKept, ProofInvariant, PTL DEF Spec

-----------------------------------------------------------------------------
(* The refinement. *)

Stage == [j \in Jobs |-> StageOf(j)]
Believed == {j \in Jobs : row[j].status = "verified"}
Before == [j \in Jobs |-> IF Kind[j] = "resolved" THEN {Opening[j]} ELSE {}]

\* What was recorded was anchored, and what was anchored was asked for.
LEMMA StagesInOrder ==
    ASSUME Inv, NEW j \in Jobs
    PROVE  (IsRecorded(j) => IsAnchored(j)) /\ (IsAnchored(j) => Enqueued(j))
BY DEF Inv, ContractInv, ContractTypes, RowInv, IsRecorded, IsAnchored

\* A stage is a matter of three facts.
LEMMA SameStages ==
    ASSUME \A j \in Jobs : /\ IsRecorded(j)' <=> IsRecorded(j)
                           /\ IsAnchored(j)' <=> IsAnchored(j)
                           /\ Enqueued(j)' <=> Enqueued(j)
    PROVE  Stage' = Stage
BY DEF Stage, StageOf

LEMMA OneStage ==
    ASSUME NEW j \in Jobs,
           \A k \in Jobs \ {j} : /\ IsRecorded(k)' <=> IsRecorded(k)
                                 /\ IsAnchored(k)' <=> IsAnchored(k)
                                 /\ Enqueued(k)' <=> Enqueued(k)
    PROVE  Stage' = [Stage EXCEPT ![j] = StageOf(j)']
BY DEF Stage, StageOf

\* A step of the source chain anchors its job, or nothing.
LEMMA AnchorRefines ==
    ASSUME Inv, NEW j \in Jobs, Enqueued(j), ExecuteAnchor(j), UNCHANGED row
    PROVE  Promise!Anchor(j) \/ UNCHANGED <<Stage, Believed>>
<1>1. \A k \in Jobs : Enqueued(k)' <=> Enqueued(k)
  BY DEF Enqueued
<1>2. Believed' = Believed
  BY DEF Believed
<1>3. \A k \in Jobs : IsRecorded(k)' <=> IsRecorded(k)
  <2>1. ContractsGrow /\ proven' = proven /\ proven \subseteq Heights
    BY AnchorExecuted DEF Inv, ContractInv, ContractTypes, ExecuteAnchor
  <2> QED
    BY <2>1 DEF ContractsGrow, IsRecorded
<1>4. CASE ~Anchorable(j)
  <2>1. chain' = chain /\ Heights' = Heights
    BY <1>4 DEF ExecuteAnchor, Heights
  <2>2. \A k \in Jobs : IsAnchored(k)' <=> IsAnchored(k)
    BY <2>1 DEF IsAnchored
  <2> QED
    BY <1>1, <1>2, <1>3, <2>2, SameStages
<1>5. CASE Anchorable(j)
  <2>1. chain' = Append(chain, j) /\ chain \in Seq(Jobs)
    BY <1>5 DEF ExecuteAnchor, Inv, ContractInv, ContractTypes
  <2>2. /\ Heights' = Heights \cup {Len(chain) + 1} /\ chain'[Len(chain) + 1] = j
        /\ \A h \in Heights : chain'[h] = chain[h]
    BY <2>1 DEF Heights
  <2>3. IsAnchored(j)' /\ \A k \in Jobs \ {j} : IsAnchored(k)' <=> IsAnchored(k)
    BY <2>2 DEF IsAnchored
  <2>4. ~IsAnchored(j) /\ ~IsRecorded(j)
    BY <1>5, StagesInOrder DEF Anchorable
  <2>5. Stage' = [Stage EXCEPT ![j] = "anchored"]
    <3>1. StageOf(j)' = "anchored"
      BY <1>3, <2>3, <2>4 DEF StageOf
    <3> QED
      BY <1>1, <1>3, <2>3, <3>1, OneStage
  <2>6. Stage[j] = "asked"
    BY <2>4 DEF Stage, StageOf
  <2>7. \A k \in Before[j] : Stage[k] \in {"anchored", "recorded"}
    <3> SUFFICES ASSUME Kind[j] = "resolved"
                 PROVE  Stage[Opening[j]] \in {"anchored", "recorded"}
      BY DEF Before
    <3>1. Opening[j] \in Jobs /\ IsAnchored(Opening[j])
      BY <1>5, JobsAssumption DEF Anchorable, OfKind, Openings
    <3> QED
      BY <3>1 DEF Stage, StageOf
  <2> QED
    BY <1>2, <2>5, <2>6, <2>7 DEF Promise!Anchor, Promise!Move, Stage, Believed, Before
<1> QED
  BY <1>4, <1>5

\* A step of a consumer records the event of its job, or nothing; the opening
\* of a dispute before its outcome.
LEMMA ProofRefines ==
    ASSUME Inv, NEW h \in Heights, ExecuteProof(h), UNCHANGED row
    PROVE  Promise!Record(chain[h]) \/ UNCHANGED <<Stage, Believed>>
<1>1. /\ chain' = chain /\ Heights' = Heights
      /\ \A k \in Jobs : (IsAnchored(k)' <=> IsAnchored(k)) /\ (Enqueued(k)' <=> Enqueued(k))
  BY DEF ExecuteProof, Heights, IsAnchored, Enqueued
<1>2. Believed' = Believed
  BY DEF Believed
<1>3. CASE ~(h \notin proven /\ Consumable(chain[h]))
  <2>1. \A k \in Jobs : IsRecorded(k)' <=> IsRecorded(k)
    BY <1>1, <1>3 DEF ExecuteProof, IsRecorded
  <2> QED
    BY <1>1, <1>2, <2>1, SameStages
<1>4. CASE h \notin proven /\ Consumable(chain[h])
  <2> DEFINE j == chain[h]
  <2>1. proven' = proven \cup {h} /\ j \in Jobs
    BY <1>4 DEF ExecuteProof, Inv, ContractInv, ContractTypes, Heights
  <2>2. \A k \in Jobs \ {j} : IsRecorded(k)' <=> IsRecorded(k)
    BY <1>1, <2>1 DEF IsRecorded
  <2>3. \E g \in proven' : chain'[g] = chain[h]
    BY <1>1, <2>1
  <2>4. IsAnchored(j) /\ ~IsRecorded(j)
    BY <1>4 DEF IsAnchored, IsRecorded, Inv, ContractInv, ContractTypes, UniqueAnchors
  <2>5. Stage' = [Stage EXCEPT ![j] = "recorded"]
    <3> PICK i : i = chain[h]
      OBVIOUS
    <3>1. StageOf(i)' = "recorded"
      BY <2>3 DEF StageOf, IsRecorded
    <3>2. Stage' = [Stage EXCEPT ![i] = StageOf(i)']
      BY <1>1, <2>1, <2>2, OneStage
    <3> QED
      BY <3>1, <3>2
  <2>6. Stage[j] = "anchored"
    BY <2>1, <2>4 DEF Stage, StageOf
  <2>7. \A k \in Before[j] : Stage[k] = "recorded"
    <3> SUFFICES ASSUME Kind[j] = "resolved"
                 PROVE  Stage[Opening[j]] = "recorded"
      BY <2>1 DEF Before
    <3>1. Opening[j] \in Openings /\ Opening[j] \in Jobs
      BY <2>1, JobsAssumption DEF OfKind, Openings
    <3>2. dispute[Opening[j]] = "open"
      BY <1>4 DEF Consumable
    <3>3. IsRecorded(Opening[j])
      BY <3>1, <3>2 DEF Inv, ContractInv, OpeningsRecorded
    <3> QED
      BY <3>1, <3>3 DEF Stage, StageOf
  <2> QED
    BY <1>2, <2>5, <2>6, <2>7 DEF Promise!Record, Promise!Move, Stage, Believed, Before
<1> QED
  BY <1>3, <1>4

\* A new row is a job asked for.
LEMMA EnqueueRefines ==
    ASSUME Inv, NEW j \in Jobs, Enqueue(j)
    PROVE  Promise!Ask(j)
<1>1. /\ row \in [Jobs -> Row]
      /\ row' = [row EXCEPT ![j] = [status |-> "pending", attempts |-> 0, anchor |-> 0]]
      /\ row[j].status = "none"
  BY DEF Enqueue, Write, Enqueued, Inv, RowInv
<1>2. /\ row'[j].status = "pending"
      /\ \A k \in Jobs \ {j} : row'[k] = row[k]
  BY <1>1
<1>3. \A k \in Jobs : (IsRecorded(k)' <=> IsRecorded(k)) /\ (IsAnchored(k)' <=> IsAnchored(k))
  BY DEF Enqueue, contractVars, IsRecorded, IsAnchored, Heights
<1>4. ~IsAnchored(j) /\ ~IsRecorded(j)
  BY <1>1, StagesInOrder DEF Enqueued
<1>5. StageOf(j)' = "asked" /\ Stage[j] = "unknown"
  BY <1>1, <1>2, <1>3, <1>4 DEF Stage, StageOf, Enqueued
<1>6. Stage' = [Stage EXCEPT ![j] = StageOf(j)']
  BY <1>2, <1>3, OneStage DEF Enqueued
<1>7. Believed' = Believed
  BY <1>1, <1>2 DEF Believed
<1> QED
  BY <1>5, <1>6, <1>7 DEF Promise!Ask, Promise!Move, Stage, Believed

\* A row that is written is believed or forgotten; it is believed only when the
\* invariant finds its event recorded.
LEMMA RowRefines ==
    ASSUME Inv, Inv', UNCHANGED <<chain, proven>>, NEW j \in Jobs, Enqueued(j), Enqueued(j)',
           \A k \in Jobs \ {j} : row'[k] = row[k]
    PROVE  Promise!Believe(j) \/ Promise!Forget(j)
<1>1. \A k \in Jobs : /\ IsRecorded(k)' <=> IsRecorded(k)
                      /\ IsAnchored(k)' <=> IsAnchored(k)
                      /\ Enqueued(k)' <=> Enqueued(k)
  BY DEF IsRecorded, IsAnchored, Heights, Enqueued
<1>2. Stage' = Stage
  BY <1>1, SameStages
<1>3. CASE row'[j].status = "verified"
  <2>1. \A r \in {row'[j]} : RowOK(j, r)'
    BY DEF Inv, RowInv
  <2>2. IsRecorded(j)
    BY <1>3, <2>1 DEF RowOK, IsRecorded, Past
  <2>3. Believed' = Believed \cup {j}
    BY <1>3 DEF Believed
  <2> QED
    BY <1>2, <2>2, <2>3 DEF Promise!Believe, Stage, StageOf, Believed
<1>4. CASE row'[j].status # "verified"
  <2>1. Believed' = Believed \ {j}
    BY <1>4 DEF Believed
  <2> QED
    BY <1>2, <2>1 DEF Promise!Forget, Stage, Believed
<1> QED
  BY <1>3, <1>4

LEMMA Unchanged ==
    ASSUME UNCHANGED <<chain, proven, row>>
    PROVE  UNCHANGED <<Stage, Believed>>
<1>1. \A k \in Jobs : /\ IsRecorded(k)' <=> IsRecorded(k)
                      /\ IsAnchored(k)' <=> IsAnchored(k)
                      /\ Enqueued(k)' <=> Enqueued(k)
  BY DEF IsRecorded, IsAnchored, Heights, Enqueued
<1> QED
  BY <1>1, SameStages DEF Believed

\* Between two transactions a sweep writes at most the row it is at.
Rewritten(j) == \E r : r.status # "none" /\ row' = [row EXCEPT ![j] = r]

LEMMA OneRow ==
    ASSUME Inv, NEW s \in Sweeps, StartSweep(s) \/ Step(s), ~MineAnchor(s), ~MineProof(s)
    PROVE  UNCHANGED row \/ (sweep[s].todo # <<>> /\ Rewritten(JobOf(s)))
<1>1. CASE StartSweep(s) \/ NextTable(s)
  BY <1>1 DEF StartSweep, NextTable
<1>2. CASE ~(StartSweep(s) \/ NextTable(s))
  <2>1. sweep[s].todo # <<>>
    BY <1>2, Waiting DEF Step, Advance, ReadAnchored, ScanLogs, ReceiveAnchor,
       ReadHeightInVain, ReadHeight, GenerateProof, ReceiveProof, LoseAnswer
  <2>2. row[JobOf(s)] \in Row /\ row[JobOf(s)].status # "none"
    BY <2>1, AtRow DEF Inv, RowOK, Enqueued
  <2>3. CASE Later(s)
    BY <2>1, <2>2, <2>3 DEF Later, Write, Rewritten
  <2>4. CASE Fail(s)
    <3>1. [row[JobOf(s)] EXCEPT !.status = "failed"].status # "none"
      BY <2>2 DEF Row
    <3> QED
      BY <2>1, <2>4, <3>1 DEF Fail, Write, Rewritten
  <2>5. ASSUME NEW v \in {"anchoring", "proving"}, NEW p, Enter(s, v, p)
        PROVE  Rewritten(JobOf(s))
    <3>1. [row[JobOf(s)] EXCEPT !.status = v, !.attempts = Bumped(@)].status # "none"
      BY <2>2 DEF Row
    <3> QED
      BY <2>5, <3>1 DEF Enter, Write, Rewritten
  <2>6. ASSUME NEW h, WriteAnchored(s, h)
        PROVE  Rewritten(JobOf(s))
    <3>1. [row[JobOf(s)] EXCEPT !.status = "anchored", !.anchor = h].status # "none"
      BY <2>2 DEF Row
    <3> QED
      BY <2>6, <3>1 DEF WriteAnchored, Write, Rewritten
  <2>7. ASSUME NEW v \in {"attested", "verified"},
               Write(JobOf(s), [row[JobOf(s)] EXCEPT !.status = v])
        PROVE  Rewritten(JobOf(s))
    <3>1. [row[JobOf(s)] EXCEPT !.status = v].status # "none"
      BY <2>2 DEF Row
    <3> QED
      BY <2>7, <3>1 DEF Write, Rewritten
  <2>8. UNCHANGED row \/ Rewritten(JobOf(s))
    <3>1. CASE Advance(s)
      BY <2>1, <2>4, <2>5, <3>1 DEF Advance
    <3>2. CASE ReadAnchored(s) \/ ReadHeightInVain(s) \/ GenerateProof(s) \/ LoseAnswer(s)
      BY <2>1, <2>3, <3>2 DEF ReadAnchored, ReadHeightInVain, GenerateProof, LoseAnswer
    <3>3. CASE ScanLogs(s) \/ ReceiveAnchor(s)
      BY <2>1, <2>3, <2>4, <2>6, <3>3 DEF ScanLogs, ReceiveAnchor
    <3>4. CASE ReadHeight(s) \/ ReceiveProof(s)
      BY <2>1, <2>3, <2>7, <3>4 DEF ReadHeight, ReceiveProof
    <3> QED
      BY <1>2, <3>1, <3>2, <3>3, <3>4 DEF Step
  <2> QED
    BY <2>1, <2>8
<1> QED
  BY <1>1, <1>2

\* Every step is one of the promise, or none.
LEMMA StepRefines ==
    ASSUME Inv, Inv', [Next]_vars
    PROVE  Promise!Next \/ UNCHANGED <<Stage, Believed>>
<1>1. CASE UNCHANGED vars
  BY <1>1, Unchanged DEF vars
<1>2. ASSUME NEW j \in Jobs, Enqueue(j) PROVE Promise!Next
  BY <1>2, EnqueueRefines DEF Promise!Next
<1>3. ASSUME UNCHANGED contractVars, NEW j \in Jobs, Enqueued(j), Rewritten(j)
      PROVE  Promise!Next
  <2>1. row \in [Jobs -> Row] /\ chain' = chain /\ proven' = proven
    BY <1>3 DEF Inv, RowInv, contractVars
  <2>2. Enqueued(j)' /\ \A k \in Jobs \ {j} : row'[k] = row[k]
    BY <1>3, <2>1 DEF Rewritten, Enqueued
  <2>3. Promise!Believe(j) \/ Promise!Forget(j)
    BY <1>3, <2>1, <2>2, RowRefines
  <2> QED
    BY <2>3 DEF Promise!Next
<1>4. ASSUME NEW j \in Jobs, RetryFailed(j) PROVE Promise!Next
  <2>1. row[j] \in Row /\ row[j].status = "failed" /\ UNCHANGED contractVars
    BY <1>4 DEF RetryFailed, Inv, RowInv
  <2>2. [row[j] EXCEPT !.status = "pending", !.attempts = 0].status # "none"
    BY <2>1 DEF Row
  <2>3. Rewritten(j)
    BY <1>4, <2>2 DEF RetryFailed, Write, Rewritten
  <2> QED
    BY <1>3, <2>1, <2>3 DEF Enqueued
<1>5. ASSUME NEW s \in Sweeps, MineAnchor(s)
      PROVE  Promise!Next \/ UNCHANGED <<Stage, Believed>>
  <2>1. JobOf(s) \in Jobs /\ Enqueued(JobOf(s))
    BY <1>5, Waiting, AtRow DEF MineAnchor, Inv
  <2> QED
    BY <1>5, <2>1, AnchorRefines DEF MineAnchor, Promise!Next
<1>6. ASSUME NEW h \in Heights, ExecuteProof(h), UNCHANGED row
      PROVE  Promise!Next \/ UNCHANGED <<Stage, Believed>>
  <2>1. chain[h] \in Jobs
    BY DEF Inv, ContractInv, ContractTypes, Heights
  <2> QED
    BY <1>6, <2>1, ProofRefines DEF Promise!Next
<1>7. ASSUME NEW s \in Sweeps, MineProof(s)
      PROVE  Promise!Next \/ UNCHANGED <<Stage, Believed>>
  <2>1. Seen(s).anchor \in Heights
    BY <1>7, Waiting, AtRow DEF MineProof, Inv, AnchorRead
  <2> QED
    BY <1>6, <1>7, <2>1 DEF MineProof
<1>8. ASSUME NEW s \in Sweeps, StartSweep(s) \/ Step(s), ~MineAnchor(s), ~MineProof(s)
      PROVE  Promise!Next \/ UNCHANGED <<Stage, Believed>>
  <2>1. UNCHANGED contractVars
    BY <1>8 DEF StartSweep, Step, NextTable, Advance, ReadAnchored, ScanLogs, ReceiveAnchor,
       ReadHeightInVain, ReadHeight, GenerateProof, ReceiveProof, LoseAnswer
  <2>2. CASE UNCHANGED row
    BY <2>1, <2>2, Unchanged DEF contractVars
  <2>3. CASE sweep[s].todo # <<>> /\ Rewritten(JobOf(s))
    <3>1. JobOf(s) \in Jobs /\ Enqueued(JobOf(s))
      BY <2>3, AtRow DEF Inv
    <3> QED
      BY <1>3, <2>1, <2>3, <3>1
  <2> QED
    BY <1>8, <2>2, <2>3, OneRow
<1>9. ASSUME NEW x \in orphans, MineOrphan(x)
      PROVE  Promise!Next \/ UNCHANGED <<Stage, Believed>>
  <2>1. TxOK(x) /\ (x.call = "anchor" \/ x.call = "proof") /\ UNCHANGED row
    BY <1>9 DEF MineOrphan, Inv, SweepInv, TxOK, Txs
  <2>2. CASE x.call = "anchor"
    BY <1>9, <2>1, <2>2, AnchorRefines DEF MineOrphan, TxOK, Promise!Next
  <2>3. CASE x.call = "proof"
    BY <1>6, <1>9, <2>1, <2>3 DEF MineOrphan, TxOK
  <2> QED
    BY <2>1, <2>2, <2>3
<1>10. CASE (Attest /\ UNCHANGED workerVars) \/ Crash
  BY <1>10, Unchanged DEF Attest, Crash, workerVars, contractVars
<1> QED
  BY <1>1, <1>2, <1>4, <1>5, <1>7, <1>8, <1>9, <1>10 DEF Next

\* The worker and the contracts implement VerifiedOnce: what is asked for is
\* anchored once and recorded once, outcomes after their disputes, and the books
\* never run ahead.
THEOREM WorkerImplementsVerifiedOnce == Spec => ImplementsVerifiedOnce
<1>1. Init => Promise!Init
  <2> SUFFICES ASSUME Init PROVE Promise!Init
    OBVIOUS
  <2>1. \A j \in Jobs : ~IsRecorded(j) /\ ~IsAnchored(j) /\ ~Enqueued(j)
    BY DEF Init, ContractInit, WorkerInit, NoRow, IsRecorded, IsAnchored, Enqueued, Heights
  <2>2. \A j \in Jobs : row[j].status = "none"
    BY <2>1 DEF Enqueued
  <2> QED
    BY <2>1, <2>2 DEF Promise!Init, StageOf
<1>2. Inv /\ Inv' /\ [Next]_vars => [Promise!Next]_<<Stage, Believed>>
  BY StepRefines
<1>3. Promise!Spec <=> Promise!Init /\ [][Promise!Next]_<<Stage, Believed>>
  BY DEF Promise!Spec, Stage, Believed
<1> QED
  BY <1>1, <1>2, <1>3, ProofInvariant, PTL DEF Spec, ImplementsVerifiedOnce
=============================================================================

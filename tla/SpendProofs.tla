---------------------------- MODULE SpendProofs ----------------------------
(* Proofs about the spend pipeline, for every value of its constants.  First *)
(* its types, step by step; then the Visa lane: an approved charge is        *)
(* broadcast at most once and never loses its budget, and no call, Visa or   *)
(* agent, begins to broadcast under a killed card.                           *)
EXTENDS SpendProperties, SequenceTheorems, TLAPS

-----------------------------------------------------------------------------
(* Queues. *)

\* When the head of a queue leaves, everyone behind it still waits.
LEMMA TailKeeps ==
  ASSUME NEW S, NEW q \in Seq(S), NEW p, q # <<>>, IsIn(p, q), Head(q) # p
  PROVE  IsIn(p, Tail(q))
<1>1. PICK k \in 1..Len(q) : q[k] = p
  BY DEF IsIn
<1>2. k # 1
  BY <1>1
<1>3. k - 1 \in 1..Len(Tail(q)) /\ Tail(q)[k - 1] = q[k]
  BY <1>2, HeadTailProperties
<1> QED
  BY <1>1, <1>3 DEF IsIn

\* Joining a queue keeps its waiters and, unless it was empty, its head.
LEMMA AppendKeeps ==
  ASSUME NEW S, NEW q \in Seq(S), NEW p \in S
  PROVE  /\ Append(q, p) \in Seq(S)
         /\ IsIn(p, Append(q, p))
         /\ \A r : IsIn(r, q) => IsIn(r, Append(q, p))
         /\ \A r : IsIn(r, q) => Head(Append(q, p)) = Head(q)
  BY AppendProperties DEF IsIn

\* A queue someone waits in is not empty.
LEMMA InNotEmpty ==
  ASSUME NEW S, NEW q \in Seq(S), NEW p, IsIn(p, q)
  PROVE  q # <<>>
  BY DEF IsIn

-----------------------------------------------------------------------------
(* Types of the calls and of the queues. *)

\* A call waits on the key of a card.
LEMMA SpendKeyType ==
  ASSUME NEW c \in Cards
  PROVE  SpendKey(c) \in Cards
  BY ForestAssumption DEF SpendKey, RootOf

\* What is left of a call that ended.
LEMMA EndedFields ==
  ASSUME TypeOK, NEW p \in Spenders, NEW out \in Outcomes
  PROVE  /\ Ended(p, out) \in Call
         /\ Ended(p, out).pc = "exit"
         /\ Ended(p, out).row = t[p].row
         /\ Ended(p, out).card = t[p].card
<1>1. t[p] \in Call
  BY DEF TypeOK
<1>2. Told(p, out) \in Outcomes
  BY DEF Told, Outcomes
<1> QED
  BY <1>1, <1>2 DEF Ended, NoCall, Call, Points
\* The part of the invariant that speaks of calls and queues.
CallsInv == /\ t \in [Spenders -> Call]
            /\ mutex \in [Cards -> Seq(Spenders \cup X402Calls)]
            /\ LockInv /\ RowInv

\* Nothing about calls changes.
LEMMA CallsStay ==
  ASSUME TypeOK, LockInv, RowInv, UNCHANGED <<t, mutex>>
  PROVE  CallsInv'
  BY DEF TypeOK, CallsInv, LockInv, LockOK, RowInv, RowOK, InQueue

\* One call changes.
LEMMA RowFrame ==
  ASSUME RowInv, NEW p \in Spenders, RowOK(p, t'[p]),
         \A q \in Spenders \ {p} : t'[q] = t[q]
  PROVE  RowInv'
<1> SUFFICES ASSUME NEW q \in Spenders
             PROVE  RowOK(q, t'[q])
  BY DEF RowInv, RowOK
<1> QED
  BY DEF RowInv

\* A call moves on without touching its queue.
LEMMA MoveCalls ==
  ASSUME TypeOK, LockInv, RowInv, NEW p \in Spenders, NEW call \in Call,
         t' = [t EXCEPT ![p] = call], UNCHANGED mutex, RowOK(p, call),
         call.pc # "queued",
         call.pc \in InSection => /\ call.lock = t[p].lock
                                  /\ AtHead(p) \/ t[p].pc \in InSection
  PROVE  CallsInv'
<1> USE DEF TypeOK
<1>1. t' \in [Spenders -> Call] /\ t'[p] = call
      /\ \A q \in Spenders \ {p} : t'[q] = t[q]
  OBVIOUS
<1>2. RowInv'
  BY <1>1, RowFrame
<1>3. LockInv'
  BY <1>1 DEF LockInv, LockOK, InQueue, AtHead, InSection
<1> QED
  BY <1>1, <1>2, <1>3 DEF CallsInv

\* The head of a queue leaves it.
LEMMA LeaveCalls ==
  ASSUME TypeOK, LockInv, RowInv, NEW p \in Spenders, NEW out \in Outcomes,
         AtHead(p) \/ t[p].pc \in InSection, Leave(p, out)
  PROVE  CallsInv'
<1> USE DEF TypeOK
<1> DEFINE l == t[p].lock
           S == Spenders \cup X402Calls
           e == Ended(p, out)
<1>1. /\ l \in Cards /\ mutex[l] \in Seq(S) /\ mutex[l] # <<>>
      /\ Head(mutex[l]) = p
  <2>1. l \in Cards /\ IsIn(p, mutex[l]) /\ Head(mutex[l]) = p
    BY DEF LockInv, LockOK, AtHead, InQueue, InSection
  <2> QED
    BY <2>1, InNotEmpty
<1>2. /\ e \in Call /\ e.pc = "exit" /\ e.row = t[p].row /\ e.card = t[p].card
  BY EndedFields
<1>3. t' \in [Spenders -> Call] /\ t'[p] = e
      /\ \A q \in Spenders \ {p} : t'[q] = t[q]
  BY <1>2 DEF Leave
<1>4. mutex' = [mutex EXCEPT ![l] = Tail(mutex[l])] /\ Tail(mutex[l]) \in Seq(S)
  BY <1>1, HeadTailProperties DEF Leave
<1>5. LockInv'
  <2> SUFFICES ASSUME NEW q \in Spenders
               PROVE  LockOK(q)'
    BY DEF LockInv
  <2>1. CASE q = p
    BY <2>1, <1>2, <1>3 DEF LockOK, InQueue, InSection
  <2>2. CASE q # p /\ ~InQueue(q)
    BY <2>2, <1>3 DEF LockOK, InQueue
  <2>3. CASE q # p /\ InQueue(q)
    <3>1. t'[q] = t[q] /\ t[q].lock \in Cards /\ IsIn(q, mutex[t[q].lock])
      BY <2>3, <1>3 DEF LockInv, LockOK
    <3>2. CASE t[q].lock = l
      <4>1. IsIn(q, mutex'[t'[q].lock])
        BY <3>1, <3>2, <2>3, <1>1, <1>4, TailKeeps
      <4>2. t[q].pc \notin InSection
        BY <3>2, <2>3, <1>1 DEF LockInv, LockOK
      <4> QED
        BY <3>1, <4>1, <4>2 DEF LockOK
    <3>3. CASE t[q].lock # l
      BY <3>1, <3>3, <1>4 DEF LockInv, LockOK
    <3> QED
      BY <3>2, <3>3
  <2> QED
    BY <2>1, <2>2, <2>3
<1>6. RowInv'
  <2>1. t[p].pc \notin {"idle", "read"}
    BY DEF AtHead, InSection
  <2>2. RowOK(p, e)
    <3> HIDE DEF e
    <3> QED
      BY <2>1, <1>2 DEF RowInv, RowOK
  <2> QED
    BY <2>2, <1>3, RowFrame
<1> QED
  BY <1>3, <1>4, <1>5, <1>6 DEF CallsInv

\* A call joins the queue of its card's tree.
LEMMA QueueCalls ==
  ASSUME TypeOK, LockInv, RowInv, NEW p \in Spenders, NEW call \in Call,
         call.card \in Cards, ~InQueue(p), Queue(p, call),
         RowOK(p, [call EXCEPT !.pc = "queued", !.lock = SpendKey(call.card)])
  PROVE  CallsInv'
<1> USE DEF TypeOK
<1> DEFINE l == SpendKey(call.card)
           S == Spenders \cup X402Calls
           new == [call EXCEPT !.pc = "queued", !.lock = l]
<1>1. l \in Cards /\ mutex[l] \in Seq(S)
  BY SpendKeyType
<1>2. new \in Call /\ new.pc = "queued" /\ new.lock = l
  BY <1>1 DEF Call, Points
<1>3. t' \in [Spenders -> Call] /\ t'[p] = new
      /\ \A q \in Spenders \ {p} : t'[q] = t[q]
  BY <1>2 DEF Queue
<1>4. mutex' = [mutex EXCEPT ![l] = Append(mutex[l], p)]
  BY DEF Queue
<1>5. p \in S
  OBVIOUS
<1>6. /\ Append(mutex[l], p) \in Seq(S)
      /\ IsIn(p, Append(mutex[l], p))
      /\ \A r : IsIn(r, mutex[l]) => IsIn(r, Append(mutex[l], p))
      /\ \A r : IsIn(r, mutex[l]) => Head(Append(mutex[l], p)) = Head(mutex[l])
  <2> HIDE DEF S, l
  <2> QED
    BY <1>1, <1>5, AppendKeeps
<1>7. LockInv'
  <2> SUFFICES ASSUME NEW q \in Spenders
               PROVE  LockOK(q)'
    BY DEF LockInv
  <2>1. CASE q = p
    BY <2>1, <1>1, <1>2, <1>3, <1>4, <1>6 DEF InSection, LockOK, InQueue
  <2>2. CASE q # p
    BY <2>2, <1>1, <1>3, <1>4, <1>6 DEF LockInv, LockOK, InQueue, InSection
  <2> QED
    BY <2>1, <2>2
<1>8. RowInv'
  <2> HIDE DEF new
  <2>1. RowOK(p, new)
    BY DEF new
  <2> QED
    BY <2>1, <1>3, RowFrame
<1> QED
  BY <1>3, <1>4, <1>1, <1>6, <1>7, <1>8 DEF CallsInv

-----------------------------------------------------------------------------
(* Type correctness: one step per action. *)

TypeInv == TypeOK /\ LockInv /\ RowInv

\* The fields of an empty row.
LEMMA NoChargeType == NoCharge \in Charge
  BY DEF NoCharge, Charge, ChargeStatuses

\* An UPDATE writes its row, if the row is there, and no other.
LEMMA UpdateChargeFields ==
  ASSUME charges \in [ChargeIds -> Charge], NEW i \in ChargeIds,
         NEW row \in Charge, UpdateCharge(i, row)
  PROVE  /\ charges' \in [ChargeIds -> Charge]
         /\ \A j \in ChargeIds \ {i} : charges'[j] = charges[j]
         /\ charges[i].status = "absent" => charges'[i] = charges[i]
         /\ charges[i].status # "absent" => charges'[i] = row
  BY DEF UpdateCharge

\* A spender's row is a charge, unless it is the sweep at rest.
LEMMA RowIsCharge ==
  ASSUME RowInv, NEW p \in Spenders, t[p].pc # "idle"
  PROVE  t[p].row \in ChargeIds
  BY DEF RowInv, RowOK, Spenders, Settlers, ChargeIds

\* An action of a call that writes at most the charges besides it.
LEMMA CallStepTypes ==
  ASSUME TypeOK, CallsInv', charges' \in [ChargeIds -> Charge],
         UnchangedButCalls
  PROVE  TypeInv'
  BY DEF TypeOK, CallsInv, UnchangedButCalls, TypeInv, boundVars

\* The mutex hands over.
LEMMA EnterSpendTypes ==
  ASSUME TypeInv, NEW p \in Spenders, EnterSpend(p)
  PROVE  TypeInv'
<1> USE DEF TypeInv
<1> {"receipt", "error", "refused"} \subseteq Outcomes
  BY DEF Outcomes
<1>1. CASE ReplayKey(p)
  <2>1. CallsInv'
    BY <1>1, LeaveCalls DEF ReplayKey
  <2> QED
    BY <1>1, <2>1, CallStepTypes DEF ReplayKey, TypeOK
<1>2. CASE ReplaySettle(p)
  <2>1. CallsInv'
    BY <1>2, LeaveCalls DEF ReplaySettle
  <2> QED
    BY <1>2, <2>1, CallStepTypes DEF ReplaySettle, TypeOK
<1>3. CASE StartSpend(p)
  <2> DEFINE call == [t[p] EXCEPT !.pc = "fee", !.win = window]
  <2>1. AtHead(p) /\ UnchangedButCalls
    BY <1>3 DEF StartSpend
  <2>2. charges' \in [ChargeIds -> Charge]
    BY <1>3, NoChargeType DEF StartSpend, TypeOK
  <2>3. CASE Leave(p, "refused")
    BY <2>1, <2>3, LeaveCalls, <2>2, CallStepTypes
  <2>4. CASE Leave(p, ChainRefusal(t[p].card, expired))
    <3>1. ChainRefusal(t[p].card, expired) \in Outcomes
      BY DEF ChainRefusal, Outcomes
    <3> QED
      BY <2>1, <2>4, <3>1, LeaveCalls, <2>2, CallStepTypes
  <2>5. CASE t' = [t EXCEPT ![p].pc = "fee", ![p].win = window] /\ UNCHANGED mutex
    <3>1. /\ call \in Call /\ call.pc = "fee" /\ call.row = t[p].row
          /\ call.card = t[p].card /\ call.lock = t[p].lock
      <4>1. t[p] \in Call /\ window \in Nat
        BY DEF TypeOK
      <4> QED
        BY <4>1 DEF Call, Points, InSection
    <3>2. t' = [t EXCEPT ![p] = call]
      BY <2>5 DEF TypeOK
    <3>3. RowOK(p, call)
      BY <2>1, <3>1 DEF RowInv, RowOK, AtHead
    <3>4. CallsInv'
      BY <3>1, <3>2, <3>3, <2>5, <2>1, MoveCalls
    <3> QED
      BY <2>1, <2>2, <3>4, CallStepTypes
  <2> QED
    BY <1>3, <2>3, <2>4, <2>5 DEF StartSpend
<1> QED
  BY <1>1, <1>2, <1>3 DEF EnterSpend

\* A call that holds its key moves on inside its section.
\* A call drives a charge, whose fees are amounts.
LEMMA DrivenFee ==
  ASSUME TypeInv, NEW p \in Spenders, t[p].pc # "idle"
  PROVE  t[p].row \in ChargeIds /\ Fees[t[p].row] \subseteq Nat
BY PipelineAssumption DEF TypeInv, TypeOK, RowInv, RowOK, Spenders, ChargeIds, Settlers

LEMMA SectionMoves ==
  ASSUME TypeInv, NEW p \in Spenders, NEW call \in Call,
         t[p].pc \in InSection, t' = [t EXCEPT ![p] = call], UNCHANGED mutex,
         call.pc \in InSection, call.row = t[p].row, call.card = t[p].card,
         call.lock = t[p].lock
  PROVE  CallsInv'
<1>1. RowOK(p, call)
  BY DEF TypeInv, RowInv, RowOK, InSection
<1>2. call.pc # "queued"
  BY DEF InSection
<1> QED
  BY <1>1, <1>2, MoveCalls DEF TypeInv

\* A redemption runs on to its reservation.
LEMMA ReservingTypes ==
  ASSUME TypeInv, NEW p \in Spenders,
         PlanFee(p) \/ RaiseFee(p) \/ RefuseUnreserved(p) \/ Reserve(p)
  PROVE  TypeInv'
<1> USE DEF TypeInv
<1>1. CASE PlanFee(p)
  <2>1. PICK f \in Fees[t[p].row] : t' = [t EXCEPT ![p].pc = "estimate", ![p].fee = f]
    BY <1>1 DEF PlanFee
  <2> DEFINE call == [t[p] EXCEPT !.pc = "estimate", !.fee = f]
  <2>2. /\ call \in Call /\ call.pc = "estimate" /\ call.row = t[p].row
        /\ call.card = t[p].card /\ call.lock = t[p].lock
    <3>1. f \in Nat /\ t[p] \in Call
      BY <1>1, <2>1, DrivenFee DEF TypeOK, PlanFee, RaiseFee
    <3> QED
      BY <3>1 DEF Call, Points, InSection
  <2>3. t' = [t EXCEPT ![p] = call]
    BY <2>1 DEF TypeOK
  <2>4. CallsInv'
    BY <1>1, <2>2, <2>3, SectionMoves DEF PlanFee, InSection
  <2> QED
    BY <1>1, <2>4, CallStepTypes DEF PlanFee, TypeOK
<1>2. CASE RaiseFee(p)
  <2>1. PICK f \in Fees[t[p].row] : t' = [t EXCEPT ![p].fee = f, ![p].tries = @ + 1]
    BY <1>2 DEF RaiseFee
  <2> DEFINE n == t[p].tries + 1
             call == [t[p] EXCEPT !.fee = f, !.tries = n]
  <2>2. /\ call \in Call /\ call.pc = t[p].pc /\ call.row = t[p].row
        /\ call.card = t[p].card /\ call.lock = t[p].lock
    <3>1. f \in Nat /\ t[p] \in Call
      BY <1>2, <2>1, DrivenFee DEF TypeOK, PlanFee, RaiseFee
    <3>2. n \in Nat
      BY <3>1 DEF Call
    <3> HIDE DEF n
    <3> QED
      BY <3>1, <3>2 DEF Call
  <2>3. t' = [t EXCEPT ![p] = call]
    BY <2>1 DEF TypeOK
  <2>4. CallsInv'
    BY <1>2, <2>2, <2>3, SectionMoves DEF RaiseFee, InSection
  <2> QED
    BY <1>2, <2>4, CallStepTypes DEF RaiseFee, TypeOK
<1>3. CASE RefuseUnreserved(p)
  <2>1. PICK out \in Outcomes : Leave(p, out)
    BY <1>3 DEF RefuseUnreserved, Outcomes
  <2>2. CallsInv'
    BY <1>3, <2>1, LeaveCalls DEF RefuseUnreserved, InSection
  <2> QED
    BY <1>3, <2>2, CallStepTypes DEF RefuseUnreserved, TypeOK
<1>4. CASE Reserve(p)
  <2> DEFINE call == [t[p] EXCEPT !.pc = "block"]
             row == [NoCharge EXCEPT !.status = "pending", !.card = t[p].card,
                                     !.key = t[p].key, !.amount = t[p].amount,
                                     !.fee = t[p].fee, !.win = t[p].win]
  <2>1. /\ call \in Call /\ call.pc = "block" /\ call.row = t[p].row
        /\ call.card = t[p].card /\ call.lock = t[p].lock
    <3>1. t[p] \in Call
      BY DEF TypeOK
    <3> QED
      BY <3>1 DEF Call, Points, InSection
  <2>2. t' = [t EXCEPT ![p] = call]
    BY <1>4 DEF Reserve, TypeOK
  <2>3. CallsInv'
    BY <1>4, <2>1, <2>2, SectionMoves DEF Reserve, InSection
  <2>4. charges' \in [ChargeIds -> Charge]
    <3>1. CASE SettleMode(p)
      <4>1. t[p].row \in ChargeIds
        BY <1>4, RowIsCharge DEF Reserve
      <4>2. [charges[t[p].row] EXCEPT !.fee = t[p].fee] \in Charge
        <5>1. charges[t[p].row] \in Charge /\ t[p].fee \in Nat
          BY <4>1 DEF TypeOK, Call
        <5> QED
          BY <5>1 DEF Charge
      <4> QED
        BY <1>4, <3>1, <4>1, <4>2, UpdateChargeFields DEF Reserve, TypeOK
    <3>2. CASE ~SettleMode(p)
      <4>1. row \in Charge
        BY DEF NoCharge, Charge, ChargeStatuses, TypeOK, Call
      <4>2. charges' = [charges EXCEPT ![p] = row]
        BY <1>4, <3>2 DEF Reserve
      <4> QED
        BY <4>1, <4>2 DEF TypeOK
    <3> QED
      BY <3>1, <3>2
  <2> QED
    BY <1>4, <2>3, <2>4, CallStepTypes DEF Reserve
<1> QED
  BY <1>1, <1>2, <1>3, <1>4

\* From the reservation to the broadcast.
LEMMA SendingTypes ==
  ASSUME TypeInv, NEW p \in Spenders,
         \/ LoseBlock(p) \/ RefuseReserved(p) \/ Broadcast(p)
         \/ SendReturns(p) \/ SendThrows(p)
  PROVE  TypeInv'
<1> USE DEF TypeInv
<1> DEFINE i == t[p].row
<1>1. t[p].pc \in {"block", "send"}
  BY DEF LoseBlock, RefuseReserved, Broadcast, SendReturns, SendThrows
<1>2. t[p].pc \in InSection /\ i \in ChargeIds
  BY <1>1, RowIsCharge DEF InSection
<1>3. charges[i] \in Charge /\ t[p] \in Call /\ Len(mined) \in Nat
  BY <1>2, LenProperties DEF TypeOK
<1>4. ~SettleMode(p) => i = p
  BY DEF RowInv, RowOK, SettleMode, Spenders
<1>5. CASE LoseBlock(p)
  <2>1. CallsInv'
    BY <1>5, <1>2, LeaveCalls DEF LoseBlock, Outcomes
  <2> QED
    BY <1>5, <2>1, CallStepTypes DEF LoseBlock, TypeOK
<1>6. CASE RefuseReserved(p)
  <2>1. CallsInv'
    <3>1. Recheck(p) \in Outcomes
      BY DEF Recheck, ChainRefusal, Outcomes
    <3> QED
      BY <1>6, <1>2, <3>1, LeaveCalls DEF RefuseReserved
  <2>2. charges' \in [ChargeIds -> Charge]
    <3>1. [charges[i] EXCEPT !.status = "failed"] \in Charge
      BY <1>3 DEF Charge, ChargeStatuses
    <3> QED
      BY <1>6, <1>2, <1>4, <3>1, UpdateChargeFields DEF RefuseReserved, TypeOK
  <2> QED
    BY <1>6, <2>1, <2>2, CallStepTypes DEF RefuseReserved
<1>7. CASE Broadcast(p)
  <2> DEFINE call == [t[p] EXCEPT !.pc = "send", !.since = Len(mined)]
  <2>1. /\ call \in Call /\ call.pc = "send" /\ call.row = t[p].row
        /\ call.card = t[p].card /\ call.lock = t[p].lock
    BY <1>3 DEF Call, Points, InSection
  <2>2. t' = [t EXCEPT ![p] = call]
    BY <1>7 DEF Broadcast, TypeOK
  <2>3. CallsInv'
    BY <1>7, <2>1, <2>2, SectionMoves DEF Broadcast, InSection
  <2>4. charges' \in [ChargeIds -> Charge]
    <3>1. [charges[i] EXCEPT !.request = "claim", !.since = Len(mined)] \in Charge
      BY <1>3 DEF Charge
    <3> QED
      BY <1>7, <1>2, <3>1, UpdateChargeFields DEF Broadcast, TypeOK
  <2> QED
    BY <1>7, <2>3, <2>4, CallStepTypes DEF Broadcast
<1>8. CASE SendReturns(p)
  <2> DEFINE call == [t[p] EXCEPT !.pc = "confirm"]
  <2>1. /\ call \in Call /\ call.pc = "confirm" /\ call.row = t[p].row
        /\ call.card = t[p].card /\ call.lock = t[p].lock
    BY <1>3 DEF Call, Points, InSection
  <2>2. t' = [t EXCEPT ![p] = call]
    BY <1>8 DEF SendReturns, TypeOK
  <2>3. CallsInv'
    BY <1>8, <2>1, <2>2, SectionMoves DEF SendReturns, InSection
  <2>4. charges' \in [ChargeIds -> Charge]
    <3>1. [charges[i] EXCEPT !.request = "sent", !.since = t[p].since] \in Charge
      BY <1>3 DEF Charge, Call
    <3> QED
      BY <1>8, <1>2, <3>1, UpdateChargeFields DEF SendReturns, TypeOK
  <2> QED
    BY <1>8, <2>3, <2>4, CallStepTypes DEF SendReturns
<1>9. CASE SendThrows(p)
  <2>1. CallsInv'
    BY <1>9, <1>2, LeaveCalls DEF SendThrows, Outcomes
  <2>2. charges' \in [ChargeIds -> Charge]
    <3>1. [charges[i] EXCEPT !.status = "failed"] \in Charge
      BY <1>3 DEF Charge, ChargeStatuses
    <3> QED
      BY <1>9, <1>2, <1>4, <3>1, UpdateChargeFields DEF SendThrows, TypeOK
  <2> QED
    BY <1>9, <2>1, <2>2, CallStepTypes DEF SendThrows
<1> QED
  BY <1>5, <1>6, <1>7, <1>8, <1>9

\* The end of a redemption.
LEMMA ConfirmingTypes ==
  ASSUME TypeInv, NEW p \in Spenders,
         Confirm(p) \/ Revert(p) \/ GiveUpConfirming(p)
  PROVE  TypeInv'
<1> USE DEF TypeInv
<1> DEFINE i == t[p].row
<1>1. t[p].pc = "confirm"
  BY DEF Confirm, Revert, GiveUpConfirming
<1>2. t[p].pc \in InSection /\ i \in ChargeIds
  BY <1>1, RowIsCharge DEF InSection
<1>3. charges[i] \in Charge
  BY <1>2 DEF TypeOK
<1>4. CASE Confirm(p)
  <2>1. CallsInv'
    BY <1>4, <1>2, LeaveCalls DEF Confirm, Outcomes
  <2>2. charges' \in [ChargeIds -> Charge]
    <3>1. [charges[i] EXCEPT !.status = "confirmed"] \in Charge
      BY <1>3 DEF Charge, ChargeStatuses
    <3> QED
      BY <1>4, <1>2, <3>1, UpdateChargeFields DEF Confirm, TypeOK
  <2>3. notified' \in SUBSET ChargeIds
    BY <1>4, <1>2 DEF Confirm, TypeOK
  <2> QED
    BY <1>4, <2>1, <2>2, <2>3
       DEF Confirm, TypeOK, CallsInv, chainVars, boundVars
<1>5. CASE Revert(p)
  <2> DEFINE st == IF SettleMode(p) THEN "settlement_unconfirmed" ELSE "failed"
  <2>1. CallsInv'
    BY <1>5, <1>2, LeaveCalls DEF Revert, Outcomes
  <2>2. charges' \in [ChargeIds -> Charge]
    <3>1. [charges[i] EXCEPT !.status = st] \in Charge
      BY <1>3 DEF Charge, ChargeStatuses
    <3>2. UpdateCharge(i, [charges[i] EXCEPT !.status = st])
      BY <1>5 DEF Revert
    <3> QED
      BY <1>2, <3>1, <3>2, UpdateChargeFields DEF TypeOK
  <2> QED
    BY <1>5, <2>1, <2>2, CallStepTypes DEF Revert
<1>6. CASE GiveUpConfirming(p)
  <2>1. PICK out \in Outcomes : Leave(p, out)
    BY <1>6 DEF GiveUpConfirming, Outcomes
  <2>2. CallsInv'
    BY <1>2, <2>1, LeaveCalls
  <2> QED
    BY <1>6, <2>2, CallStepTypes DEF GiveUpConfirming, TypeOK
<1> QED
  BY <1>4, <1>5, <1>6

\* An agent's call and the webhook's approval start a spender.
LEMMA StartingTypes ==
  ASSUME TypeInv,
         \/ \E p \in PayCalls, c \in Cards, k \in Keys \cup {NoKey}, a \in Amounts :
               AgentSpend(p, c, k, a)
         \/ \E a \in Auths, n \in Amounts : ApproveAuthorization(a, n)
  PROVE  TypeInv'
<1> USE DEF TypeInv
<1>1. ASSUME NEW p \in PayCalls, NEW c \in Cards, NEW k \in Keys \cup {NoKey},
             NEW a \in Amounts, AgentSpend(p, c, k, a)
      PROVE  TypeInv'
  <2> DEFINE call == [t[p] EXCEPT !.card = c, !.key = k, !.amount = a]
             new == [call EXCEPT !.pc = "queued", !.lock = SpendKey(call.card)]
  <2>1. p \in Spenders /\ p \notin Settlers
    BY StoreAssumption, PipelineAssumption DEF Spenders, Settlers, ChargeIds
  <2>2. t[p] \in Call /\ a \in Nat /\ SpendKey(c) \in Cards
    BY <2>1, PipelineAssumption, SpendKeyType DEF TypeOK
  <2>3. call \in Call /\ call.card = c /\ call.row = t[p].row
    BY <2>2 DEF Call
  <2>4. new.row = t[p].row /\ new.card = c /\ new.pc = "queued"
    BY <2>2, <2>3 DEF Call
  <2>5. RowOK(p, new)
    <3> HIDE DEF new
    <3> QED
      BY <2>1, <2>4 DEF RowInv, RowOK, Settlers
  <2>6. ~InQueue(p)
    BY <1>1 DEF AgentSpend, InQueue, InSection
  <2>7. CallsInv'
    BY <1>1, <2>1, <2>3, <2>5, <2>6, QueueCalls DEF AgentSpend
  <2> QED
    BY <1>1, <2>7, CallStepTypes DEF AgentSpend, TypeOK
<1>2. ASSUME NEW a \in Auths, NEW n \in Amounts, ApproveAuthorization(a, n)
      PROVE  TypeInv'
  <2> DEFINE h == Headroom
             row == [NoCharge EXCEPT !.status = IF SettlementOn THEN "pending" ELSE "confirmed",
                                     !.card = AuthCard[a], !.key = a, !.amount = n,
                                     !.fee = h, !.win = window,
                                     !.request = IF SettlementOn THEN "null" ELSE "sent"]
             call == [t[a] EXCEPT !.pc = "read"]
  <2>1. a \in Spenders /\ a \in ChargeIds /\ a \notin PayCalls
    BY StoreAssumption DEF Spenders, Settlers, ChargeIds
  <2>2. charges' \in [ChargeIds -> Charge]
    <3>1. n \in Nat /\ h \in Nat /\ window \in Nat /\ AuthCard[a] \in Cards
      BY PipelineAssumption DEF Headroom, TypeOK
    <3>2. row \in Charge
      <4> HIDE DEF h
      <4> QED
        BY <3>1 DEF NoCharge, Charge, ChargeStatuses
    <3>3. charges' = [charges EXCEPT ![a] = row]
      BY <1>2 DEF ApproveAuthorization
    <3> HIDE DEF row
    <3> QED
      BY <2>1, <3>2, <3>3 DEF TypeOK
  <2>3. CASE ~SettlementOn
    BY <1>2, <2>3, <2>2, CallsStay, CallStepTypes DEF ApproveAuthorization
  <2>4. CASE SettlementOn
    <3>1. t[a] \in Call
      BY <2>1 DEF TypeOK
    <3>2. call \in Call /\ call.pc = "read" /\ call.row = t[a].row
      BY <3>1 DEF Call, Points
    <3>3. t' = [t EXCEPT ![a] = call] /\ UNCHANGED mutex
      BY <1>2, <2>1, <2>4 DEF ApproveAuthorization, TypeOK
    <3>4. RowOK(a, call)
      <4> HIDE DEF call
      <4> QED
        BY <2>1, <3>2 DEF RowInv, RowOK
    <3>5. CallsInv'
      BY <2>1, <3>2, <3>3, <3>4, MoveCalls DEF InSection
    <3> QED
      BY <1>2, <2>2, <3>5, CallStepTypes DEF ApproveAuthorization
  <2> QED
    BY <2>3, <2>4
<1> QED
  BY <1>1, <1>2

\* A settler at rest.
LEMMA AtRestFields ==
  ASSUME NEW s \in Settlers
  PROVE  /\ AtRest(s) \in Call /\ AtRest(s).pc = "idle" /\ RowOK(s, AtRest(s))
<1>1. (IF s = Sweeper THEN NoRow ELSE s) \in ChargeIds \cup {NoRow}
  BY DEF Settlers, ChargeIds
<1>2. s \notin PayCalls
  BY StoreAssumption, PipelineAssumption DEF Settlers, ChargeIds
<1>3. AtRest(s) \in Call /\ AtRest(s).pc = "idle"
      /\ AtRest(s).row = IF s = Sweeper THEN NoRow ELSE s
  BY <1>1 DEF AtRest, NoCall, Call, Points, Outcomes
<1>4. s \in Auths => s # Sweeper
  BY PipelineAssumption DEF ChargeIds
<1> QED
  BY <1>2, <1>3, <1>4 DEF RowOK

\* A settlement reads its row, or wakes up.
LEMMA ResumeSettleTypes ==
  ASSUME TypeInv, FiatRowInv, NEW s \in Settlers, ResumeSettle(s)
  PROVE  TypeInv'
<1> USE DEF TypeInv
<1> DEFINE i == t[s].row
<1>1. s \in Spenders /\ s \notin PayCalls /\ t[s] \in Call
  BY StoreAssumption, PipelineAssumption DEF Spenders, Settlers, ChargeIds, TypeOK
<1>2. t[s].pc # "idle"
  BY DEF ResumeSettle, ReadSettleRow, WakeSettler
<1>3. i \in Auths /\ AuthCard[i] \in Cards
  BY <1>1, <1>2, PipelineAssumption DEF RowInv, RowOK
<1>4. CASE ReadSettleRow(s)
  <2> DEFINE call == [t[s] EXCEPT !.pc = "sleep", !.left = SettleAttempts,
                                  !.card = charges[i].card]
  <2>1. CASE charges[i].status = "pending"
    <3>1. charges[i].card = AuthCard[i] /\ SettleAttempts \in Nat
      BY <1>3, <2>1, PipelineAssumption DEF FiatRowInv
    <3>2. /\ call \in Call /\ call.pc = "sleep" /\ call.row = i
          /\ call.card = AuthCard[i]
      BY <1>1, <1>3, <3>1 DEF Call, Points
    <3>3. t' = [t EXCEPT ![s] = call] /\ UNCHANGED mutex
      BY <1>1, <1>4, <2>1 DEF ReadSettleRow, TypeOK
    <3>4. RowOK(s, call)
      <4> HIDE DEF call
      <4> QED
        BY <1>1, <1>2, <1>3, <3>2 DEF RowInv, RowOK
    <3>5. CallsInv'
      BY <1>1, <3>2, <3>3, <3>4, MoveCalls DEF InSection
    <3> QED
      BY <1>4, <3>5, CallStepTypes DEF ReadSettleRow, TypeOK
  <2>2. CASE charges[i].status # "pending"
    <3>1. t' = [t EXCEPT ![s] = AtRest(s)] /\ UNCHANGED mutex
      BY <1>4, <2>2 DEF ReadSettleRow
    <3>2. CallsInv'
      BY <1>1, <3>1, AtRestFields, MoveCalls DEF InSection
    <3> QED
      BY <1>4, <3>2, CallStepTypes DEF ReadSettleRow, TypeOK
  <2> QED
    BY <2>1, <2>2
<1>5. CASE WakeSettler(s)
  <2> DEFINE call == t[s]
             new == [call EXCEPT !.pc = "queued", !.lock = SpendKey(call.card)]
  <2>1. t[s].pc = "sleep" /\ t[s].card = AuthCard[i]
    BY <1>1, <1>5 DEF WakeSettler, RowInv, RowOK
  <2>2. SpendKey(t[s].card) \in Cards
    BY <1>3, <2>1, SpendKeyType
  <2>3. new.pc = "queued" /\ new.row = i /\ new.card = AuthCard[i]
    BY <1>1, <2>1, <2>2 DEF Call
  <2>4. RowOK(s, new)
    <3> HIDE DEF new
    <3> QED
      BY <1>1, <1>2, <1>3, <2>3 DEF RowInv, RowOK
  <2>5. ~InQueue(s)
    BY <2>1 DEF InQueue, InSection
  <2>6. CallsInv'
    BY <1>1, <1>3, <1>5, <2>1, <2>4, <2>5, QueueCalls DEF WakeSettler
  <2> QED
    BY <1>5, <2>6, CallStepTypes DEF WakeSettler, TypeOK
<1> QED
  BY <1>4, <1>5 DEF ResumeSettle

\* A run of spend() for a settlement ended.
LEMMA CatchSettleTypes ==
  ASSUME TypeInv, NEW s \in Settlers, CatchSettle(s)
  PROVE  TypeInv'
<1> USE DEF TypeInv
<1> DEFINE i == t[s].row
           call == [t[s] EXCEPT !.pc = "sleep", !.out = "none", !.left = @ - 1]
<1>1. s \in Spenders /\ s \notin PayCalls /\ t[s] \in Call
  BY StoreAssumption, PipelineAssumption DEF Spenders, Settlers, ChargeIds, TypeOK
<1>2. t[s].pc = "exit"
  BY DEF CatchSettle, SettleReturns, ParkRow, FreezeParked, RetrySettle, Failed
<1>3. /\ i \in ChargeIds /\ i \in Auths
      /\ t[s].card = AuthCard[i] /\ t[s].card \in Cards
      /\ charges[i] \in Charge
  BY <1>1, <1>2, PipelineAssumption DEF RowInv, RowOK, ChargeIds, TypeOK
<1>4. CallsInv'
  <2>1. CASE t' = [t EXCEPT ![s] = AtRest(s)] /\ UNCHANGED mutex
    BY <1>1, <2>1, AtRestFields, MoveCalls DEF InSection
  <2>2. CASE RetrySettle(s)
    <3> DEFINE n == t[s].left - 1
               slept == [t[s] EXCEPT !.pc = "sleep", !.out = "none", !.left = n]
    <3>1. n \in Nat
      BY <1>1, <2>2 DEF RetrySettle, Call
    <3>2. /\ slept \in Call /\ slept.pc = "sleep" /\ slept.row = i
          /\ slept.card = t[s].card
      <4> HIDE DEF n
      <4> QED
        BY <1>1, <3>1 DEF Call, Points, Outcomes
    <3>3. t' = [t EXCEPT ![s] = slept] /\ UNCHANGED mutex
      BY <1>1, <2>2 DEF RetrySettle, UnchangedButParking, TypeOK
    <3>4. RowOK(s, slept)
      <4> HIDE DEF slept
      <4> QED
        BY <1>1, <1>2, <1>3, <3>2 DEF RowInv, RowOK
    <3> QED
      BY <1>1, <3>2, <3>3, <3>4, MoveCalls DEF InSection
  <2> QED
    BY <2>1, <2>2
       DEF CatchSettle, SettleReturns, ParkRow, FreezeParked, UnchangedButParking
<1>5. cardStatus' \in [Cards -> CardStatuses]
  <2>1. cardStatus' = cardStatus \/ FreezeIfActive(t[s].card)
    BY DEF CatchSettle, SettleReturns, ParkRow, FreezeParked, RetrySettle
  <2> QED
    BY <1>3, <2>1 DEF FreezeIfActive, TypeOK, CardStatuses
<1>6. charges' \in [ChargeIds -> Charge]
  <2>1. [charges[i] EXCEPT !.status = "settlement_unconfirmed"] \in Charge
    BY <1>3 DEF Charge, ChargeStatuses
  <2>2. CASE ParkRow(s)
    BY <1>3, <2>1, <2>2, UpdateChargeFields DEF ParkRow, TypeOK
  <2> QED
    BY <2>2 DEF CatchSettle, SettleReturns, FreezeParked, RetrySettle, TypeOK
<1>7. UnchangedButParking
  BY DEF CatchSettle, SettleReturns, ParkRow, FreezeParked, RetrySettle
<1> QED
  BY <1>4, <1>5, <1>6, <1>7
     DEF CallsInv, UnchangedButParking, TypeOK, chainVars, boundVars

\* The settlement sweep.
LEMMA SweepTypes ==
  ASSUME TypeInv, StartSettleSweep \/ SweepNextRow
  PROVE  TypeInv'
<1> USE DEF TypeInv
<1>1. CASE StartSettleSweep
  <2>1. CallsInv'
    BY <1>1, CallsStay DEF StartSettleSweep
  <2> QED
    BY <1>1, <2>1 DEF StartSettleSweep, UnsettledFiatCharges, CallsInv, TypeOK,
                      storeVars, chainVars, boundVars
<1>2. CASE SweepNextRow
  <2>1. Sweeper \in Spenders /\ Sweeper \in Settlers
        /\ Sweeper \notin Auths /\ Sweeper \notin PayCalls
    BY PipelineAssumption DEF Spenders, Settlers, ChargeIds
  <2>2. PICK a \in Auths : /\ t' = [t EXCEPT ![Sweeper].pc = "read",
                                             ![Sweeper].row = a]
                           /\ backlog' = backlog \ {a}
    BY <1>2 DEF SweepNextRow, TypeOK
  <2> DEFINE call == [t[Sweeper] EXCEPT !.pc = "read", !.row = a]
  <2>3. call \in Call /\ call.pc = "read" /\ call.row = a
    <3>1. t[Sweeper] \in Call /\ a \in ChargeIds
      BY <2>1 DEF TypeOK, ChargeIds
    <3> QED
      BY <3>1 DEF Call, Points
  <2>4. t' = [t EXCEPT ![Sweeper] = call] /\ UNCHANGED mutex
    BY <1>2, <2>1, <2>2 DEF SweepNextRow, TypeOK
  <2>5. RowOK(Sweeper, call)
    BY <2>1, <2>3 DEF RowOK
  <2>6. CallsInv'
    BY <2>1, <2>3, <2>4, <2>5, MoveCalls DEF InSection
  <2> QED
    BY <1>2, <2>2, <2>6 DEF SweepNextRow, CallsInv, TypeOK,
                            storeVars, chainVars, boundVars
<1> QED
  BY <1>1, <1>2

\* The reconcile sweep.
LEMMA ReconcileTypes ==
  ASSUME TypeInv, StartReconcile \/ ResolveStale \/ PostponeReconcile
  PROVE  TypeInv'
<1> USE DEF TypeInv
<1>1. CallsInv'
  BY CallsStay DEF StartReconcile, ResolveStale, PostponeReconcile
<1>2. charges' \in [ChargeIds -> Charge]
  <2>1. ASSUME NEW i \in ChargeIds, NEW st \in ChargeStatuses
        PROVE  [charges[i] EXCEPT !.status = st] \in Charge
    <3>1. charges[i] \in Charge
      BY DEF TypeOK
    <3> QED
      BY <3>1 DEF Charge
  <2>2. CASE StartReconcile
    <3>1. "failed" \in ChargeStatuses
      BY DEF ChargeStatuses
    <3> QED
      BY <2>1, <2>2, <3>1 DEF StartReconcile, TypeOK
  <2>3. CASE ResolveStale
    <3>1. PICK C \in LogClaims :
            charges' = [i \in ChargeIds |->
               IF i \in Resolvable
               THEN [charges[i] EXCEPT !.status = Resolved(i, C)]
               ELSE charges[i]]
      BY <2>3 DEF ResolveStale
    <3>2. \A i : Resolved(i, C) \in ChargeStatuses
      BY DEF Resolved, ChargeStatuses
    <3> QED
      BY <2>1, <3>1, <3>2 DEF TypeOK
  <2>4. CASE PostponeReconcile
    BY <2>4 DEF PostponeReconcile, storeVars, TypeOK
  <2> QED
    BY <2>2, <2>3, <2>4
<1>3. recon' \in SUBSET ChargeIds
  BY DEF StartReconcile, ResolveStale, PostponeReconcile, StaleCharges, TypeOK
<1> QED
  BY <1>1, <1>2, <1>3
     DEF StartReconcile, ResolveStale, PostponeReconcile, CallsInv, TypeOK,
         storeVars, chainVars, boundVars

\* The owner's controls.
LEMMA OwnerTypes ==
  ASSUME TypeInv, NEW c \in Cards,
         \/ Freeze(c) \/ Unfreeze(c) \/ Revoke(c) \/ Expire(c) \/ DeleteDeadCard(c)
  PROVE  TypeInv'
<1> USE DEF TypeInv
<1>1. Control
  BY DEF Freeze, Unfreeze, Revoke, Expire, DeleteDeadCard
<1>2. CallsInv'
  BY <1>1, CallsStay DEF Control
<1>3. charges' \in [ChargeIds -> Charge]
  BY NoChargeType DEF Freeze, Unfreeze, Revoke, Expire, DeleteDeadCard, TypeOK
<1>4. cardStatus' \in [Cards -> CardStatuses]
  BY DEF Freeze, Unfreeze, Revoke, Expire, DeleteDeadCard, CardStatuses, TypeOK
<1>5. expired' \in SUBSET Cards
  BY DEF Freeze, Unfreeze, Revoke, Expire, DeleteDeadCard, SubtreeOf, TypeOK
<1>6. controls' \in Nat
  BY <1>1 DEF Control, TypeOK
<1> QED
  BY <1>1, <1>2, <1>3, <1>4, <1>5, <1>6 DEF CallsInv, Control, TypeOK, chainVars

\* The relayer, the chain and the clock.
LEMMA WorldTypes ==
  ASSUME TypeInv, World
  PROVE  TypeInv'
<1> USE DEF TypeInv
<1>1. ASSUME NEW p \in Spenders, RelayerAccepts(p)
      PROVE  TypeInv'
  <2> DEFINE i == t[p].row
             call == [t[p] EXCEPT !.accepted = TRUE]
  <2>1. i \in ChargeIds /\ t[p] \in Call /\ t[p].pc = "send"
    BY <1>1, RowIsCharge DEF RelayerAccepts, TypeOK
  <2>2. /\ call \in Call /\ call.pc = "send" /\ call.row = t[p].row
        /\ call.card = t[p].card /\ call.lock = t[p].lock
    BY <2>1 DEF Call
  <2>3. t' = [t EXCEPT ![p] = call]
    BY <1>1 DEF RelayerAccepts, TypeOK
  <2>4. CallsInv'
    BY <1>1, <2>1, <2>2, <2>3, SectionMoves DEF RelayerAccepts, InSection
  <2>5. inflight' \in SUBSET Redemption
    <3>1. [charge |-> i, fee |-> t[p].fee] \in Redemption
      BY <2>1 DEF Redemption, Call
    <3> QED
      BY <1>1, <3>1 DEF RelayerAccepts, TypeOK
  <2>6. sent' \in [ChargeIds -> 0..2]
    BY <1>1, <2>1 DEF RelayerAccepts, TypeOK
  <2> QED
    BY <1>1, <2>4, <2>5, <2>6
       DEF RelayerAccepts, CallsInv, TypeOK, storeVars, boundVars
<1>2. ASSUME NEW r \in inflight, Mine(r) \/ Drop(r)
      PROVE  TypeInv'
  <2>1. CallsInv'
    BY <1>2, CallsStay DEF Mine, Drop
  <2>2. r \in Redemption
    BY DEF TypeOK
  <2>3. mined' \in Seq(Redemption)
    <3>1. mined \in Seq(Redemption)
      BY DEF TypeOK
    <3>2. Append(mined, r) \in Seq(Redemption)
      BY <2>2, <3>1, AppendProperties
    <3> QED
      BY <1>2, <3>1, <3>2 DEF Mine, Drop
  <2> QED
    BY <1>2, <2>1, <2>3 DEF Mine, Drop, CallsInv, TypeOK, storeVars, boundVars
<1>3. CASE NextWindow
  <2>1. CallsInv'
    BY <1>3, CallsStay DEF NextWindow
  <2> QED
    BY <1>3, <2>1 DEF NextWindow, CallsInv, TypeOK, chainVars, boundVars
<1>4. ASSUME NEW i \in ChargeIds, Age(i)
      PROVE  TypeInv'
  <2>1. CallsInv'
    BY <1>4, CallsStay DEF Age
  <2>2. charges[i] \in Charge
    BY DEF TypeOK
  <2>3. [charges[i] EXCEPT !.aged = TRUE] \in Charge
    BY <2>2 DEF Charge
  <2>4. charges' = [charges EXCEPT ![i] = [charges[i] EXCEPT !.aged = TRUE]]
    BY <1>4 DEF Age, TypeOK
  <2>5. charges' \in [ChargeIds -> Charge]
    BY <2>3, <2>4 DEF TypeOK
  <2> QED
    BY <1>4, <2>1, <2>5 DEF Age, CallsInv, TypeOK, chainVars, boundVars
<1> QED
  BY <1>1, <1>2, <1>3, <1>4 DEF World, Chain

\* A crash.
LEMMA CrashTypes ==
  ASSUME TypeInv, Crash
  PROVE  TypeInv'
<1> USE DEF TypeInv
<1>1. ASSUME NEW p \in Spenders
      PROVE  /\ t'[p] \in Call /\ RowOK(p, t'[p])
             /\ t'[p].pc \in {"idle", "exit"}
  <2>1. CASE SettleMode(p)
    BY <2>1, AtRestFields DEF Crash, SettleMode
  <2>2. CASE ~SettleMode(p) /\ t[p].pc = "idle"
    BY <2>2 DEF Crash, TypeOK, RowInv
  <2>3. CASE ~SettleMode(p) /\ t[p].pc # "idle"
    <3> DEFINE e == Ended(p, t[p].out)
    <3>1. t[p].out \in Outcomes
      BY DEF TypeOK, Call
    <3>2. e \in Call /\ e.pc = "exit" /\ e.row = t[p].row /\ e.card = t[p].card
      BY <3>1, EndedFields
    <3>3. RowOK(p, e)
      <4> HIDE DEF e
      <4> QED
        BY <2>3, <3>2 DEF RowInv, RowOK, SettleMode, Settlers
    <3> QED
      BY <2>3, <3>2, <3>3 DEF Crash
  <2> QED
    BY <2>1, <2>2, <2>3
<1>2. t' \in [Spenders -> Call]
  BY <1>1 DEF Crash
<1>3. RowInv'
  <2> SUFFICES ASSUME NEW p \in Spenders
               PROVE  RowOK(p, t'[p])
    BY DEF RowInv, RowOK
  <2> QED
    BY <1>1
<1>4. LockInv'
  BY <1>1 DEF LockInv, LockOK, InQueue, InSection
<1>5. mutex' \in [Cards -> Seq(Spenders \cup X402Calls)]
  <2>1. <<>> \in Seq(Spenders \cup X402Calls)
    BY EmptySeq
  <2> QED
    BY <2>1 DEF Crash
<1> QED
  BY <1>2, <1>3, <1>4, <1>5 DEF Crash, TypeOK, storeVars, chainVars

\* The initial state.
LEMMA InitTypes == Init => TypeInv
<1> SUFFICES ASSUME Init PROVE TypeInv
  OBVIOUS
<1>1. ASSUME NEW p \in Spenders
      PROVE  t[p] \in Call /\ t[p].pc = "idle" /\ RowOK(p, t[p])
  <2>1. t[p] = NoCall(IF p = Sweeper THEN NoRow ELSE p)
    BY DEF Init
  <2>2. CASE p \in Settlers
    BY <2>1, <2>2, AtRestFields DEF AtRest
  <2>3. CASE p \in PayCalls
    <3>1. p \in ChargeIds /\ p # Sweeper /\ p \notin Auths
      BY <2>3, StoreAssumption, PipelineAssumption DEF ChargeIds
    <3>2. t[p] \in Call /\ t[p].pc = "idle" /\ t[p].row = p
      BY <2>1, <3>1 DEF NoCall, Call, Points, Outcomes
    <3> QED
      BY <3>1, <3>2 DEF RowOK, Settlers
  <2> QED
    BY <2>2, <2>3 DEF Spenders
<1>2. t \in [Spenders -> Call]
  BY <1>1 DEF Init
<1>3. LockInv /\ RowInv
  BY <1>1 DEF LockInv, LockOK, RowInv, InQueue, InSection
<1>4. mutex \in [Cards -> Seq(Spenders \cup X402Calls)]
  <2>1. <<>> \in Seq(Spenders \cup X402Calls)
    BY EmptySeq
  <2> QED
    BY <2>1 DEF Init
<1>5. mined \in Seq(Redemption)
  BY EmptySeq DEF Init
<1> QED
  BY <1>2, <1>3, <1>4, <1>5, NoChargeType DEF Init, TypeInv, TypeOK, CardStatuses

\* Every step.
LEMMA NextTypes ==
  ASSUME TypeInv, FiatRowInv, [Next]_vars
  PROVE  TypeInv'
<1>1. CASE Microtask
  <2>1. \A s \in Settlers : s \in Spenders
    BY DEF Spenders
  <2> QED
    BY <1>1, EnterSpendTypes, CatchSettleTypes DEF Microtask
<1>2. CASE Task
  <2>1. ASSUME NEW p \in Spenders, ResumeSpend(p) PROVE TypeInv'
    BY <2>1, ReservingTypes, SendingTypes, ConfirmingTypes DEF ResumeSpend
  <2> QED
    BY <1>2, <2>1, StartingTypes, ResumeSettleTypes, SweepTypes, ReconcileTypes,
       OwnerTypes DEF Task, Owner
<1>3. CASE UNCHANGED vars
  <2>1. CallsInv'
    BY <1>3, CallsStay DEF vars, TypeInv
  <2> QED
    BY <1>3, <2>1 DEF vars, TypeInv, TypeOK, CallsInv
<1> QED
  BY <1>1, <1>2, <1>3, WorldTypes, CrashTypes DEF Next

-----------------------------------------------------------------------------
(* What one step does to the row of an authorization. *)

\* The row changes at most its status, and not to "failed", and never loses
\* the mark of its broadcast.
RowKept(a) ==
    /\ charges'[a].status = "absent" <=> charges[a].status = "absent"
    /\ charges'[a].status = "failed" => charges[a].status = "failed"
    /\ charges[a].status # "absent" =>
          /\ charges'[a].card = charges[a].card /\ charges'[a].key = charges[a].key
          /\ charges'[a].amount = charges[a].amount
          /\ charges'[a].request = "null" => charges[a].request = "null"

RowGone(a) == /\ charges'[a].status = "absent"
              /\ cardStatus'[AuthCard[a]] = "deleted"

RowNew(a) ==
    /\ charges[a].status = "absent" /\ charges'[a].status \in {"pending", "confirmed"}
    /\ charges'[a].card = AuthCard[a] /\ charges'[a].key = a
    /\ cardStatus[AuthCard[a]] # "deleted" /\ UNCHANGED cardStatus

RowStep(a) == RowKept(a) \/ RowGone(a) \/ RowNew(a)

\* A deleted card stays deleted, and takes its rows with it.
CardStep(a) ==
    /\ cardStatus[AuthCard[a]] = "deleted" => cardStatus'[AuthCard[a]] = "deleted"
    /\ cardStatus'[AuthCard[a]] = "deleted" =>
          cardStatus[AuthCard[a]] = "deleted" \/ charges'[a].status = "absent"

\* A row that is written with other values of some of its fields.
LEMMA RowUpdate ==
  ASSUME TypeOK, NEW a \in Auths, NEW i \in ChargeIds, NEW row \in Charge,
         UpdateCharge(i, row),
         i = a => /\ row.status \notin {"absent", "failed"}
                  /\ row.card = charges[a].card /\ row.key = charges[a].key
                  /\ row.amount = charges[a].amount
                  /\ row.request = "null" => charges[a].request = "null"
  PROVE  RowKept(a)
<1>1. a \in ChargeIds
  BY DEF ChargeIds
<1> QED
  BY <1>1, UpdateChargeFields DEF RowKept, TypeOK

\* Agents' calls drive other rows than the authorizations'.
LEMMA SettlerRows ==
  ASSUME TypeInv, NEW p \in Spenders, t[p].pc # "idle", t[p].row \in Auths
  PROVE  SettleMode(p)
  BY StoreAssumption DEF TypeInv, RowInv, RowOK, SettleMode, Spenders, Settlers

\* The mutex hands over: only an agent's own failed rows go.
LEMMA EnterSpendRows ==
  ASSUME TypeInv, FiatRowInv, NEW a \in Auths, NEW p \in Spenders, EnterSpend(p)
  PROVE  RowKept(a) /\ UNCHANGED cardStatus
<1>1. CASE ReplayKey(p) \/ ReplaySettle(p)
  BY <1>1 DEF ReplayKey, ReplaySettle, UnchangedButCalls, RowKept
<1>2. CASE StartSpend(p)
  <2>1. a \in ChargeIds /\ t[p].key \in Keys \cup {NoKey}
    BY DEF ChargeIds, TypeInv, TypeOK, Call
  <2>2. a \notin SameKey(p)
    BY <2>1, StoreAssumption DEF SameKey, ChargeByIdempotency, FiatRowInv
  <2>3. charges'[a] = charges[a]
    BY <1>2, <2>1, <2>2 DEF StartSpend
  <2> QED
    BY <1>2, <2>3 DEF RowKept, StartSpend, UnchangedButCalls
<1> QED
  BY <1>1, <1>2 DEF EnterSpend

\* The rest of spend(): a settlement writes its fee, its claim, its request id
\* and its outcome.
LEMMA ResumeSpendRows ==
  ASSUME TypeInv, FiatRowInv, NEW a \in Auths, NEW p \in Spenders, ResumeSpend(p)
  PROVE  RowKept(a) /\ UNCHANGED cardStatus
<1> DEFINE i == t[p].row
<1>1. t[p].pc \in InSection
  BY DEF ResumeSpend, PlanFee, RaiseFee, RefuseUnreserved, Reserve, LoseBlock,
         RefuseReserved, Broadcast, SendReturns, SendThrows, Confirm, Revert,
         GiveUpConfirming, InSection
<1>2. i \in ChargeIds /\ a \in ChargeIds /\ t[p] \in Call /\ charges[i] \in Charge
  BY <1>1, RowIsCharge DEF InSection, TypeInv, TypeOK, ChargeIds
<1>3. i = a => SettleMode(p)
  BY <1>1, SettlerRows DEF InSection
<1>4. ~SettleMode(p) => p \in ChargeIds /\ p # a /\ charges[p] \in Charge
  BY StoreAssumption
     DEF SettleMode, Spenders, Settlers, ChargeIds, TypeInv, TypeOK
<1>5. UNCHANGED cardStatus
  BY DEF ResumeSpend, PlanFee, RaiseFee, RefuseUnreserved, Reserve, LoseBlock,
         RefuseReserved, Broadcast, SendReturns, SendThrows, Confirm, Revert,
         GiveUpConfirming, UnchangedButCalls
<1> SUFFICES RowKept(a)
  BY <1>5
<1>6. charges[a].status # "failed"
  BY DEF FiatRowInv
<1>7. ASSUME UNCHANGED charges PROVE RowKept(a)
  BY <1>7 DEF RowKept
<1>8. ASSUME NEW st \in {"failed", "confirmed", "settlement_unconfirmed"},
             NEW j \in {i, p}, j \in ChargeIds, charges[j] \in Charge,
             j = a => st # "failed",
             UpdateCharge(j, [charges[j] EXCEPT !.status = st])
      PROVE  RowKept(a)
  <2>1. [charges[j] EXCEPT !.status = st] \in Charge
    BY <1>8 DEF Charge, ChargeStatuses
  <2> DEFINE row == [charges[j] EXCEPT !.status = st]
  <2>2. /\ row.status = st /\ row.card = charges[j].card /\ row.key = charges[j].key
        /\ row.amount = charges[j].amount /\ row.request = charges[j].request
    BY <1>8 DEF Charge
  <2> HIDE DEF row
  <2> QED
    BY <2>1, <2>2, <1>8, RowUpdate DEF row, TypeInv
<1>9. CASE Reserve(p)
  <2> DEFINE row == [charges[i] EXCEPT !.fee = t[p].fee]
  <2>1. CASE SettleMode(p) /\ charges[i].status # "absent"
    <3>1. /\ row \in Charge /\ row.status = charges[i].status
          /\ row.card = charges[i].card /\ row.key = charges[i].key
          /\ row.amount = charges[i].amount /\ row.request = charges[i].request
      BY <1>2 DEF Charge, Call
    <3>2. UpdateCharge(i, row)
      BY <1>9, <2>1 DEF Reserve
    <3> HIDE DEF row
    <3> QED
      BY <1>2, <1>6, <2>1, <3>1, <3>2, RowUpdate DEF TypeInv
  <2>2. CASE SettleMode(p) /\ charges[i].status = "absent"
    BY <1>9, <2>2, <1>7 DEF Reserve, UpdateCharge
  <2>3. CASE ~SettleMode(p)
    <3>1. charges'[a] = charges[a]
      BY <1>2, <1>4, <1>9, <2>3 DEF Reserve, TypeInv, TypeOK
    <3> QED
      BY <3>1 DEF RowKept
  <2> QED
    BY <2>1, <2>2, <2>3
<1>10. CASE RefuseReserved(p)
  BY <1>4, <1>7, <1>8, <1>10 DEF RefuseReserved
<1>11. CASE Broadcast(p) /\ SettleMode(p)
  <2> DEFINE n == Len(mined)
             row == [charges[i] EXCEPT !.request = "claim", !.since = n]
  <2>1. CASE charges[i].status # "absent"
    <3>1. n \in Nat
      BY LenProperties DEF TypeInv, TypeOK
    <3>2. /\ row \in Charge /\ row.status = charges[i].status
          /\ row.card = charges[i].card /\ row.key = charges[i].key
          /\ row.amount = charges[i].amount /\ row.request = "claim"
      <4> HIDE DEF n
      <4> QED
        BY <1>2, <3>1 DEF Charge
    <3>3. UpdateCharge(i, row)
      BY <1>11 DEF Broadcast
    <3> HIDE DEF row
    <3> QED
      BY <1>2, <1>6, <2>1, <3>2, <3>3, RowUpdate DEF TypeInv
  <2>2. CASE charges[i].status = "absent"
    BY <1>11, <2>2, <1>7 DEF Broadcast, UpdateCharge
  <2> QED
    BY <2>1, <2>2
<1>12. CASE SendReturns(p)
  <2> DEFINE row == [charges[i] EXCEPT !.request = "sent", !.since = t[p].since]
  <2>1. CASE charges[i].status # "absent"
    <3>1. /\ row \in Charge /\ row.status = charges[i].status
          /\ row.card = charges[i].card /\ row.key = charges[i].key
          /\ row.amount = charges[i].amount /\ row.request = "sent"
      BY <1>2 DEF Charge, Call
    <3>2. UpdateCharge(i, row)
      BY <1>12 DEF SendReturns
    <3> HIDE DEF row
    <3> QED
      BY <1>2, <1>6, <2>1, <3>1, <3>2, RowUpdate DEF TypeInv
  <2>2. CASE charges[i].status = "absent"
    BY <1>12, <2>2, <1>7 DEF SendReturns, UpdateCharge
  <2> QED
    BY <2>1, <2>2
<1>13. CASE SendThrows(p)
  BY <1>4, <1>7, <1>8, <1>13 DEF SendThrows
<1>14. CASE Confirm(p)
  BY <1>2, <1>8, <1>14 DEF Confirm
<1>15. CASE Revert(p)
  <2> DEFINE st == IF SettleMode(p) THEN "settlement_unconfirmed" ELSE "failed"
  <2>1. UpdateCharge(i, [charges[i] EXCEPT !.status = st])
    BY <1>15 DEF Revert
  <2>2. st \in {"failed", "confirmed", "settlement_unconfirmed"}
        /\ (i = a => st # "failed")
    BY <1>3
  <2> HIDE DEF st
  <2> QED
    BY <1>2, <1>8, <2>1, <2>2
<1>16. CASE \/ PlanFee(p) \/ RaiseFee(p) \/ RefuseUnreserved(p) \/ LoseBlock(p)
            \/ (Broadcast(p) /\ ~SettleMode(p)) \/ GiveUpConfirming(p)
  BY <1>7, <1>16 DEF PlanFee, RaiseFee, RefuseUnreserved, LoseBlock, Broadcast,
                     GiveUpConfirming
<1> QED
  BY <1>9, <1>10, <1>11, <1>12, <1>13, <1>14, <1>15, <1>16 DEF ResumeSpend

\* The webhook approves: the row is new, and its card exists.
LEMMA ApproveRows ==
  ASSUME TypeInv, FiatRowInv, NEW a \in Auths, NEW b \in Auths,
         NEW n \in Amounts, ApproveAuthorization(b, n)
  PROVE  (RowKept(a) \/ RowNew(a)) /\ UNCHANGED cardStatus
<1> DEFINE row == [NoCharge EXCEPT !.status = IF SettlementOn THEN "pending" ELSE "confirmed",
                                   !.card = AuthCard[b], !.key = b, !.amount = n,
                                   !.fee = Headroom, !.win = window,
                                   !.request = IF SettlementOn THEN "null" ELSE "sent"]
<1>1. a \in ChargeIds /\ b \in ChargeIds /\ AuthCard[b] \in Cards
  BY PipelineAssumption DEF ChargeIds
<1>2. charges' = [charges EXCEPT ![b] = row]
  BY DEF ApproveAuthorization
<1>3. UNCHANGED cardStatus
  BY DEF ApproveAuthorization, UnchangedButCalls
<1>4. CASE a # b
  <2>1. charges'[a] = charges[a]
    <3> HIDE DEF row
    <3> QED
      BY <1>1, <1>2, <1>4 DEF TypeInv, TypeOK
  <2> QED
    BY <1>3, <2>1 DEF RowKept
<1>5. CASE a = b
  <2>1. charges[b].status = "absent"
    BY <1>1 DEF ApproveAuthorization, ChargeByIdempotency, FiatRowInv
  <2>2. cardStatus[AuthCard[b]] # "deleted"
    BY DEF ApproveAuthorization, Approved, AncestorChain
  <2>3. /\ row.status \in {"pending", "confirmed"}
        /\ row.card = AuthCard[b] /\ row.key = b
    BY DEF NoCharge
  <2>4. charges'[b] = row
    <3> HIDE DEF row
    <3> QED
      BY <1>1, <1>2 DEF TypeInv, TypeOK
  <2> HIDE DEF row
  <2> QED
    BY <1>3, <1>5, <2>1, <2>2, <2>3, <2>4 DEF RowNew
<1> QED
  BY <1>4, <1>5

\* A settlement between two runs of spend(): it may park its row and freeze
\* the card.
LEMMA CatchSettleRows ==
  ASSUME TypeInv, FiatRowInv, NEW a \in Auths, NEW s \in Settlers, CatchSettle(s)
  PROVE  RowKept(a) /\ CardStep(a)
<1> DEFINE i == t[s].row
           row == [charges[i] EXCEPT !.status = "settlement_unconfirmed"]
<1>1. s \in Spenders /\ s \notin PayCalls
  BY StoreAssumption, PipelineAssumption DEF Spenders, Settlers, ChargeIds
<1>2. t[s].pc = "exit"
  BY DEF CatchSettle, SettleReturns, ParkRow, FreezeParked, RetrySettle, Failed
<1>3. i \in ChargeIds /\ t[s].card \in Cards /\ charges[i] \in Charge
  BY <1>1, <1>2, PipelineAssumption DEF TypeInv, RowInv, RowOK, ChargeIds, TypeOK
<1>4. CardStep(a)
  BY <1>3, PipelineAssumption
     DEF CatchSettle, SettleReturns, ParkRow, FreezeParked, RetrySettle,
         FreezeIfActive, CardStep, TypeInv, TypeOK
<1>5. CASE ParkRow(s)
  <2>1. /\ row \in Charge /\ row.status = "settlement_unconfirmed"
        /\ row.card = charges[i].card /\ row.key = charges[i].key
        /\ row.amount = charges[i].amount /\ row.request = charges[i].request
    BY <1>3 DEF Charge, ChargeStatuses
  <2>2. UpdateCharge(i, row)
    BY <1>5 DEF ParkRow
  <2>3. RowKept(a)
    <3> HIDE DEF row
    <3> QED
      BY <1>3, <2>1, <2>2, RowUpdate DEF TypeInv
  <2> QED
    BY <1>4, <2>3
<1>6. CASE SettleReturns(s) \/ FreezeParked(s) \/ RetrySettle(s)
  BY <1>4, <1>6 DEF SettleReturns, FreezeParked, RetrySettle, RowKept
<1> QED
  BY <1>5, <1>6 DEF CatchSettle

\* The reconcile sweep resolves a row to "confirmed" or parks it.
LEMMA ReconcileRows ==
  ASSUME TypeInv, FiatRowInv, NEW a \in Auths,
         StartReconcile \/ ResolveStale \/ PostponeReconcile
  PROVE  RowKept(a) /\ UNCHANGED cardStatus
<1>1. a \in ChargeIds /\ charges[a] \in Charge
  BY DEF ChargeIds, TypeInv, TypeOK
<1>2. CASE StartReconcile
  <2>1. a \notin X402Orphans
    BY StoreAssumption DEF X402Orphans
  <2>2. charges'[a] = charges[a]
    BY <1>1, <1>2, <2>1 DEF StartReconcile
  <2> QED
    BY <1>2, <2>2 DEF StartReconcile, RowKept
<1>3. CASE ResolveStale
  <2>1. PICK C \in LogClaims :
          charges' = [i \in ChargeIds |->
             IF i \in Resolvable
             THEN [charges[i] EXCEPT !.status = Resolved(i, C)]
             ELSE charges[i]]
    BY <1>3 DEF ResolveStale
  <2> DEFINE st == Resolved(a, C)
             row == [charges[a] EXCEPT !.status = st]
  <2>2. st \in {"confirmed", "settlement_unconfirmed"}
    BY DEF Resolved
  <2>3. /\ row.status = st /\ row.card = charges[a].card /\ row.key = charges[a].key
        /\ row.amount = charges[a].amount /\ row.request = charges[a].request
    <3> HIDE DEF st
    <3> QED
      BY <1>1 DEF Charge
  <2>4. IF a \in Resolvable THEN charges'[a] = row ELSE charges'[a] = charges[a]
    BY <1>1, <2>1
  <2>5. a \in Resolvable => charges[a].status # "absent"
    BY DEF Resolvable
  <2> HIDE DEF row, st
  <2> QED
    BY <1>3, <2>2, <2>3, <2>4, <2>5 DEF RowKept, ResolveStale
<1>4. CASE PostponeReconcile
  BY <1>4 DEF PostponeReconcile, RowKept, storeVars
<1> QED
  BY <1>2, <1>3, <1>4

\* The owner's controls: only deletion touches rows, with their cards.
LEMMA OwnerRows ==
  ASSUME TypeInv, FiatRowInv, NEW a \in Auths, NEW c \in Cards,
         \/ Freeze(c) \/ Unfreeze(c) \/ Revoke(c) \/ Expire(c) \/ DeleteDeadCard(c)
  PROVE  (RowKept(a) \/ RowGone(a)) /\ CardStep(a)
<1>1. a \in ChargeIds /\ AuthCard[a] \in Cards
  BY PipelineAssumption DEF ChargeIds
<1>2. CASE Freeze(c) \/ Unfreeze(c) \/ Revoke(c) \/ Expire(c)
  <2>1. RowKept(a)
    BY <1>2 DEF Freeze, Unfreeze, Revoke, Expire, RowKept
  <2>2. CardStep(a)
    BY <1>1, <1>2 DEF Freeze, Unfreeze, Revoke, Expire, CardStep, TypeInv, TypeOK
  <2> QED
    BY <2>1, <2>2
<1>3. CASE DeleteDeadCard(c)
  <2>1. charges'[a] = IF charges[a].card \in SubtreeOf(c) THEN NoCharge ELSE charges[a]
    BY <1>1, <1>3 DEF DeleteDeadCard
  <2>2. cardStatus'[AuthCard[a]] = IF AuthCard[a] \in SubtreeOf(c) THEN "deleted"
                                   ELSE cardStatus[AuthCard[a]]
    BY <1>1, <1>3 DEF DeleteDeadCard
  <2>3. NoCharge.status = "absent"
    BY DEF NoCharge
  <2>4. CASE charges[a].status = "absent"
    BY <2>1, <2>2, <2>3, <2>4 DEF RowKept, CardStep
  <2>5. CASE charges[a].status # "absent"
    <3>1. charges[a].card = AuthCard[a]
      BY <2>5 DEF FiatRowInv
    <3> QED
      BY <2>1, <2>2, <2>3, <2>5, <3>1 DEF RowKept, RowGone, CardStep
  <2> QED
    BY <2>4, <2>5
<1> QED
  BY <1>2, <1>3

\* Every step.
LEMMA NextRows ==
  ASSUME TypeInv, FiatRowInv, NEW a \in Auths, [Next]_vars
  PROVE  RowStep(a) /\ CardStep(a)
<1>1. ASSUME RowKept(a) \/ RowNew(a), UNCHANGED cardStatus
      PROVE  RowStep(a) /\ CardStep(a)
  BY <1>1 DEF RowStep, CardStep
<1>2. ASSUME UNCHANGED charges PROVE RowKept(a)
  BY <1>2 DEF RowKept
<1>3. CASE Microtask
  BY <1>1, <1>3, EnterSpendRows, CatchSettleRows DEF Microtask, RowStep
<1>4. CASE Task
  <2>1. ASSUME NEW p \in PayCalls, NEW c \in Cards, NEW k \in Keys \cup {NoKey},
               NEW m \in Amounts, AgentSpend(p, c, k, m)
        PROVE  RowStep(a) /\ CardStep(a)
    BY <1>1, <1>2, <2>1 DEF AgentSpend, UnchangedButCalls
  <2>2. ASSUME NEW s \in Settlers, ResumeSettle(s)
        PROVE  RowStep(a) /\ CardStep(a)
    BY <1>1, <1>2, <2>2
       DEF ResumeSettle, ReadSettleRow, WakeSettler, UnchangedButCalls
  <2>3. CASE StartSettleSweep \/ SweepNextRow
    BY <1>1, <1>2, <2>3 DEF StartSettleSweep, SweepNextRow, storeVars
  <2>4. CASE Owner
    BY <2>4, OwnerRows DEF Owner, RowStep
  <2> QED
    BY <1>1, <1>4, <2>1, <2>2, <2>3, <2>4, ResumeSpendRows, ApproveRows,
       ReconcileRows DEF Task
<1>5. CASE World
  <2>1. ASSUME NEW i \in ChargeIds, Age(i)
        PROVE  RowStep(a) /\ CardStep(a)
    <3> DEFINE row == [charges[i] EXCEPT !.aged = TRUE]
    <3>1. a \in ChargeIds /\ charges[i] \in Charge
      BY DEF TypeInv, TypeOK, ChargeIds
    <3>2. /\ row.status = charges[i].status /\ row.card = charges[i].card
          /\ row.key = charges[i].key /\ row.amount = charges[i].amount
          /\ row.request = charges[i].request
      BY <3>1 DEF Charge
    <3>3. charges' = [charges EXCEPT ![i] = row]
      BY <2>1 DEF Age, TypeInv, TypeOK
    <3>4. RowKept(a)
      <4> HIDE DEF row
      <4> QED
        BY <3>1, <3>2, <3>3 DEF RowKept, TypeInv, TypeOK
    <3> QED
      BY <1>1, <2>1, <3>4 DEF Age
  <2>2. CASE NextWindow
    BY <1>1, <1>2, <2>2 DEF NextWindow
  <2>3. CASE Chain
    BY <1>1, <1>2, <2>3 DEF Chain, RelayerAccepts, Mine, Drop, storeVars
  <2> QED
    BY <1>5, <2>1, <2>2, <2>3 DEF World
<1>6. CASE Crash
  BY <1>1, <1>2, <1>6 DEF Crash, storeVars
<1>7. CASE UNCHANGED vars
  BY <1>1, <1>2, <1>7 DEF vars
<1> QED
  BY <1>3, <1>4, <1>5, <1>6, <1>7 DEF Next

\* So the rows of the Visa lane stay in order, and keep their budget.
LEMMA FiatRowsKept ==
  ASSUME TypeInv, FiatRowInv, [Next]_vars
  PROVE  FiatRowInv' /\ FiatKept
<1> SUFFICES ASSUME NEW a \in Auths
             PROVE  /\ charges'[a].status # "failed"
                    /\ charges'[a].status # "absent" =>
                          /\ charges'[a].card = AuthCard[a]
                          /\ charges'[a].key = a
                          /\ cardStatus'[AuthCard[a]] # "deleted"
                    /\ charges[a].status # "absent" =>
                          /\ charges'[a].status = "absent" =>
                                cardStatus'[AuthCard[a]] = "deleted"
                          /\ charges'[a].status # "absent" =>
                                charges'[a].amount = charges[a].amount
  BY DEF FiatRowInv, FiatKept
<1>1. RowStep(a) /\ CardStep(a)
  BY NextRows
<1> QED
  BY <1>1 DEF RowStep, CardStep, RowKept, RowGone, RowNew, FiatRowInv

-----------------------------------------------------------------------------
(* What one step does to a call. *)

SameCall(p) == /\ t'[p].row = t[p].row /\ t'[p].card = t[p].card
               /\ t'[p].lock = t[p].lock

Advances(p) ==
    \/ /\ t[p].pc = "queued" /\ t'[p].pc = "fee"
       /\ cardStatus[t[p].card] # "deleted"
       /\ SettleMode(p) => SettleRowOpen(p)
    \/ t[p].pc \in {"fee", "estimate"} /\ t'[p].pc \in {"estimate", "block"}
    \/ Broadcast(p) /\ t'[p].pc = "send"
    \/ t[p].pc = "send" /\ t'[p].pc = "send" /\ t'[p].accepted
    \/ t[p].pc = "send" /\ t'[p].pc = "confirm"

CallStep(p) ==
    \/ t'[p] = t[p]
    \/ t'[p].pc \in {"idle", "read", "sleep", "exit"}
    \/ /\ t'[p].pc = "queued" /\ t'[p].lock = SpendKey(t'[p].card)
       /\ UNCHANGED cardStatus
    \/ SameCall(p) /\ Advances(p)

\* Where the row that a call drives after the step comes from.
RowFrom(p) ==
    \/ t'[p].pc = "idle"
    \/ t'[p].row = t[p].row /\ t[p].pc # "idle"
    \/ t'[p].row \in backlog
    \/ charges'[t'[p].row].status # "absent"

CallMove(p) == CallStep(p) /\ (t'[p] = t[p] \/ p \in PayCalls \/ RowFrom(p))

\* A call ends.
LEMMA LeaveMove ==
  ASSUME TypeInv, NEW q \in Spenders, NEW p \in Spenders, NEW out \in Outcomes,
         t[q].pc # "idle", Leave(q, out)
  PROVE  CallMove(p)
<1> DEFINE e == Ended(q, out)
<1>1. e \in Call /\ e.pc = "exit" /\ e.row = t[q].row
  BY EndedFields DEF TypeInv
<1>2. t' = [t EXCEPT ![q] = e] /\ t \in [Spenders -> Call]
  BY DEF Leave, TypeInv, TypeOK
<1> HIDE DEF e
<1> QED
  BY <1>1, <1>2 DEF CallMove, CallStep, RowFrom

\* A call advances inside spend().
LEMMA AdvanceMove ==
  ASSUME NEW q \in Spenders, NEW p \in Spenders, t[q].pc # "idle",
         \A r \in Spenders \ {q} : t'[r] = t[r], SameCall(q), Advances(q)
  PROVE  CallMove(p)
  BY DEF CallMove, CallStep, SameCall, RowFrom

\* The mutex hands over.
LEMMA EnterSpendMove ==
  ASSUME TypeInv, NEW q \in Spenders, NEW p \in Spenders, EnterSpend(q)
  PROVE  CallMove(p)
<1>1. t[q].pc = "queued" /\ t[q] \in Call
  BY DEF EnterSpend, ReplayKey, ReplaySettle, StartSpend, AtHead, TypeInv, TypeOK
<1>2. {"receipt", "error", "refused"} \subseteq Outcomes
  BY DEF Outcomes
<1>3. CASE ReplayKey(q) \/ ReplaySettle(q)
  BY <1>1, <1>2, <1>3, LeaveMove DEF ReplayKey, ReplaySettle
<1>4. CASE StartSpend(q)
  <2> DEFINE call == [t[q] EXCEPT !.pc = "fee", !.win = window]
  <2>1. CASE Leave(q, "refused")
    BY <1>1, <1>2, <2>1, LeaveMove
  <2>2. CASE Leave(q, ChainRefusal(t[q].card, expired))
    <3>1. ChainRefusal(t[q].card, expired) \in Outcomes
      BY DEF ChainRefusal, Outcomes
    <3> QED
      BY <1>1, <2>2, <3>1, LeaveMove
  <2>3. CASE /\ AncestorChain(t[q].card) # {}
             /\ t' = [t EXCEPT ![q].pc = "fee", ![q].win = window]
    <3>1. /\ call.pc = "fee" /\ call.row = t[q].row
          /\ call.card = t[q].card /\ call.lock = t[q].lock
      BY <1>1 DEF Call
    <3>2. t'[q] = call /\ \A r \in Spenders \ {q} : t'[r] = t[r]
      BY <2>3 DEF TypeInv, TypeOK
    <3>3. cardStatus[t[q].card] # "deleted"
      BY <2>3 DEF AncestorChain
    <3>4. SettleMode(q) => SettleRowOpen(q)
      BY <1>4 DEF StartSpend
    <3> HIDE DEF call
    <3>5. Advances(q)
      BY <1>1, <3>1, <3>2, <3>3, <3>4 DEF Advances
    <3>6. SameCall(q)
      BY <3>1, <3>2 DEF SameCall
    <3> QED
      BY <1>1, <3>2, <3>5, <3>6, AdvanceMove
  <2> QED
    BY <1>4, <2>1, <2>2, <2>3 DEF StartSpend
<1> QED
  BY <1>3, <1>4 DEF EnterSpend

\* The rest of spend().
LEMMA ResumeSpendMove ==
  ASSUME TypeInv, NEW q \in Spenders, NEW p \in Spenders, ResumeSpend(q)
  PROVE  CallMove(p)
<1>1. t[q] \in Call /\ t \in [Spenders -> Call]
  BY DEF TypeInv, TypeOK
<1>2. CASE \/ RefuseUnreserved(q) \/ LoseBlock(q) \/ RefuseReserved(q)
           \/ SendThrows(q) \/ Confirm(q) \/ Revert(q) \/ GiveUpConfirming(q)
  <2>1. Recheck(q) \in Outcomes
    BY DEF Recheck, ChainRefusal, Outcomes
  <2>2. \E out \in Outcomes : Leave(q, out)
    BY <1>2, <2>1 DEF RefuseUnreserved, LoseBlock, RefuseReserved, SendThrows,
                      Confirm, Revert, GiveUpConfirming, Outcomes
  <2>3. t[q].pc # "idle"
    BY <1>2 DEF RefuseUnreserved, LoseBlock, RefuseReserved, SendThrows,
                Confirm, Revert, GiveUpConfirming
  <2> QED
    BY <2>2, <2>3, LeaveMove
<1>3. ASSUME t[q].pc # "idle", NEW pc, NEW f, NEW n, NEW b,
             \/ t' = [t EXCEPT ![q].pc = pc, ![q].fee = f]
             \/ t' = [t EXCEPT ![q].fee = f, ![q].tries = n]
             \/ t' = [t EXCEPT ![q].pc = pc]
             \/ t' = [t EXCEPT ![q].pc = pc, ![q].since = n]
             \/ t' = [t EXCEPT ![q].accepted = b],
             Advances(q)
      PROVE  CallMove(p)
  <2>1. SameCall(q)
    BY <1>1, <1>3 DEF SameCall, Call
  <2>2. \A r \in Spenders \ {q} : t'[r] = t[r]
    BY <1>1, <1>3
  <2> QED
    BY <1>3, <2>1, <2>2, AdvanceMove
<1>4. CASE PlanFee(q)
  <2>1. PICK f \in Fees[t[q].row] : t' = [t EXCEPT ![q].pc = "estimate", ![q].fee = f]
    BY <1>4 DEF PlanFee
  <2>2. t'[q].pc = "estimate" /\ t[q].pc = "fee"
    BY <1>1, <1>4, <2>1 DEF PlanFee, Call
  <2> QED
    BY <1>3, <2>1, <2>2 DEF Advances
<1>5. CASE RaiseFee(q)
  <2>1. PICK f \in Fees[t[q].row] : t' = [t EXCEPT ![q].fee = f, ![q].tries = @ + 1]
    BY <1>5 DEF RaiseFee
  <2>2. t'[q].pc = "estimate" /\ t[q].pc = "estimate"
    BY <1>1, <1>5, <2>1 DEF RaiseFee, Call
  <2>3. Advances(q)
    BY <2>2 DEF Advances
  <2> QED
    BY <1>3, <2>1, <2>2, <2>3
<1>6. CASE Reserve(q)
  <2>1. t' = [t EXCEPT ![q].pc = "block"] /\ t[q].pc = "estimate"
    BY <1>6 DEF Reserve
  <2>2. t'[q].pc = "block"
    BY <1>1, <2>1 DEF Call
  <2> QED
    BY <1>3, <2>1, <2>2 DEF Advances
<1>7. CASE Broadcast(q)
  <2>1. t' = [t EXCEPT ![q].pc = "send", ![q].since = Len(mined)] /\ t[q].pc = "block"
    BY <1>7 DEF Broadcast
  <2>2. t'[q].pc = "send"
    BY <1>1, <2>1 DEF Call
  <2>3. Advances(q)
    BY <1>7, <2>2 DEF Advances
  <2> QED
    BY <1>3, <2>1, <2>3
<1>8. CASE SendReturns(q)
  <2>1. t' = [t EXCEPT ![q].pc = "confirm"] /\ t[q].pc = "send"
    BY <1>8 DEF SendReturns
  <2>2. t'[q].pc = "confirm"
    BY <1>1, <2>1 DEF Call
  <2> QED
    BY <1>3, <2>1, <2>2 DEF Advances
<1> QED
  BY <1>2, <1>4, <1>5, <1>6, <1>7, <1>8 DEF ResumeSpend

\* A settlement between two runs of spend().
LEMMA SettleMove ==
  ASSUME TypeInv, FiatRowInv, NEW s \in Settlers, NEW p \in Spenders,
         ResumeSettle(s) \/ CatchSettle(s)
  PROVE  CallMove(p)
<1>1. /\ s \in Spenders /\ t[s] \in Call /\ t \in [Spenders -> Call]
      /\ t[s].pc # "idle"
  BY DEF Spenders, TypeInv, TypeOK, ResumeSettle, CatchSettle, ReadSettleRow,
         WakeSettler, SettleReturns, ParkRow, FreezeParked, RetrySettle, Failed
<1>2. ASSUME t' = [t EXCEPT ![s] = AtRest(s)] PROVE CallMove(p)
  <2>1. AtRest(s).pc = "idle"
    BY AtRestFields
  <2> QED
    BY <1>1, <1>2, <2>1 DEF CallMove, CallStep, RowFrom
<1>3. ASSUME \A r \in Spenders \ {s} : t'[r] = t[r],
             t'[s].row = t[s].row, t'[s].pc = "sleep"
      PROVE  CallMove(p)
  BY <1>1, <1>3 DEF CallMove, CallStep, RowFrom
<1>4. CASE ReadSettleRow(s)
  <2>1. CASE charges[t[s].row].status = "pending"
    <3>1. t' = [t EXCEPT ![s] = [t[s] EXCEPT !.pc = "sleep", !.left = SettleAttempts,
                                             !.card = charges[t[s].row].card]]
      BY <1>4, <2>1 DEF ReadSettleRow
    <3>2. \A r \in Spenders \ {s} : t'[r] = t[r]
      BY <1>1, <3>1
    <3>3. t'[s].row = t[s].row /\ t'[s].pc = "sleep"
      BY <1>1, <3>1 DEF Call
    <3> QED
      BY <1>3, <3>2, <3>3
  <2> QED
    BY <1>2, <1>4, <2>1 DEF ReadSettleRow
<1>5. CASE WakeSettler(s)
  <2> DEFINE l == SpendKey(t[s].card)
             call == [t[s] EXCEPT !.pc = "queued", !.lock = l]
  <2>1. t' = [t EXCEPT ![s] = call]
    BY <1>5 DEF WakeSettler, Queue
  <2>2. /\ call.pc = "queued" /\ call.row = t[s].row /\ call.card = t[s].card
        /\ call.lock = l
    <3> HIDE DEF l
    <3> QED
      BY <1>1 DEF Call
  <2>3. t'[s] = call /\ \A r \in Spenders \ {s} : t'[r] = t[r]
    BY <1>1, <2>1
  <2>4. UNCHANGED cardStatus
    BY <1>5 DEF WakeSettler, UnchangedButCalls
  <2>5. t'[s].lock = SpendKey(t'[s].card)
    <3> HIDE DEF call
    <3> QED
      BY <2>2, <2>3
  <2> HIDE DEF call
  <2> QED
    BY <1>1, <2>2, <2>3, <2>4, <2>5 DEF CallMove, CallStep, RowFrom
<1>6. CASE RetrySettle(s)
  <2>1. t' = [t EXCEPT ![s].pc = "sleep", ![s].out = "none", ![s].left = @ - 1]
    BY <1>6 DEF RetrySettle
  <2>2. \A r \in Spenders \ {s} : t'[r] = t[r]
    BY <1>1, <2>1
  <2>3. t'[s].row = t[s].row /\ t'[s].pc = "sleep"
    BY <1>1, <2>1 DEF Call
  <2> QED
    BY <1>3, <2>2, <2>3
<1> QED
  BY <1>2, <1>4, <1>5, <1>6
     DEF ResumeSettle, CatchSettle, SettleReturns, ParkRow, FreezeParked

\* Every step.
LEMMA NextMove ==
  ASSUME TypeInv, FiatRowInv, NEW p \in Spenders, [Next]_vars
  PROVE  CallMove(p)
<1>1. t \in [Spenders -> Call]
  BY DEF TypeInv, TypeOK
<1>2. ASSUME UNCHANGED t PROVE CallMove(p)
  BY <1>2 DEF CallMove, CallStep
<1>3. ASSUME NEW q \in PayCalls, NEW c \in Cards, NEW k \in Keys \cup {NoKey},
             NEW m \in Amounts, AgentSpend(q, c, k, m)
      PROVE  CallMove(p)
  <2> DEFINE call == [t[q] EXCEPT !.card = c, !.key = k, !.amount = m]
             l == SpendKey(call.card)
             new == [call EXCEPT !.pc = "queued", !.lock = l]
  <2>1. t' = [t EXCEPT ![q] = new] /\ UNCHANGED cardStatus
    BY <1>3 DEF AgentSpend, Queue, UnchangedButCalls
  <2>2. q \in Spenders /\ t[q] \in Call
    BY <1>1 DEF Spenders
  <2>3. call.card = c
    BY <2>2 DEF Call
  <2>4. new.pc = "queued" /\ new.lock = l /\ new.card = call.card
    <3> HIDE DEF l
    <3> QED
      BY <2>2, <2>3 DEF Call
  <2> HIDE DEF new
  <2>5. t'[q] = new /\ \A r \in Spenders \ {q} : t'[r] = t[r]
    BY <1>1, <2>1, <2>2
  <2>6. t'[q].lock = SpendKey(t'[q].card)
    BY <2>4, <2>5
  <2> QED
    BY <2>1, <2>4, <2>5, <2>6 DEF CallMove, CallStep
<1>4. ASSUME NEW a \in Auths, NEW n \in Amounts, ApproveAuthorization(a, n)
      PROVE  CallMove(p)
  <2>1. CASE ~SettlementOn
    BY <1>2, <1>4, <2>1 DEF ApproveAuthorization
  <2>2. CASE SettlementOn
    <3>1. a \in Spenders /\ a \in ChargeIds /\ t[a] \in Call
      BY <1>1 DEF Spenders, Settlers, ChargeIds
    <3>2. t' = [t EXCEPT ![a].pc = "read"]
      BY <1>4, <2>2 DEF ApproveAuthorization
    <3>3. /\ t'[a].pc = "read" /\ t'[a].row = t[a].row
          /\ \A r \in Spenders \ {a} : t'[r] = t[r]
      BY <1>1, <3>1, <3>2 DEF Call
    <3>4. t[a].row = a
      BY <3>1 DEF TypeInv, RowInv, RowOK
    <3>5. charges'[a].status = "pending"
      <4> DEFINE st == IF SettlementOn THEN "pending" ELSE "confirmed"
                 row == [NoCharge EXCEPT !.status = st, !.card = AuthCard[a],
                           !.key = a, !.amount = n, !.fee = Headroom, !.win = window,
                           !.request = IF SettlementOn THEN "null" ELSE "sent"]
      <4>1. row.status = "pending"
        BY <2>2 DEF NoCharge
      <4>2. charges' = [charges EXCEPT ![a] = row]
        BY <1>4 DEF ApproveAuthorization
      <4> HIDE DEF row
      <4> QED
        BY <3>1, <4>1, <4>2 DEF TypeInv, TypeOK
    <3> QED
      BY <3>3, <3>4, <3>5 DEF CallMove, CallStep, RowFrom
  <2> QED
    BY <2>1, <2>2
<1>5. CASE Microtask
  BY <1>5, EnterSpendMove, SettleMove DEF Microtask
<1>6. CASE Task
  <2>1. CASE StartSettleSweep \/ StartReconcile \/ ResolveStale \/ PostponeReconcile
    BY <1>2, <2>1 DEF StartSettleSweep, StartReconcile, ResolveStale, PostponeReconcile
  <2>2. CASE SweepNextRow
    <3>1. PICK a \in backlog : t' = [t EXCEPT ![Sweeper].pc = "read",
                                             ![Sweeper].row = a]
      BY <2>2 DEF SweepNextRow
    <3>2. Sweeper \in Spenders /\ t[Sweeper] \in Call
      BY <1>1 DEF Spenders, Settlers
    <3>3. /\ t'[Sweeper].pc = "read" /\ t'[Sweeper].row = a
          /\ \A r \in Spenders \ {Sweeper} : t'[r] = t[r]
      BY <1>1, <3>1, <3>2 DEF Call
    <3> QED
      BY <3>3 DEF CallMove, CallStep, RowFrom
  <2>3. CASE Owner
    BY <1>2, <2>3
       DEF Owner, Freeze, Unfreeze, Revoke, Expire, DeleteDeadCard, Control
  <2> QED
    BY <1>3, <1>4, <1>6, <2>1, <2>2, <2>3, ResumeSpendMove, SettleMove DEF Task
<1>7. CASE World
  <2>1. CASE NextWindow \/ \E i \in ChargeIds : Age(i)
    BY <1>2, <2>1 DEF NextWindow, Age
  <2>2. CASE \E r \in inflight : Mine(r) \/ Drop(r)
    BY <1>2, <2>2 DEF Mine, Drop
  <2>3. ASSUME NEW q \in Spenders, RelayerAccepts(q) PROVE CallMove(p)
    <3>1. t' = [t EXCEPT ![q].accepted = TRUE] /\ t[q].pc = "send" /\ t[q] \in Call
      BY <1>1, <2>3 DEF RelayerAccepts
    <3>2. /\ t'[q].pc = "send" /\ t'[q].accepted /\ t'[q].row = t[q].row
          /\ t'[q].card = t[q].card /\ t'[q].lock = t[q].lock
      BY <1>1, <3>1 DEF Call
    <3>3. \A r \in Spenders \ {q} : t'[r] = t[r]
      BY <1>1, <3>1
    <3>4. SameCall(q) /\ Advances(q)
      BY <3>1, <3>2 DEF SameCall, Advances
    <3> QED
      BY <3>1, <3>3, <3>4, AdvanceMove
  <2> QED
    BY <1>7, <2>1, <2>2, <2>3 DEF World, Chain
<1>8. CASE Crash
  <2>1. CASE SettleMode(p)
    <3>1. t'[p] = AtRest(p)
      BY <1>8, <2>1 DEF Crash
    <3>2. AtRest(p).pc = "idle"
      BY <2>1, AtRestFields DEF SettleMode
    <3> QED
      BY <3>1, <3>2 DEF CallMove, CallStep, RowFrom
  <2>2. CASE ~SettleMode(p) /\ t[p].pc = "idle"
    BY <1>8, <2>2 DEF Crash, CallMove, CallStep
  <2>3. CASE ~SettleMode(p) /\ t[p].pc # "idle"
    <3> DEFINE e == Ended(p, t[p].out)
    <3>1. e.pc = "exit"
      <4>1. t[p].out \in Outcomes
        BY <1>1 DEF Call
      <4> QED
        BY <4>1, EndedFields DEF TypeInv
    <3>2. t'[p] = e
      BY <1>8, <2>3 DEF Crash
    <3>3. p \in PayCalls
      BY <2>3 DEF SettleMode, Spenders
    <3> HIDE DEF e
    <3> QED
      BY <3>1, <3>2, <3>3 DEF CallMove, CallStep
  <2> QED
    BY <2>1, <2>2, <2>3
<1>9. CASE UNCHANGED vars
  BY <1>2, <1>9 DEF vars
<1> QED
  BY <1>5, <1>6, <1>7, <1>8, <1>9 DEF Next

-----------------------------------------------------------------------------
(* The invariant of the Visa lane. *)

\* What is known or claimed stays so.
LEMMA KnownStable ==
  ASSUME TypeInv, FiatRowInv, NEW a \in Auths, [Next]_vars
  PROVE  (Known(a) => Known(a)') /\ (Claimed(a) => Claimed(a)')
<1>1. RowStep(a) /\ CardStep(a)
  BY NextRows
<1> QED
  BY <1>1 DEF RowStep, CardStep, RowKept, RowGone, RowNew, Known, Claimed, FiatRowInv

\* Calls keep the key of their card's tree.
LEMMA SettleKeyKept ==
  ASSUME TypeInv, FiatRowInv, SettleKeyInv, [Next]_vars
  PROVE  SettleKeyInv'
<1> SUFFICES ASSUME NEW s \in Settlers
             PROVE  SettleKeyOK(s)'
  BY DEF SettleKeyInv
<1>1. s \in Spenders /\ s \notin PayCalls
  BY StoreAssumption, PipelineAssumption DEF Spenders, Settlers, ChargeIds
<1>2. CallStep(s)
  BY <1>1, NextMove DEF CallMove
<1>3. SettleKeyOK(s)
  BY DEF SettleKeyInv
<1>4. t[s].pc = "queued" => t[s].row \in Auths /\ t[s].card = AuthCard[t[s].row]
  BY <1>1 DEF TypeInv, RowInv, RowOK
<1>5. CASE t'[s] = t[s]
  <2>1. t[s].pc = "queued" /\ cardStatus[t[s].card] = "deleted"
          => cardStatus'[t[s].card] = "deleted"
    BY <1>4, NextRows DEF CardStep
  <2> QED
    BY <1>3, <1>5, <2>1 DEF SettleKeyOK
<1>6. CASE t'[s].pc \in {"idle", "read", "sleep", "exit"}
  BY <1>6 DEF SettleKeyOK, InSection
<1>7. CASE /\ t'[s].pc = "queued" /\ t'[s].lock = SpendKey(t'[s].card)
           /\ UNCHANGED cardStatus
  <2>1. t'[s].card \in Cards
    <3>1. TypeInv'
      BY NextTypes
    <3>2. RowOK(s, t'[s])
      BY <1>1, <3>1 DEF TypeInv, RowInv, RowOK
    <3> QED
      BY <1>1, <1>7, <3>2, PipelineAssumption DEF RowOK
  <2>2. \/ t'[s].lock = RootOf(t'[s].card)
        \/ AncestorChain(t'[s].card) = {}
    BY <1>7 DEF SpendKey
  <2>3. AncestorChain(t'[s].card) = {} => cardStatus[t'[s].card] = "deleted"
    BY <2>1, ForestAssumption DEF AncestorChain
  <2> QED
    BY <1>7, <2>2, <2>3 DEF SettleKeyOK, InSection
<1>8. CASE SameCall(s) /\ Advances(s)
  <2>1. t[s].lock = RootOf(t[s].card)
    <3>1. \/ t[s].pc = "queued" /\ cardStatus[t[s].card] # "deleted"
          \/ t[s].pc \in InSection
      BY <1>8 DEF Advances, Broadcast, InSection
    <3> QED
      BY <1>3, <3>1 DEF SettleKeyOK
  <2>2. t'[s].pc # "queued"
    BY <1>8 DEF Advances
  <2> QED
    BY <1>8, <2>1, <2>2 DEF SettleKeyOK, SameCall
<1> QED
  BY <1>2, <1>5, <1>6, <1>7, <1>8 DEF CallStep

\* Rows that are listed or driven were once on the books.
LEMMA KnownKept ==
  ASSUME TypeInv, FiatRowInv, KnownInv, [Next]_vars
  PROVE  KnownInv'
<1>1. ASSUME NEW a \in backlog' PROVE Known(a)'
  <2>1. a \in backlog \/ a \in UnsettledFiatCharges
    BY <1>1 DEF Next, Microtask, Task, World, vars, EnterSpend, ReplayKey,
         ReplaySettle, StartSpend, CatchSettle, SettleReturns, ParkRow,
         FreezeParked, RetrySettle, AgentSpend, ResumeSpend, PlanFee, RaiseFee,
         RefuseUnreserved, Reserve, LoseBlock, RefuseReserved, Broadcast,
         SendReturns, SendThrows, Confirm, Revert, GiveUpConfirming,
         ApproveAuthorization, ResumeSettle, ReadSettleRow, WakeSettler,
         StartSettleSweep, SweepNextRow, StartReconcile, ResolveStale,
         PostponeReconcile, Owner, Freeze, Unfreeze, Revoke, Expire,
         DeleteDeadCard, Control, Chain, RelayerAccepts, Mine, Drop, NextWindow,
         Age, Crash, UnchangedButCalls, UnchangedButParking
  <2>2. a \in Auths /\ Known(a)
    BY <2>1 DEF KnownInv, Known, UnsettledFiatCharges, TypeInv, TypeOK
  <2> QED
    BY <2>2, KnownStable
<1>2. ASSUME NEW s \in Settlers, NEW a \in Auths, Driven(s, a)'
      PROVE  Known(a)'
  <2>1. s \in Spenders /\ s \notin PayCalls
    BY StoreAssumption, PipelineAssumption DEF Spenders, Settlers, ChargeIds
  <2>2. t'[s] = t[s] \/ RowFrom(s)
    BY <2>1, NextMove DEF CallMove
  <2>3. t'[s].pc # "idle" /\ t'[s].row = a
    BY <1>2 DEF Driven
  <2>4. CASE charges'[a].status # "absent"
    BY <2>4 DEF Known
  <2>5. CASE Driven(s, a) \/ a \in backlog
    <3>1. Known(a)
      BY <2>5 DEF KnownInv
    <3> QED
      BY <3>1, KnownStable
  <2> QED
    BY <2>2, <2>3, <2>4, <2>5 DEF RowFrom, Driven
<1> QED
  BY <1>1, <1>2 DEF KnownInv

\* Two settlers never hold their keys for the same row.
LEMMA OneHolder ==
  ASSUME TypeInv, SettleKeyInv, NEW r \in Settlers, NEW s \in Settlers,
         t[r].pc \in InSection, t[s].pc \in InSection, t[r].row = t[s].row
  PROVE  r = s
<1>1. r \in Spenders /\ s \in Spenders
  BY DEF Spenders
<1>2. t[r].card = t[s].card
  BY <1>1 DEF TypeInv, RowInv, RowOK, InSection
<1>3. t[r].lock = t[s].lock
  BY <1>2 DEF SettleKeyInv, SettleKeyOK
<1> QED
  BY <1>1, <1>3 DEF TypeInv, LockInv, LockOK

\* Only the relayer counts a broadcast.
LEMMA SentStep ==
  ASSUME [Next]_vars
  PROVE  UNCHANGED sent \/ \E q \in Spenders : RelayerAccepts(q)
  BY DEF Next, Microtask, Task, World, vars, EnterSpend, ReplayKey,
         ReplaySettle, StartSpend, CatchSettle, SettleReturns, ParkRow,
         FreezeParked, RetrySettle, AgentSpend, ResumeSpend, PlanFee, RaiseFee,
         RefuseUnreserved, Reserve, LoseBlock, RefuseReserved, Broadcast,
         SendReturns, SendThrows, Confirm, Revert, GiveUpConfirming,
         ApproveAuthorization, ResumeSettle, ReadSettleRow, WakeSettler,
         StartSettleSweep, SweepNextRow, StartReconcile, ResolveStale,
         PostponeReconcile, Owner, Freeze, Unfreeze, Revoke, Expire,
         DeleteDeadCard, Control, Chain, Mine, Drop, NextWindow,
         Age, Crash, UnchangedButCalls, UnchangedButParking, chainVars

\* A broadcast counted keeps its claim, and it is the row's first.
LEMMA AcceptKept ==
  ASSUME TypeInv, FiatRowInv, SettleKeyInv, ClaimInv, FiatBroadcastOnce,
         NEW q \in Spenders, RelayerAccepts(q)
  PROVE  ClaimInv' /\ FiatBroadcastOnce'
<1> DEFINE b == t[q].row
<1>1. /\ t[q].pc = "send" /\ ~t[q].accepted /\ t[q] \in Call
      /\ t \in [Spenders -> Call] /\ t' = [t EXCEPT ![q].accepted = TRUE]
      /\ UNCHANGED <<charges, cardStatus>>
  BY DEF RelayerAccepts, TypeInv, TypeOK, storeVars
<1>2. b \in ChargeIds /\ sent \in [ChargeIds -> 0..2]
  BY <1>1, RowIsCharge DEF TypeInv, TypeOK
<1>3. /\ \A i \in ChargeIds \ {b} : sent'[i] = sent[i]
      /\ sent[b] = 0 => sent'[b] = 1
  BY <1>2 DEF RelayerAccepts
<1>4. \A a \in Auths : Claimed(a)' <=> Claimed(a)
  BY <1>1 DEF Claimed, Known
<1>5. \A a \in Auths : a \in ChargeIds
  BY DEF ChargeIds
<1>6. t'[q].accepted /\ t'[q].pc = "send" /\ t'[q].row = b
      /\ \A s \in Spenders \ {q} : t'[s] = t[s]
  BY <1>1 DEF Call
<1>7. \A s \in Settlers : /\ s \in Spenders
                          /\ t[s].pc \in InSection => t[s].row \in Auths
  BY DEF Spenders, TypeInv, RowInv, RowOK, InSection
<1>8. CASE b \notin Auths
  <2>1. \A a \in Auths : sent'[a] = sent[a]
    BY <1>3, <1>5, <1>8
  <2>2. ASSUME NEW s \in Settlers PROVE ClaimOK(s)'
    <3>1. s # q
      BY <1>1, <1>7, <1>8 DEF InSection
    <3>2. t'[s] = t[s]
      BY <1>6, <1>7, <3>1
    <3> QED
      BY <2>1, <3>2, <1>4, <1>7 DEF ClaimInv, ClaimOK, InSection
  <2> QED
    BY <2>1, <2>2, <1>4 DEF ClaimInv, FiatBroadcastOnce
<1>9. CASE b \in Auths
  <2>1. q \in Settlers
    BY <1>1, <1>9, SettlerRows DEF SettleMode
  <2>2. sent[b] = 0 /\ Claimed(b)
    BY <1>1, <2>1 DEF ClaimInv, ClaimOK
  <2>3. sent'[b] = 1
    BY <1>3, <2>2
  <2>4. ASSUME NEW s \in Settlers PROVE ClaimOK(s)'
    <3>1. CASE s = q
      BY <3>1, <1>4, <1>6, <1>9, <2>2 DEF ClaimOK
    <3>2. CASE s # q /\ t[s].pc \in InSection
      <4>1. t[s].row # b
        BY <1>1, <2>1, <3>2, OneHolder DEF InSection
      <4>2. sent'[t[s].row] = sent[t[s].row]
        BY <1>3, <1>5, <1>7, <3>2, <4>1
      <4>3. t'[s] = t[s]
        BY <1>6, <1>7, <3>2
      <4> QED
        BY <1>4, <1>7, <3>2, <4>2, <4>3 DEF ClaimInv, ClaimOK
    <3>3. CASE s # q /\ t[s].pc \notin InSection
      BY <1>6, <1>7, <3>3 DEF ClaimOK, InSection
    <3> QED
      BY <3>1, <3>2, <3>3
  <2>5. \A a \in Auths : sent'[a] # 0 => Claimed(a)
    BY <1>3, <1>5, <2>2 DEF ClaimInv
  <2>6. \A a \in Auths : sent'[a] <= 1
    BY <1>3, <1>5, <2>3 DEF FiatBroadcastOnce
  <2> QED
    BY <1>4, <2>4, <2>5, <2>6 DEF ClaimInv, FiatBroadcastOnce
<1> QED
  BY <1>8, <1>9

\* Any other step: what is about to broadcast has not, what may have broadcast
\* is claimed.
LEMMA ClaimKept ==
  ASSUME TypeInv, FiatRowInv, KnownInv, ClaimInv, FiatBroadcastOnce,
         [Next]_vars, UNCHANGED sent
  PROVE  ClaimInv' /\ FiatBroadcastOnce'
<1>1. \A a \in Auths : sent'[a] # 0 => Claimed(a)'
  BY KnownStable DEF ClaimInv
<1>2. ASSUME NEW s \in Settlers PROVE ClaimOK(s)'
  <2>0. PICK b : b = t[s].row
    OBVIOUS
  <2>1. s \in Spenders /\ CallStep(s) /\ ClaimOK(s)
    BY NextMove DEF CallMove, Spenders, ClaimInv
  <2>2. t[s].pc # "idle" => b \in Auths
    BY <2>0, <2>1 DEF TypeInv, RowInv, RowOK
  <2>3. t[s].pc # "idle" /\ Claimed(b) => Claimed(b)'
    BY <2>2, KnownStable
  <2>4. CASE t'[s] = t[s]
    BY <2>0, <2>1, <2>2, <2>3, <2>4 DEF ClaimOK
  <2>5. CASE t'[s].pc \in {"idle", "read", "sleep", "exit", "queued"}
    BY <2>5 DEF ClaimOK
  <2>6. CASE SameCall(s) /\ Advances(s)
    <3>1. t'[s].row = b
      BY <2>0, <2>6 DEF SameCall
    <3>2. CASE t[s].pc = "queued" /\ SettleRowOpen(s) /\ t'[s].pc = "fee"
      <4>1. ~Claimed(b)
        BY <2>0, <3>2 DEF SettleRowOpen, Claimed
      <4>2. sent[b] = 0
        BY <2>2, <3>2, <4>1 DEF ClaimInv
      <4> QED
        BY <3>1, <3>2, <4>2 DEF ClaimOK
    <3>3. CASE t[s].pc \in {"fee", "estimate"} /\ t'[s].pc \in {"estimate", "block"}
      BY <2>0, <2>1, <3>1, <3>3 DEF ClaimOK
    <3>4. CASE Broadcast(s) /\ t'[s].pc = "send"
      <4>1. t[s].pc = "block" /\ b \in Auths /\ b \in ChargeIds
        BY <2>2, <3>4 DEF Broadcast, ChargeIds
      <4>2. sent[b] = 0
        BY <2>0, <2>1, <4>1 DEF ClaimOK
      <4>3. Known(b)'
        <5>1. Driven(s, b)
          BY <2>0, <4>1 DEF Driven
        <5> QED
          BY <4>1, <5>1, KnownStable DEF KnownInv
      <4>4. charges'[b].status # "absent" => charges'[b].request = "claim"
        <5> DEFINE n == Len(mined)
                   row == [charges[b] EXCEPT !.request = "claim", !.since = n]
        <5>1. UpdateCharge(b, row)
          BY <2>0, <3>4 DEF Broadcast, SettleMode
        <5>2. row.request = "claim"
          BY <4>1 DEF TypeInv, TypeOK, Charge
        <5> HIDE DEF row
        <5> QED
          BY <4>1, <5>1, <5>2 DEF UpdateCharge, TypeInv, TypeOK
      <4>5. Claimed(b)'
        BY <4>3, <4>4 DEF Claimed
      <4> QED
        BY <3>1, <3>4, <4>2, <4>5 DEF ClaimOK
    <3>5. CASE t[s].pc = "send" /\ t'[s].pc = "send" /\ t'[s].accepted
      BY <2>0, <2>1, <2>3, <3>1, <3>5 DEF ClaimOK
    <3>6. CASE t'[s].pc = "confirm"
      BY <3>6 DEF ClaimOK
    <3> QED
      BY <2>6, <3>2, <3>3, <3>4, <3>5, <3>6 DEF Advances, SettleMode
  <2> QED
    BY <2>1, <2>4, <2>5, <2>6 DEF CallStep
<1> QED
  BY <1>1, <1>2 DEF ClaimInv, FiatBroadcastOnce

\* A call begins to broadcast only when the chain of its card is spendable.
LEMMA SendsStep ==
  ASSUME TypeInv, FiatRowInv, [Next]_vars
  PROVE  SendsSpendable
<1> SUFFICES ASSUME NEW c \in Cards, NEW p \in Spenders,
                    t'[p].pc = "send", t'[p].card \in SubtreeOf(c),
                    cardStatus[c] \in {"frozen", "revoked"},
                    cardStatus[t'[p].card] # "deleted"
             PROVE  t[p].pc = "send" /\ t[p].card \in SubtreeOf(c)
  BY DEF SendsSpendable, AtSend, SubtreeOf
<1>1. CallStep(p)
  BY NextMove DEF CallMove
<1>2. CASE t'[p] = t[p]
  BY <1>2
<1>3. CASE SameCall(p) /\ t[p].pc = "send"
  BY <1>3 DEF SameCall
<1>4. CASE SameCall(p) /\ Broadcast(p)
  <2> DEFINE chain == AncestorChain(t[p].card)
  <2>1. t[p].card = t'[p].card
    BY <1>4 DEF SameCall
  <2>2. c \in AncestorsOf[t[p].card]
    BY <2>1 DEF SubtreeOf
  <2>3. c \in chain /\ cardStatus[c] # "active"
    BY <2>1, <2>2 DEF AncestorChain
  <2>4. {a \in chain : cardStatus[a] # "active" \/ a \in {}} # {}
    BY <2>3
  <2>5. ChainRefusal(t[p].card, {}) # "none"
    <3> HIDE DEF chain
    <3> QED
      BY <2>4 DEF ChainRefusal, chain
  <2> QED
    BY <1>4, <2>5 DEF Broadcast, Recheck
<1> QED
  BY <1>1, <1>2, <1>3, <1>4 DEF CallStep, Advances

-----------------------------------------------------------------------------
(* The theorems. *)

\* The empty books satisfy the invariant.
LEMMA InitFiat == Init => FiatInv
<1> SUFFICES ASSUME Init PROVE FiatInv
  OBVIOUS
<1>1. TypeInv
  BY InitTypes
<1>2. \A a \in Auths : charges[a].status = "absent" /\ sent[a] = 0
  BY DEF Init, ChargeIds, NoCharge
<1>3. \A s \in Settlers : t[s].pc = "idle"
  BY DEF Init, Spenders, NoCall
<1>4. FiatRowInv
  BY <1>2 DEF FiatRowInv
<1>5. SettleKeyInv
  BY <1>3 DEF SettleKeyInv, SettleKeyOK, InSection
<1>6. KnownInv
  BY <1>3 DEF KnownInv, Driven, Init
<1>7. ClaimInv /\ FiatBroadcastOnce
  BY <1>2, <1>3 DEF ClaimInv, ClaimOK, FiatBroadcastOnce
<1> QED
  BY <1>1, <1>4, <1>5, <1>6, <1>7 DEF FiatInv, TypeInv

\* Every step keeps it.
LEMMA NextFiat == FiatInv /\ [Next]_vars => FiatInv'
<1> SUFFICES ASSUME FiatInv, [Next]_vars PROVE FiatInv'
  OBVIOUS
<1>1. /\ TypeInv /\ FiatRowInv /\ SettleKeyInv /\ KnownInv
      /\ ClaimInv /\ FiatBroadcastOnce
  BY DEF FiatInv, TypeInv
<1>2. TypeInv'
  BY <1>1, NextTypes
<1>3. FiatRowInv'
  BY <1>1, FiatRowsKept
<1>4. SettleKeyInv'
  BY <1>1, SettleKeyKept
<1>5. KnownInv'
  BY <1>1, KnownKept
<1>6. ClaimInv' /\ FiatBroadcastOnce'
  BY <1>1, SentStep, AcceptKept, ClaimKept
<1> QED
  BY <1>2, <1>3, <1>4, <1>5, <1>6 DEF FiatInv, TypeInv

\* The invariant of the Visa lane holds throughout: the queues of the mutex,
\* the calls, the authorizations' rows and their claims stay consistent.
THEOREM FiatInvariant == Spec => []FiatInv
  BY InitFiat, NextFiat, PTL DEF Spec

\* Every variable of the pipeline stays in its type.
THEOREM TypeCorrect == Spec => []TypeOK
<1>1. FiatInv => TypeOK
  BY DEF FiatInv
<1> QED
  BY <1>1, FiatInvariant, PTL

\* The claim that settle mode writes before it calls the relayer, read again
\* under the mutex, lets a Visa charge be broadcast at most once, whatever
\* kickoffs, sweeps, retries and restarts do.
THEOREM BroadcastOnce == Spec => []FiatBroadcastOnce
<1>1. FiatInv => FiatBroadcastOnce
  BY DEF FiatInv
<1> QED
  BY <1>1, FiatInvariant, PTL

\* No step of the pipeline, the sweeps or the owner fails the row of an
\* approved Visa charge, changes its amount, or removes it without its card.
THEOREM NeverReleased == Spec => FiatNeverReleased
<1>1. FiatInv /\ [Next]_vars => [FiatKept]_vars
  BY FiatRowsKept DEF FiatInv, TypeInv
<1> QED
  BY <1>1, FiatInvariant, PTL DEF Spec, FiatNeverReleased

\* spend()'s second look at the cards: no call, of an agent or of a
\* settlement, begins to broadcast under a frozen or revoked card.
THEOREM NoSendOnceKilledHolds == Spec => NoSendOnceKilled
<1>1. FiatInv /\ [Next]_vars => [SendsSpendable]_vars
  BY SendsStep DEF FiatInv, TypeInv
<1> QED
  BY <1>1, FiatInvariant, PTL DEF Spec, NoSendOnceKilled
=============================================================================

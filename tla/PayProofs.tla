----------------------------- MODULE PayProofs -----------------------------
(* Proofs about payments, for every value of the constants.  Of agents': a   *)
(* key moves money once, what is confirmed is mined, what is mined is        *)
(* booked; and, with the sums over the books, no card's caps are exceeded.   *)
(* Of x402 payments, which share their books, mutex and chain: a receipt is  *)
(* true, what was paid stays counted, and the caps hold for both together.   *)
EXTENDS SpendProofs, X402Properties, FiniteSetTheorems, SetSums

-----------------------------------------------------------------------------
(* Agents' payments, their rows and the chain. *)

Moved(i) == IsMined(i) \/ IsInflight(i)

Redemptions == inflight \cup {mined[k] : k \in DOMAIN mined}

\* A fee log tells whose it is: the logs are those of the collector, and no two
\* charges are given the same fee.
Traced == FeesDistinct /\ CollectorMatches

\* Block n is before any redemption of p.
SinceOK(p, n) == n <= Len(mined) /\ \A k \in DOMAIN mined : mined[k].charge = p => k >= n

\* What the row of a payment says, as its call goes on.
PresentOK(p, call, row) ==
    /\ call.pc \in {"block", "send", "confirm", "exit"}
    /\ row.card = call.card /\ row.key = call.key
    /\ call.pc \in {"block", "send"} => row.fee = call.fee /\ row.request = "null"
    /\ call.pc \in {"block", "send", "confirm"} => row.status = "pending"
    /\ call.pc = "confirm" => row.request # "null"
    /\ row.request # "null" => SinceOK(p, row.since)
    /\ row.aged => call.pc = "exit" /\ ~IsInflight(p)

\* A payment that moved, or may yet move, has a row that answers for its key,
\* unless the card is gone or a send that errs may have been queued; its budget
\* is held too, as far as failures are real, until the sweep gives it up.
HeldOK(row, gone) ==
    AmbiguousSend \/ gone \/
            /\ row.status # "absent"
            /\ row.status = "failed" => row.request # "null"
                                        /\ (FailuresReal => row.aged /\ ~Traced)

RowGood(p, call, row, gone) ==
    /\ Moved(p) => call.pc \in {"send", "confirm", "exit"} /\ (call.pc = "send" => call.accepted)
    /\ row.status # "absent" => PresentOK(p, call, row)
    /\ call.pc \in {"send", "confirm"} => SinceOK(p, call.since)
    /\ Moved(p) \/ call.pc \in {"block", "send"} => HeldOK(row, gone)
    /\ \A r \in Redemptions : r.charge = p =>
          /\ AmbiguousSend \/ gone \/ row.fee = r.fee
          /\ call.pc \in {"send", "confirm"} => r.fee = call.fee

\* A row that a reconcile sweep has listed.
ListedOK(p, call, row) ==
    /\ call.pc = "exit" /\ ~IsInflight(p)
    /\ row.status # "absent" => row.request # "null" /\ row.status = "pending" /\ row.aged

Gone(p) == cardStatus[t[p].card] = "deleted"

PayOK(p) == /\ RowGood(p, t[p], charges[p], Gone(p))
            /\ p \in recon => ListedOK(p, t[p], charges[p])

PayInv == \A p \in PayCalls : PayOK(p)

\* The row of a carve has neither a key nor a request: no retry clears it and
\* the reconcile sweep has nothing to look up.
CarvesPlain ==
    \A x \in X402Calls : /\ charges[x].key = NoKey /\ charges[x].request = "null"
                          /\ x \notin recon

\* The fees that a row, a call and a redemption hold are those asked for their own
\* charge, from the estimate on; a Visa row gives up its headroom for one when it
\* is reserved.
Priced(i) == charges[i].status = "absent" \/ charges[i].fee \in Fees[i]

DrawnCall(p) ==
    /\ t[p].pc \in {"estimate", "block", "send", "confirm"} => t[p].fee \in Fees[t[p].row]
    /\ t[p].pc \in {"block", "send"} => Priced(t[p].row)

DrawnRow(i) ==
    /\ charges[i].status = "pending" /\ charges[i].request # "null" => Priced(i)
    /\ i \in recon => Priced(i) /\ (i \in Auths => Known(i))

DrawnInv ==
    /\ \A p \in Spenders : DrawnCall(p)
    /\ \A i \in PayCalls \cup Auths : DrawnRow(i)
    /\ CarvesPlain
    /\ \A r \in Redemptions : r.fee \in Fees[r.charge]

-----------------------------------------------------------------------------
(* What a step leaves of it. *)

LEMMA PayFollows ==
  ASSUME NEW p \in PayCalls, UNCHANGED <<mined, inflight>>,
         RowGood(p, t'[p], charges'[p], cardStatus'[t'[p].card] = "deleted"),
         p \in recon' => ListedOK(p, t'[p], charges'[p])
  PROVE  PayOK(p)'
BY DEF PayOK, RowGood, PresentOK, HeldOK, ListedOK, SinceOK, Gone, Moved, IsMined, IsInflight,
       Redemptions

LEMMA PayStays ==
  ASSUME NEW p \in PayCalls, PayOK(p), UNCHANGED <<mined, inflight>>,
         t'[p] = t[p], charges'[p] = charges[p], p \in recon' => p \in recon,
         Gone(p) => cardStatus'[t[p].card] = "deleted"
  PROVE  PayOK(p)'
<1>1. RowGood(p, t[p], charges[p], cardStatus'[t[p].card] = "deleted")
  BY DEF PayOK, RowGood, HeldOK
<1> QED
  BY <1>1, PayFollows DEF PayOK

\* A run of spend() ends.  Its row keeps all but the status, and fails only
\* when nothing moved or a failure need not be real.
RowEnds(p) ==
    \/ charges'[p] = charges[p]
    \/ \E st \in ChargeStatuses \ {"absent"} :
          /\ charges[p].status # "absent"
          /\ charges'[p] = [charges[p] EXCEPT !.status = st]
          /\ st = "failed" => \/ ~Moved(p) \/ AmbiguousSend
                              \/ ~FailuresReal /\ charges[p].request # "null"

LEMMA PayLeaves ==
  ASSUME TypeInv, NEW p \in PayCalls, PayOK(p), t[p].pc \notin {"idle", "exit"},
         NEW out \in Outcomes, Leave(p, out), RowEnds(p),
         UNCHANGED <<mined, inflight, cardStatus, recon>>
  PROVE  PayOK(p)'
<1> DEFINE e == Ended(p, out)
           row == charges[p]
<1>1. /\ p \in Spenders /\ p \in ChargeIds
      /\ t \in [Spenders -> Call] /\ t[p] \in Call /\ row \in Charge
  BY DEF TypeInv, TypeOK, Spenders, ChargeIds
<1>2. e.pc = "exit" /\ e.card = t[p].card /\ e.key = t[p].key
  <2>1. Told(p, out) \in Outcomes
    BY DEF Told, Outcomes
  <2> QED
    BY <1>1, <2>1 DEF Ended, NoCall, Call
<1>3. t'[p] = e
  BY <1>1 DEF Leave
<1> HIDE DEF e
<1>4. RowGood(p, t[p], row, Gone(p)) /\ p \notin recon
  BY DEF PayOK, ListedOK
<1>5. CASE charges'[p] = row
  <2>1. RowGood(p, e, row, Gone(p))
    BY <1>2, <1>4 DEF RowGood, PresentOK
  <2> QED
    BY <1>2, <1>3, <1>4, <1>5, <2>1, PayFollows DEF Gone
<1>6. ASSUME NEW st \in ChargeStatuses \ {"absent"},
             row.status # "absent", charges'[p] = [row EXCEPT !.status = st],
             st = "failed" => ~Moved(p) \/ AmbiguousSend \/ (~FailuresReal /\ row.request # "null")
      PROVE  PayOK(p)'
  <2> DEFINE new == [row EXCEPT !.status = st]
  <2>1. /\ new.status = st /\ new.card = row.card /\ new.key = row.key /\ new.fee = row.fee
        /\ new.request = row.request /\ new.since = row.since /\ new.aged = row.aged
    BY <1>1 DEF Charge
  <2>2. charges'[p] = new
    BY <1>6
  <2> HIDE DEF new
  <2>3. RowGood(p, e, new, Gone(p))
    BY <1>2, <1>4, <1>6, <2>1 DEF RowGood, PresentOK, HeldOK
  <2> QED
    BY <1>2, <1>3, <1>4, <2>2, <2>3, PayFollows DEF Gone
<1> QED
  BY <1>5, <1>6 DEF RowEnds

\* An update of the status of one's row ends as it should.
LEMMA StatusEnds ==
  ASSUME TypeInv, NEW p \in PayCalls, NEW st \in ChargeStatuses \ {"absent"},
         UpdateCharge(p, [charges[p] EXCEPT !.status = st]),
         st = "failed" => \/ ~Moved(p) \/ AmbiguousSend \/ charges[p].status = "absent"
                          \/ ~FailuresReal /\ charges[p].request # "null"
  PROVE  RowEnds(p)
<1>1. p \in ChargeIds /\ charges \in [ChargeIds -> Charge]
  BY DEF TypeInv, TypeOK, ChargeIds
<1> QED
  BY <1>1 DEF UpdateCharge, RowEnds


\* A payment's call drives its own row.
LEMMA OwnRow ==
  ASSUME TypeInv, NEW p \in PayCalls
  PROVE  /\ t[p].row = p /\ ~SettleMode(p) /\ p \in Spenders /\ p \in ChargeIds
         /\ t \in [Spenders -> Call] /\ t[p] \in Call
         /\ charges \in [ChargeIds -> Charge] /\ charges[p] \in Charge
         /\ Len(mined) \in Nat /\ DOMAIN mined = 1 .. Len(mined)
<1>1. p \in Spenders /\ p \in ChargeIds /\ p \notin Settlers
  BY StoreAssumption, PipelineAssumption DEF Spenders, Settlers, ChargeIds
<1>2. mined \in Seq(Redemption)
  BY DEF TypeInv, TypeOK
<1> QED
  BY <1>1, <1>2, LenProperties DEF TypeInv, TypeOK, RowInv, RowOK, SettleMode

\* Before its reservation a call has no row, and nothing of it has moved.
LEMMA Unreserved ==
  ASSUME NEW p \in PayCalls, PayOK(p), t[p].pc \notin {"block", "send", "confirm", "exit"}
  PROVE  /\ charges[p].status = "absent" /\ ~Moved(p) /\ p \notin recon
         /\ \A r \in Redemptions : r.charge # p
<1>1. charges[p].status = "absent" /\ ~Moved(p) /\ p \notin recon
  BY DEF PayOK, RowGood, PresentOK, ListedOK
<1> QED
  BY <1>1 DEF Moved, IsMined, IsInflight, Redemptions

\* Before the reservation only the call changes.
LEMMA ReservingPay ==
  ASSUME TypeInv, NEW p \in PayCalls, PayOK(p), PlanFee(p) \/ RaiseFee(p) \/ RefuseUnreserved(p)
  PROVE  PayOK(p)'
<1>1. UNCHANGED <<charges, mined, inflight, cardStatus, recon>>
  BY DEF PlanFee, RaiseFee, RefuseUnreserved, UnchangedButCalls
<1>2. t[p].pc \in {"fee", "estimate"}
  BY DEF PlanFee, RaiseFee, RefuseUnreserved
<1>3. CASE RefuseUnreserved(p)
  <2>1. PICK out \in Outcomes : Leave(p, out)
    BY <1>3 DEF RefuseUnreserved, Outcomes
  <2> QED
    BY <1>1, <1>2, <2>1, PayLeaves DEF RowEnds
<1>4. CASE PlanFee(p) \/ RaiseFee(p)
  <2>1. t'[p].pc = "estimate"
    <3>1. t \in [Spenders -> Call] /\ p \in Spenders /\ t[p] \in Call
      BY OwnRow
    <3>2. CASE PlanFee(p)
      BY <3>1, <3>2 DEF PlanFee, Call
    <3>3. CASE RaiseFee(p)
      <4>0. PICK n : \E f \in Fees[t[p].row] : t' = [t EXCEPT ![p].fee = f, ![p].tries = n]
        BY <3>3 DEF RaiseFee
      <4>1. PICK f \in Fees[t[p].row] : t' = [t EXCEPT ![p].fee = f, ![p].tries = n]
        BY <4>0
      <4> QED
        BY <3>1, <3>3, <4>1 DEF RaiseFee, Call
    <3> QED
      BY <1>4, <3>2, <3>3
  <2>2. RowGood(p, t'[p], charges[p], cardStatus[t'[p].card] = "deleted")
    BY <1>2, <2>1, Unreserved DEF RowGood
  <2>3. p \notin recon
    BY <1>2, Unreserved
  <2> QED
    BY <1>1, <2>2, <2>3, PayFollows
<1> QED
  BY <1>3, <1>4

\* The reservation.
LEMMA ReservePay ==
  ASSUME TypeInv, NEW p \in PayCalls, PayOK(p), Reserve(p)
  PROVE  PayOK(p)'
<1> DEFINE call == [t[p] EXCEPT !.pc = "block"]
           row == [NoCharge EXCEPT !.status = "pending", !.card = t[p].card,
                                   !.key = t[p].key, !.amount = t[p].amount,
                                   !.fee = t[p].fee, !.win = t[p].win]
<1>1. /\ t' = [t EXCEPT ![p] = call] /\ charges' = [charges EXCEPT ![p] = row]
      /\ UNCHANGED <<mined, inflight, cardStatus, recon>>
      /\ t[p].pc = "estimate"
  BY OwnRow DEF Reserve, UnchangedButCalls
<1>2. t'[p] = call /\ charges'[p] = row
  BY <1>1, OwnRow
<1>3. call.pc = "block" /\ call.card = t[p].card /\ call.key = t[p].key /\ call.fee = t[p].fee
  BY OwnRow DEF Call
<1>4. /\ row.status = "pending" /\ row.card = t[p].card /\ row.key = t[p].key
      /\ row.fee = t[p].fee /\ row.request = "null" /\ row.aged = FALSE
  BY DEF NoCharge
<1> HIDE DEF call, row
<1>5. RowGood(p, call, row, Gone(p))
  BY <1>1, <1>3, <1>4, Unreserved DEF RowGood, PresentOK, HeldOK
<1>6. p \notin recon'
  BY <1>1, Unreserved
<1> QED
  BY <1>1, <1>2, <1>3, <1>5, <1>6, PayFollows DEF Gone

\* From the reservation to the broadcast.
LEMMA SendingPay ==
  ASSUME TypeInv, NEW p \in PayCalls, PayOK(p),
         LoseBlock(p) \/ RefuseReserved(p) \/ SendThrows(p)
  PROVE  PayOK(p)'
<1>1. UNCHANGED <<mined, inflight, cardStatus, recon>> /\ t[p].pc \notin {"idle", "exit"}
  BY DEF LoseBlock, RefuseReserved, SendThrows, UnchangedButCalls
<1>2. "failed" \in ChargeStatuses \ {"absent"}
  BY DEF ChargeStatuses
<1>3. CASE LoseBlock(p)
  <2>1. Leave(p, "error") /\ "error" \in Outcomes /\ RowEnds(p)
    BY <1>3 DEF LoseBlock, RowEnds, Outcomes
  <2> QED
    BY <1>1, <2>1, PayLeaves
<1>4. CASE RefuseReserved(p)
  <2>1. ~Moved(p)
    BY <1>4 DEF RefuseReserved, PayOK, RowGood
  <2>2. RowEnds(p)
    BY <1>2, <1>4, <2>1, OwnRow, StatusEnds DEF RefuseReserved
  <2>3. Recheck(p) \in Outcomes /\ Leave(p, Recheck(p))
    BY <1>4 DEF RefuseReserved, Recheck, ChainRefusal, Outcomes
  <2> QED
    BY <1>1, <2>2, <2>3, PayLeaves
<1>5. CASE SendThrows(p)
  <2>1. ~Moved(p) \/ AmbiguousSend
    BY <1>5 DEF SendThrows, PayOK, RowGood
  <2>2. RowEnds(p)
    BY <1>2, <1>5, <2>1, OwnRow, StatusEnds DEF SendThrows
  <2>3. "error" \in Outcomes /\ Leave(p, "error")
    BY <1>5 DEF SendThrows, Outcomes
  <2> QED
    BY <1>1, <2>2, <2>3, PayLeaves
<1> QED
  BY <1>3, <1>4, <1>5

LEMMA BroadcastPay ==
  ASSUME TypeInv, NEW p \in PayCalls, PayOK(p), Broadcast(p)
  PROVE  PayOK(p)'
<1> DEFINE n == Len(mined)
           call == [t[p] EXCEPT !.pc = "send", !.since = n]
<1>1. /\ t' = [t EXCEPT ![p] = call] /\ t[p].pc = "block"
      /\ UNCHANGED <<charges, mined, inflight, cardStatus, recon>>
  BY OwnRow DEF Broadcast, UnchangedButCalls
<1>2. call.pc = "send" /\ call.card = t[p].card /\ call.key = t[p].key
      /\ call.fee = t[p].fee /\ call.since = n
  <2> HIDE DEF n
  <2> QED
    BY OwnRow DEF Call
<1> HIDE DEF call
<1>3. t'[p] = call
  BY <1>1, OwnRow
<1>4. ~Moved(p) /\ p \notin recon /\ \A r \in Redemptions : r.charge # p
  BY <1>1 DEF PayOK, RowGood, ListedOK, Moved, IsMined, IsInflight, Redemptions
<1>5. SinceOK(p, n)
  BY <1>4, OwnRow DEF SinceOK, Moved, IsMined
<1>6. RowGood(p, call, charges[p], Gone(p))
  BY <1>1, <1>2, <1>4, <1>5 DEF PayOK, RowGood, PresentOK
<1> QED
  BY <1>1, <1>2, <1>3, <1>4, <1>6, PayFollows DEF Gone

LEMMA SendReturnsPay ==
  ASSUME TypeInv, NEW p \in PayCalls, PayOK(p), SendReturns(p)
  PROVE  PayOK(p)'
<1> DEFINE call == [t[p] EXCEPT !.pc = "confirm"]
           row == [charges[p] EXCEPT !.request = "sent", !.since = t[p].since]
<1>1. /\ t' = [t EXCEPT ![p] = call] /\ t[p].pc = "send"
      /\ UpdateCharge(p, row)
      /\ UNCHANGED <<mined, inflight, cardStatus, recon>>
  BY OwnRow DEF SendReturns, UnchangedButCalls
<1>2. /\ t'[p] = call /\ call.pc = "confirm" /\ call.card = t[p].card /\ call.key = t[p].key
      /\ call.fee = t[p].fee /\ call.since = t[p].since
  BY <1>1, OwnRow DEF Call
<1>3. /\ row.status = charges[p].status /\ row.card = charges[p].card
      /\ row.key = charges[p].key /\ row.fee = charges[p].fee /\ row.request = "sent"
      /\ row.since = t[p].since /\ row.aged = charges[p].aged
  BY OwnRow DEF Charge
<1> HIDE DEF call, row
<1>4. p \notin recon
  BY <1>1 DEF PayOK, ListedOK
<1>5. CASE charges[p].status = "absent"
  <2>1. charges'[p] = charges[p]
    BY <1>1, <1>5 DEF UpdateCharge
  <2>2. RowGood(p, call, charges[p], Gone(p))
    BY <1>1, <1>2, <1>5 DEF PayOK, RowGood, HeldOK
  <2> QED
    BY <1>1, <1>2, <1>4, <2>1, <2>2, PayFollows DEF Gone
<1>6. CASE charges[p].status # "absent"
  <2>1. charges'[p] = row
    BY <1>1, <1>6, OwnRow DEF UpdateCharge
  <2>2. RowGood(p, call, row, Gone(p))
    BY <1>1, <1>2, <1>3, <1>6 DEF PayOK, RowGood, PresentOK, HeldOK
  <2> QED
    BY <1>1, <1>2, <1>4, <2>1, <2>2, PayFollows DEF Gone
<1> QED
  BY <1>5, <1>6

\* The end of a payment.
LEMMA ConfirmingPay ==
  ASSUME TypeInv, NEW p \in PayCalls, PayOK(p), Confirm(p) \/ Revert(p) \/ GiveUpConfirming(p)
  PROVE  PayOK(p)'
<1>1. UNCHANGED <<mined, inflight, cardStatus, recon>> /\ t[p].pc = "confirm"
  BY DEF Confirm, Revert, GiveUpConfirming, UnchangedButCalls, chainVars
<1>2. {"failed", "confirmed"} \subseteq ChargeStatuses \ {"absent"}
  BY DEF ChargeStatuses
<1>3. CASE Confirm(p)
  <2>1. RowEnds(p)
    BY <1>2, <1>3, OwnRow, StatusEnds DEF Confirm
  <2>2. Leave(p, "receipt") /\ "receipt" \in Outcomes
    BY <1>3 DEF Confirm, Outcomes
  <2> QED
    BY <1>1, <2>1, <2>2, PayLeaves
<1>4. CASE Revert(p)
  <2>1. UpdateCharge(p, [charges[p] EXCEPT !.status = "failed"])
    BY <1>4, OwnRow DEF Revert
  <2>2. Moved(p) => ~FailuresReal
    <3> SUFFICES ASSUME Moved(p), FailuresReal PROVE FALSE
      OBVIOUS
    <3>1. ReadsFailed(p, t[p].fee, t[p].since) /\ ~IsInflight(p)
      BY <1>4, OwnRow DEF Revert, ReadsFailed, StatusFailed, FailuresReal
    <3>2. PICK k \in DOMAIN mined : mined[k].charge = p
      BY <3>1 DEF Moved, IsMined
    <3>3. k >= t[p].since /\ mined[k].fee = t[p].fee
      BY <1>1, <3>2 DEF PayOK, RowGood, SinceOK, Redemptions
    <3>4. ~LogErrors /\ CollectorMatches
      BY <3>1, <3>2 DEF ReadsFailed, StatusFailed, FailuresReal, IsMined
    <3> QED
      BY <3>1, <3>2, <3>3, <3>4 DEF ReadsFailed, LogFound, LogMatches
  <2>3. charges[p].status # "absent" => charges[p].request # "null"
    BY <1>1 DEF PayOK, RowGood, PresentOK
  <2>4. RowEnds(p)
    BY <1>2, <2>1, <2>2, <2>3, StatusEnds
  <2>5. Leave(p, "error") /\ "error" \in Outcomes
    BY <1>4 DEF Revert, Outcomes
  <2> QED
    BY <1>1, <2>4, <2>5, PayLeaves
<1>5. CASE GiveUpConfirming(p)
  <2>1. PICK out \in Outcomes : Leave(p, out)
    BY <1>5 DEF GiveUpConfirming, Outcomes
  <2>2. RowEnds(p)
    BY <1>5 DEF GiveUpConfirming, RowEnds
  <2> QED
    BY <1>1, <2>1, <2>2, PayLeaves
<1> QED
  BY <1>3, <1>4, <1>5

LEMMA ResumePay ==
  ASSUME TypeInv, NEW p \in PayCalls, PayOK(p), ResumeSpend(p)
  PROVE  PayOK(p)'
BY ReservingPay, ReservePay, SendingPay, BroadcastPay, SendReturnsPay, ConfirmingPay
   DEF ResumeSpend

\* A payment whose row is gone: nothing of it moved, or its card is gone too.
LEMMA PayForgets ==
  ASSUME NEW p \in PayCalls, PayOK(p), UNCHANGED <<mined, inflight>>,
         t'[p] = t[p], charges'[p].status = "absent", p \in recon' => p \in recon,
         Moved(p) \/ t[p].pc \in {"block", "send"}
           => AmbiguousSend \/ cardStatus'[t[p].card] = "deleted"
  PROVE  PayOK(p)'
<1>1. \A r \in Redemptions : r.charge = p => Moved(p)
  BY DEF Redemptions, Moved, IsMined, IsInflight
<1>2. RowGood(p, t[p], charges'[p], cardStatus'[t[p].card] = "deleted")
  BY <1>1 DEF PayOK, RowGood, HeldOK
<1>3. p \in recon' => ListedOK(p, t[p], charges'[p])
  BY DEF PayOK, ListedOK
<1> QED
  BY <1>2, <1>3, PayFollows

\* The mutex hands over to a payment: it has no row yet, and may clear the
\* dead row of an earlier one.
LEMMA EnterPay ==
  ASSUME TypeInv, NEW p \in PayCalls, PayOK(p), EnterSpend(p)
  PROVE  PayOK(p)'
<1>1. /\ t[p].pc = "queued" /\ UNCHANGED <<mined, inflight, cardStatus, recon>>
      /\ {"receipt", "refused"} \subseteq Outcomes
  BY OwnRow DEF EnterSpend, ReplayKey, ReplaySettle, StartSpend, AtHead, UnchangedButCalls,
                Outcomes
<1>2. charges[p].status = "absent"
  BY <1>1, Unreserved
<1>3. CASE ReplayKey(p)
  BY <1>1, <1>3, PayLeaves DEF ReplayKey, RowEnds
<1>4. CASE StartSpend(p)
  <2>1. charges'[p] = charges[p]
    BY <1>2, <1>4, OwnRow DEF StartSpend, SameKey, ChargeByIdempotency
  <2>2. CASE \E out \in Outcomes : Leave(p, out)
    BY <1>1, <2>1, <2>2, PayLeaves DEF RowEnds
  <2>3. CASE t' = [t EXCEPT ![p].pc = "fee", ![p].win = window]
    <3>1. t'[p].pc = "fee"
      BY <2>3, OwnRow DEF Call
    <3>2. RowGood(p, t'[p], charges'[p], cardStatus'[t'[p].card] = "deleted")
      BY <1>1, <1>2, <2>1, <3>1, Unreserved DEF RowGood
    <3> QED
      BY <1>1, <3>2, Unreserved, PayFollows
  <2>4. \/ t' = [t EXCEPT ![p].pc = "fee", ![p].win = window]
        \/ \E out \in Outcomes : Leave(p, out)
    BY <1>1, <1>4 DEF StartSpend, ChainRefusal, Outcomes
  <2> QED
    BY <2>2, <2>3, <2>4
<1> QED
  BY <1>3, <1>4, OwnRow DEF EnterSpend, ReplaySettle

\* The call of somebody else starts: it clears this row only when it is dead.
LEMMA OtherEnters ==
  ASSUME TypeInv, NEW p \in PayCalls, PayOK(p), NEW q \in Spenders, q # p, EnterSpend(q)
  PROVE  PayOK(p)'
<1>1. /\ t'[p] = t[p] /\ UNCHANGED <<mined, inflight, cardStatus, recon>>
  BY OwnRow DEF EnterSpend, ReplayKey, ReplaySettle, StartSpend, UnchangedButCalls, Leave
<1>2. CASE charges'[p] = charges[p]
  BY <1>1, <1>2, PayStays DEF Gone
<1>3. CASE charges'[p] # charges[p]
  <2>1. p \in SameKey(q) /\ DeadRow(p) /\ charges'[p] = NoCharge
    BY <1>3, OwnRow DEF EnterSpend, ReplayKey, ReplaySettle, StartSpend
  <2>2. charges'[p].status = "absent"
    BY <2>1 DEF NoCharge
  <2>3. Moved(p) \/ t[p].pc \in {"block", "send"} => AmbiguousSend \/ Gone(p)
    BY <2>1 DEF PayOK, RowGood, HeldOK, DeadRow
  <2> QED
    BY <1>1, <2>2, <2>3, PayForgets DEF Gone
<1> QED
  BY <1>2, <1>3

\* A row that somebody else's update writes is another one.
LEMMA OtherRow ==
  ASSUME TypeInv, NEW p \in PayCalls, NEW i, NEW row, i # p, UpdateCharge(i, row)
  PROVE  charges'[p] = charges[p]
BY OwnRow DEF UpdateCharge

LEMMA OtherDrives ==
  ASSUME TypeInv, NEW p \in PayCalls, NEW q \in Spenders, q # p, t[q].pc # "idle"
  PROVE  t[q].row # p /\ t \in [Spenders -> Call]
BY StoreAssumption DEF TypeInv, TypeOK, RowInv, RowOK, Spenders, Settlers

LEMMA OtherResumes ==
  ASSUME TypeInv, NEW p \in PayCalls, PayOK(p), NEW q \in Spenders, q # p, ResumeSpend(q)
  PROVE  PayOK(p)'
<1>1. t[q].pc # "idle" /\ UNCHANGED <<mined, inflight, cardStatus, recon>>
  BY DEF ResumeSpend, PlanFee, RaiseFee, RefuseUnreserved, Reserve, LoseBlock, RefuseReserved,
         Broadcast, SendReturns, SendThrows, Confirm, Revert, GiveUpConfirming,
         UnchangedButCalls, chainVars
<1>2. t[q].row # p /\ t'[p] = t[p]
  BY <1>1, OtherDrives, OwnRow
     DEF ResumeSpend, PlanFee, RaiseFee, RefuseUnreserved, Reserve, LoseBlock, RefuseReserved,
         Broadcast, SendReturns, SendThrows, Confirm, Revert, GiveUpConfirming, Leave
<1>3. charges'[p] = charges[p]
  <2>1. CASE \/ PlanFee(q) \/ RaiseFee(q) \/ RefuseUnreserved(q) \/ LoseBlock(q)
             \/ GiveUpConfirming(q)
    BY <2>1 DEF PlanFee, RaiseFee, RefuseUnreserved, LoseBlock, GiveUpConfirming
  <2>2. CASE Reserve(q)
    <3>1. CASE SettleMode(q)
      BY <1>2, <2>2, <3>1, OtherRow DEF Reserve
    <3>2. CASE ~SettleMode(q)
      BY <2>2, <3>2, OwnRow DEF Reserve
    <3> QED
      BY <3>1, <3>2
  <2>3. CASE RefuseReserved(q)
    BY <2>3, OtherRow DEF RefuseReserved
  <2>4. CASE Broadcast(q)
    BY <1>2, <2>4, OtherRow DEF Broadcast
  <2>5. CASE SendReturns(q)
    BY <1>2, <2>5, OtherRow DEF SendReturns
  <2>6. CASE SendThrows(q)
    BY <2>6, OtherRow DEF SendThrows
  <2>7. CASE Confirm(q)
    BY <1>2, <2>7, OtherRow DEF Confirm
  <2>8. CASE Revert(q)
    BY <1>2, <2>8, OtherRow DEF Revert
  <2> QED
    BY <2>1, <2>2, <2>3, <2>4, <2>5, <2>6, <2>7, <2>8 DEF ResumeSpend
<1> QED
  BY <1>1, <1>2, <1>3, PayStays DEF Gone

\* An agent calls, or the webhook approves.
LEMMA CallingPay ==
  ASSUME TypeInv, NEW p \in PayCalls, PayOK(p),
         \/ \E q \in PayCalls, c \in Cards, k \in Keys \cup {NoKey}, a \in Amounts :
               AgentSpend(q, c, k, a)
         \/ \E a \in Auths, n \in Amounts : ApproveAuthorization(a, n)
  PROVE  PayOK(p)'
<1>1. UNCHANGED <<mined, inflight, cardStatus, recon>>
  BY DEF AgentSpend, ApproveAuthorization, UnchangedButCalls
<1>2. ASSUME NEW q \in PayCalls, NEW c \in Cards, NEW k \in Keys \cup {NoKey},
             NEW a \in Amounts, AgentSpend(q, c, k, a)
      PROVE  PayOK(p)'
  <2> DEFINE asked == [t[q] EXCEPT !.card = c, !.key = k, !.amount = a]
             call == [asked EXCEPT !.pc = "queued", !.lock = SpendKey(asked.card)]
  <2>1. /\ t' = [t EXCEPT ![q] = call] /\ UNCHANGED charges /\ t[q].pc = "idle"
    BY <1>2 DEF AgentSpend, Queue
  <2>2. call.pc = "queued"
    <3>1. asked \in Call
      <4>1. t[q] \in Call /\ a \in Nat
        BY OwnRow, PipelineAssumption
      <4> QED
        BY <4>1 DEF Call
    <3> HIDE DEF asked
    <3> QED
      BY <3>1 DEF Call
  <2> HIDE DEF call
  <2>3. CASE q = p
    <3>1. t'[p] = call
      BY <2>1, <2>3, OwnRow
    <3>2. RowGood(p, call, charges[p], cardStatus[call.card] = "deleted")
      BY <2>1, <2>2, <2>3, Unreserved DEF RowGood
    <3>3. p \notin recon
      BY <2>1, <2>3, Unreserved
    <3> QED
      BY <1>1, <2>1, <3>1, <3>2, <3>3, PayFollows
  <2>4. CASE q # p
    <3>1. t'[p] = t[p]
      BY <2>1, <2>4, OwnRow
    <3> QED
      BY <1>1, <2>1, <3>1, PayStays DEF Gone
  <2> QED
    BY <2>3, <2>4
<1>3. ASSUME NEW a \in Auths, NEW n \in Amounts, ApproveAuthorization(a, n)
      PROVE  PayOK(p)'
  <2>1. a # p
    BY StoreAssumption
  <2>2. t'[p] = t[p] /\ charges'[p] = charges[p]
    BY <1>3, <2>1, OwnRow DEF ApproveAuthorization
  <2> QED
    BY <1>1, <2>2, PayStays DEF Gone
<1> QED
  BY <1>2, <1>3

\* The settlements: they drive other rows, and freeze but never restore a card.
LEMMA SettlingPay ==
  ASSUME TypeInv, NEW p \in PayCalls, PayOK(p),
         \/ \E s \in Settlers : ResumeSettle(s) \/ CatchSettle(s)
         \/ StartSettleSweep \/ SweepNextRow
  PROVE  PayOK(p)'
<1>1. p \notin Settlers
  BY StoreAssumption, PipelineAssumption DEF Settlers, ChargeIds
<1>2. /\ UNCHANGED <<mined, inflight, recon>>
      /\ t'[p] = t[p]
  BY <1>1, OwnRow
     DEF ResumeSettle, ReadSettleRow, WakeSettler, Queue, CatchSettle, SettleReturns, ParkRow,
         FreezeParked, RetrySettle, StartSettleSweep, SweepNextRow, Settlers,
         UnchangedButCalls, UnchangedButParking, chainVars
<1>3. \A d \in Cards : cardStatus[d] = "deleted" => cardStatus'[d] = "deleted"
  <2>1. ASSUME NEW d \in Cards, cardStatus[d] = "deleted", NEW c, FreezeIfActive(c)
        PROVE  cardStatus'[d] = "deleted"
    BY <2>1 DEF FreezeIfActive, TypeInv, TypeOK
  <2> QED
    BY <2>1
       DEF ResumeSettle, ReadSettleRow, WakeSettler, CatchSettle, SettleReturns, ParkRow,
           FreezeParked, RetrySettle, StartSettleSweep, SweepNextRow, UnchangedButCalls,
           UnchangedButParking, storeVars
<1>4. charges'[p] = charges[p]
  <2>1. ASSUME NEW s \in Settlers, ParkRow(s) PROVE charges'[p] = charges[p]
    <3>1. s \in Spenders /\ s # p /\ t[s].pc # "idle"
      BY <1>1, <2>1 DEF ParkRow, Failed, Spenders
    <3> QED
      BY <2>1, <3>1, OtherDrives, OtherRow DEF ParkRow
  <2> QED
    BY <2>1 DEF ResumeSettle, ReadSettleRow, WakeSettler, CatchSettle, SettleReturns,
           FreezeParked, RetrySettle, StartSettleSweep, SweepNextRow, UnchangedButCalls,
           storeVars
<1>5. CASE t[p].pc = "idle"
  BY <1>2, <1>4, <1>5, Unreserved, PayForgets
<1>6. CASE t[p].pc # "idle"
  <2>1. t[p].card \in Cards
    BY <1>6, OwnRow DEF TypeInv, RowInv, RowOK
  <2> QED
    BY <1>2, <1>3, <1>4, <2>1, PayStays DEF Gone
<1> QED
  BY <1>5, <1>6

-----------------------------------------------------------------------------
(* The reconcile sweep, the owner, the chain, the clock and the process. *)

\* A transfer of this payment is among the logs that the sweep reads, and only
\* this payment can have it.
LEMMA TracedIsConfirmed ==
  ASSUME TypeInv, DrawnInv, NEW p \in PayCalls, PayOK(p), p \in Resolvable, Traced, Moved(p),
         ~AmbiguousSend, ~Gone(p), NEW C \in LogClaims
  PROVE  Resolved(p, C) = "confirmed"
<1>1. charges[p].status # "absent" /\ p \in recon /\ p \in ChargeIds
  BY OwnRow DEF Resolvable
<1>2. SinceOK(p, charges[p].since) /\ ~IsInflight(p)
  BY <1>1 DEF PayOK, RowGood, PresentOK, ListedOK
<1>3. PICK k \in DOMAIN mined : mined[k].charge = p
  BY <1>2 DEF Moved, IsMined
<1>4. k \in ScannedLogs
  BY <1>2, <1>3 DEF ScannedLogs, SinceOK
<1>5. mined[k].fee = charges[p].fee /\ mined[k].fee \in Fees[p]
  <2>1. mined[k] \in Redemptions
    BY DEF Redemptions
  <2> QED
    BY <1>3, <2>1 DEF PayOK, RowGood, DrawnInv
<1>6. SUFFICES ASSUME p \notin C PROVE FALSE
  BY DEF Resolved
<1>7. PICK f \in [C -> ScannedLogs] :
          /\ \A i \in C : LogMatches(f[i], charges[i].fee)
          /\ \A i \in Resolvable \ C, n \in ScannedLogs \ Range(f) :
                ~LogMatches(n, charges[i].fee)
  BY DEF LogClaims
<1>8. k \in Range(f)
  BY <1>4, <1>5, <1>6, <1>7 DEF LogMatches, Traced
<1>9. PICK i \in C : f[i] = k
  BY <1>8 DEF Range
<1>10. i \in Resolvable /\ i # p /\ charges[i].fee = mined[k].fee
  BY <1>6, <1>7, <1>9 DEF LogMatches, LogClaims
<1>11. i \in ChargeIds /\ charges[i].fee \in Fees[i]
  BY <1>10 DEF Resolvable, DrawnInv, CarvesPlain, DrawnRow, Priced, TypeInv, TypeOK, ChargeIds
<1> QED
  BY <1>1, <1>5, <1>10, <1>11 DEF Traced, FeesDistinct

LEMMA ReconcilingPay ==
  ASSUME TypeInv, DrawnInv, NEW p \in PayCalls, PayOK(p),
         StartReconcile \/ ResolveStale \/ PostponeReconcile
  PROVE  PayOK(p)'
<1>1. UNCHANGED <<mined, inflight, cardStatus, t>>
  BY DEF StartReconcile, ResolveStale, PostponeReconcile, chainVars, storeVars
<1>2. CASE StartReconcile
  <2>1. charges'[p] = charges[p]
    BY <1>2, OwnRow, StoreAssumption DEF StartReconcile, X402Orphans
  <2>2. p \in recon' => ListedOK(p, t[p], charges[p])
    BY <1>2 DEF StartReconcile, StaleCharges, PayOK, RowGood, PresentOK, ListedOK
  <2>3. RowGood(p, t[p], charges[p], Gone(p))
    BY DEF PayOK
  <2> QED
    BY <1>1, <2>1, <2>2, <2>3, PayFollows DEF Gone
<1>3. CASE PostponeReconcile
  BY <1>1, <1>3, PayStays DEF PostponeReconcile, storeVars, Gone
<1>4. CASE ResolveStale
  <2>1. PICK C \in LogClaims :
          charges' = [i \in ChargeIds |->
             IF i \in Resolvable
             THEN [charges[i] EXCEPT !.status = Resolved(i, C)]
             ELSE charges[i]]
    BY <1>4 DEF ResolveStale
  <2>2. recon' = {}
    BY <1>4 DEF ResolveStale
  <2>3. CASE p \notin Resolvable
    <3>1. charges'[p] = charges[p]
      BY <2>1, <2>3, OwnRow
    <3> QED
      BY <1>1, <2>2, <3>1, PayStays DEF Gone
  <2>4. CASE p \in Resolvable
    <3> DEFINE st == Resolved(p, C)
               row == [charges[p] EXCEPT !.status = st]
    <3>1. charges'[p] = row
      BY <2>1, <2>4, OwnRow
    <3>2. st \in {"confirmed", "settlement_unconfirmed", "failed"}
          /\ (st = "failed" => ~Moved(p) \/ ~Traced \/ AmbiguousSend \/ Gone(p))
      BY <2>4, TracedIsConfirmed DEF Resolved
    <3> HIDE DEF st
    <3>3. /\ row.status = st /\ row.card = charges[p].card /\ row.key = charges[p].key
          /\ row.fee = charges[p].fee /\ row.request = charges[p].request
          /\ row.since = charges[p].since /\ row.aged = charges[p].aged
      BY OwnRow DEF Charge
    <3> HIDE DEF row
    <3>4. charges[p].status # "absent" /\ p \in recon
      BY <2>4 DEF Resolvable
    <3>5. t[p].pc = "exit" /\ charges[p].request # "null" /\ charges[p].aged
      BY <3>4 DEF PayOK, ListedOK
    <3>6. RowGood(p, t[p], row, Gone(p))
      BY <3>2, <3>3, <3>4, <3>5 DEF PayOK, RowGood, PresentOK, HeldOK
    <3> QED
      BY <1>1, <2>2, <3>1, <3>6, PayFollows DEF Gone
  <2> QED
    BY <2>3, <2>4
<1> QED
  BY <1>2, <1>3, <1>4

LEMMA OwnerPay ==
  ASSUME TypeInv, NEW p \in PayCalls, PayOK(p), NEW c \in Cards,
         \/ Freeze(c) \/ Unfreeze(c) \/ Revoke(c) \/ Expire(c) \/ DeleteDeadCard(c)
  PROVE  PayOK(p)'
<1>1. UNCHANGED <<mined, inflight, t, recon>>
  BY DEF Freeze, Unfreeze, Revoke, Expire, DeleteDeadCard, Control, chainVars
<1>2. \A d \in Cards : cardStatus[d] = "deleted" => cardStatus'[d] = "deleted"
  BY DEF Freeze, Unfreeze, Revoke, Expire, DeleteDeadCard, TypeInv, TypeOK
<1>3. t[p].pc # "idle" => t[p].card \in Cards
  BY OwnRow DEF TypeInv, RowInv, RowOK
<1>4. Gone(p) /\ t[p].pc # "idle" => cardStatus'[t[p].card] = "deleted"
  BY <1>2, <1>3 DEF Gone
<1>5. CASE t[p].pc = "idle"
  <2>1. charges[p].status = "absent" /\ ~Moved(p) /\ p \notin recon
        /\ \A r \in Redemptions : r.charge # p
    BY <1>5, Unreserved
  <2>2. charges'[p].status = "absent"
    BY <2>1, OwnRow
       DEF Freeze, Unfreeze, Revoke, Expire, DeleteDeadCard, NoCharge
  <2> QED
    BY <1>1, <1>5, <2>1, <2>2, PayForgets
<1>6. CASE t[p].pc # "idle" /\ charges'[p] = charges[p]
  BY <1>1, <1>4, <1>6, PayStays
<1>7. CASE t[p].pc # "idle" /\ charges'[p] # charges[p]
  <2>1. DeleteDeadCard(c)
    BY <1>7 DEF Freeze, Unfreeze, Revoke, Expire
  <2>2. charges[p].card \in SubtreeOf(c) /\ charges'[p] = NoCharge
    BY <1>7, <2>1, OwnRow DEF DeleteDeadCard
  <2>3. Moved(p) \/ t[p].pc \in {"block", "send"}
          => AmbiguousSend \/ cardStatus'[t[p].card] = "deleted"
    <3>1. CASE charges[p].status = "absent"
      BY <1>4, <1>7, <3>1 DEF PayOK, RowGood, HeldOK
    <3>2. CASE charges[p].status # "absent"
      <4>1. t[p].card \in SubtreeOf(c)
        BY <2>2, <3>2 DEF PayOK, RowGood, PresentOK
      <4> QED
        BY <2>1, <4>1 DEF DeleteDeadCard, SubtreeOf
    <3> QED
      BY <3>1, <3>2
  <2> QED
    BY <1>1, <2>2, <2>3, PayForgets DEF NoCharge
<1> QED
  BY <1>5, <1>6, <1>7

\* The relayer queues a redemption.
LEMMA AcceptingPay ==
  ASSUME TypeInv, NEW p \in PayCalls, PayOK(p), NEW q \in Spenders, RelayerAccepts(q)
  PROVE  PayOK(p)'
<1> DEFINE r == [charge |-> t[q].row, fee |-> t[q].fee]
           call == [t[q] EXCEPT !.accepted = TRUE]
<1>1. /\ t' = [t EXCEPT ![q] = call] /\ inflight' = inflight \cup {r}
      /\ UNCHANGED <<charges, cardStatus, mined, recon>>
      /\ t[q].pc = "send"
  BY DEF RelayerAccepts, storeVars
<1>2. \A x : x \in Redemptions' <=> x \in Redemptions \/ x = r
  BY <1>1 DEF Redemptions
<1>3. r.charge = t[q].row /\ r.fee = t[q].fee
  OBVIOUS
<1> HIDE DEF r
<1>4. CASE q = p
  <2>1. /\ t'[p] = call /\ r.charge = p
    BY <1>1, <1>3, <1>4, OwnRow
  <2>2. /\ call.pc = "send" /\ call.accepted /\ call.card = t[p].card
        /\ call.key = t[p].key /\ call.fee = t[p].fee /\ call.since = t[p].since
    BY <1>1, <1>4, OwnRow DEF Call
  <2> HIDE DEF call
  <2>3. RowGood(p, t[p], charges[p], Gone(p)) /\ p \notin recon
    BY <1>1, <1>4 DEF PayOK, ListedOK
  <2>4. Gone(p)' = Gone(p)
    BY <1>1, <2>1, <2>2 DEF Gone
  <2>5. \A x \in Redemptions' : x.charge = p => AmbiguousSend \/ Gone(p) \/ charges[p].fee = x.fee
    BY <1>1, <1>2, <1>3, <1>4, <2>3 DEF RowGood, PresentOK, HeldOK
  <2>6. charges[p].status # "absent" => ~charges[p].aged
    BY <1>1, <1>4, <2>3 DEF RowGood, PresentOK
  <2>7. \A x \in Redemptions' : x.charge = p => x.fee = call.fee
    BY <1>1, <1>2, <1>3, <1>4, <2>2, <2>3 DEF RowGood
  <2> QED
    BY <1>1, <1>4, <2>1, <2>2, <2>3, <2>4, <2>5, <2>6, <2>7
       DEF PayOK, RowGood, PresentOK, HeldOK, SinceOK
<1>5. CASE q # p
  <2>1. t'[p] = t[p] /\ r.charge # p
    BY <1>1, <1>3, <1>5, OtherDrives
  <2>2. /\ IsInflight(p)' <=> IsInflight(p)
        /\ Moved(p)' <=> Moved(p)
    BY <1>1, <2>1 DEF IsInflight, Moved, IsMined
  <2>3. \A x \in Redemptions' : x.charge = p => x \in Redemptions
    BY <1>2, <2>1
  <2> QED
    BY <1>1, <2>1, <2>2, <2>3 DEF PayOK, RowGood, PresentOK, HeldOK, SinceOK, ListedOK, Gone
<1> QED
  BY <1>4, <1>5

\* A block more.
LEMMA MinedAppends ==
  ASSUME TypeInv, NEW r \in inflight, mined' = Append(mined, r)
  PROVE  /\ Len(mined') = Len(mined) + 1 /\ DOMAIN mined' = 1 .. Len(mined')
         /\ \A k \in DOMAIN mined : k \in DOMAIN mined' /\ mined'[k] = mined[k]
         /\ \A k \in DOMAIN mined' : k \in DOMAIN mined \/ k = Len(mined) + 1
         /\ mined'[Len(mined) + 1] = r
<1>1. mined \in Seq(Redemption) /\ r \in Redemption
  BY DEF TypeInv, TypeOK
<1> QED
  BY <1>1, AppendProperties

LEMMA ChainPay ==
  ASSUME TypeInv, NEW p \in PayCalls, PayOK(p), NEW r \in inflight, Mine(r) \/ Drop(r)
  PROVE  PayOK(p)'
<1>1. /\ UNCHANGED <<charges, cardStatus, t, recon>> /\ inflight' = inflight \ {r}
  BY DEF Mine, Drop, storeVars
<1>2. IsInflight(p)' => IsInflight(p)
  BY <1>1 DEF IsInflight
<1>3. CASE Drop(r)
  <2>1. UNCHANGED mined
    BY <1>3 DEF Drop
  <2>2. Moved(p)' => Moved(p)
    BY <1>2, <2>1 DEF Moved, IsMined
  <2>3. \A x \in Redemptions' : x \in Redemptions
    BY <1>1, <2>1 DEF Redemptions
  <2> QED
    BY <1>1, <1>2, <2>1, <2>2, <2>3
       DEF PayOK, RowGood, PresentOK, HeldOK, SinceOK, ListedOK, Gone
<1>4. CASE Mine(r)
  <2>1. mined' = Append(mined, r)
    BY <1>4 DEF Mine
  <2>2. Moved(p)' => Moved(p)
    BY <1>2, <2>1, MinedAppends DEF Moved, IsMined, IsInflight
  <2>3. \A x \in Redemptions' : x \in Redemptions
    BY <1>1, <2>1, MinedAppends DEF Redemptions
  <2>4. ASSUME NEW n \in Nat, SinceOK(p, n) PROVE SinceOK(p, n)'
    BY <2>1, <2>4, MinedAppends, OwnRow DEF SinceOK
  <2>5. t[p].since \in Nat /\ charges[p].since \in Nat
    BY OwnRow DEF Call, Charge
  <2> QED
    BY <1>1, <1>2, <2>2, <2>3, <2>4, <2>5
       DEF PayOK, RowGood, PresentOK, HeldOK, ListedOK, Gone
<1> QED
  BY <1>3, <1>4

LEMMA ClockPay ==
  ASSUME TypeInv, NEW p \in PayCalls, PayOK(p), NextWindow \/ \E i \in ChargeIds : Age(i)
  PROVE  PayOK(p)'
<1>1. UNCHANGED <<mined, inflight, cardStatus, recon, t>>
  BY DEF NextWindow, Age, chainVars
<1>2. CASE charges'[p] = charges[p]
  BY <1>1, <1>2, PayStays DEF Gone
<1>3. CASE charges'[p] # charges[p]
  <2>1. Age(p)
    BY <1>3, OwnRow DEF NextWindow, Age
  <2> DEFINE row == [charges[p] EXCEPT !.aged = TRUE]
  <2>2. charges'[p] = row /\ charges[p].status = "pending"
        /\ t[p].pc \notin InSection /\ ~IsInflight(p)
    BY <2>1, OwnRow DEF Age
  <2>3. /\ row.status = charges[p].status /\ row.card = charges[p].card
        /\ row.key = charges[p].key /\ row.fee = charges[p].fee
        /\ row.request = charges[p].request /\ row.since = charges[p].since /\ row.aged
    BY OwnRow DEF Charge
  <2> HIDE DEF row
  <2>4. t[p].pc = "exit"
    BY <2>2 DEF InSection, PayOK, RowGood, PresentOK
  <2>5. RowGood(p, t[p], row, Gone(p))
    BY <2>2, <2>3, <2>4 DEF PayOK, RowGood, PresentOK, HeldOK
  <2>6. p \in recon => ListedOK(p, t[p], row)
    BY <2>3 DEF PayOK, ListedOK
  <2> QED
    BY <1>1, <2>2, <2>5, <2>6, PayFollows DEF Gone
<1> QED
  BY <1>2, <1>3

LEMMA CrashPay ==
  ASSUME TypeInv, NEW p \in PayCalls, PayOK(p), Crash
  PROVE  PayOK(p)'
<1>1. UNCHANGED <<mined, inflight, cardStatus, charges>> /\ recon' = {}
  BY DEF Crash, storeVars, chainVars
<1>2. CASE t[p].pc = "idle"
  <2>1. t'[p] = t[p]
    BY <1>2, OwnRow DEF Crash
  <2> QED
    BY <1>1, <2>1, PayStays DEF Gone
<1>3. CASE t[p].pc # "idle"
  <2> DEFINE out == t[p].out
             e == Ended(p, out)
  <2>1. t'[p] = e
    BY <1>3, OwnRow DEF Crash
  <2>2. e.pc = "exit" /\ e.card = t[p].card /\ e.key = t[p].key
    <3>1. out \in Outcomes
      BY OwnRow DEF Call
    <3> HIDE DEF out
    <3>2. Told(p, out) \in Outcomes
      BY <3>1 DEF Told, Outcomes
    <3> QED
      BY <3>2, OwnRow DEF Ended, NoCall, Call
  <2> HIDE DEF e
  <2>3. RowGood(p, e, charges[p], Gone(p))
    BY <2>2 DEF PayOK, RowGood, PresentOK
  <2> QED
    BY <1>1, <2>1, <2>2, <2>3, PayFollows DEF Gone
<1> QED
  BY <1>2, <1>3

\* Every step keeps what the rows say of the payments.
LEMMA NextPay ==
  ASSUME TypeInv, DrawnInv, PayInv, [Next]_vars
  PROVE  PayInv'
<1> SUFFICES ASSUME NEW p \in PayCalls PROVE PayOK(p)'
  BY DEF PayInv
<1>1. PayOK(p)
  BY DEF PayInv
<1>2. CASE Microtask
  BY <1>1, <1>2, EnterPay, OtherEnters, SettlingPay DEF Microtask
<1>3. CASE Task
  BY <1>1, <1>3, CallingPay, ResumePay, OtherResumes, SettlingPay, ReconcilingPay, OwnerPay
     DEF Task, Owner
<1>4. CASE World
  BY <1>1, <1>4, AcceptingPay, ChainPay, ClockPay DEF World, Chain
<1>5. CASE Crash
  BY <1>1, <1>5, CrashPay
<1>6. CASE UNCHANGED vars
  BY <1>1, <1>6, PayStays DEF vars, Gone
<1> QED
  BY <1>2, <1>3, <1>4, <1>5, <1>6 DEF Next

LEMMA InitPay == Init => PayInv
<1> SUFFICES ASSUME Init, NEW p \in PayCalls PROVE PayOK(p)
  BY DEF PayInv
<1>1. /\ charges[p].status = "absent" /\ inflight = {} /\ mined = <<>> /\ recon = {}
  BY DEF Init, ChargeIds, NoCharge
<1>2. t[p].pc = "idle"
  BY DEF Init, Spenders, NoCall
<1>3. ~Moved(p) /\ Redemptions = {}
  BY <1>1 DEF Moved, IsMined, IsInflight, Redemptions
<1> QED
  BY <1>1, <1>2, <1>3 DEF PayOK, RowGood

-----------------------------------------------------------------------------
(* One payment per key. *)

\* A payment that moved, or is past its reservation and may yet move.
Live(p) == Moved(p) \/ t[p].pc \in {"block", "send"}

SameRequest(p, q) == t[p].card = t[q].card /\ t[p].key = t[q].key /\ t[p].key \in Keys

OneLive == \A p, q \in PayCalls : Live(p) /\ Live(q) /\ SameRequest(p, q) => p = q

LEMMA ChainStep ==
  ASSUME [Next]_vars
  PROVE  \/ UNCHANGED <<mined, inflight>>
         \/ \E q \in Spenders : RelayerAccepts(q)
         \/ \E r \in inflight : Mine(r) \/ Drop(r)
  BY DEF Next, Microtask, Task, World, vars, EnterSpend, ReplayKey,
         ReplaySettle, StartSpend, CatchSettle, SettleReturns, ParkRow,
         FreezeParked, RetrySettle, AgentSpend, ResumeSpend, PlanFee, RaiseFee,
         RefuseUnreserved, Reserve, LoseBlock, RefuseReserved, Broadcast,
         SendReturns, SendThrows, Confirm, Revert, GiveUpConfirming,
         ApproveAuthorization, ResumeSettle, ReadSettleRow, WakeSettler,
         StartSettleSweep, SweepNextRow, StartReconcile, ResolveStale,
         PostponeReconcile, Owner, Freeze, Unfreeze, Revoke, Expire,
         DeleteDeadCard, Control, Chain, NextWindow,
         Age, Crash, UnchangedButCalls, UnchangedButParking, chainVars

\* A payment moves only when its own call is at the relayer.
LEMMA MovedStep ==
  ASSUME TypeInv, NEW p \in PayCalls, [Next]_vars, Moved(p)'
  PROVE  Moved(p) \/ t[p].pc = "send"
<1>1. CASE UNCHANGED <<mined, inflight>>
  BY <1>1 DEF Moved, IsMined, IsInflight
<1>2. ASSUME NEW q \in Spenders, RelayerAccepts(q)
      PROVE  Moved(p) \/ t[p].pc = "send"
  <2>1. t[q].pc = "send" /\ UNCHANGED mined
        /\ inflight' = inflight \cup {[charge |-> t[q].row, fee |-> t[q].fee]}
    BY <1>2 DEF RelayerAccepts
  <2>2. q # p => t[q].row # p
    BY <2>1, OtherDrives
  <2> QED
    BY <2>1, <2>2 DEF Moved, IsMined, IsInflight
<1>3. ASSUME NEW r \in inflight, Mine(r) \/ Drop(r)
      PROVE  Moved(p)
  BY <1>3, MinedAppends DEF Mine, Drop, Moved, IsMined, IsInflight
<1> QED
  BY <1>1, <1>2, <1>3, ChainStep

\* What the next step does to a payment's call: it keeps its card and its key,
\* and passes its reservation in one place.
PayMove(p) ==
    /\ t[p].pc # "idle" => t'[p].card = t[p].card /\ t'[p].key = t[p].key
    /\ t'[p].pc \in {"block", "send"} => t[p].pc \in {"block", "send"} \/ Reserve(p)

LEMMA LeaveKeeps ==
  ASSUME TypeInv, NEW p \in PayCalls, NEW out \in Outcomes, Leave(p, out)
  PROVE  PayMove(p)
<1> DEFINE e == Ended(p, out)
<1>1. Told(p, out) \in Outcomes
  BY DEF Told, Outcomes
<1>2. e.pc = "exit" /\ e.card = t[p].card /\ e.key = t[p].key
  BY <1>1, OwnRow DEF Ended, NoCall, Call
<1>3. t'[p] = e
  BY OwnRow DEF Leave
<1> HIDE DEF e
<1> QED
  BY <1>2, <1>3 DEF PayMove

LEMMA OwnMove ==
  ASSUME TypeInv, NEW p \in PayCalls, EnterSpend(p) \/ ResumeSpend(p)
  PROVE  PayMove(p)
<1>1. CASE \E out \in Outcomes : Leave(p, out)
  BY <1>1, LeaveKeeps
<1>2. CASE \/ ReplayKey(p) \/ ReplaySettle(p) \/ RefuseUnreserved(p) \/ LoseBlock(p)
           \/ RefuseReserved(p) \/ SendThrows(p) \/ Confirm(p) \/ Revert(p)
           \/ GiveUpConfirming(p)
  BY <1>1, <1>2
     DEF ReplayKey, ReplaySettle, RefuseUnreserved, LoseBlock, RefuseReserved, Recheck,
         ChainRefusal, SendThrows, Confirm, Revert, GiveUpConfirming, Outcomes
<1>3. CASE StartSpend(p)
  <2>1. \/ t' = [t EXCEPT ![p].pc = "fee", ![p].win = window]
        \/ \E out \in Outcomes : Leave(p, out)
    BY <1>3 DEF StartSpend, ChainRefusal, Outcomes
  <2>2. CASE t' = [t EXCEPT ![p].pc = "fee", ![p].win = window]
    BY <2>2, OwnRow DEF PayMove, Call
  <2> QED
    BY <1>1, <2>1, <2>2
<1>4. CASE PlanFee(p) \/ RaiseFee(p)
  <2>1. CASE PlanFee(p)
    BY <2>1, OwnRow DEF PlanFee, PayMove, Call
  <2>2. CASE RaiseFee(p)
    <3>0. PICK n : \E f \in Fees[t[p].row] : t' = [t EXCEPT ![p].fee = f, ![p].tries = n]
      BY <2>2 DEF RaiseFee
    <3>1. PICK f \in Fees[t[p].row] : t' = [t EXCEPT ![p].fee = f, ![p].tries = n]
      BY <3>0
    <3> QED
      BY <2>2, <3>1, OwnRow DEF RaiseFee, PayMove, Call
  <2> QED
    BY <1>4, <2>1, <2>2
<1>5. CASE Reserve(p)
  <2>1. t' = [t EXCEPT ![p].pc = "block"]
    BY <1>5 DEF Reserve
  <2>2. t'[p].card = t[p].card /\ t'[p].key = t[p].key
    BY <2>1, OwnRow DEF Call
  <2> QED
    BY <1>5, <2>2 DEF PayMove
<1>6. CASE Broadcast(p)
  <2>1. PICK n : t' = [t EXCEPT ![p].pc = "send", ![p].since = n]
    BY <1>6 DEF Broadcast
  <2> QED
    BY <1>6, <2>1, OwnRow DEF Broadcast, PayMove, Call
<1>7. CASE SendReturns(p)
  BY <1>7, OwnRow DEF SendReturns, PayMove, Call
<1> QED
  BY <1>2, <1>3, <1>4, <1>5, <1>6, <1>7 DEF EnterSpend, ResumeSpend

LEMMA NextPayMove ==
  ASSUME TypeInv, NEW p \in PayCalls, [Next]_vars
  PROVE  PayMove(p)
<1>1. ASSUME t'[p] = t[p] PROVE PayMove(p)
  BY <1>1 DEF PayMove
<1>2. p \notin Settlers
  BY StoreAssumption, PipelineAssumption DEF Settlers, ChargeIds
<1>3. ASSUME NEW q \in Spenders, q # p, EnterSpend(q) \/ ResumeSpend(q)
      PROVE  t'[p] = t[p]
  BY <1>3, OwnRow
     DEF EnterSpend, ReplayKey, ReplaySettle, StartSpend, ResumeSpend, PlanFee, RaiseFee,
         RefuseUnreserved, Reserve, LoseBlock, RefuseReserved, Broadcast, SendReturns,
         SendThrows, Confirm, Revert, GiveUpConfirming, Leave
<1>4. ASSUME \/ \E s \in Settlers : ResumeSettle(s) \/ CatchSettle(s)
             \/ StartSettleSweep \/ SweepNextRow
      PROVE  t'[p] = t[p]
  BY <1>2, <1>4, OwnRow
     DEF ResumeSettle, ReadSettleRow, WakeSettler, Queue, CatchSettle, SettleReturns, ParkRow,
         FreezeParked, RetrySettle, StartSettleSweep, SweepNextRow, Settlers
<1>5. CASE Microtask
  BY <1>1, <1>3, <1>4, <1>5, OwnMove DEF Microtask
<1>6. ASSUME NEW q \in PayCalls, NEW c \in Cards, NEW k \in Keys \cup {NoKey},
             NEW a \in Amounts, AgentSpend(q, c, k, a)
      PROVE  PayMove(p)
  <2> DEFINE asked == [t[q] EXCEPT !.card = c, !.key = k, !.amount = a]
             call == [asked EXCEPT !.pc = "queued", !.lock = SpendKey(asked.card)]
  <2>1. /\ t' = [t EXCEPT ![q] = call] /\ t[q].pc = "idle"
    BY <1>6 DEF AgentSpend, Queue
  <2>2. call.pc = "queued"
    <3>1. t[q] \in Call /\ a \in Nat
      BY OwnRow, PipelineAssumption
    <3>2. asked \in Call
      BY <3>1 DEF Call
    <3> HIDE DEF asked
    <3> QED
      BY <3>2 DEF Call
  <2> HIDE DEF call
  <2> QED
    BY <1>1, <2>1, <2>2, OwnRow DEF PayMove
<1>7. CASE Task
  <2>1. ASSUME NEW a \in Auths, NEW n \in Amounts, ApproveAuthorization(a, n)
        PROVE  t'[p] = t[p]
    <3>1. a # p
      BY StoreAssumption
    <3> QED
      BY <2>1, <3>1, OwnRow DEF ApproveAuthorization
  <2>2. ASSUME StartReconcile \/ ResolveStale \/ PostponeReconcile \/ Owner
        PROVE  t'[p] = t[p]
    BY <2>2 DEF StartReconcile, ResolveStale, PostponeReconcile, Owner,
           Freeze, Unfreeze, Revoke, Expire, DeleteDeadCard, Control
  <2> QED
    BY <1>1, <1>3, <1>4, <1>6, <1>7, <2>1, <2>2, OwnMove DEF Task
<1>8. CASE World
  <2>1. ASSUME NEW q \in Spenders, RelayerAccepts(q) PROVE PayMove(p)
    <3>1. CASE q = p
      BY <2>1, <3>1, OwnRow DEF RelayerAccepts, PayMove, Call
    <3>2. CASE q # p
      BY <1>1, <2>1, <3>2, OwnRow DEF RelayerAccepts
    <3> QED
      BY <3>1, <3>2
  <2>2. ASSUME \/ \E r \in inflight : Mine(r) \/ Drop(r)
               \/ NextWindow \/ \E i \in ChargeIds : Age(i)
        PROVE  t'[p] = t[p]
    BY <2>2 DEF Mine, Drop, NextWindow, Age
  <2> QED
    BY <1>1, <1>8, <2>1, <2>2 DEF World, Chain
<1>9. CASE Crash
  <2>1. CASE t[p].pc = "idle"
    BY <1>1, <1>9, <2>1, OwnRow DEF Crash
  <2>2. CASE t[p].pc # "idle"
    <3> DEFINE out == t[p].out
               e == Ended(p, out)
    <3>1. t'[p] = e
      BY <1>9, <2>2, OwnRow DEF Crash
    <3>2. e.pc = "exit" /\ e.card = t[p].card /\ e.key = t[p].key
      <4>1. out \in Outcomes
        BY OwnRow DEF Call
      <4> HIDE DEF out
      <4>2. Told(p, out) \in Outcomes
        BY <4>1 DEF Told, Outcomes
      <4> QED
        BY <4>2, OwnRow DEF Ended, NoCall, Call
    <3> HIDE DEF e
    <3> QED
      BY <3>1, <3>2 DEF PayMove
  <2> QED
    BY <2>1, <2>2
<1>10. CASE UNCHANGED vars
  BY <1>1, <1>10 DEF vars
<1> QED
  BY <1>5, <1>7, <1>8, <1>9, <1>10 DEF Next

\* The synchronous look at the key's rows at the reservation lets one payment
\* per key come alive.
LEMMA NextOneLive ==
  ASSUME TypeInv, ~AmbiguousSend, PayInv, OneLive, [Next]_vars
  PROVE  OneLive'
<1>1. ASSUME NEW p \in PayCalls, Live(p)'
      PROVE  /\ Live(p) \/ Reserve(p)
             /\ t'[p].card = t[p].card /\ t'[p].key = t[p].key
  <2>1. Live(p) \/ Reserve(p)
    BY <1>1, MovedStep, NextPayMove DEF Live, PayMove
  <2>2. t[p].pc # "idle"
    BY <2>1 DEF PayInv, PayOK, RowGood, Live, Reserve
  <2> QED
    BY <2>1, <2>2, NextPayMove DEF PayMove
<1>2. ASSUME NEW p \in PayCalls, NEW q \in PayCalls, Reserve(p), Live(q),
             SameRequest(p, q)
      PROVE  FALSE
  <2>1. /\ cardStatus[t[p].card] # "deleted"
        /\ ChargeByIdempotency(t[p].card, t[p].key) = {}
    BY <1>2, OwnRow, StoreAssumption DEF Reserve, SameKey, SameRequest
  <2>2. PayOK(q) /\ q \in ChargeIds
    BY OwnRow DEF PayInv
  <2>3. charges[q].status # "absent"
    BY <1>2, <2>1, <2>2 DEF PayOK, RowGood, HeldOK, Live, SameRequest, Gone
  <2>4. charges[q].card = t[q].card /\ charges[q].key = t[q].key
    BY <2>2, <2>3 DEF PayOK, RowGood, PresentOK
  <2> QED
    BY <1>2, <2>1, <2>2, <2>3, <2>4 DEF ChargeByIdempotency, SameRequest
<1>3. ASSUME NEW p \in PayCalls, NEW q \in PayCalls, Reserve(p), Reserve(q)
      PROVE  p = q
  <2>1. t'[p] # t[p]
    BY <1>3, OwnRow DEF Reserve, Call
  <2> QED
    BY <1>3, <2>1, OwnRow DEF Reserve
<1> SUFFICES ASSUME NEW p \in PayCalls, NEW q \in PayCalls,
                    Live(p)', Live(q)', SameRequest(p, q)'
             PROVE  p = q
  BY DEF OneLive
<1>4. SameRequest(p, q) /\ SameRequest(q, p)
  BY <1>1 DEF SameRequest
<1> QED
  BY <1>1, <1>2, <1>3, <1>4 DEF OneLive

-----------------------------------------------------------------------------
(* The fee of a row, from its reservation to the chain. *)

\* The fee of a row changes where spend() reserves it.
FeeStep(i) ==
    \/ charges[i].status # "absent" /\ charges'[i].fee = charges[i].fee
    \/ \E p \in Spenders : /\ Reserve(p) /\ t[p].row = i /\ charges'[i].fee = t[p].fee
    \/ \E n \in Amounts : i \in Auths /\ ApproveAuthorization(i, n)

LEMMA FeeKept ==
  ASSUME TypeInv, NEW a \in PayCalls \cup Auths, NEW j, NEW row, UpdateCharge(j, row),
         row.fee = charges[j].fee, charges'[a].status # "absent"
  PROVE  charges[a].status # "absent" /\ charges'[a].fee = charges[a].fee
BY DEF UpdateCharge, TypeInv, TypeOK, ChargeIds

\* spend() writes a fee at the reservation only.
LEMMA SpendFees ==
  ASSUME TypeInv, NEW a \in PayCalls \cup Auths, NEW p \in Spenders, ResumeSpend(p),
         charges'[a].status # "absent"
  PROVE  FeeStep(a)
<1>1. t[p].pc # "idle"
  BY DEF ResumeSpend, PlanFee, RaiseFee, RefuseUnreserved, Reserve, LoseBlock, RefuseReserved,
         Broadcast, SendReturns, SendThrows, Confirm, Revert, GiveUpConfirming
<1>2. t[p].row \in ChargeIds /\ charges[t[p].row] \in Charge
      /\ a \in ChargeIds /\ a \in PayCalls \cup Auths /\ charges \in [ChargeIds -> Charge]
  BY <1>1, RowIsCharge DEF TypeInv, TypeOK, ChargeIds
<1>3. ~SettleMode(p) => p \in ChargeIds /\ charges[p] \in Charge /\ t[p].row = p
  BY OwnRow DEF SettleMode, Spenders
<1>4. ASSUME charges'[a] = charges[a] PROVE FeeStep(a)
  BY <1>4 DEF FeeStep
<1>5. CASE UNCHANGED charges
  BY <1>4, <1>5
<1>6. ASSUME NEW j, NEW row, UpdateCharge(j, row), row.fee = charges[j].fee
      PROVE  FeeStep(a)
  BY <1>6, FeeKept DEF FeeStep
<1>7. CASE Reserve(p)
  <2>1. CASE SettleMode(p)
    <3> DEFINE row == [charges[t[p].row] EXCEPT !.fee = t[p].fee]
    <3>1. UpdateCharge(t[p].row, row)
      BY <1>7, <2>1 DEF Reserve
    <3>2. row.fee = t[p].fee
      BY <1>2 DEF Charge
    <3> HIDE DEF row
    <3>3. CASE t[p].row = a
      <4>1. charges'[a].fee = t[p].fee
        BY <1>2, <3>1, <3>2, <3>3 DEF UpdateCharge
      <4> QED
        BY <1>7, <3>3, <4>1 DEF FeeStep
    <3>4. CASE t[p].row # a
      BY <1>2, <1>4, <3>1, <3>4 DEF UpdateCharge
    <3> QED
      BY <3>3, <3>4
  <2>2. CASE ~SettleMode(p)
    <3>1. CASE a # p
      BY <1>2, <1>4, <1>7, <2>2, <3>1 DEF Reserve
    <3>2. CASE a = p
      <4> DEFINE row == [NoCharge EXCEPT !.status = "pending", !.card = t[p].card,
                                         !.key = t[p].key, !.amount = t[p].amount,
                                         !.fee = t[p].fee, !.win = t[p].win]
      <4>1. charges'[a] = row
        BY <1>2, <1>7, <2>2, <3>2 DEF Reserve
      <4>2. row.fee = t[p].fee
        BY DEF NoCharge
      <4> QED
        BY <1>3, <1>7, <2>2, <3>2, <4>1, <4>2 DEF FeeStep
    <3> QED
      BY <3>1, <3>2
  <2> QED
    BY <2>1, <2>2
<1>8. CASE RefuseReserved(p) \/ SendThrows(p)
  <2>1. CASE SettleMode(p)
    BY <1>5, <1>8, <2>1 DEF RefuseReserved, SendThrows
  <2>2. CASE ~SettleMode(p)
    <3> DEFINE row == [charges[p] EXCEPT !.status = "failed"]
    <3>1. row.fee = charges[p].fee /\ UpdateCharge(p, row)
      BY <1>3, <1>8, <2>2 DEF RefuseReserved, SendThrows, Charge
    <3> HIDE DEF row
    <3> QED
      BY <1>6, <3>1
  <2> QED
    BY <2>1, <2>2
<1>9. CASE Broadcast(p)
  <2>1. CASE ~SettleMode(p)
    BY <1>5, <1>9, <2>1 DEF Broadcast
  <2>2. CASE SettleMode(p)
    <3> DEFINE n == Len(mined)
               row == [charges[t[p].row] EXCEPT !.request = "claim", !.since = n]
    <3>1. UpdateCharge(t[p].row, row)
      BY <1>9, <2>2 DEF Broadcast
    <3> HIDE DEF n
    <3>2. row.fee = charges[t[p].row].fee
      BY <1>2 DEF Charge
    <3> HIDE DEF row
    <3> QED
      BY <1>6, <3>1, <3>2
  <2> QED
    BY <2>1, <2>2
<1>10. CASE SendReturns(p)
  <2> DEFINE row == [charges[t[p].row] EXCEPT !.request = "sent", !.since = t[p].since]
  <2>1. row.fee = charges[t[p].row].fee /\ UpdateCharge(t[p].row, row)
    BY <1>2, <1>10 DEF SendReturns, Charge
  <2> HIDE DEF row
  <2> QED
    BY <1>6, <2>1
<1>11. CASE Confirm(p) \/ Revert(p)
  <2>1. PICK st \in ChargeStatuses :
           UpdateCharge(t[p].row, [charges[t[p].row] EXCEPT !.status = st])
    BY <1>11 DEF Confirm, Revert, ChargeStatuses
  <2> DEFINE row == [charges[t[p].row] EXCEPT !.status = st]
  <2>2. row.fee = charges[t[p].row].fee
    BY <1>2 DEF Charge
  <2>3. UpdateCharge(t[p].row, row)
    BY <2>1
  <2> HIDE DEF row
  <2> QED
    BY <1>6, <2>2, <2>3
<1> QED
  BY <1>5, <1>7, <1>8, <1>9, <1>10, <1>11
     DEF ResumeSpend, PlanFee, RaiseFee, RefuseUnreserved, LoseBlock, GiveUpConfirming

LEMMA NextFees ==
  ASSUME TypeInv, NEW a \in PayCalls \cup Auths, [Next]_vars, charges'[a].status # "absent"
  PROVE  FeeStep(a)
<1>1. /\ a \in ChargeIds /\ charges \in [ChargeIds -> Charge] /\ charges[a] \in Charge
      /\ NoCharge.status = "absent"
  BY DEF ChargeIds, TypeInv, TypeOK, NoCharge
<1>2. ASSUME charges'[a] = charges[a] PROVE FeeStep(a)
  BY <1>2 DEF FeeStep
<1>3. CASE \E p \in Spenders : EnterSpend(p)
  BY <1>1, <1>2, <1>3 DEF EnterSpend, ReplayKey, ReplaySettle, StartSpend
<1>4. CASE \E s \in Settlers : ParkRow(s)
  <2>1. PICK s \in Settlers : ParkRow(s)
    BY <1>4
  <2> DEFINE row == [charges[t[s].row] EXCEPT !.status = "settlement_unconfirmed"]
  <2>2. t[s].row \in ChargeIds
    <3>1. s \in Spenders /\ t[s].pc # "idle"
      BY <2>1 DEF Spenders, ParkRow, Failed
    <3> QED
      BY <3>1, RowIsCharge DEF TypeInv
  <2>3. row.fee = charges[t[s].row].fee /\ UpdateCharge(t[s].row, row)
    BY <1>1, <2>1, <2>2 DEF ParkRow, Charge
  <2> HIDE DEF row
  <2> QED
    BY <2>3, FeeKept DEF FeeStep
<1>5. CASE \E b \in Auths, n \in Amounts : ApproveAuthorization(b, n)
  <2>1. PICK b \in Auths, n \in Amounts : ApproveAuthorization(b, n)
    BY <1>5
  <2>2. CASE a = b
    BY <2>1, <2>2 DEF FeeStep
  <2>3. CASE a # b
    BY <1>1, <1>2, <2>1, <2>3 DEF ApproveAuthorization
  <2> QED
    BY <2>2, <2>3
<1>6. CASE StartReconcile
  BY <1>1, <1>2, <1>6, StoreAssumption DEF StartReconcile, X402Orphans
<1>7. CASE ResolveStale
  <2>1. PICK C \in LogClaims :
          charges' = [j \in ChargeIds |->
             IF j \in Resolvable
             THEN [charges[j] EXCEPT !.status = Resolved(j, C)]
             ELSE charges[j]]
    BY <1>7 DEF ResolveStale
  <2>2. CASE a \notin Resolvable
    BY <1>1, <1>2, <2>1, <2>2
  <2>3. CASE a \in Resolvable
    <3> DEFINE st == Resolved(a, C)
    <3>1. charges'[a] = [charges[a] EXCEPT !.status = st]
      BY <1>1, <2>1, <2>3
    <3> HIDE DEF st
    <3>2. charges'[a].fee = charges[a].fee
      BY <1>1, <3>1 DEF Charge
    <3> QED
      BY <2>3, <3>2 DEF FeeStep, Resolvable
  <2> QED
    BY <2>2, <2>3
<1>8. CASE Owner
  BY <1>1, <1>2, <1>8 DEF Owner, Freeze, Unfreeze, Revoke, Expire, DeleteDeadCard
<1>9. CASE \E j \in ChargeIds : Age(j)
  <2>1. PICK j \in ChargeIds : Age(j)
    BY <1>9
  <2>2. CASE j = a
    BY <1>1, <2>1, <2>2 DEF Age, Charge, FeeStep
  <2>3. CASE j # a
    BY <1>1, <1>2, <2>1, <2>3 DEF Age
  <2> QED
    BY <2>2, <2>3
<1>10. CASE \E p \in Spenders : ResumeSpend(p)
  BY <1>10, SpendFees
<1>11. CASE UNCHANGED charges
  BY <1>2, <1>11
<1> QED
  BY <1>3, <1>4, <1>5, <1>6, <1>7, <1>8, <1>9, <1>10, <1>11
     DEF Next, Microtask, Task, World, Chain, CatchSettle, SettleReturns, FreezeParked,
         RetrySettle, AgentSpend, ResumeSettle, ReadSettleRow, WakeSettler, StartSettleSweep,
         SweepNextRow, PostponeReconcile, RelayerAccepts, Mine, Drop, NextWindow, Crash, vars,
         storeVars, UnchangedButCalls

LEMMA NextFiatFees ==
  ASSUME TypeInv, NEW a \in Auths, [Next]_vars, charges'[a].status # "absent"
  PROVE  \/ charges[a].status # "absent" /\ charges'[a].fee = charges[a].fee
         \/ \E s \in Settlers : Reserve(s) /\ t[s].row = a /\ charges'[a].fee = t[s].fee
         \/ \E n \in Amounts : ApproveAuthorization(a, n)
<1>1. ASSUME NEW p \in Spenders, Reserve(p), t[p].row = a PROVE p \in Settlers
  <2>1. t[p].pc # "idle"
    BY <1>1 DEF Reserve
  <2> QED
    BY <1>1, <2>1, SettlerRows DEF SettleMode
<1> QED
  BY <1>1, NextFees DEF FeeStep

\* A call passes its reservation in one place, and keeps its row and its fee from
\* there to the receipt.  Before that its fee is one the relayer asked for.  A
\* settlement starts only where there is an executor, or a list to walk.
BlockMove(s) ==
    /\ t'[s].pc \in {"block", "send"} => t[s].pc \in {"block", "send"} \/ Reserve(s)
    /\ t'[s].pc = "confirm" => t[s].pc \in {"send", "confirm"}
    /\ t'[s].pc \in {"block", "send", "confirm"} =>
          t'[s].row = t[s].row /\ t'[s].fee = t[s].fee
    /\ t'[s].pc = "estimate" =>
          /\ t'[s].row = t[s].row
          /\ t'[s].fee \in Fees[t[s].row] \/ (t[s].pc = "estimate" /\ t'[s].fee = t[s].fee)
    /\ s \in Settlers /\ t[s].pc = "idle" /\ t'[s].pc # "idle" =>
          SettlementOn \/ backlog # {}

LEMMA SpenderIs ==
  ASSUME TypeInv, NEW s \in Spenders
  PROVE  /\ t \in [Spenders -> Call] /\ t[s] \in Call
         /\ s \in PayCalls <=> s \notin Settlers
BY StoreAssumption, PipelineAssumption DEF Spenders, Settlers, ChargeIds, TypeInv, TypeOK

LEMMA SpenderMoves ==
  ASSUME TypeInv, NEW s \in Spenders, EnterSpend(s) \/ ResumeSpend(s)
  PROVE  BlockMove(s)
<1>9. t[s].pc # "idle"
  BY DEF EnterSpend, ReplayKey, ReplaySettle, StartSpend, AtHead, ResumeSpend, PlanFee, RaiseFee,
         RefuseUnreserved, Reserve, LoseBlock, RefuseReserved, Broadcast, SendReturns,
         SendThrows, Confirm, Revert, GiveUpConfirming
<1>1. ASSUME NEW out \in Outcomes, Leave(s, out) PROVE BlockMove(s)
  BY <1>1, <1>9, SpenderIs, EndedFields DEF Leave, BlockMove, TypeInv
<1>2. CASE \/ ReplayKey(s) \/ ReplaySettle(s) \/ RefuseUnreserved(s) \/ LoseBlock(s)
           \/ RefuseReserved(s) \/ SendThrows(s) \/ Confirm(s) \/ Revert(s)
           \/ GiveUpConfirming(s)
  BY <1>1, <1>2
     DEF ReplayKey, ReplaySettle, RefuseUnreserved, LoseBlock, RefuseReserved, Recheck,
         ChainRefusal, SendThrows, Confirm, Revert, GiveUpConfirming, Outcomes
<1>3. CASE StartSpend(s)
  <2>1. \/ t' = [t EXCEPT ![s].pc = "fee", ![s].win = window]
        \/ \E out \in Outcomes : Leave(s, out)
    BY <1>3 DEF StartSpend, ChainRefusal, Outcomes
  <2>2. CASE t' = [t EXCEPT ![s].pc = "fee", ![s].win = window]
    BY <1>9, <2>2, SpenderIs DEF BlockMove, Call
  <2> QED
    BY <1>1, <2>1, <2>2
<1>4. CASE PlanFee(s)
  <2>1. PICK f \in Fees[t[s].row] : t' = [t EXCEPT ![s].pc = "estimate", ![s].fee = f]
    BY <1>4 DEF PlanFee
  <2>2. t'[s].pc = "estimate" /\ t'[s].fee = f /\ t'[s].row = t[s].row
    BY <2>1, SpenderIs DEF Call
  <2> QED
    BY <1>9, <2>2 DEF BlockMove
<1>5. CASE RaiseFee(s)
  <2>0. PICK n : \E f \in Fees[t[s].row] : t' = [t EXCEPT ![s].fee = f, ![s].tries = n]
    BY <1>5 DEF RaiseFee
  <2>1. PICK f \in Fees[t[s].row] : t' = [t EXCEPT ![s].fee = f, ![s].tries = n]
    BY <2>0
  <2>2. t'[s].pc = "estimate" /\ t'[s].fee = f /\ t'[s].row = t[s].row
    BY <1>5, <2>1, SpenderIs DEF RaiseFee, Call
  <2> QED
    BY <1>9, <2>2 DEF BlockMove
<1>6. CASE Reserve(s)
  <2>1. t' = [t EXCEPT ![s].pc = "block"]
    BY <1>6 DEF Reserve
  <2>2. t'[s].row = t[s].row /\ t'[s].fee = t[s].fee /\ t'[s].pc = "block"
    BY <2>1, SpenderIs DEF Call
  <2> QED
    BY <1>6, <1>9, <2>2 DEF BlockMove
<1>7. CASE Broadcast(s)
  <2>1. PICK n : t' = [t EXCEPT ![s].pc = "send", ![s].since = n]
    BY <1>7 DEF Broadcast
  <2> QED
    BY <1>7, <1>9, <2>1, SpenderIs DEF Broadcast, BlockMove, Call
<1>8. CASE SendReturns(s)
  BY <1>8, <1>9, SpenderIs DEF SendReturns, BlockMove, Call
<1> QED
  BY <1>2, <1>3, <1>4, <1>5, <1>6, <1>7, <1>8 DEF EnterSpend, ResumeSpend

LEMMA SettlerSettles ==
  ASSUME TypeInv, NEW s \in Settlers, s \in Spenders,
         \/ ResumeSettle(s) \/ CatchSettle(s) \/ (s = Sweeper /\ SweepNextRow)
         \/ \E n \in Amounts : s \in Auths /\ ApproveAuthorization(s, n)
  PROVE  BlockMove(s)
<1>1. AtRest(s).pc = "idle"
  BY AtRestFields
<1>2. ASSUME t'[s].pc \notin {"block", "send", "confirm", "estimate"},
             t[s].pc # "idle" \/ t'[s].pc = "idle" \/ backlog # {}
      PROVE  BlockMove(s)
  BY <1>2 DEF BlockMove
<1>3. CASE ReadSettleRow(s)
  <2> DEFINE call == [t[s] EXCEPT !.pc = "sleep", !.left = SettleAttempts,
                                  !.card = charges[t[s].row].card]
  <2>1. call.pc = "sleep"
    BY SpenderIs DEF Call
  <2>2. t'[s] = call \/ t'[s] = AtRest(s)
    BY <1>3, SpenderIs DEF ReadSettleRow
  <2> HIDE DEF call
  <2> QED
    BY <1>1, <1>2, <1>3, <2>1, <2>2 DEF ReadSettleRow
<1>4. CASE WakeSettler(s)
  <2>1. t'[s].pc = "queued" /\ t[s].pc = "sleep"
    BY <1>4, SpenderIs DEF WakeSettler, Queue, Call
  <2> QED
    BY <1>2, <2>1
<1>5. CASE SettleReturns(s) \/ ParkRow(s) \/ FreezeParked(s)
  <2>1. t'[s] = AtRest(s)
    BY <1>5, SpenderIs DEF SettleReturns, ParkRow, FreezeParked
  <2> QED
    BY <1>1, <1>2, <2>1
<1>6. CASE RetrySettle(s)
  <2>1. PICK n : t' = [t EXCEPT ![s].pc = "sleep", ![s].out = "none", ![s].left = n]
    BY <1>6 DEF RetrySettle
  <2>2. t'[s].pc = "sleep" /\ t[s].pc = "exit"
    BY <1>6, <2>1, SpenderIs DEF RetrySettle, Failed, Call
  <2> QED
    BY <1>2, <2>2
<1>7. CASE s = Sweeper /\ SweepNextRow
  BY <1>2, <1>7, SpenderIs DEF SweepNextRow, Call
<1>8. ASSUME NEW n \in Amounts, s \in Auths, ApproveAuthorization(s, n)
      PROVE  BlockMove(s)
  <2>1. t' = t \/ (SettlementOn /\ t' = [t EXCEPT ![s].pc = "read"])
    BY <1>8 DEF ApproveAuthorization
  <2> QED
    BY <2>1, SpenderIs DEF BlockMove, Call
<1> QED
  BY <1>3, <1>4, <1>5, <1>6, <1>7, <1>8 DEF ResumeSettle, CatchSettle

LEMMA NextBlockMove ==
  ASSUME TypeInv, NEW s \in Spenders, [Next]_vars
  PROVE  BlockMove(s)
<1>1. ASSUME t'[s] = t[s] PROVE BlockMove(s)
  BY <1>1 DEF BlockMove
<1>2. ASSUME NEW q \in Spenders, q # s, EnterSpend(q) \/ ResumeSpend(q)
      PROVE  t'[s] = t[s]
  BY <1>2, SpenderIs
     DEF EnterSpend, ReplayKey, ReplaySettle, StartSpend, ResumeSpend, PlanFee, RaiseFee,
         RefuseUnreserved, Reserve, LoseBlock, RefuseReserved, Broadcast, SendReturns,
         SendThrows, Confirm, Revert, GiveUpConfirming, Leave
<1>3. ASSUME NEW q \in Settlers, q # s, ResumeSettle(q) \/ CatchSettle(q)
      PROVE  t'[s] = t[s]
  BY <1>3, SpenderIs
     DEF ResumeSettle, ReadSettleRow, WakeSettler, Queue, CatchSettle, SettleReturns, ParkRow,
         FreezeParked, RetrySettle
<1>4. CASE Microtask
  BY <1>1, <1>2, <1>3, <1>4, SpenderMoves, SettlerSettles DEF Microtask
<1>5. CASE Task
  <2>1. ASSUME NEW a \in Auths, NEW n \in Amounts, ApproveAuthorization(a, n)
        PROVE  BlockMove(s)
    <3>1. CASE a = s
      BY <2>1, <3>1, SettlerSettles DEF Settlers
    <3>2. CASE a # s
      BY <1>1, <2>1, <3>2, SpenderIs DEF ApproveAuthorization
    <3> QED
      BY <3>1, <3>2
  <2>2. CASE SweepNextRow
    <3>1. CASE s = Sweeper
      BY <2>2, <3>1, SettlerSettles DEF Settlers
    <3>2. CASE s # Sweeper
      BY <1>1, <2>2, <3>2, SpenderIs DEF SweepNextRow
    <3> QED
      BY <3>1, <3>2
  <2>3. ASSUME NEW q \in PayCalls, NEW c \in Cards, NEW k \in Keys \cup {NoKey},
               NEW a \in Amounts, AgentSpend(q, c, k, a)
        PROVE  BlockMove(s)
    <3> DEFINE asked == [t[q] EXCEPT !.card = c, !.key = k, !.amount = a]
               call == [asked EXCEPT !.pc = "queued", !.lock = SpendKey(asked.card)]
    <3>1. t' = [t EXCEPT ![q] = call]
      BY <2>3 DEF AgentSpend, Queue
    <3>2. call.pc = "queued"
      <4>1. t[q] \in Call /\ a \in Nat
        BY OwnRow, PipelineAssumption
      <4>2. asked \in Call
        BY <4>1 DEF Call
      <4> HIDE DEF asked
      <4> QED
        BY <4>2 DEF Call
    <3> HIDE DEF call
    <3>3. CASE q = s
      BY <3>1, <3>2, <3>3, SpenderIs DEF BlockMove
    <3> QED
      BY <1>1, <3>1, <3>3, SpenderIs
  <2>4. ASSUME StartSettleSweep \/ StartReconcile \/ ResolveStale \/ PostponeReconcile \/ Owner
        PROVE  t'[s] = t[s]
    BY <2>4 DEF StartSettleSweep, StartReconcile, ResolveStale, PostponeReconcile, Owner,
           Freeze, Unfreeze, Revoke, Expire, DeleteDeadCard, Control
  <2> QED
    BY <1>1, <1>2, <1>3, <1>5, <2>1, <2>2, <2>3, <2>4, SpenderMoves, SettlerSettles DEF Task
<1>6. CASE World
  <2>1. ASSUME NEW q \in Spenders, RelayerAccepts(q) PROVE BlockMove(s)
    <3>1. CASE q = s
      BY <2>1, <3>1, SpenderIs DEF RelayerAccepts, BlockMove, Call
    <3>2. CASE q # s
      BY <1>1, <2>1, <3>2, SpenderIs DEF RelayerAccepts
    <3> QED
      BY <3>1, <3>2
  <2>2. ASSUME \/ \E r \in inflight : Mine(r) \/ Drop(r)
               \/ NextWindow \/ \E i \in ChargeIds : Age(i)
        PROVE  t'[s] = t[s]
    BY <2>2 DEF Mine, Drop, NextWindow, Age
  <2> QED
    BY <1>1, <1>6, <2>1, <2>2 DEF World, Chain
<1>7. CASE Crash
  <2>1. CASE s \in Settlers
    <3>1. t'[s] = AtRest(s)
      BY <1>7, <2>1, SpenderIs DEF Crash, SettleMode
    <3> QED
      BY <2>1, <3>1, AtRestFields DEF BlockMove
  <2>2. CASE s \notin Settlers
    <3>1. t'[s] = t[s] \/ t'[s] = Ended(s, t[s].out)
      BY <1>7, <2>2, SpenderIs DEF Crash, SettleMode
    <3>2. t[s].out \in Outcomes
      BY SpenderIs DEF Call
    <3> QED
      BY <1>1, <2>2, <3>1, <3>2, EndedFields DEF BlockMove, TypeInv
  <2> QED
    BY <2>1, <2>2
<1>8. CASE UNCHANGED vars
  BY <1>1, <1>8 DEF vars
<1> QED
  BY <1>4, <1>5, <1>6, <1>7, <1>8 DEF Next

\* What the next step adds to the redemptions.
LEMMA RedemptionStep ==
  ASSUME TypeInv, [Next]_vars, NEW r \in Redemptions'
  PROVE  \/ r \in Redemptions
         \/ \E q \in Spenders : /\ RelayerAccepts(q)
                               /\ r.charge = t[q].row /\ r.fee = t[q].fee
<1>1. CASE UNCHANGED <<mined, inflight>>
  BY <1>1 DEF Redemptions
<1>2. ASSUME NEW q \in Spenders, RelayerAccepts(q)
      PROVE  r \in Redemptions \/ (r.charge = t[q].row /\ r.fee = t[q].fee)
  BY <1>2 DEF RelayerAccepts, Redemptions
<1>3. ASSUME NEW x \in inflight, Mine(x) PROVE r \in Redemptions
  <2>1. mined' = Append(mined, x) /\ inflight' = inflight \ {x}
    BY <1>3 DEF Mine
  <2> QED
    BY <2>1, MinedAppends DEF Redemptions
<1>4. ASSUME NEW x \in inflight, Drop(x) PROVE r \in Redemptions
  BY <1>4 DEF Drop, Redemptions
<1> QED
  BY <1>1, <1>2, <1>3, <1>4, ChainStep

\* An authorization is approved once: nothing of it was broadcast or driven.
LEMMA ApprovedFresh ==
  ASSUME FiatInv, NEW a \in Auths, NEW n \in Amounts, ApproveAuthorization(a, n)
  PROVE  ~Known(a) /\ sent[a] = 0 /\ \A s \in Settlers : ~Driven(s, a)
<1>1. charges[a].status = "absent"
  BY DEF FiatInv, FiatRowInv, ApproveAuthorization, ChargeByIdempotency, ChargeIds
<1>2. cardStatus[AuthCard[a]] # "deleted"
  BY DEF ApproveAuthorization, Approved, AncestorChain
<1> QED
  BY <1>1, <1>2 DEF FiatInv, KnownInv, ClaimInv, Claimed, Known

\* What a step of the pipeline does to the row of a carve, but for its ageing.
CarveStep(x) ==
    \/ charges'[x] = charges[x]
    \/ x \in X402Orphans /\ charges'[x] = [charges[x] EXCEPT !.status = "failed"]
    \/ charges'[x] = NoCharge /\ cardStatus'[charges[x].card] = "deleted"

LEMMA CarveRows ==
  ASSUME TypeInv, CarvesPlain, NEW x \in X402Calls,
         \/ Microtask \/ Task \/ Chain \/ NextWindow \/ Crash \/ UNCHANGED vars
         \/ \E i \in ChargeIds \ {x} : Age(i)
  PROVE  CarveStep(x)
<1>1. /\ x \in ChargeIds /\ x \notin PayCalls /\ x \notin Auths
      /\ charges \in [ChargeIds -> Charge] /\ charges[x] \in Charge
  BY StoreAssumption DEF ChargeIds, TypeInv, TypeOK
<1>2. ASSUME NEW p \in Spenders, t[p].pc # "idle" PROVE t[p].row # x
  BY <1>1, <1>2 DEF TypeInv, RowInv, RowOK, Spenders, Settlers
<1>3. ASSUME NEW i, i # x, NEW row, UpdateCharge(i, row) PROVE charges'[x] = charges[x]
  BY <1>1, <1>3 DEF UpdateCharge
<1>4. ASSUME NEW p \in Spenders, EnterSpend(p) PROVE charges'[x] = charges[x]
  <2>1. CASE StartSpend(p) /\ ~SettleMode(p)
    <3>1. x \notin SameKey(p)
      BY DEF SameKey, ChargeByIdempotency, CarvesPlain
    <3> QED
      BY <1>1, <2>1, <3>1 DEF StartSpend
  <2> QED
    BY <1>1, <1>4, <2>1 DEF EnterSpend, ReplayKey, ReplaySettle, StartSpend
<1>5. ASSUME NEW p \in Spenders, ResumeSpend(p) PROVE charges'[x] = charges[x]
  <2>1. CASE Reserve(p) /\ ~SettleMode(p)
    <3>1. p # x
      BY <1>1, <2>1 DEF SettleMode, Spenders
    <3> QED
      BY <1>1, <2>1, <3>1 DEF Reserve
  <2>2. t[p].row # x /\ (~SettleMode(p) => p # x)
    BY <1>1, <1>2, <1>5
       DEF SettleMode, Spenders, ResumeSpend, PlanFee, RaiseFee, RefuseUnreserved, Reserve,
           LoseBlock, RefuseReserved, Broadcast, SendReturns, SendThrows, Confirm, Revert,
           GiveUpConfirming
  <2> QED
    BY <1>1, <1>3, <1>5, <2>1, <2>2
       DEF ResumeSpend, PlanFee, RaiseFee, RefuseUnreserved, Reserve, LoseBlock, RefuseReserved,
           Broadcast, SendReturns, SendThrows, Confirm, Revert, GiveUpConfirming
<1>6. ASSUME NEW s \in Settlers, CatchSettle(s) PROVE charges'[x] = charges[x]
  <2>1. s \in Spenders
    BY DEF Spenders
  <2> QED
    BY <1>2, <1>3, <1>6, <2>1
       DEF CatchSettle, SettleReturns, ParkRow, FreezeParked, RetrySettle, Failed
<1>7. ASSUME NEW b \in Auths, NEW n \in Amounts, ApproveAuthorization(b, n)
      PROVE  charges'[x] = charges[x]
  BY <1>1, <1>7 DEF ApproveAuthorization
<1>8. CASE StartReconcile \/ ResolveStale \/ PostponeReconcile
  BY <1>1, <1>8 DEF StartReconcile, ResolveStale, PostponeReconcile, CarvesPlain, Resolvable,
       storeVars, CarveStep
<1>9. CASE Owner
  BY <1>1, <1>9 DEF Owner, Freeze, Unfreeze, Revoke, Expire, DeleteDeadCard, SubtreeOf, CarveStep
<1>10. ASSUME NEW i \in ChargeIds \ {x}, Age(i) PROVE charges'[x] = charges[x]
  BY <1>1, <1>10 DEF Age
<1>11. CASE UNCHANGED charges
  BY <1>11 DEF CarveStep
<1> QED
  BY <1>4, <1>5, <1>6, <1>7, <1>8, <1>9, <1>10, <1>11
     DEF CarveStep, Microtask, Task, Chain, AgentSpend, ResumeSettle, ReadSettleRow,
         WakeSettler, StartSettleSweep, SweepNextRow, RelayerAccepts, Mine, Drop, NextWindow,
         Crash, vars, storeVars, UnchangedButCalls

\* The reconcile sweep lists stale rows.
LEMMA NextListed ==
  ASSUME [Next]_vars
  PROVE  recon' \subseteq recon \cup StaleCharges
  BY DEF Next, Microtask, Task, World, vars, EnterSpend, ReplayKey,
         ReplaySettle, StartSpend, CatchSettle, SettleReturns, ParkRow,
         FreezeParked, RetrySettle, AgentSpend, ResumeSpend, PlanFee, RaiseFee,
         RefuseUnreserved, Reserve, LoseBlock, RefuseReserved, Broadcast,
         SendReturns, SendThrows, Confirm, Revert, GiveUpConfirming,
         ApproveAuthorization, ResumeSettle, ReadSettleRow, WakeSettler,
         StartSettleSweep, SweepNextRow, StartReconcile, ResolveStale,
         PostponeReconcile, Owner, Freeze, Unfreeze, Revoke, Expire,
         DeleteDeadCard, Control, Chain, RelayerAccepts, Mine, Drop, NextWindow,
         Age, Crash, UnchangedButCalls, UnchangedButParking

LEMMA NextCarves ==
  ASSUME TypeInv, CarvesPlain, [Next]_vars
  PROVE  CarvesPlain'
<1> SUFFICES ASSUME NEW x \in X402Calls
             PROVE  /\ charges'[x].key = NoKey /\ charges'[x].request = "null"
                    /\ x \notin recon'
  BY DEF CarvesPlain
<1>1. /\ charges[x] \in Charge /\ charges[x].key = NoKey /\ charges[x].request = "null"
      /\ x \notin recon
  BY DEF TypeInv, TypeOK, ChargeIds, CarvesPlain
<1>2. charges'[x].key = NoKey /\ charges'[x].request = "null"
  <2>1. CASE charges'[x] = [charges[x] EXCEPT !.aged = TRUE]
    BY <1>1, <2>1 DEF Charge
  <2>2. CASE charges'[x] = [charges[x] EXCEPT !.status = "failed"]
    BY <1>1, <2>2 DEF Charge
  <2>3. CASE Age(x)
    BY <1>1, <2>1, <2>3 DEF Age, TypeInv, TypeOK, ChargeIds
  <2> QED
    BY <1>1, <2>2, <2>3, CarveRows DEF CarveStep, NoCharge, Next, World
<1>3. recon' \subseteq recon \cup StaleCharges
  BY NextListed
<1> QED
  BY <1>1, <1>2, <1>3 DEF StaleCharges

-----------------------------------------------------------------------------
(* Every fee was asked for its own charge. *)

\* A row is found broadcast.
Broadcasts(row) == row.status = "pending" /\ row.request # "null"

\* It was, or a call past its reservation writes it.
BroadcastStep(i) ==
    \/ Broadcasts(charges[i])
    \/ \E p \in Spenders : t[p].pc \in {"block", "send"} /\ t[p].row = i

LEMMA NotBroadcasting ==
  ASSUME TypeInv, NEW i \in ChargeIds, NEW j, NEW row, UpdateCharge(j, row),
         Broadcasts(row) => Broadcasts(charges[j]), Broadcasts(charges'[i])
  PROVE  Broadcasts(charges[i])
BY DEF UpdateCharge, TypeInv, TypeOK

LEMMA SpendBroadcasts ==
  ASSUME TypeInv, NEW i \in ChargeIds, NEW p \in Spenders, ResumeSpend(p),
         Broadcasts(charges'[i])
  PROVE  BroadcastStep(i)
<1>1. t[p].pc # "idle"
  BY DEF ResumeSpend, PlanFee, RaiseFee, RefuseUnreserved, Reserve, LoseBlock, RefuseReserved,
         Broadcast, SendReturns, SendThrows, Confirm, Revert, GiveUpConfirming
<1>2. t[p].row \in ChargeIds /\ charges[t[p].row] \in Charge
      /\ charges \in [ChargeIds -> Charge] /\ charges[i] \in Charge
  BY <1>1, RowIsCharge DEF TypeInv, TypeOK
<1>3. ~SettleMode(p) => p \in ChargeIds /\ charges[p] \in Charge
  BY DEF SettleMode, Spenders, ChargeIds, TypeInv, TypeOK
<1>4. CASE UNCHANGED charges
  BY <1>4 DEF BroadcastStep
<1>5. CASE Reserve(p)
  <2>1. CASE SettleMode(p)
    <3> DEFINE row == [charges[t[p].row] EXCEPT !.fee = t[p].fee]
    <3>1. Broadcasts(row) => Broadcasts(charges[t[p].row])
      BY <1>2 DEF Charge, Broadcasts
    <3>2. UpdateCharge(t[p].row, row)
      BY <1>5, <2>1 DEF Reserve
    <3> HIDE DEF row
    <3> QED
      BY <3>1, <3>2, NotBroadcasting DEF BroadcastStep
  <2>2. CASE ~SettleMode(p)
    <3> DEFINE row == [NoCharge EXCEPT !.status = "pending", !.card = t[p].card,
                         !.key = t[p].key, !.amount = t[p].amount,
                         !.fee = t[p].fee, !.win = t[p].win]
    <3>1. row.request = "null"
      BY DEF NoCharge
    <3>2. charges' = [charges EXCEPT ![p] = row]
      BY <1>5, <2>2 DEF Reserve
    <3> HIDE DEF row
    <3> QED
      BY <1>2, <1>3, <2>2, <3>1, <3>2 DEF Broadcasts, BroadcastStep
  <2> QED
    BY <2>1, <2>2
<1>6. CASE RefuseReserved(p) \/ SendThrows(p)
  <2>1. CASE SettleMode(p)
    BY <1>6, <2>1 DEF RefuseReserved, SendThrows, BroadcastStep
  <2>2. CASE ~SettleMode(p)
    <3> DEFINE row == [charges[p] EXCEPT !.status = "failed"]
    <3>1. ~Broadcasts(row) /\ UpdateCharge(p, row)
      BY <1>3, <1>6, <2>2 DEF RefuseReserved, SendThrows, Charge, Broadcasts
    <3> HIDE DEF row
    <3> QED
      BY <3>1, NotBroadcasting DEF BroadcastStep
  <2> QED
    BY <2>1, <2>2
<1>7. CASE Broadcast(p) \/ SendReturns(p)
  <2>1. t[p].pc \in {"block", "send"}
    BY <1>7 DEF Broadcast, SendReturns
  <2>2. CASE i = t[p].row
    BY <2>1, <2>2 DEF BroadcastStep
  <2>3. CASE i # t[p].row
    BY <1>2, <1>7, <2>3 DEF Broadcast, SendReturns, UpdateCharge, BroadcastStep
  <2> QED
    BY <2>2, <2>3
<1>8. CASE Confirm(p) \/ Revert(p)
  <2>1. PICK st \in ChargeStatuses \ {"pending"} :
           UpdateCharge(t[p].row, [charges[t[p].row] EXCEPT !.status = st])
    BY <1>8 DEF Confirm, Revert, ChargeStatuses
  <2> DEFINE row == [charges[t[p].row] EXCEPT !.status = st]
  <2>2. ~Broadcasts(row)
    BY <1>2 DEF Charge, Broadcasts
  <2>3. UpdateCharge(t[p].row, row)
    BY <2>1
  <2> HIDE DEF row
  <2> QED
    BY <2>2, <2>3, NotBroadcasting DEF BroadcastStep
<1> QED
  BY <1>4, <1>5, <1>6, <1>7, <1>8
     DEF ResumeSpend, PlanFee, RaiseFee, RefuseUnreserved, LoseBlock, GiveUpConfirming

LEMMA NextBroadcasts ==
  ASSUME TypeInv, NEW i \in PayCalls \cup Auths, [Next]_vars, Broadcasts(charges'[i])
  PROVE  BroadcastStep(i)
<1>1. i \in ChargeIds /\ charges \in [ChargeIds -> Charge] /\ charges[i] \in Charge
      /\ ~Broadcasts(NoCharge)
  BY DEF ChargeIds, TypeInv, TypeOK, NoCharge, Broadcasts
<1>2. ASSUME charges'[i] = charges[i] PROVE BroadcastStep(i)
  BY <1>2 DEF BroadcastStep
<1>3. CASE \E p \in Spenders : EnterSpend(p)
  BY <1>1, <1>2, <1>3 DEF EnterSpend, ReplayKey, ReplaySettle, StartSpend
<1>4. CASE \E s \in Settlers : ParkRow(s)
  <2>1. PICK s \in Settlers : ParkRow(s)
    BY <1>4
  <2> DEFINE row == [charges[t[s].row] EXCEPT !.status = "settlement_unconfirmed"]
  <2>2. t[s].row \in ChargeIds
    <3>1. s \in Spenders /\ t[s].pc # "idle"
      BY <2>1 DEF Spenders, ParkRow, Failed
    <3> QED
      BY <3>1, RowIsCharge DEF TypeInv
  <2>3. ~Broadcasts(row) /\ UpdateCharge(t[s].row, row)
    BY <1>1, <2>1, <2>2 DEF ParkRow, Charge, Broadcasts
  <2> HIDE DEF row
  <2> QED
    BY <1>1, <2>3, NotBroadcasting DEF BroadcastStep
<1>5. CASE \E a \in Auths, n \in Amounts : ApproveAuthorization(a, n)
  <2>1. PICK a \in Auths, n \in Amounts : ApproveAuthorization(a, n)
    BY <1>5
  <2>2. CASE i # a
    BY <1>1, <1>2, <2>1, <2>2 DEF ApproveAuthorization
  <2>3. CASE i = a
    <3> DEFINE row == [NoCharge EXCEPT
                         !.status = IF SettlementOn THEN "pending" ELSE "confirmed",
                         !.card = AuthCard[a], !.key = a, !.amount = n, !.fee = Headroom,
                         !.win = window, !.request = IF SettlementOn THEN "null" ELSE "sent"]
    <3>1. charges' = [charges EXCEPT ![a] = row]
      BY <2>1 DEF ApproveAuthorization
    <3>2. ~Broadcasts(row)
      BY DEF NoCharge, Broadcasts
    <3> HIDE DEF row
    <3> QED
      BY <1>1, <2>3, <3>1, <3>2
  <2> QED
    BY <2>2, <2>3
<1>6. CASE StartReconcile
  BY <1>1, <1>2, <1>6, StoreAssumption DEF StartReconcile, X402Orphans
<1>7. CASE ResolveStale
  <2>1. PICK C \in LogClaims :
          charges' = [j \in ChargeIds |->
             IF j \in Resolvable
             THEN [charges[j] EXCEPT !.status = Resolved(j, C)]
             ELSE charges[j]]
    BY <1>7 DEF ResolveStale
  <2>2. CASE i \notin Resolvable
    BY <1>1, <1>2, <2>1, <2>2
  <2>3. CASE i \in Resolvable
    <3> DEFINE st == Resolved(i, C)
    <3>1. charges'[i] = [charges[i] EXCEPT !.status = st] /\ st # "pending"
      BY <1>1, <2>1, <2>3 DEF Resolved
    <3> HIDE DEF st
    <3>2. charges'[i].status = st
      BY <1>1, <3>1 DEF Charge
    <3> QED
      BY <3>1, <3>2 DEF Broadcasts
  <2> QED
    BY <2>2, <2>3
<1>8. CASE Owner
  BY <1>1, <1>2, <1>8 DEF Owner, Freeze, Unfreeze, Revoke, Expire, DeleteDeadCard
<1>9. CASE \E j \in ChargeIds : Age(j)
  <2>1. PICK j \in ChargeIds : Age(j)
    BY <1>9
  <2>2. CASE j # i
    BY <1>1, <1>2, <2>1, <2>2 DEF Age
  <2>3. CASE j = i
    BY <1>1, <2>1, <2>3 DEF Age, Charge, Broadcasts, BroadcastStep
  <2> QED
    BY <2>2, <2>3
<1>10. CASE \E p \in Spenders : ResumeSpend(p)
  BY <1>1, <1>10, SpendBroadcasts
<1>11. CASE UNCHANGED charges
  BY <1>2, <1>11
<1> QED
  BY <1>3, <1>4, <1>5, <1>6, <1>7, <1>8, <1>9, <1>10, <1>11
     DEF Next, Microtask, Task, World, Chain, CatchSettle, SettleReturns, FreezeParked,
         RetrySettle, AgentSpend, ResumeSettle, ReadSettleRow, WakeSettler, StartSettleSweep,
         SweepNextRow, PostponeReconcile, RelayerAccepts, Mine, Drop, NextWindow, Crash, vars,
         storeVars, UnchangedButCalls

\* What a row holds stays a fee asked for it, but where a webhook inserts it.
LEMMA PricedKept ==
  ASSUME TypeInv, DrawnInv, NEW i \in PayCalls \cup Auths, [Next]_vars, Priced(i),
         \A n \in Amounts : i \in Auths => ~ApproveAuthorization(i, n)
  PROVE  Priced(i)'
<1> SUFFICES ASSUME charges'[i].status # "absent" PROVE charges'[i].fee \in Fees[i]
  BY DEF Priced
<1>1. CASE charges[i].status # "absent" /\ charges'[i].fee = charges[i].fee
  BY <1>1 DEF Priced
<1>2. ASSUME NEW p \in Spenders, Reserve(p), t[p].row = i, charges'[i].fee = t[p].fee
      PROVE  charges'[i].fee \in Fees[i]
  BY <1>2 DEF Reserve, DrawnInv, DrawnCall
<1> QED
  BY <1>1, <1>2, NextFees DEF FeeStep

\* A reservation books the fee of its call.
LEMMA ReservePrices ==
  ASSUME TypeInv, DrawnInv, NEW p \in Spenders, Reserve(p), NEW i, i = t[p].row
  PROVE  Priced(i)'
<1>1. t[p].pc = "estimate" /\ t[p].fee \in Fees[t[p].row]
  BY DEF Reserve, DrawnInv, DrawnCall
<1>2. /\ t[p].row \in ChargeIds /\ charges[t[p].row] \in Charge
      /\ charges \in [ChargeIds -> Charge]
  BY <1>1, RowIsCharge DEF TypeInv, TypeOK
<1>3. CASE SettleMode(p)
  <2> DEFINE row == [charges[t[p].row] EXCEPT !.fee = t[p].fee]
  <2>1. UpdateCharge(t[p].row, row) /\ row.fee = t[p].fee
    BY <1>2, <1>3 DEF Reserve, Charge
  <2> HIDE DEF row
  <2> QED
    BY <1>1, <1>2, <2>1 DEF UpdateCharge, Priced
<1>4. CASE ~SettleMode(p)
  <2> DEFINE row == [NoCharge EXCEPT !.status = "pending", !.card = t[p].card,
                       !.key = t[p].key, !.amount = t[p].amount,
                       !.fee = t[p].fee, !.win = t[p].win]
  <2>1. row.fee = t[p].fee
    BY DEF NoCharge
  <2>2. charges' = [charges EXCEPT ![p] = row]
    BY <1>4 DEF Reserve
  <2> HIDE DEF row
  <2>3. t[p].row = p /\ p \in ChargeIds
    BY <1>4, OwnRow DEF SettleMode, Spenders
  <2> QED
    BY <1>1, <1>2, <2>1, <2>2, <2>3 DEF Priced
<1> QED
  BY <1>3, <1>4

LEMMA NextDrawn ==
  ASSUME FiatInv, DrawnInv, [Next]_vars
  PROVE  DrawnInv'
<1>1. TypeInv /\ FiatRowInv
  BY DEF FiatInv, TypeInv
<1>2. ASSUME NEW i \in PayCalls \cup Auths, Priced(i), i \in Auths => Known(i)
      PROVE  Priced(i)' /\ (i \in Auths => Known(i)')
  BY <1>1, <1>2, PricedKept, ApprovedFresh, KnownStable
<1>3. ASSUME NEW p \in Spenders, t[p].pc \in {"block", "send"}
      PROVE  /\ t[p].row \in PayCalls \cup Auths /\ Priced(t[p].row)
             /\ t[p].row \in Auths => Known(t[p].row)
  <2>1. t[p].row \in PayCalls \cup Auths
    BY <1>1, <1>3 DEF TypeInv, RowInv, RowOK, Spenders
  <2>2. t[p].row \in Auths => Known(t[p].row)
    BY <1>1, <1>3, SettlerRows DEF SettleMode, FiatInv, KnownInv, Driven
  <2> QED
    BY <1>3, <2>1, <2>2 DEF DrawnInv, DrawnCall
<1>4. ASSUME NEW p \in Spenders PROVE DrawnCall(p)'
  <2>1. BlockMove(p)
    BY <1>1, NextBlockMove
  <2>2. ASSUME t'[p].pc \in {"estimate", "block", "send", "confirm"}
        PROVE  t'[p].fee \in Fees[t'[p].row]
    BY <2>1, <2>2 DEF BlockMove, DrawnInv, DrawnCall, Reserve
  <2>3. ASSUME t'[p].pc \in {"block", "send"} PROVE Priced(t[p].row)'
    <3>1. PICK i : i = t[p].row
      OBVIOUS
    <3>2. t'[p].row = i /\ (t[p].pc \in {"block", "send"} \/ Reserve(p))
      BY <2>1, <2>3, <3>1 DEF BlockMove
    <3>3. CASE Reserve(p)
      <4>1. Priced(i)'
        BY <1>1, <3>1, <3>3, ReservePrices
      <4> QED
        BY <3>2, <4>1 DEF Priced
    <3>4. CASE t[p].pc \in {"block", "send"}
      <4>1. i \in PayCalls \cup Auths /\ Priced(i) /\ (i \in Auths => Known(i))
        BY <1>3, <3>1, <3>4
      <4>2. Priced(i)'
        BY <1>2, <4>1
      <4> QED
        BY <3>2, <4>2 DEF Priced
    <3> QED
      BY <3>2, <3>3, <3>4
  <2> QED
    BY <2>2, <2>3 DEF DrawnCall
<1>5. ASSUME NEW i \in PayCalls \cup Auths, Broadcasts(charges[i])
      PROVE  Priced(i) /\ (i \in Auths => Known(i))
  BY <1>5 DEF DrawnInv, DrawnRow, Broadcasts, Known
<1>6. ASSUME NEW i \in PayCalls \cup Auths PROVE DrawnRow(i)'
  <2>1. ASSUME Broadcasts(charges'[i]) PROVE Priced(i)'
    BY <1>1, <1>2, <1>3, <1>5, <2>1, NextBroadcasts DEF BroadcastStep
  <2>2. ASSUME i \in recon' PROVE Priced(i)' /\ (i \in Auths => Known(i)')
    <3>1. i \in recon \/ i \in StaleCharges
      BY <2>2, NextListed
    <3>2. Priced(i) /\ (i \in Auths => Known(i))
      BY <1>5, <3>1 DEF StaleCharges, Broadcasts, DrawnInv, DrawnRow
    <3> QED
      BY <1>2, <3>2
  <2> QED
    BY <2>1, <2>2 DEF DrawnRow, Broadcasts
<1>7. ASSUME NEW r \in Redemptions' PROVE r.fee \in Fees[r.charge]
  BY <1>1, RedemptionStep DEF RelayerAccepts, DrawnInv, DrawnCall
<1>8. CarvesPlain'
  BY <1>1, NextCarves DEF DrawnInv
<1> QED
  BY <1>4, <1>6, <1>7, <1>8 DEF DrawnInv

LEMMA InitDrawn == Init => DrawnInv
<1> SUFFICES ASSUME Init PROVE DrawnInv
  OBVIOUS
<1>1. \A i \in ChargeIds : charges[i] = NoCharge
  BY DEF Init
<1>2. \A p \in Spenders : t[p].pc = "idle"
  BY DEF Init, NoCall
<1>3. Redemptions = {} /\ recon = {}
  BY DEF Init, Redemptions
<1> QED
  BY <1>1, <1>2, <1>3 DEF DrawnInv, DrawnCall, DrawnRow, CarvesPlain, Priced, NoCharge, ChargeIds

\* What the rows say of the agents' payments, throughout.
THEOREM PayInvariant == Spec => [](FiatInv /\ DrawnInv /\ PayInv)
<1>1. Init => FiatInv /\ DrawnInv /\ PayInv
  BY InitFiat, InitDrawn, InitPay
<1>2. FiatInv /\ DrawnInv /\ PayInv /\ [Next]_vars => (FiatInv /\ DrawnInv /\ PayInv)'
  BY NextFiat, NextDrawn, NextPay DEF FiatInv, TypeInv
<1> QED
  BY <1>1, <1>2, PTL DEF Spec

\* Retries under one idempotency key move money at most once, as long as a
\* send that errs was not queued: the synchronous look at the key's rows, at
\* the start and at the reservation, leaves one live payment per key.
THEOREM OnePayment ==
  ASSUME ~AmbiguousSend
  PROVE  Spec => []OneTransferPerKey
<1>1. PayInv /\ OneLive => OneTransferPerKey
  <2> SUFFICES ASSUME OneLive, NEW c \in Cards, NEW k \in Keys
               PROVE  Cardinality({p \in PayCalls : /\ t[p].card = c /\ t[p].key = k
                                                    /\ IsMined(p) \/ IsInflight(p)}) <= 1
    BY DEF OneTransferPerKey
  <2> DEFINE S == {p \in PayCalls : /\ t[p].card = c /\ t[p].key = k
                                    /\ IsMined(p) \/ IsInflight(p)}
  <2>1. \A p, q \in S : p = q
    BY DEF OneLive, Live, Moved, SameRequest
  <2>2. S = {} \/ \E p : S = {p}
    BY <2>1
  <2>3. Cardinality(S) <= 1
    <3> HIDE DEF S
    <3>1. CASE S = {}
      BY <3>1, FS_EmptySet
    <3>2. ASSUME NEW p, S = {p} PROVE Cardinality(S) <= 1
      <4>1. Cardinality({p}) = 1
        BY FS_Singleton
      <4> QED
        BY <3>2, <4>1
    <3> QED
      BY <2>2, <3>1, <3>2
  <2> QED
    BY <2>3
<1>2. Init => OneLive
  <2>1. Init => \A p \in PayCalls : ~Live(p)
    BY DEF Init, Live, Moved, IsMined, IsInflight, NoCall, Spenders
  <2> QED
    BY <2>1 DEF OneLive
<1>3. FiatInv /\ PayInv /\ OneLive /\ [Next]_vars => OneLive'
  BY NextOneLive DEF FiatInv, TypeInv
<1> QED
  BY <1>1, <1>2, <1>3, PayInvariant, PTL DEF Spec

-----------------------------------------------------------------------------
(* What is confirmed is mined. *)

OnChainCharges == PayCalls \cup (IF SettlementOn THEN Auths ELSE {})

LEMMA NotConfirming ==
  ASSUME TypeInv, NEW i \in ChargeIds, NEW j, NEW row, UpdateCharge(j, row),
         row.status # "confirmed" \/ row.status = charges[j].status,
         charges'[i].status = "confirmed"
  PROVE  charges[i].status = "confirmed"
BY DEF UpdateCharge, TypeInv, TypeOK

\* Where fees are distinct the log of a fee is that of the charge asked for it.
LEMMA LogIsMine ==
  ASSUME TypeInv, DrawnInv, FeesDistinct, NEW i \in ChargeIds, NEW f \in Fees[i],
         NEW k \in DOMAIN mined, LogMatches(k, f)
  PROVE  mined[k].charge = i
<1>1. mined[k] \in Redemptions /\ mined[k].fee = f
  BY DEF Redemptions, LogMatches
<1>2. mined[k].charge \in ChargeIds
  <2>1. mined \in Seq(Redemption)
    BY DEF TypeInv, TypeOK
  <2>2. mined[k] \in Redemption
    BY <2>1, ElementOfSeq, LenProperties
  <2> QED
    BY <2>2 DEF Redemption
<1>3. f \in Fees[mined[k].charge]
  BY <1>1 DEF DrawnInv
<1> QED
  BY <1>2, <1>3 DEF FeesDistinct

LEMMA FoundIsMined ==
  ASSUME TypeInv, DrawnInv, FeesDistinct, NEW i \in ChargeIds, NEW f \in Fees[i], NEW n,
         LogFound(f, n)
  PROVE  IsMined(i)
BY LogIsMine DEF LogFound, IsMined

\* spend() confirms a row when its redemption is mined.
LEMMA SpendConfirms ==
  ASSUME TypeInv, DrawnInv, FeesDistinct, NEW i \in ChargeIds, NEW p \in Spenders,
         ResumeSpend(p), charges'[i].status = "confirmed"
  PROVE  charges[i].status = "confirmed" \/ IsMined(i)
<1>1. t[p].pc # "idle"
  BY DEF ResumeSpend, PlanFee, RaiseFee, RefuseUnreserved, Reserve, LoseBlock, RefuseReserved,
         Broadcast, SendReturns, SendThrows, Confirm, Revert, GiveUpConfirming
<1>2. t[p].row \in ChargeIds /\ charges[t[p].row] \in Charge
  BY <1>1, RowIsCharge DEF TypeInv, TypeOK
<1>3. ~SettleMode(p) => p \in ChargeIds /\ charges[p] \in Charge
  BY DEF SettleMode, Spenders, ChargeIds, TypeInv, TypeOK
<1>4. CASE UNCHANGED charges
  BY <1>4
<1>5. CASE Reserve(p)
  <2>1. CASE SettleMode(p)
    <3> DEFINE row == [charges[t[p].row] EXCEPT !.fee = t[p].fee]
    <3>1. row.status = charges[t[p].row].status
      BY <1>2 DEF Charge
    <3>2. UpdateCharge(t[p].row, row)
      BY <1>5, <2>1 DEF Reserve
    <3> HIDE DEF row
    <3> QED
      BY <3>1, <3>2, NotConfirming
  <2>2. CASE ~SettleMode(p)
    <3>1. PICK row \in Charge : row.status = "pending" /\ charges' = [charges EXCEPT ![p] = row]
      <4> DEFINE row == [NoCharge EXCEPT !.status = "pending", !.card = t[p].card,
                           !.key = t[p].key, !.amount = t[p].amount,
                           !.fee = t[p].fee, !.win = t[p].win]
      <4>1. row.status = "pending"
        BY DEF NoCharge
      <4>2. row \in Charge
        <5>1. t[p] \in Call
          BY DEF TypeInv, TypeOK
        <5> QED
          BY <5>1 DEF NoCharge, Charge, ChargeStatuses, Call
      <4>3. charges' = [charges EXCEPT ![p] = row]
        BY <1>5, <2>2 DEF Reserve
      <4> HIDE DEF row
      <4> QED
        BY <4>1, <4>2, <4>3
    <3> QED
      BY <3>1 DEF TypeInv, TypeOK
  <2> QED
    BY <2>1, <2>2
<1>6. CASE RefuseReserved(p) \/ SendThrows(p)
  <2>1. CASE SettleMode(p)
    BY <1>6, <2>1 DEF RefuseReserved, SendThrows
  <2>2. CASE ~SettleMode(p)
    <3> DEFINE row == [charges[p] EXCEPT !.status = "failed"]
    <3>1. row.status = "failed" /\ UpdateCharge(p, row)
      BY <1>3, <1>6, <2>2 DEF RefuseReserved, SendThrows, Charge
    <3> HIDE DEF row
    <3> QED
      BY <3>1, NotConfirming
  <2> QED
    BY <2>1, <2>2
<1>7. CASE Broadcast(p)
  <2>1. CASE ~SettleMode(p)
    BY <1>7, <2>1 DEF Broadcast
  <2>2. CASE SettleMode(p)
    <3> DEFINE n == Len(mined)
               row == [charges[t[p].row] EXCEPT !.request = "claim", !.since = n]
    <3>1. UpdateCharge(t[p].row, row)
      BY <1>7, <2>2 DEF Broadcast
    <3> HIDE DEF n
    <3>2. row.status = charges[t[p].row].status
      BY <1>2 DEF Charge
    <3> HIDE DEF row
    <3> QED
      BY <3>1, <3>2, NotConfirming
  <2> QED
    BY <2>1, <2>2
<1>8. CASE SendReturns(p)
  <2> DEFINE row == [charges[t[p].row] EXCEPT !.request = "sent", !.since = t[p].since]
  <2>1. row.status = charges[t[p].row].status /\ UpdateCharge(t[p].row, row)
    BY <1>2, <1>8 DEF SendReturns, Charge
  <2> HIDE DEF row
  <2> QED
    BY <2>1, NotConfirming
<1>9. CASE Confirm(p)
  <2>1. IsMined(t[p].row)
    <3>1. t[p].fee \in Fees[t[p].row]
      BY <1>9 DEF Confirm, DrawnInv, DrawnCall
    <3>2. ReadsConfirmed(t[p].row, t[p].fee, t[p].since)
      BY <1>9 DEF Confirm
    <3> QED
      BY <1>2, <3>1, <3>2, FoundIsMined DEF ReadsConfirmed
  <2>2. CASE i = t[p].row
    BY <2>1, <2>2
  <2>3. CASE i # t[p].row
    BY <1>9, <2>3 DEF Confirm, UpdateCharge, TypeInv, TypeOK
  <2> QED
    BY <2>2, <2>3
<1>10. CASE Revert(p)
  <2> DEFINE st == IF SettleMode(p) THEN "settlement_unconfirmed" ELSE "failed"
             row == [charges[t[p].row] EXCEPT !.status = st]
  <2>1. row.status = st /\ st # "confirmed" /\ UpdateCharge(t[p].row, row)
    BY <1>2, <1>10 DEF Revert, Charge
  <2> HIDE DEF row
  <2> QED
    BY <2>1, NotConfirming
<1> QED
  BY <1>4, <1>5, <1>6, <1>7, <1>8, <1>9, <1>10
     DEF ResumeSpend, PlanFee, RaiseFee, RefuseUnreserved, LoseBlock, GiveUpConfirming

LEMMA NextConfirms ==
  ASSUME TypeInv, DrawnInv, FeesDistinct, NEW i \in OnChainCharges, [Next]_vars,
         charges'[i].status = "confirmed"
  PROVE  charges[i].status = "confirmed" \/ IsMined(i)
<1>1. i \in ChargeIds /\ charges \in [ChargeIds -> Charge] /\ charges[i] \in Charge
      /\ (i \in Auths => SettlementOn)
  BY StoreAssumption DEF OnChainCharges, ChargeIds, TypeInv, TypeOK
<1>2. CASE UNCHANGED charges
  BY <1>2
<1>3. CASE \E p \in Spenders : EnterSpend(p)
  <2>1. NoCharge.status = "absent"
    BY DEF NoCharge
  <2> QED
    BY <1>1, <1>3, <2>1 DEF EnterSpend, ReplayKey, ReplaySettle, StartSpend
<1>4. CASE \E s \in Settlers : ParkRow(s)
  <2>1. PICK s \in Settlers : ParkRow(s)
    BY <1>4
  <2> DEFINE row == [charges[t[s].row] EXCEPT !.status = "settlement_unconfirmed"]
  <2>2. t[s].row \in ChargeIds
    <3>1. s \in Spenders /\ t[s].pc # "idle"
      BY <2>1 DEF Spenders, ParkRow, Failed
    <3> QED
      BY <3>1, RowIsCharge DEF TypeInv
  <2>3. row.status = "settlement_unconfirmed" /\ UpdateCharge(t[s].row, row)
    BY <1>1, <2>1, <2>2 DEF ParkRow, Charge
  <2> HIDE DEF row
  <2> QED
    BY <1>1, <2>3, NotConfirming
<1>5. CASE \E a \in Auths, n \in Amounts : ApproveAuthorization(a, n)
  <2>1. PICK a \in Auths, n \in Amounts : ApproveAuthorization(a, n)
    BY <1>5
  <2>2. CASE i # a
    BY <1>1, <2>1, <2>2 DEF ApproveAuthorization
  <2>3. CASE i = a
    <3> DEFINE row == [NoCharge EXCEPT !.status = "pending", !.card = AuthCard[a],
                         !.key = a, !.amount = n, !.fee = Headroom, !.win = window,
                         !.request = "null"]
    <3>1. charges' = [charges EXCEPT ![a] = row]
      BY <1>1, <2>1, <2>3 DEF ApproveAuthorization
    <3>2. row.status = "pending"
      BY DEF NoCharge
    <3> HIDE DEF row
    <3> QED
      BY <1>1, <2>3, <3>1, <3>2
  <2> QED
    BY <2>2, <2>3
<1>6. CASE StartReconcile
  <2>1. ASSUME charges'[i] = [charges[i] EXCEPT !.status = "failed"] PROVE FALSE
    BY <1>1, <2>1 DEF Charge
  <2> QED
    BY <1>1, <1>6, <2>1 DEF StartReconcile
<1>7. CASE ResolveStale
  <2>1. PICK C \in LogClaims :
          charges' = [j \in ChargeIds |->
             IF j \in Resolvable
             THEN [charges[j] EXCEPT !.status = Resolved(j, C)]
             ELSE charges[j]]
    BY <1>7 DEF ResolveStale
  <2>2. CASE i \notin Resolvable
    BY <1>1, <2>1, <2>2
  <2>3. CASE i \in Resolvable
    <3>1. Resolved(i, C) = "confirmed"
      <4> DEFINE st == Resolved(i, C)
      <4>1. charges'[i] = [charges[i] EXCEPT !.status = st]
        BY <1>1, <2>1, <2>3
      <4> HIDE DEF st
      <4>2. charges'[i].status = st
        BY <1>1, <4>1 DEF Charge
      <4> QED
        BY <4>2 DEF st
    <3>2. i \in C
      BY <3>1 DEF Resolved
    <3>3. PICK f \in [C -> ScannedLogs] : \A j \in C : LogMatches(f[j], charges[j].fee)
      BY <3>2 DEF LogClaims
    <3>4. f[i] \in DOMAIN mined
      BY <3>2 DEF ScannedLogs
    <3>5. charges[i].fee \in Fees[i]
      BY <2>3, StoreAssumption DEF Resolvable, DrawnInv, DrawnRow, Priced, OnChainCharges
    <3> QED
      BY <1>1, <3>2, <3>3, <3>4, <3>5, LogIsMine DEF IsMined
  <2> QED
    BY <2>2, <2>3
<1>8. CASE Owner
  <2>1. NoCharge.status = "absent"
    BY DEF NoCharge
  <2> QED
    BY <1>1, <1>8, <2>1 DEF Owner, Freeze, Unfreeze, Revoke, Expire, DeleteDeadCard
<1>9. CASE \E j \in ChargeIds : Age(j)
  <2>1. PICK j \in ChargeIds : Age(j)
    BY <1>9
  <2> QED
    BY <1>1, <2>1 DEF Age, Charge
<1>10. CASE \E p \in Spenders : ResumeSpend(p)
  BY <1>1, <1>10, SpendConfirms
<1> QED
  BY <1>2, <1>3, <1>4, <1>5, <1>6, <1>7, <1>8, <1>9, <1>10
     DEF Next, Microtask, Task, World, Chain, CatchSettle, SettleReturns, FreezeParked,
         RetrySettle, AgentSpend, ResumeSettle, ReadSettleRow, WakeSettler, StartSettleSweep,
         SweepNextRow, PostponeReconcile, RelayerAccepts, Mine, Drop, NextWindow, Crash, vars,
         storeVars, UnchangedButCalls

LEMMA MinedStays ==
  ASSUME TypeInv, NEW i, IsMined(i), [Next]_vars
  PROVE  IsMined(i)'
<1>1. ASSUME NEW r \in inflight, Mine(r) PROVE IsMined(i)'
  <2>1. mined' = Append(mined, r)
    BY <1>1 DEF Mine
  <2> QED
    BY <2>1, MinedAppends DEF IsMined
<1> QED
  BY <1>1, ChainStep DEF IsMined, RelayerAccepts, Drop

\* Whichever of the inline confirmation and the reconcile sweep confirms a
\* charge, its redemption is on the chain, as long as no two charges are given the
\* same fee: what links a log to a charge is only the fee it paid, whoever's
\* estimate, reservation and row carried that fee on the way.
THEOREM ConfirmedMined ==
  ASSUME FeesDistinct
  PROVE  Spec => []ConfirmedIsMined
<1>1. Init => ConfirmedIsMined
  <2>1. Init => \A i \in ChargeIds : charges[i].status = "absent"
    BY DEF Init, NoCharge
  <2> QED
    BY <2>1 DEF ConfirmedIsMined, ChargeIds
<1>2. FiatInv /\ DrawnInv /\ ConfirmedIsMined /\ [Next]_vars => ConfirmedIsMined'
  BY NextConfirms, MinedStays DEF FiatInv, TypeInv, ConfirmedIsMined, OnChainCharges
<1> QED
  BY <1>1, <1>2, PayInvariant, PTL DEF Spec

-----------------------------------------------------------------------------
(* The books cover the chain. *)

\* The fee that a settlement broadcasts is the one in its row.
FeeOK(a) ==
    /\ \A r \in Redemptions : r.charge = a =>
          sent[a] # 0 /\ (charges[a].status # "absent" => charges[a].fee = r.fee)
    /\ \A s \in Settlers :
          t[s].pc \in {"block", "send"} /\ t[s].row = a /\ charges[a].status # "absent"
            => charges[a].fee = t[s].fee

\* Every redemption is an agent's payment or a settlement.
FeeInv ==
    /\ \A a \in Auths : FeeOK(a)
    /\ \A r \in Redemptions : r.charge \in PayCalls \cup Auths

LEMMA NextFeeInv ==
  ASSUME FiatInv, FeeInv, [Next]_vars
  PROVE  FeeInv'
<1>1. TypeInv /\ FiatRowInv /\ SettleKeyInv /\ ClaimInv
  BY DEF FiatInv, TypeInv
<1>2. ASSUME NEW s \in Settlers, NEW a \in Auths, Reserve(s), t[s].row = a
      PROVE  /\ sent[a] = 0
             /\ charges'[a].status # "absent" => charges'[a].fee = t[s].fee
  <2>1. t[s].pc = "estimate" /\ SettleMode(s)
    BY <1>2 DEF Reserve, SettleMode
  <2>2. /\ a \in ChargeIds /\ charges \in [ChargeIds -> Charge] /\ charges[a] \in Charge
    BY <1>1 DEF ChargeIds, TypeInv, TypeOK
  <2> DEFINE row == [charges[a] EXCEPT !.fee = t[s].fee]
  <2>3. UpdateCharge(a, row) /\ row.fee = t[s].fee
    BY <1>2, <2>1, <2>2 DEF Reserve, Charge
  <2> HIDE DEF row
  <2> QED
    BY <1>1, <1>2, <2>1, <2>2, <2>3 DEF UpdateCharge, ClaimInv, ClaimOK
<1>3. ASSUME NEW a \in Auths, NEW r \in Redemptions', r.charge = a
      PROVE  sent'[a] # 0 /\ (charges'[a].status # "absent" => charges'[a].fee = r.fee)
  <2>1. a \in ChargeIds /\ sent \in [ChargeIds -> 0..2]
    BY <1>1 DEF ChargeIds, TypeInv, TypeOK
  <2>2. CASE r \in Redemptions
    <3>1. sent[a] # 0 /\ (charges[a].status # "absent" => charges[a].fee = r.fee)
      BY <1>3, <2>2 DEF FeeInv, FeeOK
    <3>2. sent'[a] # 0
      BY <2>1, <3>1, SentStep DEF RelayerAccepts
    <3>3. charges'[a].status # "absent" => charges'[a].fee = r.fee
      BY <1>1, <1>2, <3>1, NextFiatFees, ApprovedFresh
    <3> QED
      BY <3>2, <3>3
  <2>3. ASSUME NEW q \in Spenders, RelayerAccepts(q), r.charge = t[q].row, r.fee = t[q].fee
        PROVE  sent'[a] # 0 /\ (charges'[a].status # "absent" => charges'[a].fee = r.fee)
    <3>1. t[q].pc = "send" /\ ~t[q].accepted /\ UNCHANGED charges /\ t[q].row = a
      BY <1>3, <2>3 DEF RelayerAccepts, storeVars
    <3>2. q \in Settlers
      BY <1>1, <3>1, SettlerRows DEF SettleMode
    <3>3. sent[a] = 0
      BY <1>1, <3>1, <3>2 DEF ClaimInv, ClaimOK
    <3>4. sent'[a] = 1
      BY <2>1, <2>3, <3>1, <3>3 DEF RelayerAccepts
    <3> QED
      BY <2>3, <3>1, <3>2, <3>4 DEF FeeInv, FeeOK
  <2> QED
    BY <1>1, <2>2, <2>3, RedemptionStep
<1>4. ASSUME NEW a \in Auths, NEW s \in Settlers, t'[s].pc \in {"block", "send"},
             t'[s].row = a, charges'[a].status # "absent"
      PROVE  charges'[a].fee = t'[s].fee
  <2>1. /\ t[s].row = a /\ t'[s].fee = t[s].fee
        /\ t[s].pc \in {"block", "send"} \/ Reserve(s)
    BY <1>1, <1>4, NextBlockMove DEF BlockMove, Spenders
  <2>2. t[s].pc \in InSection
    BY <2>1 DEF Reserve, InSection
  <2>3. CASE Reserve(s)
    BY <1>2, <1>4, <2>1, <2>3
  <2>4. CASE t[s].pc \in {"block", "send"}
    <3>1. CASE charges[a].status # "absent" /\ charges'[a].fee = charges[a].fee
      BY <2>1, <2>4, <3>1 DEF FeeInv, FeeOK
    <3>2. ASSUME NEW q \in Settlers, Reserve(q), t[q].row = a, charges'[a].fee = t[q].fee
          PROVE  charges'[a].fee = t'[s].fee
      <4>1. t[q].pc \in InSection
        BY <3>2 DEF Reserve, InSection
      <4>2. q = s
        BY <1>1, <2>1, <2>2, <3>2, <4>1, OneHolder
      <4> QED
        BY <2>1, <3>2, <4>2
    <3>3. ASSUME NEW n \in Amounts, ApproveAuthorization(a, n) PROVE FALSE
      <4>1. Driven(s, a)
        BY <2>1, <2>4 DEF Driven
      <4> QED
        BY <3>3, <4>1, ApprovedFresh
    <3> QED
      BY <1>1, <1>4, <3>1, <3>2, <3>3, NextFiatFees
  <2> QED
    BY <2>1, <2>3, <2>4
<1>5. ASSUME NEW r \in Redemptions' PROVE r.charge \in PayCalls \cup Auths
  <2>1. CASE r \in Redemptions
    BY <2>1 DEF FeeInv
  <2>2. ASSUME NEW q \in Spenders, RelayerAccepts(q), r.charge = t[q].row
        PROVE  r.charge \in PayCalls \cup Auths
    BY <1>1, <2>2 DEF RelayerAccepts, TypeInv, RowInv, RowOK, Spenders
  <2> QED
    BY <1>1, <2>1, <2>2, RedemptionStep
<1> QED
  BY <1>3, <1>4, <1>5 DEF FeeInv, FeeOK

LEMMA FeeInvariant == Spec => []FeeInv
<1>1. Init => FeeInv
  <2>1. Init => Redemptions = {} /\ \A s \in Settlers : t[s].pc = "idle"
    BY DEF Init, Redemptions, Spenders, NoCall
  <2> QED
    BY <2>1 DEF FeeInv, FeeOK
<1>2. FiatInv /\ FeeInv /\ [Next]_vars => FeeInv'
  BY NextFeeInv
<1> QED
  BY <1>1, <1>2, FiatInvariant, PTL DEF Spec

\* What the rows say of a redemption on the chain.
LEMMA MinedIsHeld ==
  ASSUME ~AmbiguousSend, FiatInv, PayInv, FeeInv, NEW k \in DOMAIN mined, NEW i,
         i = mined[k].charge, cardStatus[CardOf(i)] # "deleted"
  PROVE  /\ charges[i].status # "absent" /\ charges[i].fee = mined[k].fee
         /\ charges[i].status = "failed" => (FailuresReal => charges[i].aged /\ ~Traced)
<1>1. mined[k] \in Redemptions
  BY DEF Redemptions
<1>2. CASE i \in Auths
  BY <1>1, <1>2 DEF FeeInv, FeeOK, CardOf, FiatInv, FiatRowInv, ClaimInv, Claimed, Known
<1>3. CASE i \in PayCalls
  <2>1. Moved(i) /\ i \notin Auths
    BY <1>3, StoreAssumption DEF Moved, IsMined
  <2>2. RowGood(i, t[i], charges[i], Gone(i))
    BY <1>3 DEF PayInv, PayOK
  <2> QED
    BY <1>1, <2>1, <2>2 DEF RowGood, HeldOK, CardOf, Gone
<1> QED
  BY <1>1, <1>2, <1>3 DEF FeeInv

\* A redemption on the chain is still counted by the books, with the fee the
\* chain took, unless its card was deleted; as long as a send that errs was not
\* queued, failures are real, FEE_COLLECTOR is the collector that is paid and no
\* two charges are given the same fee.
THEOREM BooksCover ==
  ASSUME ~AmbiguousSend, FailuresReal, CollectorMatches, FeesDistinct
  PROVE  Spec => []BooksCoverChain
<1>1. FiatInv /\ PayInv /\ FeeInv => BooksCoverChain
  BY MinedIsHeld DEF BooksCoverChain, Traced
<1> QED
  BY <1>1, FeeInvariant, PayInvariant, PTL

\* Whatever FEE_COLLECTOR and the fees are, the budget of a redemption that is on
\* the chain is held, with the fee the chain took, until the reconcile sweep gives
\* it up ten minutes later.
THEOREM SweepReleases ==
  ASSUME ~AmbiguousSend, FailuresReal
  PROVE  Spec => []OnlySweepReleases
<1>1. FiatInv /\ PayInv /\ FeeInv => OnlySweepReleases
  BY MinedIsHeld DEF OnlySweepReleases
<1> QED
  BY <1>1, FeeInvariant, PayInvariant, PTL

-----------------------------------------------------------------------------
(* The caps.  The definitions take the books as an argument: what is summed  *)
(* is then a constant in every step.                                         *)

InBooks(row) == row.status \notin {"absent", "failed"}

\* A settlement pays the fee that its authorization reserved.
Reserved == SettlementOn => \A a \in Auths : Fees[a] \subseteq {FeeHeadroom}

\* What a row holds of a budget, but for a fee that its settlement rewrites.
Firm(i, row) == row.amount + (IF i \in Auths /\ ~Reserved THEN 0 ELSE row.fee)

Firms(cs) == [i \in ChargeIds |-> Firm(i, cs[i])]

Totals(cs) == [i \in ChargeIds |-> cs[i].amount + cs[i].fee]

CountedIn(cs, c) == {i \in ChargeIds : InBooks(cs[i]) /\ cs[i].card \in SubtreeOf(c)}

InWindow(cs, c, w) == {i \in CountedIn(cs, c) : cs[i].win = w}

SinceWindow(cs, c, w) == {i \in CountedIn(cs, c) : cs[i].win >= w}

CardFits(cs, c) ==
    /\ IsFiniteSet(CountedIn(cs, c))
    /\ SumOver(Firms(cs), CountedIn(cs, c)) <= LifetimeCap[c]
    /\ \A w \in Nat : SumOver(Firms(cs), InWindow(cs, c, w)) <= PeriodCap[c]
    /\ Cardinality(CountedIn(cs, c)) <= MaxUses[c]

BooksFit(cs) == \A c \in Cards : CardFits(cs, c)

\* The room that validateSpend finds for a row, at one card.
RoomAt(cs, a, w, firm) ==
    /\ Cardinality(CountedIn(cs, a)) < MaxUses[a]
    /\ SumOver(Firms(cs), SinceWindow(cs, a, w)) + firm <= PeriodCap[a]
    /\ SumOver(Firms(cs), CountedIn(cs, a)) + firm <= LifetimeCap[a]

LEMMA FirmNat ==
  ASSUME NEW cs \in [ChargeIds -> Charge], NEW i \in ChargeIds
  PROVE  /\ Firms(cs)[i] \in Nat /\ Totals(cs)[i] \in Nat
         /\ Firms(cs)[i] <= Totals(cs)[i]
         /\ Reserved \/ i \notin Auths => Firms(cs)[i] = Totals(cs)[i]
<1>1. cs[i].amount \in Nat /\ cs[i].fee \in Nat
  BY DEF Charge
<1> QED
  BY <1>1 DEF Firms, Totals, Firm

LEMMA CapsNat ==
  ASSUME NEW c \in Cards
  PROVE  PeriodCap[c] \in Nat /\ LifetimeCap[c] \in Nat /\ MaxUses[c] \in Nat
BY StoreAssumption

\* A part of the rows, or rows with other marks that hold no more, fit as well.
ShrinksAt(cs, ds, i) ==
    InBooks(ds[i]) =>
        /\ InBooks(cs[i]) /\ ds[i].card = cs[i].card /\ ds[i].win = cs[i].win
        /\ Firm(i, ds[i]) = Firm(i, cs[i])

Shrinks(cs, ds) == \A i \in ChargeIds : ShrinksAt(cs, ds, i)

Lessens(cs, ds) ==
    \A i \in ChargeIds : InBooks(ds[i]) =>
        /\ InBooks(cs[i]) /\ ds[i].card = cs[i].card /\ ds[i].win = cs[i].win
        /\ Firm(i, ds[i]) <= Firm(i, cs[i])

LEMMA ShrinksLessens ==
  ASSUME NEW cs \in [ChargeIds -> Charge], NEW ds, Shrinks(cs, ds)
  PROVE  Lessens(cs, ds)
<1> SUFFICES ASSUME NEW i \in ChargeIds, InBooks(ds[i])
             PROVE  /\ InBooks(cs[i]) /\ ds[i].card = cs[i].card /\ ds[i].win = cs[i].win
                    /\ Firm(i, ds[i]) <= Firm(i, cs[i])
  BY DEF Lessens
<1>1. Firm(i, cs[i]) \in Nat
  BY FirmNat DEF Firms
<1> QED
  BY <1>1 DEF Shrinks, ShrinksAt

LEMMA PartFits ==
  ASSUME NEW cs \in [ChargeIds -> Charge], NEW ds \in [ChargeIds -> Charge],
         Lessens(cs, ds), NEW S, IsFiniteSet(S), S \subseteq ChargeIds,
         NEW T, T \subseteq S, \A i \in T : InBooks(ds[i])
  PROVE  SumOver(Firms(ds), T) <= SumOver(Firms(cs), S)
<1>1. IsFiniteSet(T)
  BY FS_Subset
<1>2. \A i \in T : Firms(ds)[i] <= Firms(cs)[i]
  BY DEF Lessens, Firms
<1>3. \A i \in S : Firms(cs)[i] \in Nat /\ Firms(ds)[i] \in Nat
  BY FirmNat
<1>4. SumOver(Firms(ds), T) <= SumOver(Firms(cs), T)
  BY <1>1, <1>2, <1>3, SumOverMonotone
<1>5. SumOver(Firms(cs), T) <= SumOver(Firms(cs), S)
  BY <1>3, SumOverPart
<1>6. /\ SumOver(Firms(ds), T) \in Nat /\ SumOver(Firms(cs), T) \in Nat
      /\ SumOver(Firms(cs), S) \in Nat
  BY <1>1, <1>3, SumOverNat
<1> QED
  BY <1>4, <1>5, <1>6

LEMMA LessFits ==
  ASSUME NEW cs \in [ChargeIds -> Charge], NEW ds \in [ChargeIds -> Charge],
         Lessens(cs, ds), BooksFit(cs)
  PROVE  BooksFit(ds)
<1> SUFFICES ASSUME NEW c \in Cards PROVE CardFits(ds, c)
  BY DEF BooksFit
<1> DEFINE S == CountedIn(cs, c)
           T == CountedIn(ds, c)
<1>1. CardFits(cs, c)
  BY DEF BooksFit
<1>2. T \subseteq S /\ S \subseteq ChargeIds /\ \A i \in T : InBooks(ds[i])
  BY DEF CountedIn, Lessens
<1>3. IsFiniteSet(S)
  BY <1>1 DEF CardFits
<1>4. IsFiniteSet(T) /\ Cardinality(T) <= Cardinality(S)
      /\ Cardinality(S) \in Nat /\ Cardinality(T) \in Nat
  BY <1>2, <1>3, FS_Subset, FS_CardinalityType
<1>5. SumOver(Firms(ds), T) <= SumOver(Firms(cs), S)
      /\ SumOver(Firms(cs), S) \in Nat /\ SumOver(Firms(ds), T) \in Nat
  <2>1. \A i \in ChargeIds : Firms(cs)[i] \in Nat /\ Firms(ds)[i] \in Nat
    BY FirmNat
  <2> QED
    BY <1>2, <1>3, <1>4, <2>1, PartFits, SumOverNat
<1>6. ASSUME NEW w \in Nat PROVE SumOver(Firms(ds), InWindow(ds, c, w)) <= PeriodCap[c]
  <2>1. /\ InWindow(ds, c, w) \subseteq InWindow(cs, c, w)
        /\ InWindow(cs, c, w) \subseteq S /\ InWindow(ds, c, w) \subseteq T
    BY <1>2 DEF InWindow, CountedIn, Lessens
  <2>2. IsFiniteSet(InWindow(cs, c, w)) /\ IsFiniteSet(InWindow(ds, c, w))
    BY <1>3, <1>4, <2>1, FS_Subset
  <2>3. SumOver(Firms(ds), InWindow(ds, c, w)) <= SumOver(Firms(cs), InWindow(cs, c, w))
    BY <1>2, <2>1, <2>2, PartFits
  <2>4. \A i \in ChargeIds : Firms(cs)[i] \in Nat /\ Firms(ds)[i] \in Nat
    BY FirmNat
  <2>5. /\ SumOver(Firms(ds), InWindow(ds, c, w)) \in Nat
        /\ SumOver(Firms(cs), InWindow(cs, c, w)) \in Nat
    BY <1>2, <2>1, <2>2, <2>4, SumOverNat
  <2> QED
    BY <1>1, <2>3, <2>5, CapsNat DEF CardFits
<1> QED
  BY <1>1, <1>4, <1>5, <1>6, CapsNat DEF CardFits

\* A row for which there is room at every card above it fits.
LEMMA AddFits ==
  ASSUME NEW cs \in [ChargeIds -> Charge], BooksFit(cs),
         NEW i \in ChargeIds, ~InBooks(cs[i]), NEW row \in Charge,
         row.card \in Cards,
         \A a \in AncestorsOf[row.card] : RoomAt(cs, a, row.win, Firm(i, row))
  PROVE  BooksFit([cs EXCEPT ![i] = row])
<1> DEFINE ds == [cs EXCEPT ![i] = row]
<1> SUFFICES ASSUME NEW c \in Cards PROVE CardFits(ds, c)
  BY DEF BooksFit
<1>1. /\ ds \in [ChargeIds -> Charge] /\ ds[i] = row
      /\ \A j \in ChargeIds \ {i} : ds[j] = cs[j]
  OBVIOUS
<1> HIDE DEF ds
<1> DEFINE S == CountedIn(cs, c)
           firm == Firm(i, row)
<1>2. CardFits(cs, c)
  BY DEF BooksFit
<1>3. IsFiniteSet(S) /\ S \subseteq ChargeIds /\ i \notin S
  BY <1>2 DEF CardFits, CountedIn
<1>4. /\ \A j \in ChargeIds : Firms(cs)[j] \in Nat /\ Firms(ds)[j] \in Nat
      /\ Firms(ds)[i] = firm /\ firm \in Nat
      /\ \A j \in ChargeIds \ {i} : Firms(ds)[j] = Firms(cs)[j]
  <2>1. \A j \in ChargeIds : Firms(cs)[j] \in Nat /\ Firms(ds)[j] \in Nat
    BY <1>1, FirmNat
  <2>2. Firms(ds)[i] = firm /\ \A j \in ChargeIds \ {i} : Firms(ds)[j] = Firms(cs)[j]
    BY <1>1 DEF Firms
  <2> QED
    BY <2>1, <2>2
<1>5. ASSUME NEW A, A \subseteq S
      PROVE  /\ IsFiniteSet(A) /\ SumOver(Firms(ds), A) = SumOver(Firms(cs), A)
             /\ SumOver(Firms(cs), A) \in Nat
             /\ SumOver(Firms(ds), A \cup {i}) = SumOver(Firms(cs), A) + firm
  <2>1. IsFiniteSet(A)
    BY <1>3, <1>5, FS_Subset
  <2>2. \A j \in A : Firms(ds)[j] = Firms(cs)[j] /\ Firms(cs)[j] \in Nat
    BY <1>3, <1>4, <1>5
  <2>3. SumOver(Firms(ds), A) = SumOver(Firms(cs), A) /\ SumOver(Firms(cs), A) \in Nat
    BY <2>1, <2>2, SumOverEqual, SumOverNat
  <2>4. i \notin A /\ \A j \in A \cup {i} : Firms(ds)[j] \in Nat
    BY <1>3, <1>4, <1>5
  <2>5. SumOver(Firms(ds), A \cup {i}) = SumOver(Firms(ds), A) + Firms(ds)[i]
    BY <2>1, <2>4, SumOverAdds
  <2> QED
    BY <1>4, <2>1, <2>3, <2>5
<1>6. CASE CountedIn(ds, c) = S
  <2>1. \A w \in Nat : InWindow(ds, c, w) = InWindow(cs, c, w) /\ InWindow(cs, c, w) \subseteq S
    BY <1>1, <1>3, <1>6 DEF InWindow
  <2> QED
    BY <1>2, <1>5, <1>6, <2>1 DEF CardFits
<1>7. CASE CountedIn(ds, c) = S \cup {i} /\ c \in AncestorsOf[row.card]
  <2>1. RoomAt(cs, c, row.win, firm)
    BY <1>7
  <2>2. /\ IsFiniteSet(S \cup {i}) /\ Cardinality(S \cup {i}) = Cardinality(S) + 1
        /\ Cardinality(S) \in Nat
    BY <1>3, FS_AddElement, FS_CardinalityType
  <2>3. Cardinality(CountedIn(ds, c)) <= MaxUses[c]
    BY <1>7, <2>1, <2>2, CapsNat DEF RoomAt
  <2>4. SumOver(Firms(ds), CountedIn(ds, c)) <= LifetimeCap[c]
    BY <1>5, <1>7, <2>1 DEF RoomAt
  <2>5. ASSUME NEW w \in Nat PROVE SumOver(Firms(ds), InWindow(ds, c, w)) <= PeriodCap[c]
    <3>1. InWindow(cs, c, w) \subseteq S /\ SinceWindow(cs, c, w) \subseteq S
      BY DEF InWindow, SinceWindow
    <3>2. CASE row.win # w
      <4>1. InWindow(ds, c, w) = InWindow(cs, c, w)
        BY <1>1, <1>3, <1>7, <3>2 DEF InWindow
      <4> QED
        BY <1>2, <1>5, <3>1, <4>1 DEF CardFits
    <3>3. CASE row.win = w
      <4>1. InWindow(ds, c, w) = InWindow(cs, c, w) \cup {i}
        BY <1>1, <1>3, <1>7, <3>3 DEF InWindow
      <4>2. InWindow(cs, c, w) \subseteq SinceWindow(cs, c, w)
        BY DEF InWindow, SinceWindow
      <4>3. SumOver(Firms(cs), InWindow(cs, c, w)) <= SumOver(Firms(cs), SinceWindow(cs, c, w))
        <5>1. \A j \in SinceWindow(cs, c, w) : Firms(cs)[j] \in Nat
          BY <1>3, <1>4, <3>1
        <5> QED
          BY <1>5, <3>1, <4>2, <5>1, SumOverPart
      <4>4. /\ SumOver(Firms(ds), InWindow(ds, c, w)) = SumOver(Firms(cs), InWindow(cs, c, w)) + firm
            /\ SumOver(Firms(cs), InWindow(cs, c, w)) \in Nat
            /\ SumOver(Firms(cs), SinceWindow(cs, c, w)) \in Nat
        BY <1>5, <3>1, <4>1
      <4>5. SumOver(Firms(cs), SinceWindow(cs, c, w)) + firm <= PeriodCap[c]
        BY <2>1, <3>3 DEF RoomAt
      <4> HIDE DEF firm
      <4> QED
        BY <1>4, <4>3, <4>4, <4>5, CapsNat
    <3> QED
      BY <3>2, <3>3
  <2> QED
    BY <1>7, <2>2, <2>3, <2>4, <2>5 DEF CardFits
<1>8. CountedIn(ds, c) = S \/ (CountedIn(ds, c) = S \cup {i} /\ c \in AncestorsOf[row.card])
  BY <1>1 DEF CountedIn, SubtreeOf
<1> QED
  BY <1>6, <1>7, <1>8

\* The sums of the store, and those of this module.
LEMMA SpentIs ==
  ASSUME NEW P, P \subseteq ChargeIds, IsFiniteSet(P)
  PROVE  MapThenSumSet(Total, P) = SumOver(Totals(charges), P)
<1> DEFINE F == Totals(charges)
           Rec(g) == g = [A \in SUBSET P |-> IF A = {} THEN 0
                                 ELSE Total(First(A)) + g[A \ {First(A)}]]
<1>1. \A A \in SUBSET P : A # {} => F[First(A)] = Total(First(A))
  BY FirstMember DEF Totals, Total
<1> HIDE DEF F
<1>2. ASSUME NEW g
      PROVE  IsPartialSums(F, P, g) <=> Rec(g)
  <2> DEFINE u == [A \in SUBSET P |-> PartialSum(F, g, A)]
             v == [A \in SUBSET P |-> IF A = {} THEN 0
                                     ELSE Total(First(A)) + g[A \ {First(A)}]]
  <2>1. \A A \in SUBSET P : u[A] = v[A]
    BY <1>1 DEF PartialSum
  <2>2. u = v
    BY <2>1
  <2> QED
    BY <2>2 DEF IsPartialSums
<1>3. MapThenSumSet(Total, P) = (CHOOSE g : Rec(g))[P]
  BY DEF MapThenSumSet, MapThenFoldSet, First
<1> HIDE DEF Rec
<1>4. IsPartialSums(F, P, CHOOSE g : Rec(g))
  BY <1>2, PartialSumsExist
<1>5. MapThenSumSet(Total, P) = SumOver(F, P)
  BY <1>3, <1>4, SumOverIs
<1> QED
  BY <1>5 DEF F

-----------------------------------------------------------------------------
(* What a step does to the rows: all but the two reservations leave less to  *)
(* count, or as much.                                                        *)

\* A card is deleted with everything under it.
DeletedDown ==
    \A c \in Cards : cardStatus[c] = "deleted" =>
        \A d \in SubtreeOf(c) : cardStatus[d] = "deleted"

\* Without a settlement executor nothing is settled.
SettlersOff == ~SettlementOn => backlog = {} /\ \A s \in Settlers : t[s].pc = "idle"

\* Whatever a settlement pays was reserved, when it pays what is reserved.
FeesReserved ==
    SettlementOn /\ Reserved =>
        /\ \A a \in Auths : charges[a].status # "absent" => charges[a].fee = FeeHeadroom
        /\ \A s \in Settlers : t[s].pc = "estimate" => t[s].fee = FeeHeadroom

CapInv == BooksFit(charges) /\ DeletedDown /\ SettlersOff /\ CarvesPlain /\ FeesReserved

LEMMA UpdateShrinks ==
  ASSUME TypeInv, NEW j \in ChargeIds, NEW row, UpdateCharge(j, row),
         charges[j].status # "absent" /\ InBooks(row) =>
           /\ InBooks(charges[j]) /\ row.card = charges[j].card /\ row.win = charges[j].win
           /\ Firm(j, row) = Firm(j, charges[j])
  PROVE  Shrinks(charges, charges')
<1>1. charges \in [ChargeIds -> Charge]
  BY DEF TypeInv, TypeOK
<1> QED
  BY <1>1 DEF UpdateCharge, Shrinks, ShrinksAt

LEMMA SameShrinks ==
  ASSUME UNCHANGED charges
  PROVE  Shrinks(charges, charges')
BY DEF Shrinks, ShrinksAt

\* The row of a call that is past its reservation is on the books, or gone.
LEMMA OnBooks ==
  ASSUME FiatInv, PayInv, NEW p \in Spenders, t[p].pc # "idle",
         p \in Settlers \/ t[p].pc \in {"block", "send", "confirm"}
  PROVE  /\ t[p].row \in ChargeIds /\ charges[t[p].row] \in Charge
         /\ charges[t[p].row].status = "absent" \/ InBooks(charges[t[p].row])
         /\ p \in PayCalls => t[p].row = p
<1>1. TypeInv
  BY DEF FiatInv, TypeInv
<1>2. t[p].row \in ChargeIds /\ charges[t[p].row] \in Charge
  BY <1>1, RowIsCharge DEF TypeInv, TypeOK
<1>3. CASE p \in Settlers
  <2>1. t[p].row \in Auths /\ p \notin PayCalls
    BY <1>1, <1>3, StoreAssumption, PipelineAssumption
       DEF TypeInv, RowInv, RowOK, Settlers, ChargeIds
  <2> QED
    BY <1>2, <2>1 DEF FiatInv, FiatRowInv, InBooks
<1>4. CASE p \in PayCalls /\ t[p].pc \in {"block", "send", "confirm"}
  <2>1. t[p].row = p
    BY <1>1, <1>4, OwnRow
  <2> QED
    BY <1>2, <1>4, <2>1 DEF PayInv, PayOK, RowGood, PresentOK, InBooks
<1> QED
  BY <1>2, <1>3, <1>4 DEF Spenders

\* An update of a row's marks.
LEMMA MarksShrink ==
  ASSUME TypeInv, NEW j \in ChargeIds, charges[j].status = "absent" \/ InBooks(charges[j]),
         NEW row, UpdateCharge(j, row), row.card = charges[j].card, row.win = charges[j].win,
         row.amount = charges[j].amount, row.fee = charges[j].fee
  PROVE  Shrinks(charges, charges')
<1>1. Firm(j, row) = Firm(j, charges[j])
  BY DEF Firm
<1> QED
  BY <1>1, UpdateShrinks

LEMMA StatusShrinks ==
  ASSUME TypeInv, NEW j \in ChargeIds, charges[j].status = "absent" \/ InBooks(charges[j]),
         NEW st, UpdateCharge(j, [charges[j] EXCEPT !.status = st])
  PROVE  Shrinks(charges, charges')
<1> DEFINE row == [charges[j] EXCEPT !.status = st]
<1>1. charges[j] \in Charge
  BY DEF TypeInv, TypeOK
<1>2. /\ row.card = charges[j].card /\ row.win = charges[j].win
      /\ row.amount = charges[j].amount /\ row.fee = charges[j].fee
  BY <1>1 DEF Charge
<1> HIDE DEF row
<1> QED
  BY <1>2, MarksShrink DEF row

LEMMA ResumeShrinks ==
  ASSUME FiatInv, PayInv, CapInv, NEW p \in Spenders, ResumeSpend(p),
         ~(Reserve(p) /\ p \in PayCalls)
  PROVE  Shrinks(charges, charges')
<1>1. TypeInv /\ t[p].pc \in InSection
  BY DEF FiatInv, TypeInv, ResumeSpend, PlanFee, RaiseFee, RefuseUnreserved, Reserve, LoseBlock,
         RefuseReserved, Broadcast, SendReturns, SendThrows, Confirm, Revert, GiveUpConfirming,
         InSection
<1> DEFINE j == t[p].row
<1>2. p \in Settlers \/ t[p].pc \in {"block", "send", "confirm"} =>
        /\ j \in ChargeIds /\ charges[j] \in Charge
        /\ charges[j].status = "absent" \/ InBooks(charges[j])
        /\ p \in PayCalls => j = p
  BY <1>1, OnBooks DEF InSection
<1>3. p \in PayCalls \/ p \in Settlers
  BY DEF Spenders
<1>4. p \in Settlers <=> SettleMode(p)
  BY DEF SettleMode
<1> HIDE DEF j
<1>5. CASE Reserve(p) /\ p \in Settlers
  <2> DEFINE row == [charges[j] EXCEPT !.fee = t[p].fee]
  <2>1. UpdateCharge(j, row) /\ t[p].pc = "estimate"
    BY <1>4, <1>5 DEF Reserve, j
  <2>2. /\ row.status = charges[j].status /\ row.card = charges[j].card
        /\ row.win = charges[j].win /\ row.amount = charges[j].amount /\ row.fee = t[p].fee
    BY <1>2, <1>5 DEF Charge
  <2>3. j \in Auths /\ SettlementOn
    BY <1>1, <1>5, <2>1 DEF CapInv, SettlersOff, TypeInv, RowInv, RowOK, j
  <2>4. Reserved /\ charges[j].status # "absent" => row.fee = charges[j].fee
    BY <1>5, <2>1, <2>2, <2>3 DEF CapInv, FeesReserved
  <2> HIDE DEF row
  <2>5. charges[j].status # "absent" => Firm(j, row) = Firm(j, charges[j])
    BY <2>2, <2>3, <2>4 DEF Firm
  <2> QED
    BY <1>1, <1>2, <1>5, <2>1, <2>2, <2>5, UpdateShrinks DEF InBooks
<1>6. CASE RefuseReserved(p)
  BY <1>1, <1>2, <1>3, <1>4, <1>6, StatusShrinks, SameShrinks DEF RefuseReserved
<1>7. CASE SendThrows(p)
  BY <1>1, <1>2, <1>3, <1>4, <1>7, StatusShrinks, SameShrinks DEF SendThrows
<1>8. CASE Confirm(p)
  BY <1>1, <1>2, <1>8, StatusShrinks DEF Confirm, j
<1>9. CASE Revert(p)
  BY <1>1, <1>2, <1>9, StatusShrinks DEF Revert, j
<1>10. CASE Broadcast(p) /\ p \in Settlers
  <2> DEFINE n == Len(mined)
             row == [charges[j] EXCEPT !.request = "claim", !.since = n]
  <2>1. UpdateCharge(j, row)
    BY <1>4, <1>10 DEF Broadcast, j
  <2> HIDE DEF n
  <2>2. /\ row.card = charges[j].card /\ row.win = charges[j].win
        /\ row.amount = charges[j].amount /\ row.fee = charges[j].fee
    BY <1>2, <1>10 DEF Charge
  <2> HIDE DEF row
  <2> QED
    BY <1>1, <1>2, <1>10, <2>1, <2>2, MarksShrink
<1>11. CASE SendReturns(p)
  <2> DEFINE row == [charges[j] EXCEPT !.request = "sent", !.since = t[p].since]
  <2>1. UpdateCharge(j, row) /\ t[p].pc = "send"
    BY <1>11 DEF SendReturns, j
  <2>2. /\ row.card = charges[j].card /\ row.win = charges[j].win
        /\ row.amount = charges[j].amount /\ row.fee = charges[j].fee
    BY <1>2, <2>1 DEF Charge
  <2> HIDE DEF row
  <2> QED
    BY <1>1, <1>2, <2>1, <2>2, MarksShrink
<1>12. CASE UNCHANGED charges
  BY <1>12, SameShrinks
<1> QED
  BY <1>3, <1>4, <1>5, <1>6, <1>7, <1>8, <1>9, <1>10, <1>11, <1>12
     DEF ResumeSpend, PlanFee, RaiseFee, RefuseUnreserved, LoseBlock, GiveUpConfirming, Broadcast

LEMMA ClearedShrinks ==
  ASSUME TypeInv, NEW X, charges' = [i \in ChargeIds |-> IF i \in X THEN NoCharge ELSE charges[i]]
  PROVE  Shrinks(charges, charges')
BY DEF Shrinks, ShrinksAt, InBooks, NoCharge

LEMMA MicroShrinks ==
  ASSUME FiatInv, PayInv, Microtask
  PROVE  Shrinks(charges, charges')
<1>1. TypeInv
  BY DEF FiatInv, TypeInv
<1>2. ASSUME NEW p \in Spenders, EnterSpend(p) PROVE Shrinks(charges, charges')
  BY <1>1, <1>2, ClearedShrinks, SameShrinks DEF EnterSpend, ReplayKey, ReplaySettle, StartSpend
<1>3. ASSUME NEW s \in Settlers, ParkRow(s) PROVE Shrinks(charges, charges')
  <2>1. t[s].pc = "exit" /\ s \in Spenders
    BY <1>3 DEF ParkRow, Failed, Spenders
  <2>2. t[s].row \in ChargeIds
        /\ (charges[t[s].row].status = "absent" \/ InBooks(charges[t[s].row]))
    BY <2>1, OnBooks
  <2> QED
    BY <1>1, <1>3, <2>2, StatusShrinks DEF ParkRow
<1> QED
  BY <1>2, <1>3, SameShrinks
     DEF Microtask, CatchSettle, SettleReturns, FreezeParked, RetrySettle

LEMMA ReconcileShrinks ==
  ASSUME FiatInv, PayInv, CapInv, StartReconcile \/ ResolveStale \/ PostponeReconcile
  PROVE  Shrinks(charges, charges')
<1>1. charges \in [ChargeIds -> Charge] /\ TypeInv
  BY DEF FiatInv, TypeInv, TypeOK
<1>2. CASE StartReconcile
  <2> SUFFICES ASSUME NEW i \in ChargeIds PROVE ShrinksAt(charges, charges', i)
    BY DEF Shrinks
  <2>1. charges[i] \in Charge
    BY <1>1
  <2>2. CASE i \in X402Orphans
    <3>1. charges'[i] = [charges[i] EXCEPT !.status = "failed"]
      BY <1>2, <2>2 DEF StartReconcile
    <3> QED
      BY <2>1, <3>1 DEF ShrinksAt, InBooks, Charge
  <2>3. CASE i \notin X402Orphans
    BY <1>2, <2>3 DEF StartReconcile, ShrinksAt
  <2> QED
    BY <2>2, <2>3
<1>3. CASE ResolveStale
  <2> SUFFICES ASSUME NEW i \in ChargeIds PROVE ShrinksAt(charges, charges', i)
    BY DEF Shrinks
  <2>1. charges[i] \in Charge
    BY <1>1
  <2>2. PICK C \in LogClaims :
          charges' = [k \in ChargeIds |->
             IF k \in Resolvable
             THEN [charges[k] EXCEPT !.status = Resolved(k, C)]
             ELSE charges[k]]
    BY <1>3 DEF ResolveStale
  <2>3. CASE i \notin Resolvable
    BY <2>2, <2>3 DEF ShrinksAt
  <2>4. CASE i \in Resolvable
    <3> DEFINE st == Resolved(i, C)
    <3>1. charges'[i] = [charges[i] EXCEPT !.status = st]
      BY <2>2, <2>4
    <3> HIDE DEF st
    <3>2. /\ charges'[i].card = charges[i].card /\ charges'[i].win = charges[i].win
          /\ charges'[i].amount = charges[i].amount /\ charges'[i].fee = charges[i].fee
      BY <2>1, <3>1 DEF Charge
    <3>3. InBooks(charges[i])
      <4>1. CASE i \in PayCalls
        BY <2>4, <4>1 DEF PayInv, PayOK, ListedOK, Resolvable, InBooks
      <4>2. CASE i \in Auths
        BY <2>4, <4>2 DEF FiatInv, FiatRowInv, Resolvable, InBooks
      <4>3. CASE i \in X402Calls
        BY <2>4, <4>3 DEF CapInv, CarvesPlain, Resolvable
      <4> QED
        BY <4>1, <4>2, <4>3 DEF ChargeIds
    <3> QED
      BY <3>2, <3>3 DEF ShrinksAt, Firm
  <2> QED
    BY <2>3, <2>4
<1>4. CASE PostponeReconcile
  BY <1>4, SameShrinks DEF PostponeReconcile, storeVars
<1> QED
  BY <1>2, <1>3, <1>4

LEMMA OwnerShrinks ==
  ASSUME TypeInv, Owner
  PROVE  Shrinks(charges, charges')
BY ClearedShrinks, SameShrinks
   DEF Owner, Freeze, Unfreeze, Revoke, Expire, DeleteDeadCard, Shrinks, ShrinksAt, InBooks, NoCharge

LEMMA AgeShrinks ==
  ASSUME TypeInv, NEW i \in ChargeIds, Age(i)
  PROVE  Shrinks(charges, charges')
<1> DEFINE row == [charges[i] EXCEPT !.aged = TRUE]
<1>1. charges[i] \in Charge
  BY DEF TypeInv, TypeOK
<1>2. charges' = [charges EXCEPT ![i] = row] /\ charges[i].status = "pending"
  BY DEF Age
<1>3. /\ row.card = charges[i].card /\ row.win = charges[i].win
      /\ row.amount = charges[i].amount /\ row.fee = charges[i].fee
  BY <1>1 DEF Charge
<1> HIDE DEF row
<1>4. UpdateCharge(i, row) /\ InBooks(charges[i])
  BY <1>2 DEF UpdateCharge, InBooks
<1> QED
  BY <1>3, <1>4, MarksShrink

\* A step that is not a reservation leaves less to count, or as much.
LEMMA NextShrinks ==
  ASSUME FiatInv, PayInv, CapInv, [Next]_vars,
         ~ \E p \in PayCalls : Reserve(p),
         ~ \E a \in Auths, n \in Amounts : ApproveAuthorization(a, n)
  PROVE  Shrinks(charges, charges')
<1>1. TypeInv
  BY DEF FiatInv, TypeInv
<1>2. ASSUME NEW p \in Spenders, ResumeSpend(p) PROVE Shrinks(charges, charges')
  BY <1>2, ResumeShrinks
<1>3. CASE UNCHANGED charges
  BY <1>3, SameShrinks
<1> QED
  BY <1>1, <1>2, <1>3, MicroShrinks, ReconcileShrinks, OwnerShrinks, AgeShrinks
     DEF Next, Task, World, Chain, AgentSpend, ResumeSettle, ReadSettleRow, WakeSettler,
         StartSettleSweep, SweepNextRow, RelayerAccepts, Mine, Drop, NextWindow, Crash, vars,
         storeVars, UnchangedButCalls

-----------------------------------------------------------------------------
(* The two reservations. *)

\* What the code finds room for there is room for.
LEMMA RoomFound ==
  ASSUME TypeInv, BooksFit(charges), NEW a \in Cards, NEW w \in Nat, NEW firm \in Nat,
         NEW total \in Nat, firm <= total,
         SubtreeUsesCount(a) < MaxUses[a],
         SubtreeSpentSince(a, w) + total <= PeriodCap[a],
         SubtreeSpentLifetime(a) + total <= LifetimeCap[a]
  PROVE  RoomAt(charges, a, w, firm)
<1> DEFINE cs == charges
           S == CountedIn(cs, a)
           W == SinceWindow(cs, a, w)
<1>1. cs \in [ChargeIds -> Charge]
  BY DEF TypeInv, TypeOK
<1>2. Counted(a) = S
  BY DEF Counted, CountedIn, InBooks
<1>3. IsFiniteSet(S) /\ S \subseteq ChargeIds /\ W \subseteq S
  BY DEF BooksFit, CardFits, CountedIn, SinceWindow
<1>4. IsFiniteSet(W)
  BY <1>3, FS_Subset
<1>5. {i \in Counted(a) : charges[i].win >= w} = W
  BY <1>2 DEF SinceWindow
<1>6. {i \in Counted(a) : charges[i].win >= 0} = S
  <2>1. \A i \in ChargeIds : charges[i].win \in Nat
    BY <1>1 DEF Charge
  <2> HIDE DEF S
  <2> QED
    BY <1>2, <1>3, <2>1
<1>7. SubtreeSpentSince(a, w) = SumOver(Totals(cs), W)
  BY <1>3, <1>4, <1>5, SpentIs DEF SubtreeSpentSince
<1>8. SubtreeSpentLifetime(a) = SumOver(Totals(cs), S)
  BY <1>3, <1>6, SpentIs DEF SubtreeSpentLifetime, SubtreeSpentSince
<1>9. ASSUME NEW A, A \subseteq ChargeIds, IsFiniteSet(A)
      PROVE  /\ SumOver(Firms(cs), A) \in Nat /\ SumOver(Totals(cs), A) \in Nat
             /\ SumOver(Firms(cs), A) <= SumOver(Totals(cs), A)
  <2>1. \A i \in A : /\ Firms(cs)[i] \in Nat /\ Totals(cs)[i] \in Nat
                     /\ Firms(cs)[i] <= Totals(cs)[i]
    BY <1>1, <1>9, FirmNat
  <2> QED
    BY <1>9, <2>1, SumOverNat, SumOverMonotone
<1>10. /\ SumOver(Firms(cs), W) \in Nat /\ SumOver(Totals(cs), W) \in Nat
       /\ SumOver(Firms(cs), W) <= SumOver(Totals(cs), W)
       /\ SumOver(Firms(cs), S) \in Nat /\ SumOver(Totals(cs), S) \in Nat
       /\ SumOver(Firms(cs), S) <= SumOver(Totals(cs), S)
  BY <1>3, <1>4, <1>9
<1>11. Cardinality(CountedIn(cs, a)) < MaxUses[a]
  BY <1>2 DEF SubtreeUsesCount
<1>12. SumOver(Firms(cs), W) + firm <= PeriodCap[a]
  <2> HIDE DEF W
  <2> QED
    BY <1>7, <1>10, CapsNat
<1>13. SumOver(Firms(cs), S) + firm <= LifetimeCap[a]
  <2> HIDE DEF S
  <2> QED
    BY <1>8, <1>10, CapsNat
<1> QED
  BY <1>11, <1>12, <1>13 DEF RoomAt

\* An agent's reservation: validated once more, with nothing in between.
LEMMA ReserveFits ==
  ASSUME FiatInv, PayInv, CapInv, NEW p \in PayCalls, Reserve(p)
  PROVE  BooksFit(charges')
<1> DEFINE row == [NoCharge EXCEPT !.status = "pending", !.card = t[p].card,
                                   !.key = t[p].key, !.amount = t[p].amount,
                                   !.fee = t[p].fee, !.win = t[p].win]
<1>1. TypeInv
  BY DEF FiatInv, TypeInv
<1>2. charges' = [charges EXCEPT ![p] = row] /\ t[p].pc = "estimate"
  BY <1>1, OwnRow DEF Reserve
<1>3. /\ t[p].card \in Cards /\ t[p].win \in Nat /\ t[p].amount \in Nat /\ t[p].fee \in Nat
      /\ t[p].key \in Keys \cup {NoKey}
  BY <1>1, <1>2, OwnRow DEF TypeInv, RowInv, RowOK, Call
<1>4. /\ row \in Charge /\ row.card = t[p].card /\ row.win = t[p].win
      /\ row.amount = t[p].amount /\ row.fee = t[p].fee
  BY <1>3 DEF NoCharge, Charge, ChargeStatuses
<1>5. ~InBooks(charges[p])
  BY <1>2, Unreserved DEF PayInv, InBooks
<1>6. WithinCaps(AncestorsOf[t[p].card], t[p].win, t[p].amount + t[p].fee)
  BY <1>1, OwnRow DEF Reserve, Revalidated, Validated
<1> HIDE DEF row
<1>7. Firm(p, row) \in Nat /\ Firm(p, row) <= t[p].amount + t[p].fee
  BY <1>3, <1>4 DEF Firm
<1>8. ASSUME NEW a \in AncestorsOf[row.card] PROVE RoomAt(charges, a, row.win, Firm(p, row))
  <2>1. a \in Cards
    BY <1>3, <1>4, ForestAssumption
  <2>2. t[p].amount + t[p].fee \in Nat
    BY <1>3
  <2> QED
    BY <1>1, <1>3, <1>4, <1>6, <1>7, <2>1, <2>2, RoomFound DEF WithinCaps, CapInv
<1> QED
  BY <1>1, <1>2, <1>3, <1>4, <1>5, <1>8, OwnRow, AddFits DEF CapInv

\* The webhook's: no card above a card on the books is gone, so the chain it
\* looks at is the whole chain.
LEMMA ApproveFits ==
  ASSUME FiatInv, CapInv, NEW b \in Auths, NEW n \in Amounts, ApproveAuthorization(b, n)
  PROVE  BooksFit(charges')
<1> DEFINE row == [NoCharge EXCEPT !.status = IF SettlementOn THEN "pending" ELSE "confirmed",
                                   !.card = AuthCard[b], !.key = b, !.amount = n,
                                   !.fee = Headroom, !.win = window,
                                   !.request = IF SettlementOn THEN "null" ELSE "sent"]
<1>1. TypeInv /\ charges \in [ChargeIds -> Charge] /\ window \in Nat /\ b \in ChargeIds
  BY DEF FiatInv, TypeInv, TypeOK, ChargeIds
<1>2. charges' = [charges EXCEPT ![b] = row]
  BY DEF ApproveAuthorization
<1>3. AuthCard[b] \in Cards /\ n \in Nat /\ Headroom \in Nat
  BY PipelineAssumption DEF Headroom
<1>4. /\ row \in Charge /\ row.card = AuthCard[b] /\ row.win = window
      /\ row.amount = n /\ row.fee = Headroom
  BY <1>1, <1>3 DEF NoCharge, Charge, ChargeStatuses
<1>5. ~InBooks(charges[b])
  BY ApprovedFresh DEF Known, InBooks
<1>6. AncestorChain(AuthCard[b]) = AncestorsOf[AuthCard[b]]
  <2>1. cardStatus[AuthCard[b]] # "deleted"
    BY ApprovedFresh DEF Known
  <2>2. \A a \in AncestorsOf[AuthCard[b]] : cardStatus[a] # "deleted"
    BY <1>3, <2>1, ForestAssumption DEF CapInv, DeletedDown, SubtreeOf
  <2> QED
    BY <2>1, <2>2 DEF AncestorChain
<1>7. WithinCaps(AncestorsOf[AuthCard[b]], window, n + Headroom)
  BY <1>6 DEF ApproveAuthorization, Approved
<1> HIDE DEF row
<1>8. Firm(b, row) \in Nat /\ Firm(b, row) <= n + Headroom
  BY <1>3, <1>4 DEF Firm
<1>9. ASSUME NEW a \in AncestorsOf[row.card] PROVE RoomAt(charges, a, row.win, Firm(b, row))
  <2>1. a \in Cards
    BY <1>3, <1>4, ForestAssumption
  <2>2. n + Headroom \in Nat
    BY <1>3
  <2> QED
    BY <1>1, <1>4, <1>7, <1>8, <2>1, <2>2, RoomFound DEF WithinCaps, CapInv
<1> QED
  BY <1>1, <1>2, <1>3, <1>4, <1>5, <1>9, AddFits DEF CapInv

-----------------------------------------------------------------------------
(* The invariant, and what the property makes of it. *)

LEMMA InitCap == Init => CapInv
<1> SUFFICES ASSUME Init PROVE CapInv
  OBVIOUS
<1>1. \A i \in ChargeIds : charges[i].status = "absent"
  BY DEF Init, NoCharge
<1>2. \A c \in Cards : CountedIn(charges, c) = {}
  BY <1>1 DEF CountedIn, InBooks
<1>3. \A c \in Cards : cardStatus[c] = "active"
  BY DEF Init
<1>4. \A s \in Settlers : t[s].pc = "idle"
  BY DEF Init, Spenders, NoCall
<1>5. ASSUME NEW c \in Cards PROVE CardFits(charges, c)
  <2>1. \A w \in Nat : InWindow(charges, c, w) = {}
    BY <1>2 DEF InWindow
  <2>2. IsFiniteSet({}) /\ Cardinality({}) = 0 /\ SumOver(Firms(charges), {}) = 0
    BY FS_EmptySet, SumOverNothing
  <2>3. LifetimeCap[c] >= 0 /\ PeriodCap[c] >= 0 /\ MaxUses[c] >= 0
    BY CapsNat
  <2>4. \A w \in Nat : SumOver(Firms(charges), InWindow(charges, c, w)) <= PeriodCap[c]
    BY <2>1, <2>2, <2>3
  <2>5. /\ IsFiniteSet(CountedIn(charges, c))
        /\ SumOver(Firms(charges), CountedIn(charges, c)) <= LifetimeCap[c]
        /\ Cardinality(CountedIn(charges, c)) <= MaxUses[c]
    BY <1>2, <2>2, <2>3
  <2> QED
    BY <2>4, <2>5 DEF CardFits
<1>6. DeletedDown
  BY <1>3 DEF DeletedDown
<1>7. SettlersOff /\ CarvesPlain /\ FeesReserved
  BY <1>1, <1>4 DEF SettlersOff, CarvesPlain, NoCharge, FeesReserved, ChargeIds, Init
<1> QED
  BY <1>5, <1>6, <1>7 DEF CapInv, BooksFit

\* A subtree dies as one.
LEMMA NextDeleted ==
  ASSUME TypeInv, DeletedDown, [Next]_vars
  PROVE  DeletedDown'
<1>1. cardStatus \in [Cards -> CardStatuses]
  BY DEF TypeInv, TypeOK
<1>2. ASSUME NEW c \in Cards, DeleteDeadCard(c) PROVE DeletedDown'
  <2> SUFFICES ASSUME NEW e \in Cards, cardStatus'[e] = "deleted", NEW d \in SubtreeOf(e)
               PROVE  cardStatus'[d] = "deleted"
    BY DEF DeletedDown
  <2>1. d \in Cards /\ e \in AncestorsOf[d] /\ AncestorsOf[e] \subseteq AncestorsOf[d]
    BY ForestAssumption DEF SubtreeOf
  <2>2. cardStatus' = [x \in Cards |-> IF x \in SubtreeOf(c) THEN "deleted" ELSE cardStatus[x]]
    BY <1>2 DEF DeleteDeadCard
  <2>3. CASE e \in SubtreeOf(c)
    BY <2>1, <2>2, <2>3 DEF SubtreeOf
  <2>4. CASE e \notin SubtreeOf(c)
    BY <2>1, <2>2, <2>4 DEF DeletedDown
  <2> QED
    BY <2>3, <2>4
<1>3. ASSUME \A c \in Cards : cardStatus'[c] = "deleted" <=> cardStatus[c] = "deleted"
      PROVE  DeletedDown'
  BY <1>3 DEF DeletedDown, SubtreeOf
<1>4. ASSUME NEW s \in Settlers, CatchSettle(s) PROVE DeletedDown'
  BY <1>1, <1>3, <1>4
     DEF CatchSettle, SettleReturns, ParkRow, FreezeParked, RetrySettle, FreezeIfActive
<1>5. ASSUME NEW c \in Cards, Freeze(c) \/ Unfreeze(c) \/ Revoke(c) \/ Expire(c)
      PROVE  DeletedDown'
  BY <1>1, <1>3, <1>5 DEF Freeze, Unfreeze, Revoke, Expire
<1>6. CASE UNCHANGED cardStatus
  BY <1>3, <1>6
<1>7. ASSUME NEW p \in Spenders, EnterSpend(p) \/ ResumeSpend(p) PROVE UNCHANGED cardStatus
  BY <1>7 DEF EnterSpend, ReplayKey, ReplaySettle, StartSpend, ResumeSpend, PlanFee, RaiseFee,
       RefuseUnreserved, Reserve, LoseBlock, RefuseReserved, Broadcast, SendReturns, SendThrows,
       Confirm, Revert, GiveUpConfirming, UnchangedButCalls
<1> QED
  BY <1>2, <1>4, <1>5, <1>6, <1>7
     DEF Next, Microtask, Task, World, Chain, Owner, AgentSpend, ApproveAuthorization,
         ResumeSettle, ReadSettleRow, WakeSettler, StartSettleSweep, SweepNextRow,
         StartReconcile, ResolveStale, PostponeReconcile, RelayerAccepts, Mine, Drop, NextWindow,
         Age, Crash, vars, storeVars, UnchangedButCalls

LEMMA NextOff ==
  ASSUME FiatInv, SettlersOff, [Next]_vars
  PROVE  SettlersOff'
<1> SUFFICES ASSUME ~SettlementOn
             PROVE  backlog' = {} /\ \A s \in Settlers : t'[s].pc = "idle"
  BY DEF SettlersOff
<1>1. TypeInv /\ backlog = {} /\ \A s \in Settlers : t[s].pc = "idle"
  BY DEF SettlersOff, FiatInv, TypeInv
<1>2. \A s \in Settlers : t'[s].pc = "idle"
  BY <1>1, NextBlockMove DEF BlockMove, Spenders
<1>3. ASSUME NEW p \in Spenders, EnterSpend(p) \/ ResumeSpend(p) PROVE UNCHANGED backlog
  BY <1>3 DEF EnterSpend, ReplayKey, ReplaySettle, StartSpend, ResumeSpend, PlanFee, RaiseFee,
       RefuseUnreserved, Reserve, LoseBlock, RefuseReserved, Broadcast, SendReturns, SendThrows,
       Confirm, Revert, GiveUpConfirming, UnchangedButCalls
<1>4. ASSUME NEW s \in Settlers, CatchSettle(s) PROVE UNCHANGED backlog
  BY <1>4 DEF CatchSettle, SettleReturns, ParkRow, FreezeParked, RetrySettle, UnchangedButParking
<1>5. backlog' = {}
  BY <1>1, <1>3, <1>4
     DEF Next, Microtask, Task, World, Chain, Owner, AgentSpend, ApproveAuthorization,
         ResumeSettle, ReadSettleRow, WakeSettler, StartSettleSweep, SweepNextRow,
         StartReconcile, ResolveStale, PostponeReconcile, RelayerAccepts, Mine, Drop, NextWindow,
         Age, Crash, Freeze, Unfreeze, Revoke, Expire, DeleteDeadCard, Control, vars,
         UnchangedButCalls
<1> QED
  BY <1>2, <1>5

LEMMA NextReserved ==
  ASSUME FiatInv, FeesReserved, [Next]_vars
  PROVE  FeesReserved'
<1> SUFFICES ASSUME SettlementOn, Reserved
             PROVE  /\ \A a \in Auths :
                          charges'[a].status # "absent" => charges'[a].fee = FeeHeadroom
                    /\ \A s \in Settlers : t'[s].pc = "estimate" => t'[s].fee = FeeHeadroom
  BY DEF FeesReserved
<1>1. TypeInv /\ FiatRowInv /\ \A a \in Auths : Fees[a] \subseteq {FeeHeadroom}
  BY DEF FiatInv, TypeInv, Reserved
<1>2. /\ \A a \in Auths : charges[a].status # "absent" => charges[a].fee = FeeHeadroom
      /\ \A s \in Settlers : t[s].pc = "estimate" => t[s].fee = FeeHeadroom
  BY DEF FeesReserved
<1>3. ASSUME NEW s \in Settlers, t'[s].pc = "estimate" PROVE t'[s].fee = FeeHeadroom
  <2>1. s \in Spenders /\ BlockMove(s)
    BY <1>1, NextBlockMove DEF Spenders
  <2>2. t'[s].row \in Auths
    <3>1. RowInv'
      BY <1>1, NextTypes DEF TypeInv
    <3> QED
      BY <1>3, <2>1, <3>1 DEF RowInv, RowOK
  <2> QED
    BY <1>1, <1>2, <1>3, <2>1, <2>2 DEF BlockMove
<1>4. ASSUME NEW a \in Auths, charges'[a].status # "absent"
      PROVE  charges'[a].fee = FeeHeadroom
  <2>1. ASSUME NEW n \in Amounts, ApproveAuthorization(a, n)
        PROVE  charges'[a].fee = FeeHeadroom
    <3> DEFINE row == [NoCharge EXCEPT !.status = IF SettlementOn THEN "pending" ELSE "confirmed",
                                       !.card = AuthCard[a], !.key = a, !.amount = n,
                                       !.fee = Headroom, !.win = window,
                                       !.request = IF SettlementOn THEN "null" ELSE "sent"]
    <3>1. charges' = [charges EXCEPT ![a] = row]
      BY <2>1 DEF ApproveAuthorization
    <3>2. row.fee = FeeHeadroom
      BY DEF NoCharge, Headroom
    <3> HIDE DEF row
    <3> QED
      BY <1>1, <3>1, <3>2 DEF TypeInv, TypeOK, ChargeIds
  <2>2. ASSUME NEW s \in Settlers, Reserve(s), charges'[a].fee = t[s].fee
        PROVE  charges'[a].fee = FeeHeadroom
    BY <1>2, <2>2 DEF Reserve
  <2> QED
    BY <1>1, <1>2, <1>4, <2>1, <2>2, NextFiatFees
<1> QED
  BY <1>3, <1>4

LEMMA NextCap ==
  ASSUME FiatInv, FiatInv', PayInv, CapInv, [Next]_vars
  PROVE  CapInv'
<1>1. TypeInv /\ charges \in [ChargeIds -> Charge] /\ charges' \in [ChargeIds -> Charge]
  BY DEF FiatInv, TypeInv, TypeOK
<1>2. BooksFit(charges')
  <2>1. CASE \E p \in PayCalls : Reserve(p)
    BY <2>1, ReserveFits
  <2>2. CASE \E a \in Auths, n \in Amounts : ApproveAuthorization(a, n)
    BY <2>2, ApproveFits
  <2>3. CASE Shrinks(charges, charges')
    BY <1>1, <2>3, ShrinksLessens, LessFits DEF CapInv
  <2> QED
    BY <2>1, <2>2, <2>3, NextShrinks
<1>3. DeletedDown' /\ SettlersOff' /\ CarvesPlain' /\ FeesReserved'
  BY <1>1, NextDeleted, NextOff, NextCarves, NextReserved DEF CapInv
<1> QED
  BY <1>2, <1>3 DEF CapInv

\* For every value of the constants: what the rows hold for good, which is all
\* of an agent's payment and, where settlements rewrite their fee, the amount
\* of a Visa charge, stays within every cap of every card above it.
THEOREM AmountsWithinCaps == Spec => []BooksFit(charges)
<1>1. FiatInv /\ FiatInv' /\ PayInv /\ CapInv /\ [Next]_vars => CapInv'
  BY NextCap
<1>2. CapInv => BooksFit(charges)
  BY DEF CapInv
<1> QED
  BY <1>1, <1>2, InitCap, PayInvariant, PTL DEF Spec

\* What the rows hold for good is all they hold, when no settlement rewrites a
\* fee or there is none.
LEMMA FitWithin ==
  ASSUME FiatInv, BooksFit(charges), Reserved \/ Auths = {}
  PROVE  BooksWithinCaps
<1> SUFFICES ASSUME NEW c \in Cards
             PROVE  /\ SubtreeSpentLifetime(c) <= LifetimeCap[c]
                    /\ \A w \in 0..window :
                          MapThenSumSet(Total, {i \in Counted(c) : charges[i].win = w})
                            <= PeriodCap[c]
                    /\ SubtreeUsesCount(c) <= MaxUses[c]
  BY DEF BooksWithinCaps
<1> DEFINE cs == charges
           S == CountedIn(cs, c)
<1>1. cs \in [ChargeIds -> Charge] /\ CardFits(cs, c) /\ window \in Nat
  BY DEF FiatInv, TypeOK, BooksFit
<1>2. Counted(c) = S
  BY DEF Counted, CountedIn, InBooks
<1>3. S \subseteq ChargeIds /\ IsFiniteSet(S)
  BY <1>1 DEF CardFits, CountedIn
<1>4. ASSUME NEW A, A \subseteq S
      PROVE  MapThenSumSet(Total, A) = SumOver(Firms(cs), A)
  <2>1. IsFiniteSet(A) /\ A \subseteq ChargeIds
    BY <1>3, <1>4, FS_Subset
  <2>2. \A i \in A : Totals(cs)[i] = Firms(cs)[i]
    BY <1>1, <2>1, FirmNat
  <2> QED
    BY <2>1, <2>2, SpentIs, SumOverEqual
<1>5. {i \in Counted(c) : charges[i].win >= 0} = S
  <2>1. \A i \in ChargeIds : charges[i].win \in Nat
    BY <1>1 DEF Charge
  <2> HIDE DEF S
  <2> QED
    BY <1>2, <1>3, <2>1
<1>6. SubtreeSpentLifetime(c) <= LifetimeCap[c]
  <2>1. SubtreeSpentLifetime(c) = SumOver(Firms(cs), S)
    BY <1>4, <1>5 DEF SubtreeSpentLifetime, SubtreeSpentSince
  <2> QED
    BY <1>1, <2>1 DEF CardFits
<1>7. ASSUME NEW w \in 0..window
      PROVE  MapThenSumSet(Total, {i \in Counted(c) : charges[i].win = w}) <= PeriodCap[c]
  <2>1. {i \in Counted(c) : charges[i].win = w} = InWindow(cs, c, w) /\ w \in Nat
    BY <1>1, <1>2 DEF InWindow
  <2>2. InWindow(cs, c, w) \subseteq S
    BY DEF InWindow
  <2> QED
    BY <1>1, <1>4, <2>1, <2>2 DEF CardFits
<1>8. SubtreeUsesCount(c) <= MaxUses[c]
  BY <1>1, <1>2 DEF CardFits, SubtreeUsesCount
<1> QED
  BY <1>6, <1>7, <1>8

\* The charges of a subtree never exceed its lifetime cap, its cap for any one
\* period or its number of uses, although spend() and the webhook book without
\* waiting for each other, as long as a settlement pays the fee that its
\* authorization reserved.
THEOREM BooksWithin ==
  ASSUME Reserved
  PROVE  Spec => []BooksWithinCaps
<1>1. FiatInv /\ BooksFit(charges) => BooksWithinCaps
  BY FitWithin
<1> QED
  BY <1>1, AmountsWithinCaps, FiatInvariant, PTL

-----------------------------------------------------------------------------
(* x402 payments, over the invariants of the pipeline they share. *)

Carving == [at : {"idle", "queued", "sign", "fetch", "done"}, card : Cards \cup {NoCard},
            lock : Cards \cup {NoCard}, amount : Nat, win : Nat]

Dealing == [at : {"none", "verify", "estimate", "send", "confirm", "served", "refused"},
            fee : Nat, tries : Nat, since : Nat, accepted : BOOLEAN]

X402Types ==
    /\ carve \in [X402Calls -> Carving]
    /\ deal \in [X402Calls -> Dealing]
    /\ unheard \subseteq X402Calls

\* A carve that waits for or holds its tree's key is in that key's queue, and
\* signs as its head.
QueueOK(i, call) ==
    /\ call.at # "idle" => call.card \in Cards
    /\ call.at \in {"queued", "sign"} =>
          /\ call.lock = RootOf(call.card) /\ call.lock \in Cards
          /\ IsIn(i, mutex[call.lock])
    /\ call.at = "sign" => Head(mutex[call.lock]) = i

\* What the row of a carve says of the fetch and of the deal behind it.
CarveOK(call, bid, row, gone, heard) ==
    /\ call.at \in {"idle", "queued", "sign"} => bid.at = "none"
    /\ call.at = "fetch" => bid.at # "none"
    /\ bid.at = "none" => row.status = "absent"
    /\ row.status # "absent" => row.card = call.card
    /\ call.at = "fetch" => \/ gone /\ row.status = "absent"
                            \/ row.status = "pending" /\ ~row.aged /\ row.fee = X402Headroom
    /\ call.at = "done" /\ bid.at # "none" /\ heard =>
          \/ bid.at = "refused"
          \/ bid.at = "served" /\ (gone \/ row.status \in {"confirmed", "settlement_unconfirmed"})
    /\ row.status = "confirmed" => bid.at \in {"served", "refused"} /\ row.fee \in {0, bid.fee}

\* Where the deal stands with the chain.
DealOK(i, bid, row, heard) ==
    /\ bid.accepted => bid.at \in {"send", "confirm", "served", "refused"}
    /\ bid.at \in {"send", "confirm", "served"} => bid.fee <= X402Headroom
    /\ bid.at \in {"estimate", "send", "confirm", "served"} \/ bid.accepted => bid.fee \in Fees[i]
    /\ bid.at \in {"send", "confirm"} => SinceOK(i, bid.since)
    /\ Moved(i) => bid.accepted /\ (FailuresReal => ~(bid.at = "refused" /\ heard))
    /\ \A r \in Redemptions : r.charge = i => r.fee = bid.fee
    /\ bid.at = "served" \/ row.status = "confirmed" => (FeesDistinct => IsMined(i))

CarveGone(i) == cardStatus[carve[i].card] = "deleted"

XOK(i) == /\ QueueOK(i, carve[i])
          /\ CarveOK(carve[i], deal[i], charges[i], CarveGone(i), i \notin unheard)
          /\ DealOK(i, deal[i], charges[i], i \notin unheard)

XInv == X402Types /\ \A i \in X402Calls : XOK(i)

-----------------------------------------------------------------------------
(* What a carve does to the pipeline. *)

\* A carve's step leaves alone every row, redemption and waiter but its own.
Besides(i) ==
    /\ UNCHANGED <<cardStatus, expired, window, t, backlog, recon, mined, notified, crashes,
                   controls>>
    /\ charges' \in [ChargeIds -> Charge] /\ sent' \in [ChargeIds -> 0..2]
    /\ \A j \in ChargeIds \ {i} : charges'[j] = charges[j] /\ sent'[j] = sent[j]
    /\ inflight' \subseteq Redemption /\ inflight \subseteq inflight'
    /\ \A r \in inflight' : r \in inflight \/ r.charge = i
    /\ mutex' \in [Cards -> Seq(Spenders \cup X402Calls)]
    /\ \A c \in Cards, p \in (Spenders \cup X402Calls) \ {i} :
          IsIn(p, mutex[c]) => /\ IsIn(p, mutex'[c])
                               /\ Head(mutex[c]) = p => Head(mutex'[c]) = p

LEMMA CarveIds ==
  ASSUME NEW i \in X402Calls
  PROVE  i \in ChargeIds /\ i \notin PayCalls /\ i \notin Auths /\ i \notin Spenders
BY StoreAssumption, X402Assumption DEF ChargeIds, Spenders, Settlers

LEMMA BesidesFiat ==
  ASSUME FiatInv, NEW i \in X402Calls, Besides(i)
  PROVE  FiatInv'
<1>1. /\ \A a \in Auths : /\ a \in ChargeIds
                          /\ charges'[a] = charges[a] /\ sent'[a] = sent[a]
      /\ UNCHANGED <<cardStatus, t, backlog>>
  BY CarveIds DEF Besides, ChargeIds
<1>2. TypeOK'
  BY DEF FiatInv, TypeOK, Besides
<1>3. LockInv'
  <2> SUFFICES ASSUME NEW p \in Spenders PROVE LockOK(p)'
    BY DEF LockInv
  <2>1. LockOK(p) /\ p # i /\ UNCHANGED t
    BY CarveIds DEF FiatInv, LockInv, Besides
  <2>2. t[p].pc \in InSection => InQueue(p)
    BY DEF InQueue
  <2> QED
    BY <2>1, <2>2 DEF Besides, LockOK, InQueue
<1>4. RowInv'
  BY <1>1 DEF FiatInv, RowInv, RowOK
<1>5. FiatRowInv'
  BY <1>1 DEF FiatInv, FiatRowInv
<1>6. SettleKeyInv'
  BY <1>1 DEF FiatInv, SettleKeyInv, SettleKeyOK
<1>7. KnownInv'
  BY <1>1 DEF FiatInv, KnownInv, Known, Driven, TypeOK
<1>8. ClaimInv'
  <2> SUFFICES ASSUME NEW s \in Settlers PROVE ClaimOK(s)'
    BY <1>1 DEF FiatInv, ClaimInv, Claimed, Known
  <2>1. ClaimOK(s) /\ (t[s].pc # "idle" => t[s].row \in Auths)
    BY DEF FiatInv, ClaimInv, RowInv, RowOK, Spenders
  <2> QED
    BY <1>1, <2>1 DEF ClaimOK, Claimed, Known
<1>9. FiatBroadcastOnce'
  BY <1>1 DEF FiatInv, FiatBroadcastOnce
<1> QED
  BY <1>2, <1>3, <1>4, <1>5, <1>6, <1>7, <1>8, <1>9 DEF FiatInv

LEMMA BesidesPay ==
  ASSUME PayInv, NEW i \in X402Calls, Besides(i)
  PROVE  PayInv'
<1> SUFFICES ASSUME NEW p \in PayCalls PROVE PayOK(p)'
  BY DEF PayInv
<1>1. /\ p # i /\ p \in ChargeIds /\ charges'[p] = charges[p]
      /\ UNCHANGED <<cardStatus, t, recon, mined>>
  BY CarveIds DEF Besides, ChargeIds
<1>2. IsInflight(p)' <=> IsInflight(p)
  BY <1>1 DEF Besides, IsInflight
<1>3. Moved(p)' <=> Moved(p)
  BY <1>1, <1>2 DEF Moved, IsMined
<1>4. \A r \in Redemptions' : r.charge = p => r \in Redemptions
  BY <1>1 DEF Besides, Redemptions
<1>5. RowGood(p, t[p], charges[p], Gone(p))'
  BY <1>1, <1>2, <1>3, <1>4
     DEF PayInv, PayOK, RowGood, PresentOK, HeldOK, SinceOK, Gone
<1> QED
  BY <1>1, <1>2, <1>5 DEF PayInv, PayOK, ListedOK

-----------------------------------------------------------------------------
(* What the pipeline does to a carve. *)

\* A step of the pipeline among x402 payments, but for the crash of both.
PipelineStep ==
    \/ Microtask
    \/ Quiet /\ (Task \/ Chain \/ NextWindow)
    \/ Quiet /\ \E i \in ChargeIds : AgeReservation(i)
    \/ UNCHANGED vars

LEMMA PipelineNext ==
  ASSUME PipelineStep
  PROVE  [Next]_vars
BY DEF PipelineStep, Next, World, AgeReservation

\* A waiter keeps its place: others join behind it or leave from the head.
KeepsPlace(i) ==
    \A c \in Cards : IsIn(i, mutex[c]) =>
        IsIn(i, mutex'[c]) /\ (Head(mutex[c]) = i => Head(mutex'[c]) = i)

LEMMA JoinKeeps ==
  ASSUME TypeOK, NEW i, NEW p \in Spenders \cup X402Calls, NEW l \in Cards,
         mutex' = [mutex EXCEPT ![l] = Append(@, p)]
  PROVE  KeepsPlace(i)
<1>1. mutex \in [Cards -> Seq(Spenders \cup X402Calls)]
  BY DEF TypeOK
<1>2. ASSUME NEW c \in Cards, IsIn(i, mutex[c])
      PROVE  IsIn(i, mutex'[c]) /\ (Head(mutex[c]) = i => Head(mutex'[c]) = i)
  <2>1. CASE c = l
    <3>1. mutex'[c] = Append(mutex[c], p) /\ mutex[c] \in Seq(Spenders \cup X402Calls)
      BY <1>1, <2>1
    <3> QED
      BY <1>2, <3>1, AppendKeeps
  <2>2. CASE c # l
    BY <1>1, <1>2, <2>2
  <2> QED
    BY <2>1, <2>2
<1> QED
  BY <1>2 DEF KeepsPlace

LEMMA LeaveKeepsPlace ==
  ASSUME TypeOK, NEW i, NEW l \in Cards, mutex[l] # <<>>, Head(mutex[l]) # i,
         mutex' = [mutex EXCEPT ![l] = Tail(@)]
  PROVE  KeepsPlace(i)
<1>1. mutex \in [Cards -> Seq(Spenders \cup X402Calls)]
  BY DEF TypeOK
<1>2. ASSUME NEW c \in Cards, IsIn(i, mutex[c])
      PROVE  IsIn(i, mutex'[c]) /\ (Head(mutex[c]) = i => Head(mutex'[c]) = i)
  <2>1. CASE c = l
    <3>1. mutex'[c] = Tail(mutex[c]) /\ mutex[c] \in Seq(Spenders \cup X402Calls)
      BY <1>1, <2>1
    <3> QED
      BY <1>2, <2>1, <3>1, TailKeeps
  <2>2. CASE c # l
    BY <1>1, <1>2, <2>2
  <2> QED
    BY <2>1, <2>2
<1> QED
  BY <1>2 DEF KeepsPlace

LEMMA NextPlace ==
  ASSUME TypeInv, NEW i \in X402Calls, PipelineStep
  PROVE  KeepsPlace(i)
<1>1. TypeOK /\ i \notin Spenders
  BY CarveIds DEF TypeInv
<1>2. ASSUME NEW p \in Spenders, NEW out, Leave(p, out), AtHead(p) \/ t[p].pc \in InSection
      PROVE  KeepsPlace(i)
  <2>1. /\ t[p].lock \in Cards /\ IsIn(p, mutex[t[p].lock]) /\ Head(mutex[t[p].lock]) = p
    BY <1>2 DEF TypeInv, LockInv, LockOK, AtHead, InQueue
  <2>2. mutex[t[p].lock] # <<>>
    BY <2>1, InNotEmpty DEF TypeInv, TypeOK
  <2> QED
    BY <1>1, <1>2, <2>1, <2>2, LeaveKeepsPlace DEF Leave
<1>3. CASE UNCHANGED mutex
  BY <1>3 DEF KeepsPlace
<1>4. ASSUME NEW p \in Spenders, EnterSpend(p) PROVE KeepsPlace(i)
  BY <1>2, <1>3, <1>4 DEF EnterSpend, ReplayKey, ReplaySettle, StartSpend
<1>5. ASSUME NEW p \in Spenders, ResumeSpend(p) PROVE KeepsPlace(i)
  BY <1>2, <1>3, <1>5
     DEF ResumeSpend, PlanFee, RaiseFee, RefuseUnreserved, Reserve, LoseBlock, RefuseReserved,
         Broadcast, SendReturns, SendThrows, Confirm, Revert, GiveUpConfirming, InSection
<1>6. ASSUME NEW p \in Spenders, NEW call, call.card \in Cards, Queue(p, call)
      PROVE  KeepsPlace(i)
  BY <1>1, <1>6, SpendKeyType, JoinKeeps DEF Queue
<1>7. ASSUME NEW p \in PayCalls, NEW c \in Cards, NEW k, NEW a, AgentSpend(p, c, k, a)
      PROVE  KeepsPlace(i)
  <2>1. [t[p] EXCEPT !.card = c, !.key = k, !.amount = a].card = c
    BY OwnRow DEF Call
  <2> QED
    BY <1>6, <1>7, <2>1, OwnRow DEF AgentSpend
<1>8. ASSUME NEW s \in Settlers, ResumeSettle(s) PROVE KeepsPlace(i)
  <2>1. s \in Spenders /\ (t[s].pc = "sleep" => t[s].card \in Cards)
    BY PipelineAssumption DEF Spenders, TypeInv, RowInv, RowOK
  <2> QED
    BY <1>3, <1>6, <1>8, <2>1 DEF ResumeSettle, ReadSettleRow, WakeSettler
<1>9. ASSUME NEW s \in Settlers, CatchSettle(s) PROVE KeepsPlace(i)
  BY <1>3, <1>9 DEF CatchSettle, SettleReturns, ParkRow, FreezeParked, RetrySettle,
                    UnchangedButParking
<1> QED
  BY <1>3, <1>4, <1>5, <1>7, <1>8, <1>9
     DEF PipelineStep, Microtask, Task, Chain, Owner, ApproveAuthorization, StartSettleSweep,
         SweepNextRow, StartReconcile, ResolveStale, PostponeReconcile, RelayerAccepts, Mine, Drop,
         NextWindow, AgeReservation, Age, Freeze, Unfreeze, Revoke, Expire, DeleteDeadCard,
         Control, vars

LEMMA DeletedStays ==
  ASSUME TypeInv, [Next]_vars, NEW c \in Cards, cardStatus[c] = "deleted"
  PROVE  cardStatus'[c] = "deleted"
<1>1. cardStatus \in [Cards -> CardStatuses]
  BY DEF TypeInv, TypeOK
<1>2. ASSUME NEW p \in Spenders, EnterSpend(p) \/ ResumeSpend(p) PROVE UNCHANGED cardStatus
  BY <1>2 DEF EnterSpend, ReplayKey, ReplaySettle, StartSpend, ResumeSpend, PlanFee, RaiseFee,
       RefuseUnreserved, Reserve, LoseBlock, RefuseReserved, Broadcast, SendReturns, SendThrows,
       Confirm, Revert, GiveUpConfirming, UnchangedButCalls
<1>3. ASSUME NEW s \in Settlers, CatchSettle(s) PROVE cardStatus'[c] = "deleted"
  BY <1>1, <1>3
     DEF CatchSettle, SettleReturns, ParkRow, FreezeParked, RetrySettle, FreezeIfActive
<1>4. CASE Owner
  BY <1>1, <1>4 DEF Owner, Freeze, Unfreeze, Revoke, Expire, DeleteDeadCard
<1> QED
  BY <1>2, <1>3, <1>4
     DEF Next, Microtask, Task, World, Chain, AgentSpend, ApproveAuthorization, ResumeSettle,
         ReadSettleRow, WakeSettler, StartSettleSweep, SweepNextRow, StartReconcile, ResolveStale,
         PostponeReconcile, RelayerAccepts, Mine, Drop, NextWindow, Age, Crash, vars, storeVars,
         UnchangedButCalls

\* Nothing but its own deal sends the redemption of a carve.
LEMMA CarveChain ==
  ASSUME TypeInv, NEW i \in X402Calls, [Next]_vars
  PROVE  /\ Moved(i)' => Moved(i)
         /\ \A r \in Redemptions' : r.charge = i => r \in Redemptions
<1>1. ASSUME NEW q \in Spenders, RelayerAccepts(q) PROVE t[q].row # i
  <2>1. t[q].pc = "send"
    BY <1>1 DEF RelayerAccepts
  <2> QED
    BY <2>1, CarveIds DEF TypeInv, RowInv, RowOK, Spenders
<1>2. \A r \in Redemptions' : r.charge = i => r \in Redemptions
  BY <1>1, RedemptionStep
<1>3. /\ Moved(i) <=> \E r \in Redemptions : r.charge = i
      /\ Moved(i)' <=> \E r \in Redemptions' : r.charge = i
  BY DEF Moved, Redemptions, IsMined, IsInflight
<1> QED
  BY <1>2, <1>3

\* Blocks are only added, and hold what was queued before.
LEMMA SinceKept ==
  ASSUME TypeInv, NEW i \in X402Calls, NEW n \in Nat, SinceOK(i, n), [Next]_vars
  PROVE  SinceOK(i, n)'
<1>1. Len(mined) \in Nat /\ DOMAIN mined = 1 .. Len(mined)
  BY LenProperties DEF TypeInv, TypeOK
<1>2. ASSUME NEW r \in inflight, Mine(r) PROVE SinceOK(i, n)'
  <2>1. mined' = Append(mined, r)
    BY <1>2 DEF Mine
  <2> QED
    BY <1>1, <2>1, MinedAppends DEF SinceOK
<1> QED
  BY <1>2, ChainStep DEF SinceOK, RelayerAccepts, Drop

\* A step of the pipeline keeps what holds of a carve.
LEMMA PipelineCarve ==
  ASSUME TypeInv, CarvesPlain, X402Types, NEW i \in X402Calls, XOK(i), PipelineStep,
         UNCHANGED xvars
  PROVE  XOK(i)'
<1> DEFINE row == charges[i]
<1>1. /\ i \in ChargeIds /\ charges \in [ChargeIds -> Charge] /\ row \in Charge
      /\ carve[i] \in Carving /\ UNCHANGED <<carve, deal, unheard>>
  BY CarveIds DEF TypeInv, TypeOK, X402Types, xvars
<1> [Next]_vars
  BY PipelineNext
<1>2. QueueOK(i, carve[i])'
  BY <1>1, NextPlace DEF XOK, QueueOK, KeepsPlace
<1>3. CarveGone(i) /\ carve[i].at # "idle" => CarveGone(i)'
  BY <1>1, DeletedStays DEF XOK, QueueOK, CarveGone
<1>4. /\ IsMined(i) => IsMined(i)'
      /\ deal[i].at \in {"send", "confirm"} => SinceOK(i, deal[i].since)'
  BY <1>1, MinedStays, SinceKept DEF XOK, DealOK, X402Types, Dealing
<1>5. CarveStep(i) \/ (Age(i) /\ carve[i].at = "done")
  BY CarveRows DEF PipelineStep, AgeReservation
<1>6. CASE charges'[i] = row
  <2>1. CarveOK(carve[i], deal[i], charges[i], CarveGone(i), i \notin unheard)'
    BY <1>1, <1>3, <1>6 DEF XOK, CarveOK
  <2>2. DealOK(i, deal[i], charges[i], i \notin unheard)'
    BY <1>1, <1>4, <1>6, CarveChain DEF XOK, DealOK
  <2> QED
    BY <1>2, <2>1, <2>2 DEF XOK
<1>7. CASE i \in X402Orphans /\ charges'[i] = [row EXCEPT !.status = "failed"]
  <2>1. row.aged /\ row.status = "pending"
    BY <1>7 DEF X402Orphans
  <2>2. charges'[i].status = "failed" /\ charges'[i].card = row.card
    BY <1>1, <1>7 DEF Charge
  <2>3. CarveOK(carve[i], deal[i], charges[i], CarveGone(i), i \notin unheard)'
    BY <1>1, <1>3, <2>1, <2>2 DEF XOK, CarveOK
  <2>4. DealOK(i, deal[i], charges[i], i \notin unheard)'
    BY <1>1, <1>4, <2>2, CarveChain DEF XOK, DealOK
  <2> QED
    BY <1>2, <2>3, <2>4 DEF XOK
<1>8. CASE charges'[i] = NoCharge /\ cardStatus'[row.card] = "deleted"
  <2>1. charges'[i].status = "absent"
    BY <1>8 DEF NoCharge
  <2>2. row.status # "absent" => CarveGone(i)'
    BY <1>1, <1>8 DEF XOK, CarveOK, CarveGone
  <2>3. CarveOK(carve[i], deal[i], charges[i], CarveGone(i), i \notin unheard)'
    BY <1>1, <1>3, <2>1, <2>2 DEF XOK, CarveOK
  <2>4. DealOK(i, deal[i], charges[i], i \notin unheard)'
    BY <1>1, <1>4, <2>1, CarveChain DEF XOK, DealOK
  <2> QED
    BY <1>2, <2>3, <2>4 DEF XOK
<1>9. CASE Age(i) /\ carve[i].at = "done"
  <2>1. charges'[i] = [row EXCEPT !.aged = TRUE] /\ row.status = "pending" /\ carve[i].at = "done"
    BY <1>1, <1>9 DEF Age
  <2>2. charges'[i].status = "pending" /\ charges'[i].card = row.card
    BY <1>1, <2>1 DEF Charge
  <2>3. CarveOK(carve[i], deal[i], charges[i], CarveGone(i), i \notin unheard)'
    BY <1>1, <1>3, <2>1, <2>2 DEF XOK, CarveOK
  <2>4. DealOK(i, deal[i], charges[i], i \notin unheard)'
    BY <1>1, <1>4, <2>2, CarveChain DEF XOK, DealOK
  <2> QED
    BY <1>2, <2>3, <2>4 DEF XOK
<1> QED
  BY <1>2, <1>5, <1>6, <1>7, <1>8, <1>9 DEF CarveStep, XOK

-----------------------------------------------------------------------------
(* A carve's own steps. *)

\* Another carve's step leaves this one as it was.
LEMMA BesidesCarve ==
  ASSUME FiatInv, NEW i \in X402Calls, NEW j \in X402Calls \ {i}, XOK(j), Besides(i),
         carve'[j] = carve[j], deal'[j] = deal[j], j \in unheard' <=> j \in unheard
  PROVE  XOK(j)'
<1>1. j \in ChargeIds /\ charges'[j] = charges[j] /\ UNCHANGED <<cardStatus, mined>>
  BY CarveIds DEF Besides
<1>2. QueueOK(j, carve[j])'
  BY <1>1 DEF XOK, QueueOK, Besides
<1>3. /\ Moved(j)' <=> Moved(j)
      /\ \A r \in Redemptions' : r.charge = j => r \in Redemptions
      /\ IsMined(j)' <=> IsMined(j)
      /\ \A n : SinceOK(j, n)' <=> SinceOK(j, n)
  BY <1>1 DEF Besides, Moved, IsMined, IsInflight, Redemptions, SinceOK
<1>4. CarveOK(carve[j], deal[j], charges[j], CarveGone(j), j \notin unheard)'
  BY <1>1 DEF XOK, CarveOK, CarveGone
<1>5. DealOK(j, deal[j], charges[j], j \notin unheard)'
  BY <1>1, <1>3 DEF XOK, DealOK
<1> QED
  BY <1>2, <1>4, <1>5 DEF XOK

\* The three things a carve does to the mutex.
MutexMove(i) ==
    \/ UNCHANGED mutex
    \/ \E l \in Cards : mutex' = [mutex EXCEPT ![l] = Append(@, i)]
    \/ \E l \in Cards : /\ mutex[l] # <<>> /\ Head(mutex[l]) = i
                       /\ mutex' = [mutex EXCEPT ![l] = Tail(@)]

LEMMA MutexBesides ==
  ASSUME TypeOK, NEW i \in X402Calls, MutexMove(i)
  PROVE  /\ mutex' \in [Cards -> Seq(Spenders \cup X402Calls)]
         /\ \A p : p # i => KeepsPlace(p)
<1> DEFINE S == Spenders \cup X402Calls
<1>1. mutex \in [Cards -> Seq(S)] /\ i \in S
  BY DEF TypeOK
<1>2. CASE UNCHANGED mutex
  BY <1>1, <1>2 DEF KeepsPlace
<1>3. ASSUME NEW l \in Cards, mutex' = [mutex EXCEPT ![l] = Append(@, i)]
      PROVE  /\ mutex' \in [Cards -> Seq(S)]
             /\ \A p : p # i => KeepsPlace(p)
  <2>1. Append(mutex[l], i) \in Seq(S)
    BY <1>1, AppendKeeps
  <2> HIDE DEF S
  <2>2. mutex' \in [Cards -> Seq(S)]
    BY <1>1, <1>3, <2>1
  <2> QED
    BY <1>3, <2>2, JoinKeeps
<1>4. ASSUME NEW l \in Cards, mutex[l] # <<>>, Head(mutex[l]) = i,
             mutex' = [mutex EXCEPT ![l] = Tail(@)]
      PROVE  /\ mutex' \in [Cards -> Seq(S)]
             /\ \A p : p # i => KeepsPlace(p)
  <2>1. Tail(mutex[l]) \in Seq(S)
    BY <1>1, <1>4, HeadTailProperties
  <2> HIDE DEF S
  <2>2. mutex' \in [Cards -> Seq(S)]
    BY <1>1, <1>4, <2>1
  <2> QED
    BY <1>4, <2>2, LeaveKeepsPlace
<1> QED
  BY <1>2, <1>3, <1>4 DEF MutexMove

\* A step that changes one row, at most, and the queues.
LEMMA StepBesides ==
  ASSUME TypeOK, NEW i \in X402Calls, MutexMove(i), UNCHANGED chainVars, PipelineStays,
         UNCHANGED charges \/ \E row \in Charge : charges' = [charges EXCEPT ![i] = row]
  PROVE  Besides(i)
<1>1. /\ mutex' \in [Cards -> Seq(Spenders \cup X402Calls)]
      /\ \A p \in (Spenders \cup X402Calls) \ {i} : KeepsPlace(p)
  BY MutexBesides
<1>2. i \in ChargeIds /\ charges \in [ChargeIds -> Charge]
  BY CarveIds DEF TypeOK
<1>3. charges' \in [ChargeIds -> Charge] /\ \A j \in ChargeIds \ {i} : charges'[j] = charges[j]
  BY <1>2
<1> QED
  BY <1>1, <1>3 DEF Besides, KeepsPlace, PipelineStays, boundVars, chainVars, TypeOK

\* What a step of carve i may touch.
XStep(i) ==
    /\ Besides(i) /\ X402Types'
    /\ \A j \in X402Calls \ {i} : /\ carve'[j] = carve[j] /\ deal'[j] = deal[j]
                                  /\ j \in unheard' <=> j \in unheard

LEMMA XFields ==
  ASSUME FiatInv, X402Types, NEW i \in X402Calls
  PROVE  /\ TypeOK /\ i \in ChargeIds /\ charges \in [ChargeIds -> Charge]
         /\ charges[i] \in Charge /\ carve[i] \in Carving /\ deal[i] \in Dealing
         /\ NoCarve \in Carving
  BY CarveIds DEF FiatInv, TypeOK, X402Types, NoCarve, Carving

\* One carve's record changes, and nothing else of x402.
LEMMA CarveMoves ==
  ASSUME FiatInv, X402Types, NEW i \in X402Calls, NEW call \in Carving,
         carve' = [carve EXCEPT ![i] = call], UNCHANGED <<deal, unheard>>, Besides(i)
  PROVE  /\ XStep(i) /\ carve'[i] = call
         /\ \A x \in X402Calls : deal'[x] = deal[x]
BY DEF XStep, X402Types

\* paid_fetch waits for its tree.
LEMMA FetchStep ==
  ASSUME FiatInv, X402Types, NEW i \in X402Calls, XOK(i), NEW c \in Cards, NEW a \in Amounts,
         PaidFetch(i, c, a)
  PROVE  XStep(i) /\ XOK(i)'
<1> DEFINE l == SpendKey(c)
           call == [NoCarve EXCEPT !.at = "queued", !.card = c, !.lock = l, !.amount = a]
<1>1. /\ UNCHANGED <<charges, chainVars, deal, unheard>> /\ PipelineStays
      /\ carve[i].at = "idle" /\ cardStatus[c] # "deleted"
      /\ carve' = [carve EXCEPT ![i] = call] /\ mutex' = [mutex EXCEPT ![l] = Append(@, i)]
  BY DEF PaidFetch
<1>2. l \in Cards /\ l = RootOf(c) /\ a \in Nat
  BY <1>1, SpendKeyType, ForestAssumption, PipelineAssumption DEF SpendKey, AncestorChain
<1>3. call \in Carving /\ call.at = "queued" /\ call.card = c /\ call.lock = l
  BY <1>2 DEF Carving, NoCarve
<1> HIDE DEF call, l
<1>4. Besides(i)
  BY <1>1, <1>2, XFields, StepBesides DEF MutexMove
<1>5. XStep(i) /\ carve'[i] = call /\ deal'[i] = deal[i]
  BY <1>1, <1>3, <1>4, CarveMoves
<1>6. IsIn(i, mutex'[l])
  <2>1. mutex'[l] = Append(mutex[l], i) /\ mutex[l] \in Seq(Spenders \cup X402Calls)
    BY <1>1, <1>2, XFields DEF TypeOK
  <2> QED
    BY <2>1, AppendKeeps
<1>7. QueueOK(i, carve[i])'
  BY <1>2, <1>3, <1>5, <1>6 DEF QueueOK
<1>8. CarveOK(carve[i], deal[i], charges[i], CarveGone(i), i \notin unheard)'
  BY <1>1, <1>3, <1>5 DEF XOK, CarveOK
<1>9. DealOK(i, deal[i], charges[i], i \notin unheard)'
  BY <1>1, <1>5 DEF XOK, DealOK, chainVars, Moved, IsMined, IsInflight, Redemptions, SinceOK
<1> QED
  BY <1>5, <1>7, <1>8, <1>9 DEF XOK

\* The holder of the key leaves it.
LEMMA LeavesBesides ==
  ASSUME FiatInv, X402Types, NEW i \in X402Calls, XOK(i), LeaveMutex(i),
         MayCarve(i) \/ carve[i].at = "sign"
  PROVE  MutexMove(i)
<1>1. /\ carve[i].lock \in Cards /\ IsIn(i, mutex[carve[i].lock])
      /\ Head(mutex[carve[i].lock]) = i
  BY DEF XOK, QueueOK, MayCarve
<1>2. mutex[carve[i].lock] # <<>>
  BY <1>1, XFields, InNotEmpty DEF TypeOK
<1> QED
  BY <1>1, <1>2 DEF LeaveMutex, MutexMove

\* buildX402Payload, before and after the signature, when nothing is booked.
LEMMA SigningStep ==
  ASSUME FiatInv, X402Types, NEW i \in X402Calls, XOK(i), StartCarve(i) \/ FailCarve(i)
  PROVE  XStep(i) /\ XOK(i)'
<1>1. /\ UNCHANGED <<charges, chainVars, deal, unheard>> /\ PipelineStays
      /\ carve[i].at \in {"queued", "sign"} /\ window \in Nat
  BY XFields DEF StartCarve, FailCarve, MayCarve, TypeOK
<1>2. ASSUME NEW call \in Carving, carve' = [carve EXCEPT ![i] = call], MutexMove(i),
             QueueOK(i, carve[i])', call.card = carve[i].card, call.at \in {"sign", "done"}
      PROVE  XStep(i) /\ XOK(i)'
  <2>1. Besides(i)
    BY <1>1, <1>2, XFields, StepBesides
  <2>2. XStep(i) /\ carve'[i] = call /\ deal'[i] = deal[i]
    BY <1>1, <1>2, <2>1, CarveMoves
  <2>3. CarveOK(carve[i], deal[i], charges[i], CarveGone(i), i \notin unheard)'
    BY <1>1, <1>2, <2>2 DEF XOK, CarveOK
  <2>4. DealOK(i, deal[i], charges[i], i \notin unheard)'
    BY <1>1, <2>2 DEF XOK, DealOK, chainVars, Moved, IsMined, IsInflight, Redemptions, SinceOK
  <2> QED
    BY <1>2, <2>2, <2>3, <2>4 DEF XOK
<1>3. CASE /\ MayCarve(i) /\ UNCHANGED mutex
           /\ carve' = [carve EXCEPT ![i].at = "sign", ![i].win = window]
  <2> DEFINE call == [carve[i] EXCEPT !.at = "sign", !.win = window]
  <2>1. call \in Carving /\ call.at = "sign" /\ call.card = carve[i].card
        /\ call.lock = carve[i].lock
    BY <1>1, XFields DEF Carving
  <2>2. carve' = [carve EXCEPT ![i] = call] /\ carve'[i] = call
    BY <1>3 DEF X402Types
  <2> HIDE DEF call
  <2>3. QueueOK(i, carve[i])'
    BY <1>3, <2>1, <2>2 DEF XOK, QueueOK, MayCarve
  <2> QED
    BY <1>2, <1>3, <2>1, <2>2, <2>3 DEF MutexMove
<1>4. CASE /\ MayCarve(i) \/ carve[i].at = "sign"
           /\ LeaveMutex(i) /\ carve' = [carve EXCEPT ![i].at = "done"]
  <2> DEFINE call == [carve[i] EXCEPT !.at = "done"]
  <2>1. call \in Carving /\ call.at = "done" /\ call.card = carve[i].card
    BY <1>1, XFields DEF Carving
  <2>2. carve' = [carve EXCEPT ![i] = call] /\ carve'[i] = call
    BY <1>4 DEF X402Types
  <2> HIDE DEF call
  <2>3. QueueOK(i, carve[i])'
    BY <1>1, <2>1, <2>2 DEF XOK, QueueOK
  <2> QED
    BY <1>2, <1>4, <2>1, <2>2, <2>3, LeavesBesides
<1> QED
  BY <1>3, <1>4 DEF StartCarve, FailCarve

\* The reservation, and the deal that begins with it.
LEMMA CarvingStep ==
  ASSUME FiatInv, X402Types, NEW i \in X402Calls, XOK(i), Carve(i)
  PROVE  XStep(i) /\ XOK(i)'
<1> DEFINE row == [NoCharge EXCEPT !.status = "pending", !.card = carve[i].card,
                                   !.amount = carve[i].amount, !.fee = X402Headroom,
                                   !.win = carve[i].win]
           call == [carve[i] EXCEPT !.at = "fetch"]
           bid == [deal[i] EXCEPT !.at = "verify"]
<1>1. /\ UNCHANGED <<chainVars, unheard>> /\ PipelineStays /\ carve[i].at = "sign"
      /\ charges' = [charges EXCEPT ![i] = row] /\ LeaveMutex(i)
      /\ carve' = [carve EXCEPT ![i] = call] /\ deal' = [deal EXCEPT ![i] = bid]
  BY DEF Carve, X402Types
<1>2. /\ call \in Carving /\ call.at = "fetch" /\ call.card = carve[i].card
      /\ carve[i].card \in Cards /\ carve[i].amount \in Nat /\ carve[i].win \in Nat
  BY <1>1, XFields DEF Carving, XOK, QueueOK
<1>3. /\ row \in Charge /\ row.status = "pending" /\ row.card = carve[i].card
      /\ row.fee = X402Headroom /\ ~row.aged
  BY <1>2, X402Assumption DEF NoCharge, Charge, ChargeStatuses
<1>4. bid \in Dealing /\ bid.at = "verify" /\ bid.accepted = deal[i].accepted
      /\ bid.fee = deal[i].fee /\ deal[i].at = "none"
  BY <1>1, XFields DEF Dealing, XOK, CarveOK
<1> HIDE DEF row, call, bid
<1>5. Besides(i)
  BY <1>1, <1>3, XFields, LeavesBesides, StepBesides
<1>6. XStep(i) /\ carve'[i] = call /\ deal'[i] = bid /\ charges'[i] = row
  BY <1>1, <1>2, <1>4, <1>5, XFields DEF XStep, X402Types
<1>7. QueueOK(i, carve[i])'
  BY <1>2, <1>6 DEF QueueOK
<1>8. CarveOK(carve[i], deal[i], charges[i], CarveGone(i), i \notin unheard)'
  BY <1>2, <1>3, <1>4, <1>6 DEF CarveOK
<1>9. DealOK(i, deal[i], charges[i], i \notin unheard)'
  BY <1>1, <1>3, <1>4, <1>6
     DEF XOK, DealOK, chainVars, Moved, IsMined, IsInflight, Redemptions, SinceOK
<1> QED
  BY <1>6, <1>7, <1>8, <1>9 DEF XOK

\* The four ends of a fetch: finalizeX402Charge, and what it was told.
LEMMA FinalStep ==
  ASSUME FiatInv, X402Types, NEW i \in X402Calls, XOK(i),
         NEW st \in {"confirmed", "settlement_unconfirmed", "failed"}, NEW fee \in Nat,
         Finalize(i, st, fee), carve[i].at = "fetch",
         \/ /\ st = "confirmed" /\ fee \in {0, deal[i].fee} /\ deal[i].at = "served"
            /\ UNCHANGED unheard
         \/ st = "settlement_unconfirmed" /\ deal[i].at = "served" /\ UNCHANGED unheard
         \/ st = "failed" /\ deal[i].at = "refused" /\ UNCHANGED unheard
         \/ st = "failed" /\ unheard' = unheard \cup {i}
  PROVE  XStep(i) /\ XOK(i)'
<1> DEFINE row == [charges[i] EXCEPT !.status = st, !.fee = fee]
           call == [carve[i] EXCEPT !.at = "done"]
<1>1. /\ UNCHANGED <<mutex, chainVars, deal>> /\ PipelineStays
      /\ UpdateCharge(i, row) /\ carve' = [carve EXCEPT ![i] = call]
  BY DEF Finalize, X402Types
<1>2. /\ call \in Carving /\ call.at = "done" /\ call.card = carve[i].card
      /\ carve[i].card \in Cards
  BY XFields DEF Carving, XOK, QueueOK
<1>3. /\ row \in Charge /\ row.status = st /\ row.card = charges[i].card /\ row.fee = fee
  BY XFields DEF Charge, ChargeStatuses
<1> HIDE DEF row, call
<1>4. /\ Besides(i) /\ charges'[i] = IF charges[i].status = "absent" THEN charges[i] ELSE row
      /\ UNCHANGED cardStatus
  BY <1>1, <1>3, XFields, StepBesides DEF UpdateCharge, MutexMove, PipelineStays
<1>5. XStep(i) /\ carve'[i] = call /\ UNCHANGED deal
  BY <1>1, <1>2, <1>4, XFields DEF XStep, X402Types
<1>6. QueueOK(i, carve[i])'
  BY <1>2, <1>5 DEF QueueOK
<1>7. CarveOK(carve[i], deal[i], charges[i], CarveGone(i), i \notin unheard)'
  BY <1>2, <1>3, <1>4, <1>5 DEF XOK, CarveOK, CarveGone
<1>8. DealOK(i, deal[i], charges[i], i \notin unheard)'
  <2>1. /\ Moved(i)' <=> Moved(i)
        /\ IsMined(i)' <=> IsMined(i)
        /\ Redemptions' = Redemptions
        /\ \A n : SinceOK(i, n)' <=> SinceOK(i, n)
    BY <1>1 DEF chainVars, Moved, IsMined, IsInflight, Redemptions, SinceOK
  <2>2. charges'[i].status = "confirmed" => deal[i].at = "served" \/ charges[i].status = "confirmed"
    BY <1>3, <1>4
  <2>3. (i \notin unheard') => (i \notin unheard)
    OBVIOUS
  <2> QED
    BY <1>5, <2>1, <2>2, <2>3 DEF XOK, DealOK
<1> QED
  BY <1>5, <1>6, <1>7, <1>8 DEF XOK

LEMMA PayerStep ==
  ASSUME FiatInv, X402Types, NEW i \in X402Calls, XOK(i), Payer(i)
  PROVE  XStep(i) /\ XOK(i)'
<1>1. charges[i].fee \in Nat /\ deal[i].fee \in Nat /\ 0 \in Nat
  BY XFields DEF Charge, Dealing
<1>2. CASE HearAnswer(i)
  <2>1. PICK tx \in BOOLEAN, fee \in {0, deal[i].fee} :
           Finalize(i, IF tx THEN "confirmed" ELSE "settlement_unconfirmed", fee)
    BY <1>2 DEF HearAnswer
  <2>2. carve[i].at = "fetch" /\ deal[i].at = "served" /\ UNCHANGED unheard /\ fee \in Nat
    BY <1>1, <1>2 DEF HearAnswer
  <2> QED
    BY <2>1, <2>2, FinalStep
<1>3. CASE HearRefusal(i)
  BY <1>1, <1>3, FinalStep DEF HearRefusal
<1>4. CASE LoseAnswer(i)
  BY <1>1, <1>4, FinalStep DEF LoseAnswer
<1> QED
  BY <1>2, <1>3, <1>3, <1>4, CarvingStep, SigningStep DEF Payer

\* One deal changes.
LEMMA DealMoves ==
  ASSUME FiatInv, X402Types, NEW i \in X402Calls, NEW bid \in Dealing,
         deal' = [deal EXCEPT ![i] = bid], UNCHANGED <<charges, carve>>, Besides(i),
         unheard' = unheard \/ unheard' = unheard \cup {i}
  PROVE  /\ XStep(i) /\ deal'[i] = bid
         /\ i \notin unheard' => i \notin unheard
BY DEF XStep, X402Types

\* The seller's side moves on, with nothing sent.
LEMMA DealingStep ==
  ASSUME FiatInv, X402Types, NEW i \in X402Calls, XOK(i), PayerStays, UNCHANGED chainVars,
         NEW bid \in Dealing, deal' = [deal EXCEPT ![i] = bid],
         unheard' = unheard \/ unheard' = unheard \cup {i},
         deal[i].at \notin {"none", "served", "refused"}, bid.at # "none",
         bid.accepted => deal[i].accepted /\ bid.at \in {"send", "confirm", "served", "refused"},
         deal[i].accepted => bid.accepted /\ bid.fee = deal[i].fee,
         bid.at \in {"send", "confirm", "served"} => bid.fee <= X402Headroom,
         bid.at \in {"estimate", "send", "confirm", "served"} => bid.fee \in Fees[i],
         bid.at \in {"send", "confirm"} => SinceOK(i, bid.since),
         bid.at = "refused" => ~Moved(i) \/ i \in unheard' \/ ~FailuresReal,
         bid.at = "served" => (FeesDistinct => IsMined(i))
  PROVE  XStep(i) /\ XOK(i)'
<1>1. UNCHANGED <<charges, mutex, carve, cardStatus>> /\ PipelineStays
  BY DEF PayerStays, PipelineStays
<1>2. Besides(i)
  BY <1>1, XFields, StepBesides DEF MutexMove
<1>3. XStep(i) /\ deal'[i] = bid /\ (i \notin unheard' => i \notin unheard)
  BY <1>1, <1>2, DealMoves
<1>4. QueueOK(i, carve[i])'
  BY <1>1 DEF XOK, QueueOK
<1>5. CarveOK(carve[i], deal[i], charges[i], CarveGone(i), i \notin unheard)'
  BY <1>1, <1>3 DEF XOK, CarveOK, CarveGone
<1>6. DealOK(i, deal[i], charges[i], i \notin unheard)'
  <2>1. /\ Moved(i)' <=> Moved(i)
        /\ IsMined(i)' <=> IsMined(i)
        /\ Redemptions' = Redemptions
        /\ \A n : SinceOK(i, n)' <=> SinceOK(i, n)
    BY DEF chainVars, Moved, IsMined, IsInflight, Redemptions, SinceOK
  <2>2. \A r \in Redemptions : r.charge = i => Moved(i)
    BY DEF Redemptions, Moved, IsMined, IsInflight
  <2>3. Moved(i) => deal[i].accepted
    BY DEF XOK, DealOK
  <2>4. charges[i].status # "confirmed"
    BY DEF XOK, CarveOK
  <2>5. \A r \in Redemptions' : r.charge = i => r.fee = deal'[i].fee
    BY <1>3, <2>1, <2>2, <2>3 DEF XOK, DealOK
  <2>6. deal'[i].accepted => deal'[i].fee \in Fees[i]
    BY <1>3 DEF XOK, DealOK
  <2> QED
    BY <1>1, <1>3, <2>1, <2>3, <2>4, <2>5, <2>6 DEF DealOK
<1> QED
  BY <1>3, <1>4, <1>5, <1>6 DEF XOK

\* A failure that is real is that of a redemption that never moved: its transfer
\* would be among the logs.
LEMMA FailedIsReal ==
  ASSUME NEW i, NEW fee, NEW n, FailuresReal, ReadsFailed(i, fee, n), SinceOK(i, n),
         \A r \in Redemptions : r.charge = i => r.fee = fee
  PROVE  ~Moved(i)
<1>1. ~IsInflight(i) /\ (IsMined(i) => "included" \in FalseFailures)
  BY DEF ReadsFailed, StatusFailed, FailuresReal
<1>2. ASSUME NEW k \in DOMAIN mined, mined[k].charge = i PROVE FALSE
  <2>1. CollectorMatches /\ ~LogFound(fee, n)
    BY <1>1, <1>2 DEF IsMined, FailuresReal, ReadsFailed
  <2>2. k >= n /\ mined[k].fee = fee
    BY <1>2 DEF SinceOK, Redemptions
  <2> QED
    BY <1>2, <2>1, <2>2 DEF LogFound, LogMatches
<1> QED
  BY <1>1, <1>2 DEF Moved, IsMined

LEMMA SellerStep ==
  ASSUME FiatInv, DrawnInv, X402Types, NEW i \in X402Calls, XOK(i), Seller(i)
  PROVE  XStep(i) /\ XOK(i)'
<1> DEFINE old == deal[i]
<1>1. /\ old \in Dealing /\ old.fee \in Nat /\ old.tries \in Nat /\ old.since \in Nat
      /\ old.accepted \in BOOLEAN /\ Len(mined) \in Nat /\ Fees[i] \subseteq Nat
  BY XFields, LenProperties, PipelineAssumption DEF Dealing, TypeOK
<1>2. /\ old.accepted => old.at \in {"send", "confirm", "served", "refused"}
      /\ Moved(i) => old.accepted
      /\ old.at \in {"send", "confirm", "served"} => old.fee <= X402Headroom
      /\ old.at \in {"estimate", "send", "confirm", "served"} => old.fee \in Fees[i]
      /\ old.at \in {"send", "confirm"} => SinceOK(i, old.since)
  BY DEF XOK, DealOK
<1>3. CASE QuoteDeal(i)
  <2>1. PICK f \in Fees[i] : deal' = [deal EXCEPT ![i].at = "estimate", ![i].fee = f]
    BY <1>3 DEF QuoteDeal
  <2> DEFINE bid == [old EXCEPT !.at = "estimate", !.fee = f]
  <2>2. bid \in Dealing /\ bid.at = "estimate" /\ bid.accepted = old.accepted /\ bid.fee = f
    BY <1>1 DEF Dealing
  <2>3. deal' = [deal EXCEPT ![i] = bid]
    BY <2>1 DEF X402Types
  <2> HIDE DEF bid
  <2> QED
    BY <1>2, <1>3, <2>2, <2>3, DealingStep DEF QuoteDeal
<1>4. CASE RaiseDeal(i)
  <2>1. PICK f \in Fees[i] : deal' = [deal EXCEPT ![i].fee = f, ![i].tries = @ + 1]
    BY <1>4 DEF RaiseDeal
  <2> DEFINE n == old.tries + 1
             bid == [old EXCEPT !.fee = f, !.tries = n]
  <2>2. n \in Nat /\ f \in Nat
    BY <1>1
  <2>3. deal' = [deal EXCEPT ![i] = bid]
    BY <2>1 DEF X402Types
  <2> HIDE DEF n
  <2>4. /\ bid \in Dealing /\ bid.at = old.at /\ bid.accepted = old.accepted
        /\ bid.fee = f
    BY <1>1, <2>2 DEF Dealing
  <2> HIDE DEF bid
  <2> QED
    BY <1>2, <1>4, <2>3, <2>4, DealingStep DEF RaiseDeal
<1>5. CASE SendDeal(i)
  <2> DEFINE bid == [old EXCEPT !.at = "send", !.since = Len(mined)]
  <2>2. /\ bid \in Dealing /\ bid.at = "send" /\ bid.accepted = old.accepted
        /\ bid.fee = old.fee /\ bid.since = Len(mined)
    BY <1>1 DEF Dealing
  <2>3. deal' = [deal EXCEPT ![i] = bid]
    BY <1>5 DEF SendDeal, X402Types
  <2> HIDE DEF bid
  <2>4. ~Moved(i) /\ old.at = "estimate"
    BY <1>2, <1>5 DEF SendDeal
  <2>5. SinceOK(i, Len(mined))
    BY <1>1, <2>4 DEF SinceOK, Moved, IsMined
  <2> QED
    BY <1>2, <1>5, <2>2, <2>3, <2>4, <2>5, DealingStep DEF SendDeal
<1>6. ASSUME NEW at \in {"confirm", "served", "refused"},
             deal' = [deal EXCEPT ![i].at = at], PayerStays, UNCHANGED chainVars,
             old.at \in {"send", "confirm"} \/ (old.at \in {"verify", "estimate"} /\ at = "refused"),
             unheard' = unheard \/ unheard' = unheard \cup {i},
             at = "refused" => ~Moved(i) \/ i \in unheard' \/ ~FailuresReal,
             at = "served" => (FeesDistinct => IsMined(i))
      PROVE  XStep(i) /\ XOK(i)'
  <2> DEFINE bid == [old EXCEPT !.at = at]
  <2>1. /\ bid \in Dealing /\ bid.at = at /\ bid.accepted = old.accepted
        /\ bid.fee = old.fee /\ bid.since = old.since
    BY <1>1 DEF Dealing
  <2>2. deal' = [deal EXCEPT ![i] = bid]
    BY <1>6 DEF X402Types
  <2> HIDE DEF bid
  <2> QED
    BY <1>2, <1>6, <2>1, <2>2, DealingStep
<1>7. CASE RefuseDeal(i)
  BY <1>2, <1>6, <1>7 DEF RefuseDeal
<1>8. CASE DealSent(i)
  BY <1>6, <1>8 DEF DealSent
<1>9. CASE DealThrows(i)
  BY <1>2, <1>6, <1>9 DEF DealThrows
<1>10. CASE ConfirmDeal(i)
  <2>1. FeesDistinct => IsMined(i)
    BY <1>2, <1>10, CarveIds, FoundIsMined
       DEF ConfirmDeal, Settled, OnChain, ReadsConfirmed, FiatInv, TypeInv
  <2> QED
    BY <1>6, <1>10, <2>1 DEF ConfirmDeal
<1>11. CASE DealReverted(i)
  <2>1. FailuresReal => ~Moved(i)
    BY <1>2, <1>11, FailedIsReal DEF DealReverted, XOK, DealOK
  <2> QED
    BY <1>6, <1>11, <2>1 DEF DealReverted
<1>12. CASE DealTimesOut(i)
  BY <1>6, <1>12 DEF DealTimesOut
<1> QED
  BY <1>3, <1>4, <1>5, <1>7, <1>8, <1>9, <1>10, <1>11, <1>12 DEF Seller

\* The relayer queues the settlement.
LEMMA AcceptedStep ==
  ASSUME FiatInv, X402Types, NEW i \in X402Calls, XOK(i), DealAccepted(i)
  PROVE  XStep(i) /\ XOK(i)'
<1> DEFINE bid == [deal[i] EXCEPT !.accepted = TRUE]
           r == [charge |-> i, fee |-> deal[i].fee]
<1>1. /\ UNCHANGED <<charges, mutex, carve, mined, unheard>> /\ PipelineStays
      /\ deal[i].at = "send" /\ ~deal[i].accepted /\ deal' = [deal EXCEPT ![i] = bid]
      /\ inflight' = inflight \cup {r} /\ sent' = [sent EXCEPT ![i] = IF @ < 2 THEN @ + 1 ELSE @]
  BY DEF DealAccepted, PayerStays, X402Types
<1>2. bid \in Dealing /\ bid.at = "send" /\ bid.accepted /\ bid.fee = deal[i].fee
      /\ bid.since = deal[i].since
  BY <1>1, XFields DEF Dealing
<1>3. r \in Redemption /\ r.charge = i /\ r.fee = deal[i].fee
  BY XFields DEF Redemption, Dealing
<1> HIDE DEF bid, r
<1>4. Besides(i)
  <2>1. /\ mutex' \in [Cards -> Seq(Spenders \cup X402Calls)]
        /\ \A p \in (Spenders \cup X402Calls) \ {i} : KeepsPlace(p)
    BY <1>1, XFields, MutexBesides DEF MutexMove
  <2>2. sent \in [ChargeIds -> 0..2]
    BY XFields DEF TypeOK
  <2>3. /\ sent' \in [ChargeIds -> 0..2]
        /\ \A j \in ChargeIds \ {i} : sent'[j] = sent[j]
    BY <1>1, <2>2, XFields
  <2>4. inflight' \subseteq Redemption /\ inflight \subseteq inflight'
        /\ \A x \in inflight' : x \in inflight \/ x.charge = i
    BY <1>1, <1>3, XFields DEF TypeOK
  <2> QED
    BY <1>1, <2>1, <2>3, <2>4, XFields DEF Besides, KeepsPlace, PipelineStays, boundVars
<1>5. XStep(i) /\ deal'[i] = bid
  BY <1>1, <1>2, <1>4, DealMoves
<1>6. QueueOK(i, carve[i])'
  BY <1>1 DEF XOK, QueueOK
<1>7. CarveOK(carve[i], deal[i], charges[i], CarveGone(i), i \notin unheard)'
  BY <1>1, <1>2, <1>5 DEF XOK, CarveOK, CarveGone, PipelineStays
<1>8. DealOK(i, deal[i], charges[i], i \notin unheard)'
  <2>1. /\ IsMined(i)' <=> IsMined(i)
        /\ \A n : SinceOK(i, n)' <=> SinceOK(i, n)
    BY <1>1 DEF IsMined, SinceOK
  <2>2. \A x \in Redemptions' : x \in Redemptions \/ x = r
    BY <1>1 DEF Redemptions
  <2>3. charges'[i].status # "confirmed"
    BY <1>1 DEF XOK, CarveOK
  <2> QED
    BY <1>1, <1>2, <1>3, <1>5, <2>1, <2>2, <2>3 DEF XOK, DealOK
<1> QED
  BY <1>5, <1>6, <1>7, <1>8 DEF XOK

-----------------------------------------------------------------------------
(* The invariant of x402 payments. *)

\* A step of a carve of its own.
XOwn(i) == \/ StartCarve(i) \/ Payer(i) \/ Seller(i) \/ DealAccepted(i)
           \/ \E c \in Cards, a \in Amounts : PaidFetch(i, c, a)

LEMMA XOwnStep ==
  ASSUME FiatInv, DrawnInv, X402Types, NEW i \in X402Calls, XOK(i), XOwn(i)
  PROVE  XStep(i) /\ XOK(i)'
BY FetchStep, SigningStep, PayerStep, SellerStep, AcceptedStep DEF XOwn

\* What a carve's step writes has neither a key nor a request.
LEMMA XOwnPlain ==
  ASSUME FiatInv, CarvesPlain, X402Types, NEW i \in X402Calls, XOwn(i), XStep(i)
  PROVE  CarvesPlain'
<1>1. UNCHANGED recon /\ \A x \in X402Calls : x \in ChargeIds /\ (x # i => charges'[x] = charges[x])
  BY CarveIds DEF XStep, Besides
<1>2. /\ charges[i] \in Charge /\ charges \in [ChargeIds -> Charge] /\ i \in ChargeIds
      /\ charges[i].key = NoKey /\ charges[i].request = "null"
  BY XFields DEF CarvesPlain
<1>3. ASSUME NEW st, NEW fee, Finalize(i, st, fee)
      PROVE  charges'[i].key = NoKey /\ charges'[i].request = "null"
  BY <1>2, <1>3 DEF Finalize, UpdateCharge, Charge
<1>4. ASSUME Carve(i) PROVE charges'[i].key = NoKey /\ charges'[i].request = "null"
  <2> DEFINE row == [NoCharge EXCEPT !.status = "pending", !.card = carve[i].card,
                                     !.amount = carve[i].amount, !.fee = X402Headroom,
                                     !.win = carve[i].win]
  <2>1. row.key = NoKey /\ row.request = "null"
    BY DEF NoCharge
  <2>2. charges'[i] = row
    BY <1>2, <1>4 DEF Carve
  <2> QED
    BY <2>1, <2>2
<1>5. ASSUME UNCHANGED charges PROVE charges'[i].key = NoKey /\ charges'[i].request = "null"
  BY <1>2, <1>5
<1>6. charges'[i].key = NoKey /\ charges'[i].request = "null"
  BY <1>3, <1>4, <1>5
     DEF XOwn, PaidFetch, StartCarve, Payer, FailCarve, HearAnswer, HearRefusal,
         LoseAnswer, Seller, QuoteDeal, RaiseDeal, RefuseDeal, SendDeal, DealSent, DealThrows,
         ConfirmDeal, DealReverted, DealTimesOut, DealAccepted, PayerStays
<1> QED
  BY <1>1, <1>6 DEF CarvesPlain

\* A carve's step keeps the fees, its own among them.
LEMMA BesidesDrawn ==
  ASSUME FiatInv, DrawnInv, NEW i \in X402Calls, Besides(i), XOK(i)', CarvesPlain'
  PROVE  DrawnInv'
<1>1. /\ UNCHANGED <<cardStatus, t, recon, mined>>
      /\ \A j \in PayCalls \cup Auths : charges'[j] = charges[j]
  BY CarveIds DEF Besides, ChargeIds
<1>2. ASSUME NEW p \in Spenders PROVE DrawnCall(p)'
  <2>1. t[p].pc \in {"block", "send"} => t[p].row \in PayCalls \cup Auths
    BY DEF FiatInv, RowInv, RowOK, Spenders
  <2>2. DrawnCall(p)
    BY DEF DrawnInv
  <2> QED
    BY <1>1, <2>1, <2>2 DEF DrawnCall, Priced
<1>3. ASSUME NEW j \in PayCalls \cup Auths PROVE DrawnRow(j)'
  BY <1>1 DEF DrawnInv, DrawnRow, Priced, Known
<1>4. ASSUME NEW r \in Redemptions' PROVE r.fee \in Fees[r.charge]
  <2>1. r \in Redemptions \/ r.charge = i
    BY <1>1 DEF Besides, Redemptions
  <2>2. CASE r.charge = i
    BY <2>2 DEF XOK, DealOK, Moved, Redemptions, IsMined, IsInflight
  <2> QED
    BY <2>1, <2>2 DEF DrawnInv
<1> QED
  BY <1>2, <1>3, <1>4 DEF DrawnInv

\* The process dies: fetches end, some deals are refused, and nobody hears.
LEMMA XCrashStep ==
  ASSUME FiatInv, XInv, X402Crash
  PROVE  XInv'
<1>1. Crash /\ UNCHANGED <<charges, cardStatus, mined, inflight>>
  BY DEF X402Crash, Crash, storeVars, chainVars
<1>2. PICK own \in SUBSET X402Calls :
         deal' = [x \in X402Calls |-> IF x \in own /\ deal[x].at # "none"
                                      THEN [deal[x] EXCEPT !.at = "refused"] ELSE deal[x]]
  BY DEF X402Crash
<1>3. ASSUME NEW x \in X402Calls
      PROVE  /\ carve'[x] \in Carving /\ carve'[x].card = carve[x].card
             /\ carve[x].at = "idle" => carve'[x] = carve[x]
             /\ carve[x].at # "idle" => carve'[x].at = "done"
  <2>1. carve[x] \in Carving
    BY XFields DEF XInv
  <2>2. carve'[x] = IF carve[x].at = "idle" THEN carve[x] ELSE [carve[x] EXCEPT !.at = "done"]
    BY DEF X402Crash
  <2> QED
    BY <2>1, <2>2 DEF Carving
<1>4. ASSUME NEW x \in X402Calls
      PROVE  /\ deal'[x] \in Dealing /\ deal'[x].fee = deal[x].fee
             /\ deal'[x].since = deal[x].since
             /\ deal'[x].accepted = deal[x].accepted
             /\ deal'[x].at = deal[x].at \/ (deal'[x].at = "refused" /\ deal[x].at # "none")
  <2>1. deal[x] \in Dealing
    BY XFields DEF XInv
  <2>2. deal'[x] = deal[x] \/ (deal[x].at # "none" /\ deal'[x] = [deal[x] EXCEPT !.at = "refused"])
    BY <1>2
  <2> QED
    BY <2>1, <2>2 DEF Dealing
<1>5. unheard' = unheard \cup {x \in X402Calls : deal[x].at # "none"}
  BY DEF X402Crash
<1>6. X402Types'
  <2>1. carve' \in [X402Calls -> Carving]
    BY <1>3 DEF X402Crash
  <2>2. deal' \in [X402Calls -> Dealing]
    BY <1>2, <1>4
  <2> QED
    BY <1>5, <2>1, <2>2 DEF X402Types, XInv
<1>7. ASSUME NEW i \in X402Calls PROVE XOK(i)'
  <2>1. QueueOK(i, carve[i])'
    BY <1>3 DEF XInv, XOK, QueueOK
  <2>2. CarveOK(carve[i], deal[i], charges[i], CarveGone(i), i \notin unheard)'
    <3>1. UNCHANGED charges /\ (CarveGone(i)' <=> CarveGone(i))
      BY <1>1, <1>3 DEF CarveGone
    <3>2. CarveOK(carve[i], deal[i], charges[i], CarveGone(i), i \notin unheard)
      BY DEF XInv, XOK
    <3> QED
      BY <1>3, <1>4, <1>5, <3>1, <3>2 DEF CarveOK
  <2>3. DealOK(i, deal[i], charges[i], i \notin unheard)'
    <3>1. /\ Moved(i)' <=> Moved(i)
          /\ IsMined(i)' <=> IsMined(i)
          /\ Redemptions' = Redemptions
          /\ \A n : SinceOK(i, n)' <=> SinceOK(i, n)
      BY <1>1 DEF Moved, IsMined, IsInflight, Redemptions, SinceOK
    <3>2. /\ DealOK(i, deal[i], charges[i], i \notin unheard)
          /\ deal[i].at = "none" => ~Moved(i)
      BY DEF XInv, XOK, DealOK
    <3> QED
      BY <1>1, <1>4, <1>5, <3>1, <3>2 DEF DealOK
  <2> QED
    BY <2>1, <2>2, <2>3 DEF XOK
<1> QED
  BY <1>6, <1>7 DEF XInv

\* All that x402 payments and the pipeline under them rely on.
SharedInv == FiatInv /\ DrawnInv /\ PayInv /\ XInv

\* A step is one of the pipeline's, of one carve, or the crash of both.
LEMMA XNextIs ==
  ASSUME [X402Next]_allVars
  PROVE  \/ PipelineStep /\ UNCHANGED xvars
         \/ \E i \in X402Calls : XOwn(i)
         \/ X402Crash
BY DEF X402Next, X402Micro, X402Quiet, XOwn, PipelineStep, allVars

LEMMA XNextShared ==
  ASSUME SharedInv, [X402Next]_allVars
  PROVE  SharedInv'
<1> USE DEF SharedInv
<1>1. TypeInv
  BY DEF FiatInv, TypeInv
<1>2. ASSUME [Next]_vars PROVE FiatInv' /\ DrawnInv' /\ PayInv'
  BY <1>1, <1>2, NextFiat, NextDrawn, NextPay
<1>3. CASE PipelineStep /\ UNCHANGED xvars
  <2>1. X402Types'
    BY <1>3 DEF XInv, X402Types, xvars
  <2>2. \A i \in X402Calls : XOK(i)'
    BY <1>1, <1>3, PipelineCarve DEF XInv, DrawnInv
  <2> QED
    BY <1>2, <1>3, <2>1, <2>2, PipelineNext DEF XInv
<1>4. ASSUME NEW i \in X402Calls, XOwn(i) PROVE SharedInv'
  <2>1. XStep(i) /\ XOK(i)'
    BY <1>4, XOwnStep DEF XInv
  <2>2. \A j \in X402Calls \ {i} : XOK(j)'
    BY <2>1, BesidesCarve DEF XInv, XStep
  <2>3. FiatInv' /\ PayInv'
    BY <2>1, BesidesFiat, BesidesPay DEF XStep
  <2>4. DrawnInv'
    <3>1. CarvesPlain'
      BY <1>4, <2>1, XOwnPlain DEF XInv, DrawnInv
    <3> QED
      BY <2>1, <3>1, BesidesDrawn DEF XStep
  <2> QED
    BY <2>1, <2>2, <2>3, <2>4 DEF XInv, XStep
<1>5. CASE X402Crash
  <2>1. Next
    BY <1>5 DEF X402Crash, Next
  <2> QED
    BY <1>2, <1>5, <2>1, XCrashStep
<1> QED
  BY <1>3, <1>4, <1>5, XNextIs

LEMMA XInitShared == X402Init => SharedInv
<1> SUFFICES ASSUME X402Init PROVE SharedInv
  OBVIOUS
<1>1. Init /\ FiatInv /\ DrawnInv /\ PayInv
  BY InitFiat, InitDrawn, InitPay DEF X402Init
<1>2. \A i \in X402Calls : charges[i] = NoCharge
  BY <1>1 DEF Init, ChargeIds
<1>3. inflight = {} /\ mined = <<>>
  BY <1>1 DEF Init
<1>5. /\ carve = [i \in X402Calls |-> NoCarve] /\ deal = [i \in X402Calls |-> NoDeal]
      /\ unheard = {} /\ NoCarve \in Carving /\ NoDeal \in Dealing
  BY DEF X402Init, NoCarve, NoDeal, Carving, Dealing
<1>6. X402Types
  BY <1>5 DEF X402Types
<1>7. ASSUME NEW i \in X402Calls PROVE XOK(i)
  <2>1. /\ carve[i].at = "idle" /\ deal[i].at = "none" /\ ~deal[i].accepted
        /\ charges[i].status = "absent"
    BY <1>2, <1>5 DEF NoCarve, NoDeal, NoCharge
  <2>2. ~Moved(i) /\ Redemptions = {}
    BY <1>3 DEF Moved, IsMined, IsInflight, Redemptions
  <2> QED
    BY <2>1, <2>2 DEF XOK, QueueOK, CarveOK, DealOK
<1> QED
  BY <1>1, <1>6, <1>7 DEF SharedInv, XInv

\* The invariants of the pipeline hold among x402 payments, which share its
\* books, its mutex and its chain, and so does that of each carve and its deal.
THEOREM X402Invariant == X402Spec => []SharedInv
  BY XInitShared, XNextShared, PTL DEF X402Spec

\* A receipt is true: a carve that the books call confirmed is on the chain, with
\* the fee they hold if they hold one, if no two charges are given the same fee.
THEOREM ReceiptsAreTrue ==
  ASSUME FeesDistinct
  PROVE  X402Spec => []ReceiptIsTrue
<1>1. SharedInv => ReceiptIsTrue
  <2> SUFFICES ASSUME SharedInv, NEW i \in X402Calls, charges[i].status = "confirmed"
               PROVE  \E k \in DOMAIN mined : /\ mined[k].charge = i
                                              /\ charges[i].fee \in {0, mined[k].fee}
    BY DEF ReceiptIsTrue
  <2>1. /\ charges[i].fee \in {0, deal[i].fee} /\ IsMined(i)
        /\ \A r \in Redemptions : r.charge = i => r.fee = deal[i].fee
    BY DEF SharedInv, XInv, XOK, CarveOK, DealOK
  <2>2. PICK k \in DOMAIN mined : mined[k].charge = i
    BY <2>1 DEF IsMined
  <2>3. mined[k] \in Redemptions
    BY <2>2 DEF Redemptions
  <2> QED
    BY <2>1, <2>2, <2>3
<1> QED
  BY <1>1, X402Invariant, PTL

\* The budget of an x402 payment that is on the chain stays in the books until
\* its card is deleted, if everybody waited for its outcome and failures are real.
THEOREM PaidStaysCounted ==
  ASSUME FailuresReal
  PROVE  X402Spec => []PaidIsCounted
<1>1. SharedInv => PaidIsCounted
  <2> SUFFICES ASSUME SharedInv, NEW i \in X402Calls, IsMined(i), i \notin unheard,
                      cardStatus[carve[i].card] # "deleted"
               PROVE  charges[i].status \notin {"absent", "failed"}
    BY DEF PaidIsCounted
  <2>1. /\ CarveOK(carve[i], deal[i], charges[i], CarveGone(i), i \notin unheard)
        /\ DealOK(i, deal[i], charges[i], i \notin unheard)
        /\ Moved(i) /\ carve[i] \in Carving /\ ~CarveGone(i)
    BY XFields DEF SharedInv, XInv, XOK, Moved, CarveGone
  <2>2. deal[i].at \in {"send", "confirm", "served"}
    BY <2>1 DEF DealOK
  <2>3. carve[i].at \in {"fetch", "done"}
    BY <2>1, <2>2 DEF CarveOK, Carving
  <2> QED
    BY <2>1, <2>2, <2>3 DEF CarveOK
<1> QED
  BY <1>1, X402Invariant, PTL

-----------------------------------------------------------------------------
(* The caps among x402 payments, where every reservation waits for the mutex. *)

\* An agent's call holds the key of its card's tree.
PayKeyInv == \A p \in PayCalls : SettleKeyOK(p)

\* What a carve validated before its signature it may still book after it.
HasRoom(i) ==
    carve[i].at = "sign" =>
        \A a \in AncestorsOf[carve[i].card] :
            RoomAt(charges, a, carve[i].win, carve[i].amount + X402Headroom)

RoomInv == \A i \in X402Calls : HasRoom(i)

LEMMA PayKeyKept ==
  ASSUME TypeInv, FiatRowInv, PayKeyInv, [Next]_vars
  PROVE  PayKeyInv'
<1> SUFFICES ASSUME NEW p \in PayCalls PROVE SettleKeyOK(p)'
  BY DEF PayKeyInv
<1>1. p \in Spenders /\ ~SettleMode(p)
  BY OwnRow DEF SettleMode
<1>2. CallStep(p)
  BY <1>1, NextMove DEF CallMove
<1>3. SettleKeyOK(p)
  BY DEF PayKeyInv
<1>4. t[p].pc = "queued" => t[p].card \in Cards
  BY <1>1 DEF TypeInv, RowInv, RowOK
<1>5. CASE t'[p] = t[p]
  <2>1. t[p].pc = "queued" /\ cardStatus[t[p].card] = "deleted"
          => cardStatus'[t[p].card] = "deleted"
    BY <1>4, DeletedStays
  <2> QED
    BY <1>3, <1>5, <2>1 DEF SettleKeyOK
<1>6. CASE t'[p].pc \in {"idle", "read", "sleep", "exit"}
  BY <1>6 DEF SettleKeyOK, InSection
<1>7. CASE /\ t'[p].pc = "queued" /\ t'[p].lock = SpendKey(t'[p].card)
           /\ UNCHANGED cardStatus
  <2>1. t'[p].card \in Cards
    <3>1. TypeInv'
      BY NextTypes
    <3>2. RowOK(p, t'[p])
      BY <1>1, <3>1 DEF TypeInv, RowInv, RowOK
    <3> QED
      BY <1>7, <3>2 DEF RowOK
  <2>2. \/ t'[p].lock = RootOf(t'[p].card)
        \/ AncestorChain(t'[p].card) = {}
    BY <1>7 DEF SpendKey
  <2>3. AncestorChain(t'[p].card) = {} => cardStatus[t'[p].card] = "deleted"
    BY <2>1, ForestAssumption DEF AncestorChain
  <2> QED
    BY <1>7, <2>2, <2>3 DEF SettleKeyOK, InSection
<1>8. CASE SameCall(p) /\ Advances(p)
  <2>1. t[p].lock = RootOf(t[p].card)
    <3>1. \/ t[p].pc = "queued" /\ cardStatus[t[p].card] # "deleted"
          \/ t[p].pc \in InSection
      BY <1>8 DEF Advances, Broadcast, InSection
    <3> QED
      BY <1>3, <3>1 DEF SettleKeyOK
  <2>2. t'[p].pc # "queued"
    BY <1>8 DEF Advances
  <2> QED
    BY <1>8, <2>1, <2>2 DEF SettleKeyOK, SameCall
<1> QED
  BY <1>2, <1>5, <1>6, <1>7, <1>8 DEF CallStep

\* Less in the books leaves as much room.
LEMMA LessRoom ==
  ASSUME NEW cs \in [ChargeIds -> Charge], NEW ds \in [ChargeIds -> Charge],
         Lessens(cs, ds), NEW a \in Cards, CardFits(cs, a), NEW w \in Nat, NEW firm \in Nat,
         RoomAt(cs, a, w, firm)
  PROVE  RoomAt(ds, a, w, firm)
<1> DEFINE S == CountedIn(cs, a)
           T == CountedIn(ds, a)
           V == SinceWindow(cs, a, w)
           U == SinceWindow(ds, a, w)
<1>1. /\ T \subseteq S /\ S \subseteq ChargeIds /\ IsFiniteSet(S)
      /\ \A i \in T : InBooks(ds[i])
  BY DEF CountedIn, Lessens, CardFits
<1>2. U \subseteq V /\ V \subseteq S /\ U \subseteq T
  BY <1>1 DEF SinceWindow, CountedIn, Lessens
<1>3. /\ IsFiniteSet(T) /\ Cardinality(T) <= Cardinality(S)
      /\ Cardinality(S) \in Nat /\ Cardinality(T) \in Nat
      /\ IsFiniteSet(V) /\ IsFiniteSet(U)
  BY <1>1, <1>2, FS_Subset, FS_CardinalityType
<1>4. ASSUME NEW A, IsFiniteSet(A), A \subseteq S
      PROVE  SumOver(Firms(cs), A) \in Nat /\ SumOver(Firms(ds), A) \in Nat
  <2>1. \A i \in A : Firms(cs)[i] \in Nat /\ Firms(ds)[i] \in Nat
    BY <1>1, <1>4, FirmNat
  <2> QED
    BY <1>4, <2>1, SumOverNat
<1>5. SumOver(Firms(ds), T) <= SumOver(Firms(cs), S)
  BY <1>1, PartFits
<1>6. SumOver(Firms(ds), U) <= SumOver(Firms(cs), V)
  BY <1>1, <1>2, <1>3, PartFits
<1>7. Cardinality(T) < MaxUses[a]
  <2>1. Cardinality(S) < MaxUses[a]
    BY DEF RoomAt
  <2> HIDE DEF S, T
  <2> QED
    BY <1>3, <2>1, CapsNat
<1>8. SumOver(Firms(ds), T) + firm <= LifetimeCap[a]
  <2>1. /\ SumOver(Firms(cs), S) + firm <= LifetimeCap[a]
        /\ SumOver(Firms(cs), S) \in Nat /\ SumOver(Firms(ds), T) \in Nat
    BY <1>1, <1>3, <1>4 DEF RoomAt
  <2> HIDE DEF S, T
  <2> QED
    BY <1>5, <2>1, CapsNat
<1>9. SumOver(Firms(ds), U) + firm <= PeriodCap[a]
  <2>1. /\ SumOver(Firms(cs), V) + firm <= PeriodCap[a]
        /\ SumOver(Firms(cs), V) \in Nat /\ SumOver(Firms(ds), U) \in Nat
    BY <1>1, <1>2, <1>3, <1>4 DEF RoomAt
  <2> HIDE DEF U, V
  <2> QED
    BY <1>6, <2>1, CapsNat
<1> QED
  BY <1>7, <1>8, <1>9 DEF RoomAt

\* A row booked elsewhere does not take the room.
LEMMA OtherRoom ==
  ASSUME NEW cs \in [ChargeIds -> Charge], NEW j \in ChargeIds, ~InBooks(cs[j]),
         NEW row \in Charge, NEW a \in Cards, row.card \notin SubtreeOf(a), CardFits(cs, a),
         NEW w \in Nat, NEW firm \in Nat, RoomAt(cs, a, w, firm)
  PROVE  RoomAt([cs EXCEPT ![j] = row], a, w, firm)
<1> DEFINE ds == [cs EXCEPT ![j] = row]
           S == CountedIn(cs, a)
           V == SinceWindow(cs, a, w)
<1>1. /\ ds \in [ChargeIds -> Charge] /\ ds[j] = row
      /\ \A i \in ChargeIds \ {j} : ds[i] = cs[i]
  OBVIOUS
<1> HIDE DEF ds
<1>2. CountedIn(ds, a) = S /\ S \subseteq ChargeIds \ {j} /\ IsFiniteSet(S)
  BY <1>1 DEF CountedIn, CardFits
<1>3. SinceWindow(ds, a, w) = V /\ V \subseteq S
  BY <1>1, <1>2 DEF SinceWindow
<1>4. ASSUME NEW A, A \subseteq S
      PROVE  SumOver(Firms(ds), A) = SumOver(Firms(cs), A)
  <2>1. IsFiniteSet(A) /\ \A i \in A : Firms(ds)[i] = Firms(cs)[i]
    BY <1>1, <1>2, <1>4, FS_Subset DEF Firms
  <2> QED
    BY <2>1, SumOverEqual
<1>5. RoomAt(ds, a, w, firm)
  BY <1>2, <1>3, <1>4 DEF RoomAt
<1> QED
  BY <1>5 DEF ds

\* Cards with different roots share no card above them.
LEMMA TreesApart ==
  ASSUME NEW c \in Cards, NEW d \in Cards, RootOf(c) # RootOf(d), NEW a \in AncestorsOf[c]
  PROVE  d \notin SubtreeOf(a)
<1> SUFFICES ASSUME a \in AncestorsOf[d] PROVE FALSE
  BY DEF SubtreeOf
<1>1. a \in Cards /\ AncestorsOf[a] \subseteq AncestorsOf[c] /\ AncestorsOf[a] \subseteq AncestorsOf[d]
  BY ForestAssumption
<1>2. PICK r \in AncestorsOf[a] : Parent[r] = NoCard
  BY <1>1, ForestAssumption
<1>3. RootOf(c) = r /\ RootOf(d) = r
  BY <1>1, <1>2, ForestAssumption DEF RootOf
<1> QED
  BY <1>3

\* Who books holds its tree's key, so it is not the tree of a carve that signs.
LEMMA BookedApart ==
  ASSUME SharedInv, PayKeyInv, NEW i \in X402Calls, carve[i].at = "sign",
         NEW p \in PayCalls \cup X402Calls, p # i, NEW c,
         \/ p \in PayCalls /\ t[p].pc = "estimate" /\ c = t[p].card
         \/ p \in X402Calls /\ carve[p].at = "sign" /\ c = carve[p].card
  PROVE  c \in Cards /\ \A a \in AncestorsOf[carve[i].card] : c \notin SubtreeOf(a)
<1>1. /\ carve[i].card \in Cards /\ carve[i].lock = RootOf(carve[i].card)
      /\ Head(mutex[carve[i].lock]) = i
  BY DEF SharedInv, XInv, XOK, QueueOK
<1>2. c \in Cards /\ Head(mutex[RootOf(c)]) = p
  <2>1. CASE p \in X402Calls /\ carve[p].at = "sign" /\ c = carve[p].card
    BY <2>1 DEF SharedInv, XInv, XOK, QueueOK
  <2>2. CASE p \in PayCalls /\ t[p].pc = "estimate" /\ c = t[p].card
    <3>1. t[p].lock = RootOf(t[p].card) /\ p \in Spenders
      BY <2>2 DEF PayKeyInv, SettleKeyOK, InSection, Spenders
    <3>2. Head(mutex[t[p].lock]) = p /\ t[p].card \in Cards
      BY <2>2, <3>1 DEF SharedInv, FiatInv, LockInv, LockOK, RowInv, RowOK, InSection
    <3> QED
      BY <2>2, <3>1, <3>2
  <2> QED
    BY <2>1, <2>2
<1>3. RootOf(carve[i].card) # RootOf(c)
  BY <1>1, <1>2
<1> QED
  BY <1>1, <1>2, <1>3, TreesApart

-----------------------------------------------------------------------------
(* What each step does to the room that a carve found. *)

CarvedInv == SharedInv /\ CapInv /\ PayKeyInv /\ RoomInv

\* The numbers of a carve that signs.
LEMMA RoomNat ==
  ASSUME SharedInv, NEW i \in X402Calls
  PROVE  /\ carve[i].win \in Nat /\ carve[i].amount + X402Headroom \in Nat
         /\ charges \in [ChargeIds -> Charge]
BY XFields, X402Assumption DEF SharedInv, XInv, Carving

LEMMA RoomLessens ==
  ASSUME CarvedInv, NEW i \in X402Calls, carve'[i] = carve[i],
         charges' \in [ChargeIds -> Charge], Lessens(charges, charges')
  PROVE  HasRoom(i)'
<1> SUFFICES ASSUME carve[i].at = "sign", NEW a \in AncestorsOf[carve[i].card]
             PROVE  RoomAt(charges', a, carve[i].win, carve[i].amount + X402Headroom)
  BY DEF HasRoom
<1>1. carve[i].card \in Cards
  BY DEF CarvedInv, SharedInv, XInv, XOK, QueueOK
<1>2. a \in Cards
  BY <1>1, ForestAssumption
<1>3. RoomAt(charges, a, carve[i].win, carve[i].amount + X402Headroom) /\ CardFits(charges, a)
  BY <1>2 DEF CarvedInv, RoomInv, HasRoom, CapInv, BooksFit
<1> QED
  BY <1>2, <1>3, RoomNat, LessRoom DEF CarvedInv

LEMMA RoomBesides ==
  ASSUME CarvedInv, NEW i \in X402Calls, carve'[i] = carve[i],
         NEW p \in PayCalls \cup X402Calls, p # i, NEW row \in Charge,
         charges' = [charges EXCEPT ![p] = row], ~InBooks(charges[p]),
         \/ p \in PayCalls /\ t[p].pc = "estimate" /\ row.card = t[p].card
         \/ p \in X402Calls /\ carve[p].at = "sign" /\ row.card = carve[p].card
  PROVE  HasRoom(i)'
<1> SUFFICES ASSUME carve[i].at = "sign", NEW a \in AncestorsOf[carve[i].card]
             PROVE  RoomAt(charges', a, carve[i].win, carve[i].amount + X402Headroom)
  BY DEF HasRoom
<1>1. carve[i].card \in Cards
  BY DEF CarvedInv, SharedInv, XInv, XOK, QueueOK
<1>2. a \in Cards
  BY <1>1, ForestAssumption
<1>3. RoomAt(charges, a, carve[i].win, carve[i].amount + X402Headroom) /\ CardFits(charges, a)
  BY <1>2 DEF CarvedInv, RoomInv, HasRoom, CapInv, BooksFit
<1>4. row.card \notin SubtreeOf(a)
  BY BookedApart DEF CarvedInv
<1>5. p \in ChargeIds
  BY DEF ChargeIds
<1> QED
  BY <1>2, <1>3, <1>4, <1>5, RoomNat, OtherRoom DEF CarvedInv

\* What a step of a carve does to the books, but for its reservation.
LEMMA XOwnLessens ==
  ASSUME SharedInv, NEW i \in X402Calls, XOwn(i), ~Carve(i)
  PROVE  Lessens(charges, charges')
<1>1. /\ FiatInv /\ X402Types /\ XOK(i)
      /\ charges \in [ChargeIds -> Charge] /\ i \in ChargeIds /\ charges[i] \in Charge
  BY XFields DEF SharedInv, XInv
<1>2. \A j \in ChargeIds : Firm(j, charges[j]) \in Nat
  BY <1>1, FirmNat DEF Firms
<1>3. ASSUME UNCHANGED charges PROVE Lessens(charges, charges')
  BY <1>2, <1>3 DEF Lessens
<1>4. ASSUME NEW st, NEW fee \in Nat, Finalize(i, st, fee), carve[i].at = "fetch",
             st = "failed" \/ fee <= X402Headroom
      PROVE  Lessens(charges, charges')
  <2> DEFINE row == [charges[i] EXCEPT !.status = st, !.fee = fee]
  <2>1. /\ row.status = st /\ row.card = charges[i].card /\ row.win = charges[i].win
        /\ row.amount = charges[i].amount /\ row.fee = fee
    BY <1>1 DEF Charge
  <2>2. UpdateCharge(i, row)
    BY <1>4 DEF Finalize
  <2> HIDE DEF row
  <2>3. CASE charges[i].status = "absent"
    BY <1>3, <2>2, <2>3 DEF UpdateCharge
  <2>4. CASE charges[i].status # "absent"
    <3>1. charges[i].status = "pending" /\ charges[i].fee = X402Headroom
      BY <1>1, <1>4, <2>4 DEF XOK, CarveOK
    <3>2. charges' = [charges EXCEPT ![i] = row]
      BY <2>2, <2>4 DEF UpdateCharge
    <3>3. i \notin Auths /\ charges[i].amount \in Nat
      BY <1>1, CarveIds DEF Charge
    <3>4. InBooks(row) => Firm(i, row) <= Firm(i, charges[i])
      BY <1>4, <2>1, <3>1, <3>3, X402Assumption DEF Firm, InBooks
    <3>5. InBooks(charges[i])
      BY <3>1 DEF InBooks
    <3> QED
      BY <1>1, <1>2, <2>1, <3>2, <3>4, <3>5 DEF Lessens
  <2> QED
    BY <2>3, <2>4
<1>5. /\ charges[i].fee \in Nat /\ deal[i].fee \in Nat /\ 0 <= X402Headroom
      /\ deal[i].at = "served" => deal[i].fee <= X402Headroom
  BY <1>1, XFields, X402Assumption DEF Charge, Dealing, XOK, DealOK
<1>6. CASE HearAnswer(i)
  <2>1. PICK tx \in BOOLEAN, fee \in {0, deal[i].fee} :
           Finalize(i, IF tx THEN "confirmed" ELSE "settlement_unconfirmed", fee)
    BY <1>6 DEF HearAnswer
  <2> QED
    BY <1>4, <1>5, <1>6, <2>1 DEF HearAnswer
<1>7. CASE HearRefusal(i) \/ LoseAnswer(i)
  BY <1>4, <1>5, <1>7 DEF HearRefusal, LoseAnswer
<1> QED
  BY <1>3, <1>6, <1>7
     DEF XOwn, PaidFetch, StartCarve, Payer, FailCarve, Seller, QuoteDeal, RaiseDeal, RefuseDeal,
         SendDeal, DealSent, DealThrows, ConfirmDeal, DealReverted, DealTimesOut, DealAccepted,
         PayerStays

\* What buildX402Payload books, after the signature: what it found room for.
LEMMA CarveFits ==
  ASSUME CarvedInv, NEW i \in X402Calls, Carve(i)
  PROVE  /\ BooksFit(charges')
         /\ \A j \in X402Calls \ {i} : carve'[j] = carve[j] => HasRoom(j)'
<1> DEFINE row == [NoCharge EXCEPT !.status = "pending", !.card = carve[i].card,
                                   !.amount = carve[i].amount, !.fee = X402Headroom,
                                   !.win = carve[i].win]
<1>1. /\ FiatInv /\ X402Types /\ XOK(i) /\ BooksFit(charges)
      /\ charges \in [ChargeIds -> Charge] /\ i \in ChargeIds
  BY XFields DEF CarvedInv, SharedInv, XInv, CapInv
<1>2. charges' = [charges EXCEPT ![i] = row] /\ carve[i].at = "sign"
  BY DEF Carve
<1>3. carve[i].card \in Cards /\ carve[i].amount \in Nat /\ carve[i].win \in Nat
  BY <1>1, <1>2, XFields DEF Carving, XOK, QueueOK
<1>4. /\ row \in Charge /\ row.card = carve[i].card /\ row.win = carve[i].win
      /\ row.amount = carve[i].amount /\ row.fee = X402Headroom
  BY <1>3, X402Assumption DEF NoCharge, Charge, ChargeStatuses
<1> HIDE DEF row
<1>5. ~InBooks(charges[i])
  BY <1>1, <1>2 DEF XOK, CarveOK, InBooks
<1>6. Firm(i, row) = carve[i].amount + X402Headroom
  BY <1>4, CarveIds DEF Firm
<1>7. \A a \in AncestorsOf[row.card] : RoomAt(charges, a, row.win, Firm(i, row))
  BY <1>2, <1>4, <1>6 DEF CarvedInv, RoomInv, HasRoom
<1>8. BooksFit(charges')
  BY <1>1, <1>2, <1>3, <1>4, <1>5, <1>7, AddFits
<1>9. \A j \in X402Calls \ {i} : carve'[j] = carve[j] => HasRoom(j)'
  BY <1>2, <1>4, <1>5, RoomBesides
<1> QED
  BY <1>8, <1>9

\* The validation before the signature finds the room.
LEMMA StartFindsRoom ==
  ASSUME CarvedInv, NEW i \in X402Calls, StartCarve(i), carve'[i].at = "sign"
  PROVE  HasRoom(i)'
<1>1. /\ FiatInv /\ X402Types /\ XOK(i) /\ BooksFit(charges) /\ TypeInv
      /\ carve[i] \in Carving /\ window \in Nat /\ UNCHANGED charges
  BY XFields DEF CarvedInv, SharedInv, XInv, CapInv, FiatInv, TypeInv, TypeOK, StartCarve
<1>2. CASE carve' = [carve EXCEPT ![i].at = "done"]
  BY <1>1, <1>2 DEF X402Types, Carving
<1>3. CASE CarveAdmitted(i) /\ carve' = [carve EXCEPT ![i].at = "sign", ![i].win = window]
  <2>1. carve'[i] = [carve[i] EXCEPT !.at = "sign", !.win = window]
    BY <1>1, <1>3 DEF X402Types
  <2>2. /\ carve'[i].card = carve[i].card /\ carve'[i].amount = carve[i].amount
        /\ carve'[i].win = window
    BY <1>1, <2>1 DEF Carving
  <2>3. carve[i].card \in Cards /\ carve[i].amount + X402Headroom \in Nat
    BY <1>1, RoomNat DEF XOK, QueueOK, StartCarve, MayCarve, CarvedInv
  <2>4. ASSUME NEW a \in AncestorsOf[carve[i].card]
        PROVE  RoomAt(charges, a, window, carve[i].amount + X402Headroom)
    <3>1. a \in Cards
      BY <2>3, ForestAssumption
    <3>2. /\ SubtreeUsesCount(a) < MaxUses[a]
          /\ SubtreeSpentSince(a, window) + (carve[i].amount + X402Headroom) <= PeriodCap[a]
          /\ SubtreeSpentLifetime(a) + (carve[i].amount + X402Headroom) <= LifetimeCap[a]
      BY <1>3 DEF CarveAdmitted, WithinCaps
    <3>3. carve[i].amount + X402Headroom <= carve[i].amount + X402Headroom
      BY <2>3
    <3> QED
      BY <1>1, <2>3, <3>1, <3>2, <3>3, RoomFound
  <2> QED
    BY <1>1, <2>2, <2>4 DEF HasRoom
<1> QED
  BY <1>2, <1>3 DEF StartCarve

\* What a carve's own step leaves of the caps, the keys and the room.
LEMMA XOwnCarved ==
  ASSUME CarvedInv, NEW i \in X402Calls, XOwn(i), SharedInv'
  PROVE  CarvedInv'
<1>1. /\ FiatInv /\ X402Types /\ XOK(i) /\ SharedInv
      /\ charges \in [ChargeIds -> Charge] /\ charges' \in [ChargeIds -> Charge]
  BY XFields DEF CarvedInv, SharedInv, XInv, FiatInv, TypeOK
<1>2. XStep(i)
  BY <1>1, XOwnStep DEF SharedInv
<1>3. /\ UNCHANGED <<cardStatus, t, backlog>>
      /\ \A a \in Auths : a \in ChargeIds /\ charges'[a] = charges[a]
      /\ \A j \in X402Calls \ {i} : carve'[j] = carve[j]
  BY <1>2, CarveIds DEF XStep, Besides, ChargeIds
<1>4. DeletedDown' /\ SettlersOff' /\ FeesReserved' /\ CarvesPlain'
  BY <1>3 DEF CarvedInv, CapInv, DeletedDown, SettlersOff, FeesReserved, SubtreeOf, SharedInv,
              DrawnInv
<1>5. PayKeyInv'
  BY <1>3 DEF CarvedInv, PayKeyInv, SettleKeyOK
<1>6. CASE Carve(i)
  <2>1. carve'[i].at # "sign"
    <3>1. carve' = [carve EXCEPT ![i].at = "fetch"]
      BY <1>6 DEF Carve
    <3>2. carve[i] \in Carving /\ carve'[i] = [carve[i] EXCEPT !.at = "fetch"]
      BY <1>1, <3>1, XFields DEF X402Types
    <3> QED
      BY <3>2 DEF Carving
  <2>2. HasRoom(i)'
    BY <2>1 DEF HasRoom
  <2> QED
    BY <1>1, <1>3, <1>4, <1>5, <1>6, <2>2, CarveFits DEF CarvedInv, CapInv, RoomInv
<1>7. CASE ~Carve(i)
  <2>1. Lessens(charges, charges')
    BY <1>1, <1>7, XOwnLessens
  <2>2. BooksFit(charges')
    BY <1>1, <2>1, LessFits DEF CarvedInv, CapInv
  <2>3. \A j \in X402Calls \ {i} : HasRoom(j)'
    BY <1>1, <1>3, <2>1, RoomLessens
  <2>4. HasRoom(i)'
    <3>1. CASE carve'[i] = carve[i]
      BY <1>1, <2>1, <3>1, RoomLessens
    <3>2. CASE StartCarve(i) /\ carve'[i].at = "sign"
      BY <3>2, StartFindsRoom
    <3>3. CASE carve'[i].at # "sign"
      BY <3>3 DEF HasRoom
    <3>4. \/ carve'[i] = carve[i] \/ carve'[i].at # "sign"
          \/ (StartCarve(i) /\ carve'[i].at = "sign")
      <4>1. CASE UNCHANGED carve
        BY <4>1
      <4>2. CASE StartCarve(i)
        BY <4>2
      <4>3. CASE carve' = [carve EXCEPT ![i].at = "done"]
        BY <1>1, <4>3, XFields DEF X402Types, Carving
      <4>4. CASE \E c \in Cards, a \in Amounts : PaidFetch(i, c, a)
        <5>1. PICK c \in Cards, a \in Amounts : PaidFetch(i, c, a)
          BY <4>4
        <5> DEFINE l == SpendKey(c)
                   call == [NoCarve EXCEPT !.at = "queued", !.card = c, !.lock = l, !.amount = a]
        <5>2. carve'[i] = call
          BY <1>1, <5>1 DEF PaidFetch, X402Types
        <5>3. call.at = "queued"
          BY DEF NoCarve
        <5> HIDE DEF call
        <5> QED
          BY <5>2, <5>3
      <4> QED
        BY <1>7, <4>1, <4>2, <4>3, <4>4
           DEF XOwn, Payer, FailCarve, HearAnswer, HearRefusal, LoseAnswer,
               Finalize, Seller, QuoteDeal, RaiseDeal, RefuseDeal, SendDeal, DealSent, DealThrows,
               ConfirmDeal, DealReverted, DealTimesOut, DealAccepted, PayerStays
    <3> QED
      BY <3>1, <3>2, <3>3, <3>4
  <2> QED
    BY <1>1, <1>4, <1>5, <2>2, <2>3, <2>4 DEF CarvedInv, CapInv, RoomInv
<1> QED
  BY <1>6, <1>7

\* And what a step of the pipeline does, when no webhook books beside it.
LEMMA PipelineCarved ==
  ASSUME Auths = {}, CarvedInv, PipelineStep, UNCHANGED xvars, SharedInv'
  PROVE  CarvedInv'
<1> [Next]_vars
  BY PipelineNext
<1>1. /\ SharedInv /\ FiatInv /\ FiatInv' /\ PayInv /\ CapInv /\ TypeInv /\ FiatRowInv
      /\ charges \in [ChargeIds -> Charge] /\ charges' \in [ChargeIds -> Charge]
      /\ UNCHANGED carve
  BY DEF CarvedInv, SharedInv, FiatInv, TypeInv, TypeOK, xvars
<1>2. CapInv'
  BY <1>1, NextCap
<1>3. PayKeyInv'
  BY <1>1, PayKeyKept DEF CarvedInv
<1>4. ASSUME NEW i \in X402Calls PROVE HasRoom(i)'
  <2>1. ASSUME NEW p \in PayCalls, Reserve(p) PROVE HasRoom(i)'
    <3> DEFINE row == [NoCharge EXCEPT !.status = "pending", !.card = t[p].card,
                                       !.key = t[p].key, !.amount = t[p].amount,
                                       !.fee = t[p].fee, !.win = t[p].win]
    <3>1. charges' = [charges EXCEPT ![p] = row] /\ t[p].pc = "estimate"
      BY <1>1, <2>1, OwnRow DEF Reserve
    <3>2. /\ t[p].card \in Cards /\ t[p].win \in Nat /\ t[p].amount \in Nat /\ t[p].fee \in Nat
          /\ t[p].key \in Keys \cup {NoKey}
      BY <1>1, <3>1, OwnRow DEF TypeInv, RowInv, RowOK, Call
    <3>3. row \in Charge /\ row.card = t[p].card
      BY <3>2 DEF NoCharge, Charge, ChargeStatuses
    <3> HIDE DEF row
    <3>4. ~InBooks(charges[p])
      BY <1>1, <3>1, Unreserved DEF PayInv, InBooks
    <3>5. p # i
      BY CarveIds
    <3> QED
      BY <1>1, <3>1, <3>3, <3>4, <3>5, RoomBesides
  <2>2. CASE Shrinks(charges, charges')
    BY <1>1, <2>2, ShrinksLessens, RoomLessens
  <2> QED
    BY <1>1, <2>1, <2>2, NextShrinks
<1> QED
  BY <1>2, <1>3, <1>4 DEF CarvedInv, RoomInv

LEMMA XNextCarved ==
  ASSUME Auths = {}, CarvedInv, [X402Next]_allVars
  PROVE  CarvedInv'
<1>1. SharedInv'
  BY XNextShared DEF CarvedInv
<1>2. CASE X402Crash
  <2>1. Crash /\ UNCHANGED charges
    BY <1>2 DEF X402Crash, Crash, storeVars
  <2>2. [Next]_vars
    BY <2>1 DEF Next
  <2>3. /\ FiatInv /\ FiatInv' /\ PayInv /\ CapInv /\ TypeInv /\ FiatRowInv
    BY <1>1 DEF CarvedInv, SharedInv, FiatInv, TypeInv
  <2>4. CapInv' /\ PayKeyInv'
    BY <2>2, <2>3, NextCap, PayKeyKept DEF CarvedInv
  <2>5. ASSUME NEW i \in X402Calls PROVE carve'[i].at # "sign"
    <3>1. carve[i] \in Carving
      BY XFields DEF CarvedInv, SharedInv, XInv
    <3>2. carve'[i] = IF carve[i].at = "idle" THEN carve[i] ELSE [carve[i] EXCEPT !.at = "done"]
      BY <1>2 DEF X402Crash
    <3> QED
      BY <3>1, <3>2 DEF Carving
  <2> QED
    BY <1>1, <2>4, <2>5 DEF CarvedInv, RoomInv, HasRoom
<1> QED
  BY <1>1, <1>2, XNextIs, XOwnCarved, PipelineCarved

LEMMA XInitCarved == X402Init => CarvedInv
<1> SUFFICES ASSUME X402Init PROVE CarvedInv
  OBVIOUS
<1>1. SharedInv /\ CapInv /\ Init
  BY XInitShared, InitCap DEF X402Init
<1>2. PayKeyInv
  <2>1. \A p \in PayCalls : t[p].pc = "idle"
    BY <1>1 DEF Init, Spenders, NoCall
  <2> QED
    BY <2>1 DEF PayKeyInv, SettleKeyOK, InSection
<1>3. RoomInv
  BY DEF X402Init, NoCarve, RoomInv, HasRoom
<1> QED
  BY <1>1, <1>2, <1>3 DEF CarvedInv

\* Carves and agents' payments of a tree never jointly exceed its caps: a carve
\* books after its signature what it validated before, and the mutex keeps every
\* other reservation of the tree out of the gap.  The Visa webhook books without
\* the mutex, so the theorem is about cards without Visa charges.
THEOREM ReservationsWithin ==
  ASSUME Auths = {}
  PROVE  X402Spec => []ReservationsFit
<1>1. Reserved \/ Auths = {}
  OBVIOUS
<1>2. CarvedInv => FiatInv /\ BooksFit(charges)
  BY DEF CarvedInv, SharedInv, CapInv
<1>3. FiatInv /\ BooksFit(charges) => ReservationsFit
  BY <1>1, FitWithin DEF ReservationsFit, BooksWithinCaps
<1> QED
  BY <1>2, <1>3, XInitCarved, XNextCarved, PTL DEF X402Spec
=============================================================================

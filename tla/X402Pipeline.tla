---------------------------- MODULE X402Pipeline ----------------------------
(***************************************************************************)
(* x402 payments over the books and the mutex of SpendPipeline:            *)
(*   - the payer, the paid_fetch tool of packages/server/src/mcp/server.ts *)
(*     with buildX402Payload and finalizeX402Charge of                     *)
(*     packages/engine/src/x402.ts;                                        *)
(*   - the seller of packages/server/src/seller/routes.ts and the          *)
(*     facilitator it settles with (settleX402 of the same x402.ts).       *)
(* A call is cut at its awaits.  A seller may be this process's own or     *)
(* another's, with the same code.                                          *)
(***************************************************************************)
EXTENDS SpendPipeline

CONSTANT X402Headroom     \* X402_FEE_HEADROOM_ATOMS

ASSUME X402Assumption == X402Headroom \in Nat /\ Sweeper \notin X402Calls

VARIABLES
    carve,      \* the payer's call: from the queue to the end of the fetch
    deal,       \* the seller's side of it: from the payload to its answer
    unheard     \* payments whose true outcome somebody did not wait for

xvars == <<carve, deal, unheard>>
allVars == <<vars, xvars>>

NoCarve == [at |-> "idle", card |-> NoCard, lock |-> NoCard, amount |-> 0, win |-> 0]

NoDeal == [at |-> "none", fee |-> 0, tries |-> 0, since |-> 0, accepted |-> FALSE]

X402Init ==
    /\ Init
    /\ carve = [i \in X402Calls |-> NoCarve]
    /\ deal = [i \in X402Calls |-> NoDeal]
    /\ unheard = {}

PipelineStays == UNCHANGED <<cardStatus, expired, window, t, backlog, recon,
                             notified, boundVars>>

-----------------------------------------------------------------------------
(* The payer: reserve under the mutex, present the payload, finalize. *)

\* The challenge is read and priced; the carve waits for its tree.
PaidFetch(i, c, a) ==
    /\ carve[i].at = "idle"
    /\ cardStatus[c] # "deleted"
    /\ carve' = [carve EXCEPT ![i] = [NoCarve EXCEPT !.at = "queued", !.card = c,
                                        !.lock = SpendKey(c), !.amount = a]]
    /\ mutex' = [mutex EXCEPT ![SpendKey(c)] = Append(@, i)]
    /\ UNCHANGED <<charges, chainVars, deal, unheard>> /\ PipelineStays

\* Mutant: the carve does not wait for the mutex.
Unlocked(i) == carve[i].at = "queued"

MayCarve(i) == carve[i].at = "queued" /\ Head(mutex[carve[i].lock]) = i

LeaveMutex(i) == mutex' = [mutex EXCEPT ![carve[i].lock] = Tail(@)]

CarveAdmitted(i) ==
    LET c == carve[i].card
    IN  /\ AncestorChain(c) # {}
        /\ ChainRefusal(c, expired) = "none"
        /\ WithinCaps(AncestorsOf[c], window, carve[i].amount + X402Headroom)

\* buildX402Payload up to the signature: refused, or validated with the
\* headroom.
StartCarve(i) ==
    /\ MayCarve(i)
    /\ IF CarveAdmitted(i)
       THEN /\ carve' = [carve EXCEPT ![i].at = "sign", ![i].win = window]
            /\ UNCHANGED mutex
       ELSE carve' = [carve EXCEPT ![i].at = "done"] /\ LeaveMutex(i)
    /\ UNCHANGED <<charges, chainVars, deal, unheard>> /\ PipelineStays

\* The leaf is signed: book the reservation, without another look at the books,
\* and present the payload.
Carve(i) ==
    /\ carve[i].at = "sign"
    /\ cardStatus[carve[i].card] # "deleted"
    /\ charges' = [charges EXCEPT ![i] =
         [NoCharge EXCEPT !.status = "pending", !.card = carve[i].card,
                          !.amount = carve[i].amount, !.fee = X402Headroom,
                          !.win = carve[i].win]]
    /\ carve' = [carve EXCEPT ![i].at = "fetch"]
    /\ deal' = [deal EXCEPT ![i].at = "verify"]
    /\ LeaveMutex(i)
    /\ UNCHANGED <<chainVars, unheard>> /\ PipelineStays

\* Signing fails, or the card is gone: nothing was reserved.
FailCarve(i) ==
    /\ carve[i].at = "sign"
    /\ carve' = [carve EXCEPT ![i].at = "done"]
    /\ LeaveMutex(i)
    /\ UNCHANGED <<charges, chainVars, deal, unheard>> /\ PipelineStays

\* finalizeX402Charge: an unconditional update.
Finalize(i, status, fee) ==
    /\ UpdateCharge(i, [charges[i] EXCEPT !.status = status, !.fee = fee])
    /\ carve' = [carve EXCEPT ![i].at = "done"]
    /\ UNCHANGED <<mutex, chainVars, deal>> /\ PipelineStays

\* The answer is a 200.  Its receipt may lack the transaction, the fee or both,
\* or not decode, before or after the transaction was read; a fee that is not
\* read becomes zero.
HearAnswer(i) ==
    /\ carve[i].at = "fetch" /\ deal[i].at = "served"
    /\ \E tx \in BOOLEAN, fee \in {0, deal[i].fee} :
          Finalize(i, IF tx THEN "confirmed" ELSE "settlement_unconfirmed", fee)
    /\ UNCHANGED unheard

\* It is an error.
HearRefusal(i) ==
    /\ carve[i].at = "fetch" /\ deal[i].at = "refused"
    /\ Finalize(i, "failed", charges[i].fee) /\ UNCHANGED unheard

\* The fetch throws: no answer, whatever the seller does.
LoseAnswer(i) ==
    /\ carve[i].at = "fetch"
    /\ Finalize(i, "failed", charges[i].fee)
    /\ unheard' = unheard \cup {i}

-----------------------------------------------------------------------------
(* The seller and its facilitator: verify, then settle. *)

PayerStays == UNCHANGED <<charges, mutex, carve>> /\ PipelineStays

\* Verified, and the relayer quotes a fee.
QuoteDeal(i) ==
    /\ deal[i].at = "verify"
    /\ \E f \in Fees[i] : deal' = [deal EXCEPT ![i].at = "estimate", ![i].fee = f]
    /\ UNCHANGED <<chainVars, unheard>> /\ PayerStays

\* The estimate asks for more: try again with a higher fee.
RaiseDeal(i) ==
    /\ deal[i].at = "estimate" /\ deal[i].tries + 1 < EstimateRetries
    /\ \E f \in Fees[i] :
          f > deal[i].fee /\ deal' = [deal EXCEPT ![i].fee = f, ![i].tries = @ + 1]
    /\ UNCHANGED <<chainVars, unheard>> /\ PayerStays

\* Any refusal or error before the send: 402 or 502.
RefuseDeal(i) ==
    /\ deal[i].at \in {"verify", "estimate"}
    /\ deal' = [deal EXCEPT ![i].at = "refused"]
    /\ UNCHANGED <<chainVars, unheard>> /\ PayerStays

\* The estimate simulates the leaf, which allows the amount and the headroom.
SendDeal(i) ==
    /\ deal[i].at = "estimate" /\ deal[i].fee <= X402Headroom
    /\ deal' = [deal EXCEPT ![i].at = "send", ![i].since = Len(mined)]
    /\ UNCHANGED <<chainVars, unheard>> /\ PayerStays

\* External: the relayer queues the redemption.
DealAccepted(i) ==
    /\ deal[i].at = "send" /\ ~deal[i].accepted
    /\ deal' = [deal EXCEPT ![i].accepted = TRUE]
    /\ inflight' = inflight \cup {[charge |-> i, fee |-> deal[i].fee]}
    /\ sent' = [sent EXCEPT ![i] = IF @ < 2 THEN @ + 1 ELSE @]
    /\ UNCHANGED <<mined, unheard>> /\ PayerStays

DealSent(i) ==
    /\ deal[i].at = "send" /\ deal[i].accepted
    /\ deal' = [deal EXCEPT ![i].at = "confirm"]
    /\ UNCHANGED <<chainVars, unheard>> /\ PayerStays

DealThrows(i) ==
    /\ deal[i].at = "send"
    /\ deal[i].accepted => AmbiguousSend
    /\ deal' = [deal EXCEPT ![i].at = "refused"]
    /\ unheard' = IF deal[i].accepted THEN unheard \cup {i} ELSE unheard
    /\ UNCHANGED chainVars /\ PayerStays

OnChain(i) == ReadsConfirmed(i, deal[i].fee, deal[i].since)

\* Mutant: a settlement that is not confirmed in time is served.
OnChainOrLate(i) == OnChain(i) \/ IsInflight(i)

Settled(i) == OnChain(i)

ConfirmDeal(i) ==
    /\ deal[i].at = "confirm" /\ Settled(i)
    /\ deal' = [deal EXCEPT ![i].at = "served"]
    /\ UNCHANGED <<chainVars, unheard>> /\ PayerStays

\* "settlement reverted on-chain".
DealReverted(i) ==
    /\ deal[i].at = "confirm" /\ ReadsFailed(i, deal[i].fee, deal[i].since)
    /\ deal' = [deal EXCEPT ![i].at = "refused"]
    /\ UNCHANGED <<chainVars, unheard>> /\ PayerStays

\* "settlement not confirmed in time", or the status cannot be read: 502 too.
DealTimesOut(i) ==
    /\ deal[i].at = "confirm"
    /\ deal' = [deal EXCEPT ![i].at = "refused"]
    /\ unheard' = unheard \cup {i}
    /\ UNCHANGED chainVars /\ PayerStays

-----------------------------------------------------------------------------
(* The event loop. *)

\* The process dies.  Its fetches end; a seller of another process goes on.
X402Crash ==
    /\ Crash
    /\ carve' = [i \in X402Calls |-> IF carve[i].at = "idle" THEN carve[i]
                                     ELSE [carve[i] EXCEPT !.at = "done"]]
    /\ \E own \in SUBSET X402Calls :
          deal' = [i \in X402Calls |->
                     IF i \in own /\ deal[i].at # "none"
                     THEN [deal[i] EXCEPT !.at = "refused"] ELSE deal[i]]
    /\ unheard' = unheard \cup {i \in X402Calls : deal[i].at # "none"}

\* A reservation passes the cutoff of an hour only when its fetch, which ends
\* in minutes, is over.
AgeReservation(i) == Age(i) /\ (i \in X402Calls => carve[i].at = "done")

Payer(i) == \/ Carve(i) \/ FailCarve(i) \/ HearAnswer(i) \/ HearRefusal(i)
            \/ LoseAnswer(i)

Seller(i) == \/ QuoteDeal(i) \/ RaiseDeal(i) \/ RefuseDeal(i) \/ SendDeal(i)
             \/ DealSent(i) \/ DealThrows(i)
             \/ ConfirmDeal(i) \/ DealReverted(i) \/ DealTimesOut(i)

X402Micro == (Microtask /\ UNCHANGED xvars) \/ \E i \in X402Calls : StartCarve(i)

X402Quiet == Quiet /\ \A i \in X402Calls : ~MayCarve(i)

X402Next ==
    \/ X402Micro
    \/ /\ X402Quiet
       /\ \/ (Task \/ Chain \/ NextWindow) /\ UNCHANGED xvars
          \/ \E i \in ChargeIds : AgeReservation(i) /\ UNCHANGED xvars
          \/ \E i \in X402Calls, c \in Cards, a \in Amounts : PaidFetch(i, c, a)
          \/ \E i \in X402Calls : Payer(i) \/ Seller(i) \/ DealAccepted(i)
    \/ X402Crash

X402Spec == X402Init /\ [][X402Next]_allVars

\* As in SpendPipeline: what is runnable runs, requests end, timers fire, the
\* chain moves on, and the RPC answers a reconcile sweep now and then.
X402Fairness ==
    /\ WF_allVars(X402Micro)
    /\ \A p \in Spenders : WF_allVars((ResumeSpend(p) \/ ResumeSettle(p))
                                        /\ UNCHANGED xvars /\ X402Quiet)
    /\ \A i \in X402Calls : /\ WF_allVars(Payer(i) /\ X402Quiet)
                            /\ WF_allVars(Seller(i) /\ X402Quiet)
    /\ WF_allVars(StartReconcile /\ UNCHANGED xvars /\ X402Quiet)
    /\ SF_allVars(ResolveStale /\ UNCHANGED xvars /\ X402Quiet)
    /\ \A i \in ChargeIds :
          WF_allVars(AgeReservation(i) /\ UNCHANGED xvars /\ X402Quiet)
    /\ WF_allVars((\E r \in inflight : Mine(r) \/ Drop(r))
                    /\ UNCHANGED xvars /\ X402Quiet)

X402FairSpec == X402Spec /\ X402Fairness
=============================================================================

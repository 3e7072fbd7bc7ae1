--------------------------- MODULE X402Properties ---------------------------
(* Correctness properties of x402 payments. *)
EXTENDS X402Pipeline

-----------------------------------------------------------------------------
(* Safety. *)

\* Carves and agent payments of one tree never jointly exceed its caps, although
\* a carve validates, awaits a signature and books without a second look: the
\* mutex is held across the await (x402.ts 64-110, server.ts 273).
ReservationsFit ==
    \A c \in Cards :
        /\ SubtreeSpentLifetime(c) <= LifetimeCap[c]
        /\ \A w \in 0..window :
              MapThenSumSet(Total, {i \in Counted(c) : charges[i].win = w})
                <= PeriodCap[c]
        /\ SubtreeUsesCount(c) <= MaxUses[c]

\* A reservation is confirmed by a receipt, and the receipt is true: the payment
\* is on the chain, and the books hold the fee it paid there or, when the receipt
\* did not name one, none (server.ts 296-312, x402.ts 135-152, 341-349), whatever
\* was reverted, late or lost on the way and whoever else paid meanwhile.
ReceiptIsTrue ==
    \A i \in X402Calls : charges[i].status = "confirmed" =>
        \E k \in DOMAIN mined : /\ mined[k].charge = i
                               /\ charges[i].fee \in {0, mined[k].fee}

\* "The budget reservation is preserved either way" (x402.ts 144-146): what was
\* served leaves the books holding the fee that the chain took.
AnswerKeepsFee ==
    \A i \in X402Calls, k \in DOMAIN mined :
        /\ mined[k].charge = i
        /\ charges[i].status \in {"confirmed", "settlement_unconfirmed"}
        => charges[i].fee >= mined[k].fee

\* The budget of a payment that is on the chain stays counted, without the fee
\* when the receipt did not name it, unless the card was deleted or somebody
\* stopped waiting for the outcome: the fetch broke, the facilitator timed out,
\* or the process died.  It holds as long as a redemption is never called failed
\* that is queued, or that is mined and cannot be seen (FailuresReal).
PaidIsCounted ==
    \A i \in X402Calls :
        IsMined(i) /\ i \notin unheard /\ cardStatus[carve[i].card] # "deleted"
            => charges[i].status \notin {"absent", "failed"}

-----------------------------------------------------------------------------
(* Liveness. *)

\* A reservation does not hold its budget for ever: the fetch finalizes it, or,
\* when the process died in between, the reconcile sweep frees it (spend.ts
\* 749-760, store.ts 449-456).
ReservationsEnd ==
    \A i \in X402Calls : charges[i].status = "pending" ~> charges[i].status # "pending"
=============================================================================

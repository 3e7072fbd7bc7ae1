--------------------------- MODULE SpendPipeline ---------------------------
(***************************************************************************)
(* The one pipeline that redeems a card's delegation, and everything that  *)
(* touches the same rows while it runs:                                    *)
(*   - spend() (packages/engine/src/spend.ts), cut at its awaits, for      *)
(*     agent payments and, in settle mode, for approved Visa charges;      *)
(*   - the KeyedMutex that serializes it per card tree;                    *)
(*   - the Stripe webhook's decide+insert, which does not take the mutex;  *)
(*   - the settlement executor (inline kickoff and sweep);                 *)
(*   - the reconcile sweep;                                                *)
(*   - freeze, unfreeze, revoke and delete, and a crash of the process;    *)
(*   - the relayer and the chain, as the code uses them.                   *)
(* All cards belong to one user: fee logs are read per user.               *)
(***************************************************************************)
EXTENDS ChargeStore

CONSTANTS
    Amounts,              \* atoms a charge may ask for
    Fees,                 \* what the relayer may ask for each charge, with its jitter
    FeeHeadroom,          \* ATTESTPAY_FIAT_FEE_HEADROOM
    SettlementOn,         \* a settlement executor exists (deps.fiatSettler)
    AuthCard,             \* the card an authorization's metadata maps to
    Sweeper, NoRow,       \* the settlement sweep, and its idle row
    EstimateRetries,      \* ESTIMATE_RETRIES
    SettleAttempts,       \* Len(DEFAULT_BACKOFF_MS)
    CollectorMatches,     \* FEE_COLLECTOR is the collector the relayer names
    AmbiguousSend,        \* a send that errs may still have been queued
    FalseFailures,        \* what the relayer may call failed although it is not
    LogErrors,            \* a getLogs of confirmRedemption may fail
    MaxWindow, MaxCrashes, MaxControls   \* bounds of the model

Settlers == Auths \cup {Sweeper}
Spenders == PayCalls \cup Settlers

ASSUME PipelineAssumption ==
    /\ Amounts \subseteq Nat /\ FeeHeadroom \in Nat
    /\ Fees \in [ChargeIds -> SUBSET Nat]
    /\ SettlementOn \in BOOLEAN /\ LogErrors \in BOOLEAN
    /\ FalseFailures \subseteq {"queued", "included"}
    /\ CollectorMatches \in BOOLEAN /\ AmbiguousSend \in BOOLEAN
    /\ AuthCard \in [Auths -> Cards]
    /\ Sweeper \notin ChargeIds /\ NoRow \notin ChargeIds
    /\ EstimateRetries \in Nat \ {0} /\ SettleAttempts \in Nat \ {0}
    /\ MaxWindow \in Nat /\ MaxCrashes \in Nat /\ MaxControls \in Nat

VARIABLES
    t,          \* local state of each spender, between two awaits
    mutex,      \* KeyedMutex: the holder and its waiters, per key
    backlog,    \* the rows the current settlement sweep has left
    recon,      \* the stale rows a reconcile sweep is waiting to resolve
    inflight,   \* redemptions the relayer queued and the chain has not seen
    mined,      \* redemptions on chain, one per block, with the fee they paid
    sent,       \* broadcasts the relayer accepted per charge (saturates at 2)
    notified,   \* charges onChargeConfirmed fired for
    crashes, controls    \* counters the bounds cap

chainVars == <<inflight, mined, sent>>
boundVars == <<crashes, controls>>
vars == <<cardStatus, expired, window, charges, t, mutex, backlog, recon,
          inflight, mined, sent, notified, crashes, controls>>

\* Points between awaits.  From "fee" to "confirm" the call holds the mutex.
InSection == {"fee", "estimate", "block", "send", "confirm"}
Points == {"idle", "read", "sleep", "queued", "exit"} \cup InSection
Outcomes == {"none", "receipt", "refused", "error",
             "card_frozen", "card_revoked", "card_expired"}

Call == [pc : Points, row : ChargeIds \cup {NoRow}, card : Cards \cup {NoCard},
         lock : Cards \cup {NoCard}, key : Keys \cup {NoKey}, amount : Nat,
         fee : Nat, win : Nat, tries : Nat, since : Nat, accepted : BOOLEAN,
         out : Outcomes, left : Nat]

NoCall(r) == [pc |-> "idle", row |-> r, card |-> NoCard, lock |-> NoCard,
              key |-> NoKey, amount |-> 0, fee |-> 0, win |-> 0, tries |-> 0,
              since |-> 0, accepted |-> FALSE, out |-> "none", left |-> 0]

Redemption == [charge : ChargeIds, fee : Nat]

Init ==
    /\ cardStatus = [c \in Cards |-> "active"]
    /\ expired = {}
    /\ window = 0
    /\ charges = [i \in ChargeIds |-> NoCharge]
    /\ t = [p \in Spenders |-> NoCall(IF p = Sweeper THEN NoRow ELSE p)]
    /\ mutex = [c \in Cards |-> <<>>]
    /\ backlog = {}
    /\ recon = {}
    /\ inflight = {}
    /\ mined = <<>>
    /\ sent = [i \in ChargeIds |-> 0]
    /\ notified = {}
    /\ crashes = 0
    /\ controls = 0

-----------------------------------------------------------------------------
(* Rows and calls. *)

SettleMode(p) == p \in Settlers

\* updateCharge: an unconditional UPDATE, which a missing row ignores.
UpdateCharge(i, row) ==
    charges' = IF charges[i].status = "absent" THEN charges
               ELSE [charges EXCEPT ![i] = row]

\* An agent only learns whether it got a receipt.
Told(p, out) == IF SettleMode(p) \/ out = "receipt" THEN out ELSE "error"

Ended(p, out) ==
    [NoCall(t[p].row) EXCEPT !.pc = "exit", !.card = t[p].card, !.key = t[p].key,
                             !.left = t[p].left, !.out = Told(p, out)]

\* Mutant: a throw leaves the mutex with the call that threw.
LeaveWedged(p, out) ==
    /\ t' = [t EXCEPT ![p] = Ended(p, out)]
    /\ mutex' = IF out = "receipt" THEN [mutex EXCEPT ![t[p].lock] = Tail(@)]
                ELSE mutex

\* A run of spend() ends, by returning or by throwing, and the mutex moves on.
Leave(p, out) ==
    /\ t' = [t EXCEPT ![p] = Ended(p, out)]
    /\ mutex' = [mutex EXCEPT ![t[p].lock] = Tail(@)]

\* KeyedMutex.run: queue behind the key's last waiter.
Queue(p, call) ==
    /\ t' = [t EXCEPT ![p] = [call EXCEPT !.pc = "queued",
                                          !.lock = SpendKey(call.card)]]
    /\ mutex' = [mutex EXCEPT ![SpendKey(call.card)] = Append(@, p)]

AtHead(p) == t[p].pc = "queued" /\ Head(mutex[t[p].lock]) = p

UnchangedButCalls == UNCHANGED <<cardStatus, expired, window, backlog, recon,
                                 inflight, mined, sent, notified, boundVars>>

-----------------------------------------------------------------------------
(* spend(), from the call to the reservation. *)

\* An agent calls pay (or execute) with an optional idempotency key.
AgentSpend(p, c, k, a) ==
    /\ t[p].pc = "idle"
    /\ cardStatus[c] # "deleted"
    /\ Queue(p, [t[p] EXCEPT !.card = c, !.key = k, !.amount = a])
    /\ UNCHANGED charges /\ UnchangedButCalls

DeadRow(i) == charges[i].status = "failed" /\ charges[i].request = "null"

SameKey(p) == IF t[p].key = NoKey THEN {}
              ELSE ChargeByIdempotency(t[p].card, t[p].key)

\* The key already has a charge that may have reached the chain: replay it.
ReplayKey(p) ==
    /\ p \in PayCalls /\ AtHead(p)
    /\ \E i \in SameKey(p) : ~DeadRow(i)
    /\ Leave(p, "receipt")
    /\ UNCHANGED charges /\ UnchangedButCalls

\* Mutant: settle mode does not look whether the row was broadcast.
SettleRowOpenIfPending(p) ==
    charges[t[p].row].status = "pending" /\ charges[t[p].row].card = t[p].card

\* What settle mode reads of the row it drives.
SettleRowOpen(p) ==
    LET row == charges[t[p].row]
    IN  row.status = "pending" /\ row.request = "null" /\ row.card = t[p].card

\* A settle row that is terminal or already broadcast is replayed; a missing
\* one is an error.
ReplaySettle(p) ==
    /\ SettleMode(p) /\ AtHead(p)
    /\ ~SettleRowOpen(p)
    /\ Leave(p, IF charges[t[p].row].status = "absent" THEN "error"
                ELSE "receipt")
    /\ UNCHANGED charges /\ UnchangedButCalls

\* A new redemption: clear the key's never-broadcast failure, then refuse
\* unless the whole chain is spendable, before the first await.
StartSpend(p) ==
    /\ AtHead(p)
    /\ IF SettleMode(p)
       THEN SettleRowOpen(p) /\ UNCHANGED charges
       ELSE /\ \A i \in SameKey(p) : DeadRow(i)
            /\ charges' = [i \in ChargeIds |-> IF i \in SameKey(p) THEN NoCharge
                                               ELSE charges[i]]
    /\ LET c == t[p].card
           refusal == ChainRefusal(c, expired)
       IN  IF AncestorChain(c) = {} THEN Leave(p, "refused")
           ELSE IF refusal # "none" THEN Leave(p, refusal)
           ELSE /\ t' = [t EXCEPT ![p].pc = "fee", ![p].win = window]
                /\ UNCHANGED mutex
    /\ UnchangedButCalls

\* validateSpend, which settle mode skips: the webhook booked the row already.
Validated(p, fee) ==
    \/ SettleMode(p)
    \/ WithinCaps(AncestorsOf[t[p].card], t[p].win, t[p].amount + fee)

\* getFeeData answers; the fee is jittered and the charge validated with it.
PlanFee(p) ==
    /\ t[p].pc = "fee"
    /\ \E f \in Fees[t[p].row] :
          /\ Validated(p, f)
          /\ t' = [t EXCEPT ![p].pc = "estimate", ![p].fee = f]
    /\ UNCHANGED <<charges, mutex>> /\ UnchangedButCalls

\* The estimate asks for more: rebuild with the higher fee, validate again.
RaiseFee(p) ==
    /\ t[p].pc = "estimate"
    /\ t[p].tries + 1 < EstimateRetries
    /\ \E f \in Fees[t[p].row] :
          /\ f > t[p].fee
          /\ Validated(p, f)
          /\ t' = [t EXCEPT ![p].fee = f, ![p].tries = @ + 1]
    /\ UNCHANGED <<charges, mutex>> /\ UnchangedButCalls

\* Any throw before the reservation: the relayer or RPC fails, the chain
\* refuses the estimate, a validation refuses, the retries run out.
RefuseUnreserved(p) ==
    /\ t[p].pc \in {"fee", "estimate"}
    /\ \E out \in {"refused", "error", "card_expired"} :
          /\ out = "card_expired" => t[p].pc = "estimate"
          /\ Leave(p, out)
    /\ UNCHANGED charges /\ UnchangedButCalls

\* Mutant: the reservation trusts the validation made before the estimate.
RevalidatedNever(p) == TRUE

Revalidated(p) == Validated(p, t[p].fee)

\* The estimate stands: validate once more and book the charge, one
\* synchronous pair.  Settle mode only joins the fee to its row.
Reserve(p) ==
    /\ t[p].pc = "estimate"
    /\ Revalidated(p)
    /\ IF SettleMode(p)
       THEN UpdateCharge(t[p].row, [charges[t[p].row] EXCEPT !.fee = t[p].fee])
       ELSE /\ cardStatus[t[p].card] # "deleted"
            /\ SameKey(p) = {}
            /\ charges' = [charges EXCEPT ![p] =
                 [NoCharge EXCEPT !.status = "pending", !.card = t[p].card,
                                  !.key = t[p].key, !.amount = t[p].amount,
                                  !.fee = t[p].fee, !.win = t[p].win]]
    /\ t' = [t EXCEPT ![p].pc = "block"]
    /\ UNCHANGED mutex /\ UnchangedButCalls

-----------------------------------------------------------------------------
(* spend(), from the reservation to the receipt. *)

\* getBlockNumber throws: nothing catches it, the row stays as it is.
LoseBlock(p) ==
    /\ t[p].pc = "block"
    /\ Leave(p, "error")
    /\ UNCHANGED charges /\ UnchangedButCalls

\* Mutant: no second look at the cards.
RecheckNever(p) == "none"

\* The status re-check before the broadcast.  Expiry is compared with the time
\* read when the call started, so it cannot refuse here.
Recheck(p) == ChainRefusal(t[p].card, {})

RefuseReserved(p) ==
    /\ t[p].pc = "block"
    /\ Recheck(p) # "none"
    /\ IF SettleMode(p) THEN UNCHANGED charges
       ELSE UpdateCharge(p, [charges[p] EXCEPT !.status = "failed"])
    /\ Leave(p, Recheck(p))
    /\ UnchangedButCalls

\* It passes: a settlement claims its row, and relayer.send is called.
Broadcast(p) ==
    /\ t[p].pc = "block"
    /\ Recheck(p) = "none"
    /\ IF SettleMode(p)
       THEN UpdateCharge(t[p].row, [charges[t[p].row] EXCEPT
                                      !.request = "claim", !.since = Len(mined)])
       ELSE UNCHANGED charges
    /\ t' = [t EXCEPT ![p].pc = "send", ![p].since = Len(mined)]
    /\ UNCHANGED mutex /\ UnchangedButCalls

\* External: the relayer queues the redemption.
RelayerAccepts(p) ==
    /\ t[p].pc = "send" /\ ~t[p].accepted
    /\ t' = [t EXCEPT ![p].accepted = TRUE]
    /\ inflight' = inflight \cup {[charge |-> t[p].row, fee |-> t[p].fee]}
    /\ sent' = [sent EXCEPT ![t[p].row] = IF @ < 2 THEN @ + 1 ELSE @]
    /\ UNCHANGED <<storeVars, mutex, backlog, recon, mined, notified, boundVars>>

\* relayer.send returns its request id.
SendReturns(p) ==
    /\ t[p].pc = "send" /\ t[p].accepted
    /\ UpdateCharge(t[p].row, [charges[t[p].row] EXCEPT !.request = "sent",
                                                        !.since = t[p].since])
    /\ t' = [t EXCEPT ![p].pc = "confirm"]
    /\ UNCHANGED mutex /\ UnchangedButCalls

\* relayer.send throws.  Settle mode leaves the claimed row to the sweep.
SendThrows(p) ==
    /\ t[p].pc = "send"
    /\ t[p].accepted => AmbiguousSend
    /\ IF SettleMode(p) THEN UNCHANGED charges
       ELSE UpdateCharge(p, [charges[p] EXCEPT !.status = "failed"])
    /\ Leave(p, "error")
    /\ UnchangedButCalls

IsMined(i) == \E k \in DOMAIN mined : mined[k].charge = i

IsInflight(i) == \E r \in inflight : r.charge = i

\* Mutant: any fee log of the user will do.
LogMatchesAny(k, fee) == CollectorMatches

\* A fee-leg Transfer log is known by its payer, the collector and its value:
\* the user's redemptions that paid the fee, if FEE_COLLECTOR was paid at all.
LogMatches(k, fee) == CollectorMatches /\ mined[k].fee = fee

LogFound(fee, since) == \E k \in DOMAIN mined : k >= since /\ LogMatches(k, fee)

\* confirmRedemption answers "confirmed": the relayer says 200, or a log is there.
ReadsConfirmed(i, fee, since) == IsMined(i) \/ LogFound(fee, since)

\* External: the relayer says 500.
StatusFailed(i) == \/ "queued" \in FalseFailures
                   \/ ~IsInflight(i) /\ (IsMined(i) => "included" \in FalseFailures)

\* Mutant: the relayer's 500 is believed without a look at the logs.
ReadsStatus(i, fee, since) == StatusFailed(i)

\* confirmRedemption answers "failed": the relayer says 500 and no log was seen,
\* because none is there or because the look at the logs failed.
ReadsFailed(i, fee, since) ==
    StatusFailed(i) /\ (LogErrors \/ ~LogFound(fee, since))

Confirm(p) ==
    /\ t[p].pc = "confirm"
    /\ ReadsConfirmed(t[p].row, t[p].fee, t[p].since)
    /\ UpdateCharge(t[p].row, [charges[t[p].row] EXCEPT !.status = "confirmed"])
    /\ notified' = notified \cup {t[p].row}
    /\ Leave(p, "receipt")
    /\ UNCHANGED <<cardStatus, expired, window, backlog, recon, chainVars,
                   boundVars>>

Revert(p) ==
    /\ t[p].pc = "confirm"
    /\ ReadsFailed(t[p].row, t[p].fee, t[p].since)
    /\ UpdateCharge(t[p].row, [charges[t[p].row] EXCEPT !.status =
                      IF SettleMode(p) THEN "settlement_unconfirmed" ELSE "failed"])
    /\ Leave(p, "error")
    /\ UnchangedButCalls

\* 90 s pass, or getStatus throws: the row stays pending.
GiveUpConfirming(p) ==
    /\ t[p].pc = "confirm"
    /\ \E out \in {"receipt", "error"} : Leave(p, out)
    /\ UNCHANGED charges /\ UnchangedButCalls

\* The mutex hands over in a microtask, the rest of spend() resumes when some
\* I/O completes.
EnterSpend(p) == ReplayKey(p) \/ ReplaySettle(p) \/ StartSpend(p)

ResumeSpend(p) ==
    \/ PlanFee(p) \/ RaiseFee(p) \/ RefuseUnreserved(p) \/ Reserve(p)
    \/ LoseBlock(p) \/ RefuseReserved(p) \/ Broadcast(p)
    \/ SendReturns(p) \/ SendThrows(p)
    \/ Confirm(p) \/ Revert(p) \/ GiveUpConfirming(p)

-----------------------------------------------------------------------------
(* The Stripe webhook and the settlement executor. *)

Headroom == IF SettlementOn THEN FeeHeadroom ELSE 0

\* decideAuthorization over the caps; merchant and per-transaction scopes are
\* conditions on the request alone and are left out, as in validateSpend.
Approved(c, amount) ==
    LET chain == AncestorChain(c)
    IN  /\ chain # {}
        /\ \A a \in chain : cardStatus[a] = "active" /\ a \notin expired
        /\ WithinCaps(chain, window, amount + Headroom)

\* The webhook approves: decide and insert are one synchronous step, without
\* the mutex.  A duplicate delivery finds the row and changes nothing.
ApproveAuthorization(a, amount) ==
    /\ ChargeByIdempotency(AuthCard[a], a) = {}
    /\ Approved(AuthCard[a], amount)
    /\ charges' = [charges EXCEPT ![a] =
         [NoCharge EXCEPT !.status = IF SettlementOn THEN "pending" ELSE "confirmed",
                          !.card = AuthCard[a], !.key = a, !.amount = amount,
                          !.fee = Headroom, !.win = window,
                          !.request = IF SettlementOn THEN "null" ELSE "sent"]]
    /\ t' = IF SettlementOn THEN [t EXCEPT ![a].pc = "read"] ELSE t
    /\ UNCHANGED mutex /\ UnchangedButCalls

AtRest(s) == NoCall(IF s = Sweeper THEN NoRow ELSE s)

\* settle() reads the row: only a pending one is driven.
ReadSettleRow(s) ==
    /\ t[s].pc = "read"
    /\ t' = [t EXCEPT ![s] =
         IF charges[t[s].row].status = "pending"
         THEN [@ EXCEPT !.pc = "sleep", !.left = SettleAttempts,
                        !.card = charges[t[s].row].card]
         ELSE AtRest(s)]
    /\ UNCHANGED <<charges, mutex>> /\ UnchangedButCalls

\* The back-off ends: run spend() under the mutex.
WakeSettler(s) ==
    /\ t[s].pc = "sleep"
    /\ Queue(s, t[s])
    /\ UNCHANGED charges /\ UnchangedButCalls

\* freezeIfActive.
FreezeIfActive(c) ==
    cardStatus' = IF cardStatus[c] = "active"
                  THEN [cardStatus EXCEPT ![c] = "frozen"] ELSE cardStatus

UnchangedButParking == UNCHANGED <<expired, window, mutex, backlog, recon,
                                   chainVars, notified, boundVars>>

\* A receipt, or a frozen card: settle() returns and the row is left alone.
SettleReturns(s) ==
    /\ SettleMode(s) /\ t[s].pc = "exit" /\ t[s].out \in {"receipt", "card_frozen"}
    /\ t' = [t EXCEPT ![s] = AtRest(s)]
    /\ UNCHANGED <<charges, cardStatus>> /\ UnchangedButParking

Failed(s) == t[s].pc = "exit" /\ t[s].out \in {"refused", "error"}

ParkedAlready(s) == charges[t[s].row].status \notin {"pending", "absent"}

\* The delegation can never settle the row, or the attempts are used up:
\* park the row and freeze the card.
ParkRow(s) ==
    /\ SettleMode(s)
    /\ \/ t[s].pc = "exit" /\ t[s].out \in {"card_revoked", "card_expired"}
       \/ Failed(s) /\ ~ParkedAlready(s) /\ t[s].left = 1
    /\ UpdateCharge(t[s].row, [charges[t[s].row] EXCEPT
                                 !.status = "settlement_unconfirmed"])
    /\ FreezeIfActive(t[s].card)
    /\ t' = [t EXCEPT ![s] = AtRest(s)]
    /\ UnchangedButParking

\* The row left "pending" under the error: freeze the card, nothing to drive.
FreezeParked(s) ==
    /\ SettleMode(s) /\ Failed(s) /\ ParkedAlready(s)
    /\ FreezeIfActive(t[s].card)
    /\ t' = [t EXCEPT ![s] = AtRest(s)]
    /\ UNCHANGED charges /\ UnchangedButParking

\* A blip with the row still pending: back off and try again.
RetrySettle(s) ==
    /\ SettleMode(s) /\ Failed(s) /\ ~ParkedAlready(s) /\ t[s].left > 1
    /\ t' = [t EXCEPT ![s].pc = "sleep", ![s].out = "none", ![s].left = @ - 1]
    /\ UNCHANGED <<charges, cardStatus>> /\ UnchangedButParking

\* Mutant: the query forgets the kind.
UnsettledCharges ==
    {i \in ChargeIds : charges[i].status = "pending" /\ charges[i].request = "null"}

\* Mutant: the age comparison is the wrong way round.
YoungFiatCharges ==
    {a \in Auths : /\ charges[a].status = "pending" /\ charges[a].request = "null"
                   /\ ~charges[a].aged}

UnsettledFiatCharges ==
    {a \in Auths : charges[a].status = "pending" /\ charges[a].request = "null"}

\* The sweep takes its list, unless the previous one is still walking (the
\* `sweeping` flag).  The 60 s minimum age is left out: any row may be picked.
StartSettleSweep ==
    /\ SettlementOn
    /\ backlog = {} /\ t[Sweeper].pc = "idle"
    /\ UnsettledFiatCharges # {}
    /\ backlog' = UnsettledFiatCharges
    /\ UNCHANGED <<storeVars, t, mutex, recon, chainVars, notified, boundVars>>

SweepNextRow ==
    /\ t[Sweeper].pc = "idle"
    /\ \E a \in backlog :
          /\ t' = [t EXCEPT ![Sweeper].pc = "read", ![Sweeper].row = a]
          /\ backlog' = backlog \ {a}
    /\ UNCHANGED <<storeVars, mutex, recon, chainVars, notified, boundVars>>

\* What follows the mutex's promise in settle(), a microtask again.
CatchSettle(s) == \/ SettleReturns(s) \/ ParkRow(s)
                  \/ FreezeParked(s) \/ RetrySettle(s)

ResumeSettle(s) == ReadSettleRow(s) \/ WakeSettler(s)

-----------------------------------------------------------------------------
(* The reconcile sweep. *)

\* Mutant: the cutoff is forgotten.
StaleAnyAge == {i \in ChargeIds : /\ charges[i].status = "pending"
                                  /\ charges[i].request # "null"}

\* Mutant: rows a settlement claimed but saw no request id for are skipped.
StaleSent == {i \in ChargeIds : /\ charges[i].status = "pending"
                                /\ charges[i].request = "sent"
                                /\ charges[i].aged}

StaleCharges == {i \in ChargeIds : /\ charges[i].status = "pending"
                                   /\ charges[i].request # "null"
                                   /\ charges[i].aged}

\* Mutant: only charges that have a request are looked at.
OrphansWithRequest == X402Calls \cap StaleCharges

X402Orphans == {i \in X402Calls : /\ charges[i].status = "pending"
                                  /\ charges[i].request = "null"
                                  /\ charges[i].aged}

\* Read the stale rows and free the x402 orphans, before the first await.
StartReconcile ==
    /\ recon = {}
    /\ StaleCharges \cup X402Orphans # {}
    /\ recon' = StaleCharges
    /\ charges' = [i \in ChargeIds |-> IF i \in X402Orphans
                                       THEN [charges[i] EXCEPT !.status = "failed"]
                                       ELSE charges[i]]
    /\ UNCHANGED <<cardStatus, expired, window, t, mutex, backlog, chainVars,
                   notified, boundVars>>

\* The rows of the sweep whose card still has a user.
Resolvable == {i \in recon : charges[i].status # "absent"}

\* The logs the sweep reads: from the earliest broadcast block of its rows.
ScannedLogs == {k \in DOMAIN mined : \E i \in Resolvable : k >= charges[i].since}

\* The sets of rows a walk over the stale rows, in some order, gives a log to
\* when each log may be claimed once.
LogClaims ==
    {C \in SUBSET Resolvable :
        \E f \in [C -> ScannedLogs] :
            /\ IsInjective(f)
            /\ \A i \in C : LogMatches(f[i], charges[i].fee)
            /\ \A i \in Resolvable \ C, k \in ScannedLogs \ Range(f) :
                  ~LogMatches(k, charges[i].fee)}

\* Mutant: a fiat row without a log fails like any other.
ResolvedAlike(i, C) == IF i \in C THEN "confirmed" ELSE "failed"

\* Mutant: a row without a log waits for the next sweep, for ever.
ResolvedHits(i, C) == IF i \in C THEN "confirmed" ELSE "pending"

Resolved(i, C) == IF i \in C THEN "confirmed"
                  ELSE IF i \in Auths THEN "settlement_unconfirmed"
                  ELSE "failed"

\* Resolve every stale row from the logs.  index.ts passes no
\* onChargeConfirmed, so notifyConfirmed does nothing here.
ResolveStale ==
    /\ recon # {}
    /\ \E C \in LogClaims :
          charges' = [i \in ChargeIds |->
             IF i \in Resolvable
             THEN [charges[i] EXCEPT !.status = Resolved(i, C)]
             ELSE charges[i]]
    /\ recon' = {}
    /\ UNCHANGED <<cardStatus, expired, window, t, mutex, backlog, chainVars,
                   notified, boundVars>>

\* The RPC is down: next sweep.
PostponeReconcile ==
    /\ recon # {}
    /\ recon' = {}
    /\ UNCHANGED <<storeVars, t, mutex, backlog, chainVars, notified, boundVars>>

-----------------------------------------------------------------------------
(* The owner's controls. *)

Control ==
    /\ controls < MaxControls
    /\ controls' = controls + 1
    /\ UNCHANGED <<window, t, mutex, backlog, recon, chainVars, notified, crashes>>

Freeze(c) ==
    /\ cardStatus[c] = "active"
    /\ cardStatus' = [cardStatus EXCEPT ![c] = "frozen"]
    /\ UNCHANGED <<expired, charges>> /\ Control

Unfreeze(c) ==
    /\ cardStatus[c] = "frozen"
    /\ cardStatus' = [cardStatus EXCEPT ![c] = "active"]
    /\ UNCHANGED <<expired, charges>> /\ Control

\* setSubtreeStatus(id, "revoked"), the last step of every way to revoke.
Revoke(c) ==
    /\ cardStatus[c] \in {"active", "frozen"}
    /\ cardStatus' = [d \in Cards |->
         IF d \in SubtreeOf(c) /\ cardStatus[d] # "deleted" THEN "revoked"
         ELSE cardStatus[d]]
    /\ UNCHANGED <<expired, charges>> /\ Control

\* terms.expiry passes.  A child's expiry is never after its parent's.
Expire(c) ==
    /\ c \notin expired
    /\ expired' = expired \cup SubtreeOf(c)
    /\ UNCHANGED <<cardStatus, charges>> /\ Control

\* deleteDeadCard: a dead subtree and its charges leave the books.
DeleteDeadCard(c) ==
    /\ cardStatus[c] # "deleted"
    /\ \A d \in SubtreeOf(c) :
          cardStatus[d] \in {"revoked", "deleted"} \/ d \in expired
    /\ cardStatus' = [d \in Cards |-> IF d \in SubtreeOf(c) THEN "deleted"
                                      ELSE cardStatus[d]]
    /\ charges' = [i \in ChargeIds |-> IF charges[i].card \in SubtreeOf(c)
                                       THEN NoCharge ELSE charges[i]]
    /\ UNCHANGED expired /\ Control

-----------------------------------------------------------------------------
(* The chain, the clock and the process. *)

\* External: a queued redemption is mined, in a block of its own.
Mine(r) ==
    /\ r \in inflight
    /\ inflight' = inflight \ {r}
    /\ mined' = Append(mined, r)
    /\ UNCHANGED <<storeVars, t, mutex, backlog, recon, sent, notified, boundVars>>

\* External: it reverts or is dropped (the enforcers are the backstop).
Drop(r) ==
    /\ r \in inflight
    /\ inflight' = inflight \ {r}
    /\ UNCHANGED <<storeVars, t, mutex, backlog, recon, mined, sent, notified,
                   boundVars>>

\* A pending row passes the reconcile cutoff.  An agent payment's created_at is
\* read when it starts: ten minutes later its call has ended and its
\* transaction is mined or gone.  A Visa charge's clock runs from the webhook,
\* whenever its settlement is broadcast.
Age(i) ==
    /\ charges[i].status = "pending" /\ ~charges[i].aged
    /\ i \in PayCalls => t[i].pc \notin InSection /\ ~IsInflight(i)
    /\ charges' = [charges EXCEPT ![i].aged = TRUE]
    /\ UNCHANGED <<cardStatus, expired, window, t, mutex, backlog, recon,
                   chainVars, notified, boundVars>>

NextWindow ==
    /\ window < MaxWindow
    /\ window' = window + 1
    /\ UNCHANGED <<cardStatus, expired, charges, t, mutex, backlog, recon,
                   chainVars, notified, boundVars>>

\* The process dies and restarts: calls, waiters and sweeps are gone.
Crash ==
    /\ crashes < MaxCrashes
    /\ crashes' = crashes + 1
    /\ t' = [p \in Spenders |->
               IF SettleMode(p) THEN AtRest(p)
               ELSE IF t[p].pc = "idle" THEN t[p]
               ELSE Ended(p, t[p].out)]
    /\ mutex' = [c \in Cards |-> <<>>]
    /\ backlog' = {}
    /\ recon' = {}
    /\ UNCHANGED <<storeVars, chainVars, notified, controls>>

Owner == \E c \in Cards : \/ Freeze(c) \/ Unfreeze(c) \/ Revoke(c)
                          \/ Expire(c) \/ DeleteDeadCard(c)

Chain == \/ \E p \in Spenders : RelayerAccepts(p)
         \/ \E r \in inflight : Mine(r) \/ Drop(r)

-----------------------------------------------------------------------------
(* The event loop: microtasks are drained before anything else happens. *)

Microtask == \/ \E p \in Spenders : EnterSpend(p)
             \/ \E s \in Settlers : CatchSettle(s)

Quiet == /\ \A p \in Spenders : ~AtHead(p)
         /\ \A s \in Settlers : t[s].pc # "exit"

Task == \/ \E p \in PayCalls, c \in Cards, k \in Keys \cup {NoKey}, a \in Amounts :
              AgentSpend(p, c, k, a)
        \/ \E p \in Spenders : ResumeSpend(p)
        \/ \E a \in Auths, n \in Amounts : ApproveAuthorization(a, n)
        \/ \E s \in Settlers : ResumeSettle(s)
        \/ StartSettleSweep \/ SweepNextRow
        \/ StartReconcile \/ ResolveStale \/ PostponeReconcile
        \/ Owner

World == Chain \/ NextWindow \/ \E i \in ChargeIds : Age(i)

Next == Microtask \/ (Quiet /\ (Task \/ World)) \/ Crash

Spec == Init /\ [][Next]_vars

\* The event loop runs what is runnable, every request is answered or fails,
\* the timers of index.ts keep firing and the RPC answers a reconcile sweep now
\* and then.  None of it says that a request succeeds.
Fairness ==
    /\ WF_vars(Microtask)
    /\ \A p \in Spenders : WF_vars(ResumeSpend(p) \/ ResumeSettle(p))
    /\ WF_vars(StartSettleSweep \/ SweepNextRow)
    /\ WF_vars(StartReconcile) /\ SF_vars(ResolveStale)
    /\ \A i \in ChargeIds : WF_vars(Age(i))
    /\ WF_vars(\E r \in inflight : Mine(r) \/ Drop(r))

FairSpec == Spec /\ Fairness
=============================================================================

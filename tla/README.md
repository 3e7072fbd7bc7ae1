# AttestPay: a TLA+ verification of its protocols

AttestPay issues spending cards: delegations of a wallet's USDC that agents
redeem through a server.  The server keeps books (SQLite tables), checks every
request against them, sends redemptions through a relayer, finds out later what
the chain did, and proves confirmed payments, disputes and credit-line transfers
to contracts on a second chain.  The chain's enforcers are the backstop.  What
this project asks is whether the books, the relayer, the chains and the grants
can come apart when calls, timers, webhooks, crashes and the owner interleave.

All paths below are relative to the repository's `packages/`, unless they start
with `contracts/`.

## The system

| Component | State | Operations | Hard behaviour |
|---|---|---|---|
| charge store, `engine/src/store.ts` | cards (status, parent, terms), charges (status, amount, fee, request id, since block, key) | insert, update, delete, subtree sums and counts | every sum is subtree-wide; updates are unconditional |
| spend pipeline, `engine/src/spend.ts` | locals between awaits | `spend`, `confirmRedemption`, `reconcilePending` | seven awaits between the first check and the receipt |
| mutex, `engine/src/mutex.ts` | a promise chain per card tree | `run` | a throw must not wedge the key |
| Visa lane, `server/src/stripe/*` | pending `fiat` rows, back-off ladder, `sweeping` flag | webhook decide+insert, `settle`, `sweep` | decides without the mutex; retries an ambiguous send |
| x402, `engine/src/x402.ts`, `server/src/mcp/server.ts`, `server/src/seller`, `server/src/facilitator` | `x402` rows, a deal per payload | carve, fetch, finalize; verify, settle | validates, awaits, inserts; answers are lost after money moved |
| terms, `engine/src/compiler.ts`, `issuance.ts` | terms of each card | validate, normalize, attenuate, compile | the books and the enforcers judge the same redemption by different units and at different times |
| card controls and admin operations, `engine/src/ops.ts`, `server/src/api/routes.ts` | card status, prepared operations, EIP-7702 nonce | freeze, unfreeze, revoke, nuke, delete, each prepared and finalized | the nonce and the card move between prepare and finalize |
| OAuth, `server/src/oauth/*` | requests, codes, token rows | authorize, redeem, refresh, revoke | replay of what was rotated away |
| proof pipeline, `engine/src/attestcoin/worker.ts`, `store.ts`, `client.ts`, `facts.ts` | two tables of rows | enqueue, anchor, attest, prove, retry | overlapping sweeps; an answer lost after its transaction |
| verification contracts, `contracts/src/` PaymentAnchor, FactAnchor, AttestPayASC, AttestPayLedger | anchors, proven events, credit, disputes | anchor, verify, record | replay guards; facts proven in any order |
| credit lines, server, `engine/src/attestcoin/credit.ts`, `server/src/attestcoin/credit-exec.ts`, `credit-routes.ts` | a mirror of the contract's lines | sign, open, draw, repay, sync, sweep | the mirror is stale when a draw is checked |
| credit-line contracts, `contracts/src/` FactAnchor, ProvenFacts, AttestPayCreditLine, AttestPayGuarantee | anchored and proven facts, lines, bonds | anchor, verify, open, default, bond, slash | facts are proven late and in any order |
| webhook events, `server/src/events/*` | outbox rows | enqueue, deliver, retry | not modelled, see below |
| teams, shop, dashboard API, SDK, custody, telemetry, dashboard | own tables or none | request/response | not modelled |

How they interact.  An agent calls a tool of `server/src/mcp/server.ts`, which
runs `spend()`, or the carve of an x402 payment, under the mutex of the card's
tree.  Stripe calls the webhook, which reads and writes the same tables
synchronously and kicks off `settle()`; `settle()` runs `spend()` in settle mode
under the same mutex.  Timers of `server/src/index.ts` run the settlement sweep
and `reconcilePending`, which also writes rows without the mutex, and the proof
worker with the sweep of credit lines.  The owner's controls write card statuses
at any time, through the admin chain when a leaf has to be disabled on chain,
and end the grants of the cards they kill.  A confirmed charge calls
`onChargeConfirmed`, which feeds the proof pipeline; draws and repayments of a
credit line are charges too, and become facts; proven facts end in the
contracts, whose lines the mirror follows.

What makes each part correct:

- books: no subtree's charges exceed its caps; a transfer on the chain stays in
  the books, and nothing but the reconcile sweep gives it up; a confirmed charge
  reached the chain;
- pipeline: one transfer per idempotency key; nothing starts under a killed
  card; a broadcast charge is eventually resolved;
- Visa lane: at most one broadcast per authorization, an approved charge keeps
  its budget, and it is eventually settled, parked or waiting for its owner;
- mutex: mutual exclusion per tree, and every waiter's turn comes;
- x402: carves and payments fit the caps together, a confirmed row is a payment
  on the chain, a payment that is on the chain is counted as long as everybody
  waited for it, and a reservation never stays for ever;
- terms: a sub-card allows nothing that a card above it does not, and the
  enforcers never refuse what the server validated;
- admin and grants: a revoked root is disabled on the chain, a signed leaf is
  sent once, an ended token family stays dead, and the grants of a dead root end;
- proof pipeline: an event is anchored once, recorded once, verified in the
  books only after it is recorded; no row waits for ever behind another;
- credit line, contracts: draws within the limit, a status that agrees with the
  balance whatever the order of the proofs, totals that add up, a slash that
  pays the debt in the bond's currency, no more, and less only when nothing is
  left bonded;
- credit line, server: the mirror never shows a line the contract does not know,
  money moves only under such lines, a fact is what was booked for a confirmed
  charge, one charge makes one fact, and an expired line ends in the mirror.

Several of these hold only under a hypothesis that the code does not enforce:
that a send which errs was not queued, that no two fees of an account are equal,
that the collector the code looks for is the one that was paid, that a relayer
calls nothing failed that happened.  Each is a constant or a named formula, each
theorem says which it needs, and for each a configuration shows what happens
without it.

## Modules

| Component | Modules |
|---|---|
| store, pipeline, mutex, Visa lane | `ChargeStore`, `SpendPipeline`; `SpendProperties`, `MCSpend`; proofs in `SpendProofs`, `PayProofs` |
| x402 | `X402Pipeline` (extends `SpendPipeline`); `X402Properties`, `MCX402`; proofs in `PayProofs` |
| terms | `CardTerms`, `Enforcement`; `MCTerms`; proofs in `TermsProofs` |
| admin operations, issuance, OAuth | `Grants`, `CardAdmin` (extends `Grants`); `AdminProperties`, `MCAdmin`; proofs in `AdminProofs` |
| proof pipeline and its contracts | `Verification`, `ProofWorker` (extends `Verification`), the abstract `VerifiedOnce`; `ProofProperties`, `MCProof`, `ProofProofs` |
| credit lines, contracts | `CreditLine`, `Guarantee` (extends `CreditLine`); `CreditProperties`, `MCCredit`; proofs in `CreditProofs` |
| credit lines, server | `LineServer` (extends `CreditLine`); `LineProperties`, `MCLine`; proofs in `LineProofs` |
| lemmas | `SetSums`: sums over finite sets, used by `PayProofs`, `TermsProofs` and `CreditProofs` |

### Books and pipeline

`ChargeStore` holds the two tables and the reads that every path makes.  A
charge is identified with the call that inserts it, so its identity also says
its kind (agent payment, x402, Visa).  A row that is not in the table has status
`"absent"`; a deleted card has status `"deleted"`; `nuked` is read like
`revoked` everywhere in this code and is not kept apart.  `ChainRefusal` is
`assertChainSpendable`, `WithinCaps` the caps part of `validateSpend` and of
`decideAuthorization`.  Time is reduced to what the code compares: the index of
the current budget period (`window`), the set of expired cards, and for each
row whether it has passed the reconcile cutoff (`aged`).

`SpendPipeline` is everything that touches those tables while a redemption
runs.  Each spender (an agent's call, an authorization's kickoff, the settlement
sweep) has a local record `t[p]`; its `pc` names the await it stands at, and one
action is the synchronous code up to the next await:

| Code | Actions |
|---|---|
| `KeyedMutex.run` | `Queue`, `AtHead`, `Leave` |
| `spend()`, idempotency and settle-mode replay | `ReplayKey`, `ReplaySettle`, `StartSpend` |
| fee data, validation, estimate loop | `PlanFee`, `RaiseFee`, `RefuseUnreserved` |
| re-validation and reservation | `Reserve` |
| block number, second look at the cards, claim | `LoseBlock`, `RefuseReserved`, `Broadcast` |
| `relayer.send` | `RelayerAccepts` (external), `SendReturns`, `SendThrows` |
| `confirmRedemption` | `Confirm`, `Revert`, `GiveUpConfirming` |
| webhook | `ApproveAuthorization` |
| `settle()`, `sweep()` | `ReadSettleRow`, `WakeSettler`, `SettleReturns`, `ParkRow`, `FreezeParked`, `RetrySettle`, `StartSettleSweep`, `SweepNextRow` |
| `reconcilePending` | `StartReconcile`, `ResolveStale`, `PostponeReconcile` |
| controls | `Freeze`, `Unfreeze`, `Revoke`, `Expire`, `DeleteDeadCard` |
| chain, clock, process | `Mine`, `Drop`, `Age`, `NextWindow`, `Crash` |

JavaScript drains microtasks before any other event: a call that the mutex
released, and a settlement whose `spend()` returned, go on before a timer, a
request or an answer is handled.  `Next` says so with `Quiet`.  The order in
which I/O completes is free.

The relayer and the chain are modelled from what the code asks of them.  A
queued redemption is mined, in a block of its own, or dropped; a send may err
after the relayer accepted it (`AmbiguousSend`).  `confirmRedemption` answers from
two sources, and both may mislead it (`ReadsConfirmed`, `ReadsFailed`):

- a fee log is known by its payer, the collector and its value (`LogMatches`).
  `Fees` gives each charge the fees it may be quoted, so an instance chooses
  whether two charges can share one; the jitter only makes that unlikely.  With
  `CollectorMatches = FALSE` the logs are read at another address than the one
  that was paid, and none is found;
- the relayer's status.  `FalseFailures` says what it may call failed although
  it is still queued, or was included.  The code looks at the logs first, but
  with `LogErrors` that look may fail, and then a status of 500 is believed as
  it is.

Simplifications: all cards belong to one user (reconcile groups by user); merchant,
per-transaction and contract scopes, EIP-7702 codes, signing and the estimate's
verdict are a refusal or an error that may happen at any attempt; a settlement
sweep may pick a row of any age; the first `getFeeData` and the code check
are one await; two reconcile sweeps do not overlap (they are five minutes apart
and each makes a few RPC calls).  An agent payment becomes `aged` only when its
call has ended and its transaction is mined or gone: that is the assumption the
code states at `spend.ts:746-747`.  A Visa row may age at any time, because its
clock starts at the webhook.

`SpendProperties` states the properties and the inductive invariant,
`MCSpend` the values TLC uses, `SpendProofs` (types, the Visa lane) and `PayProofs`
(agents' payments, the caps) the proofs.

### x402

`X402Pipeline` adds two records to the pipeline's state, `carve[i]` for the
payer's call and `deal[i]` for the seller's side of it, and composes them with
`SpendPipeline` over the same books, mutex, chain and clock:

| Code | Actions |
|---|---|
| `paid_fetch` up to the carve | `PaidFetch` |
| `buildX402Payload` before and after the signature | `StartCarve`, `Carve`, `FailCarve` |
| the ends of the fetch, `finalizeX402Charge` | `HearAnswer`, `HearRefusal`, `LoseAnswer` |
| seller, `verifyX402`, `settleX402` | `QuoteDeal`, `RaiseDeal`, `RefuseDeal`, `SendDeal`, `DealAccepted` (external), `DealSent`, `DealThrows`, `ConfirmDeal`, `DealReverted`, `DealTimesOut` |
| `reconcilePending`, x402 rows | `X402Orphans` in `StartReconcile` |

A seller may be this process's own or another's, with the same code: a crash of
the server takes some of the deals with it and leaves the others.  A fetch ends
within minutes, so a reservation passes the one-hour cutoff only when its call is
over (`AgeReservation`).  `unheard` remembers the payments whose outcome somebody
stopped waiting for; it guards nothing.  The transaction and the fee of a receipt
are read one after the other, and either may be missing: `HearAnswer` takes what
it gets, and a fee that is not read is zero.  Left out: payload encodings,
EIP-7702 authorizations (a refusal that may happen), and a settlement of one leaf
by two sellers.

### Terms and enforcement

`CardTerms` is pure: the record of a card's terms, `ValidTerms`, `Normalized`,
`Exceeds`, `Attenuated` and `CallLimit` as `compiler.ts` computes them, and what
terms allow by themselves.  A term that may be left out is a set with at most one
member.  Malformed amounts and addresses, and empty lists, which the code
refuses, are left out; so is the flag `subcards`, which only hides a tool.

`Enforcement` lets two judges see every redemption of one growing tree of cards:
`Pay` and `Execute` book what `validateSpend` accepts, and `Mine` is enabled when
each delegation of the chain admits it (`ChainAdmits`, external: the money
enforcers count what is mined in their window in the pay group only,
`LimitedCallsEnforcer` counts executions in both).  `IssueSubCard` attenuates
against `Remaining`, which reads the books.  What a redemption does between the
two judgements is `SpendPipeline`'s subject; here it is mined at some later time
or fails.

### Cards, admin operations and grants

`Grants` holds the OAuth requests, codes and token rows; each handler runs
without an await and is one action (`Authorize`, `Approve`, `Deny`, `Redeem`,
`ReplayCode`, `Refresh`, `RevokeToken`).  `ended` remembers the families that
were ended and guards nothing.

`CardAdmin` adds the cards of one account, the prepared operations with their
single-use claim, the calls that run them, and what the chain holds: disabled
delegations and, for each call, the fees transferred since the block it read
(`logs`).  `Finalize`, `BadSignature`, `Verified`, `ReadBlock`, `Send`,
`RecordRevoke`, `RecordNuke`, `Cascade` and `GiveUp` are `finalizeAdminOp`,
`runAdminLoop` and the route behind them, cut at their awaits; `ServerOp` and
`ServerRevokeSub` are the server-signed lane; `PrepareCard`, `FinalizeCard`,
`BeginSubCard` and `InsertSubCard` are issuance.  A call is `Confirmed` by its own
transaction or by any log of its fee, and `MineSpend` writes the fees of the
account's other redemptions there.

A nuke marks the cards, reads the nonce, returns to its route and only then
revokes the tokens: `RecordNuke` and `Cascade`, with everything else in between.
`Crash` may fall there, or between the two writes of a handler that does not await
(sub-card revocation, deletion); it forgets calls and prepared entries.
`orphaned` remembers the cards whose kill it cut short and guards nothing.

Left out: time (what expired is what nobody finalizes or presents), the value of
the revocation nonce, and rotation of the card's secret.  That a second disable
of the same delegation reverts is an assumption about the chain (`Mine`,
`Revert`, external).

### Proof pipeline

`Verification` is the contracts: the source chain as the sequence of anchored
jobs, the height the attestors cover, the consumers' replay guards, the credit a
payment bumps, the disputes and the payer's tally.  `ProofWorker` adds the rows
of both tables and the sweeps, cut at their awaits and acting on rows as they
once read them.  Of `updated_at` only the order matters: `place` is a row's rank,
every update moves its row behind the others, and a sweep reads the batch of
lowest rank (`Batches`).  `index.ts` has no guard against a sweep that outlasts its
interval, so two may overlap.  A transaction may execute after its sweep lost the
answer or after a crash (`orphans`).

`VerifiedOnce` is the abstract promise: a job moves from unknown to asked,
anchored and recorded, once and in order, an outcome never before the dispute it
closes, and what the books believe verified has been recorded.
`ImplementsVerifiedOnce` says that `ProofWorker` implements it under the mapping
of `ProofProperties` (`stage` from chain and replay guards, `believed` from the
rows).

Left out: a payment row without a transaction or recipient (the hook enqueues
only confirmed ones), error texts, and the caches that are refreshed once a row
is verified.

### Credit lines

`CreditLine` models the credit-line contracts as one state: the part of
`FactAnchor` that anchors draws and repayments, the replay guard of
`ProvenFacts`, and `AttestPayCreditLine`.  A transfer is identified with its
anchored event.  `AnchorTransfer` may happen at any time and `ProveDraw` and
`ProveRepayment` at any time after it, in any order and repeatedly, because
proofs are permissionless and the worker retries; a call that would revert is
not enabled.  A draw is anchored as "late" when its transfer was made after the
expiry; a transfer made before the expiry may still be anchored after it.

`Guarantee` adds `AttestPayGuarantee` (`Bond`, `RequestUnbond`, `Unbond`,
`Slash`), which reads lines and never writes them; its `Next` interleaves the
two contracts.  Debts are in atoms of USDC and bonds in wei of CTC: `Due` converts
by the constant `WeiPerAtom`, 1e12 in the contract, and subtracts what was slashed
before.  The loop of `slash` is the recursive function `RemainingAfter`.

`CreditProperties` states what both promise, `MCCredit` the values for TLC,
`CreditProofs` the proofs.

Simplifications: signatures (a line in `Lines` is one both parties signed; two
of them may share a nonce), one event per anchoring transaction (the worker
sends no other), events of other anchorers or with other parties (refused by
the code), refused CTC transfers (the call reverts), 256-bit overflow (out of
reach of atoms and wei that exist), and one clock for both chains.

`LineServer` puts the server over `CreditLine`: the mirror row, both signatures
(`StartSigning`, `EndSigning` around the recovery of the signer), registration
with its simulation, lost answers and orphaned transactions (`StartOpening` to
`MineOrphan`), `executeDraw` and `executeRepayment` around `spend()`
(`StartCall`, `Reserve`, `EndCharge`, `Throw`, `Return`), facts (`Anchor`,
`Prove`, `GiveUp`), and the refreshes of the mirror by the proof worker and the
expiry sweep, each a read of the contract and a later write of the row
(`ReadLine`, `WriteMirror`).  A signature that is written late makes a line signed
again while it is being registered, so several registrations of one line may
overlap (`Openers`).

A transfer is a request for kind, line and amount, and a charge is what the store
holds under its key.  The two are kept apart because the code does: a call may
repeat a key (`Keyed`) with another amount or another line, and an ordinary
payment of the card (`Pays`, `Payment`, action `Pay`) may have used it.  `ReserveFor`
replaces a charge that failed before it was sent and is refused by any other;
`Return` takes the charge that is there, whoever made it (`Holders`), and books
the line event of its own request if that charge has none (`Unbooked`).  `Alone` is the
mutex.  Beyond that `spend()` is modelled by what the executor sees of it, and a
fact's row by its two ends; the modules above are about the rest.

## Runs

A run with a liveness property checks a specification with fairness, the others
the plain one.  Every configuration sets `CHECK_DEADLOCK FALSE`: the models have
finitely many calls, and when they are used up and every row is resolved nothing
is left to do.

| Run | Instance | Shows |
|---|---|---|
| `SpendBooks` | root and sub-card; one payment of fee 2 or 3, one authorization of fee 1; two periods; period cap 4, lifetime cap 5; a relayer that may call an included redemption failed | `BooksWithinCaps`: the unsynchronized webhook and pipeline never jointly exceed a cap; `BooksCoverChain`: what is mined stays counted with the fee it paid; `ConfirmedIsMined` |
| `SpendRetry` | two payments of one fee, one key, one crash, one control; a stale collector and a `getLogs` that may fail | `OneTransferPerKey`; `OnlySweepReleases`: whatever the logs show, no call gives up a redemption that is on the chain |
| `SpendSettle` | one authorization on a sub-card with kickoff and sweep, ambiguous sends, both kinds of false failures, failing log reads, one crash, two controls | `FiatBroadcastOnce`, `FiatNeverReleased`, `NoSendOnceKilled`, and `FiatInv`, the invariant of the proofs; `FiatResolves`, `BroadcastResolves`, `QueueMoves` with fairness |
| `X402` | one card, one paid fetch of fee 1 or 2 and one payment of fee 3; ambiguous sends, included settlements called failed, one crash, two controls | `ReservationsFit`, `ReceiptIsTrue`, `PaidIsCounted`; `ReservationsEnd` with fairness |
| `Enforcers` | five kinds of root, eight requests for sub-cards; four cards and redemptions in all; instants 0 to 3 with windows of 2 | `NarrowerThanAncestors`, `ChainNeverPreempts` |
| `Access` | a root, which may expire, and a sub-card, from issuance to deletion; one operation of fee 1 and other payments of fee 3, two calls, one crash, two grants, two token rows | `RevokedIsDisabled`, `AdminSentOnce`, `EndedStaysDead`; `GrantsEnd` with fairness |
| `ProofQueue` | a dispute, its resolution and a revocation; one worker, one row per batch | `AnchorIsOwn`, `TallyAddsUp`; `ImplementsVerifiedOnce`; `AnchoringNeverStarves` with fairness |
| `ProofOverlap` | one payment, two overlapping sweeps, one crash, one retry | `VerifiedIsRecorded`, `CreditCountsOnce`; `RowsEnd` with fairness |
| `CreditLines` | three signed lines, two with one nonce; three draws, one repayment; two guarantors with bonds of 3 wei, 2 wei to the atom; expiry at 2, clock to 3 | `LineInv`, `RecordsAddUp`, `BondsAddUp`; `LinesMoveForward`, `SlashPaysTheDebt`; `ExpiredLinesEnd` with fairness |
| `LineMirror` | one line and one keyed draw, three signings, two registrations that may overlap, one crash, expiry at 2, clock to 3 | `MirrorOfRealLine`; `ExpiredMirrorEnds` with fairness |
| `LineBooks` | one line; draws of 1 and 2 and an ordinary payment under one key, a repayment under another, one crash | `MoneyUnderOpenLine`, `FactsAreBooked`, `OneFactPerCharge` |
| `BlindRevert` | violation of `BooksCoverChain`: one payment; the relayer calls it failed and the logs cannot be read | a mined payment is failed by its own call |

Beside the runs stand configurations that take one hypothesis away, or put two
things together that the runs keep apart.  Each checks one property and ends in a
counterexample (`tlc -config X.cfg M`); what it means is said under Disagreements.

| Configuration | Module | Instance | What TLC finds |
|---|---|---|---|
| `RetryAmbiguous` | `MCSpend` | two payments under one key, a send that errs after it was queued | `OneTransferPerKey` fails: the retry transfers again |
| `SettleReprice` | `MCSpend` | a payment and an authorization on one card; fees 1 and 2 under a headroom of 2 | `BooksWithinCaps` fails: a settlement re-prices what its authorization reserved |
| `StaleCollector` | `MCSpend` | one payment, to another collector | `BooksCoverChain` fails: the sweep fails a mined payment whose call gave up waiting |
| `SharedLog` | `MCSpend` | two payments of one fee | `ConfirmedIsMined` fails: the log of the one that was mined confirms the other |
| `BareReceipt` | `MCX402` | one paid fetch | `AnswerKeepsFee` fails: a receipt that names no fee takes the fee out of the books |
| `RevokeTwin` | `MCAdmin` | one revocation and payments of its fee | `RevokedIsDisabled` fails: the log of a payment confirms the revocation |
| `NukeCrash` | `MCAdmin` | one operation, one crash and an expiry, with the fairness of `Access` | `NoGrantSurvives` fails: the grants of the nuked cards stay |
| `KeyReplay` | `MCLine` | two draws of different amounts under one key | `FactsArePaid` fails: an amount is anchored that its charge did not pay |

Every module that has a `TypeOK` was checked against it while it was written.  The
books' is part of `FiatInv`, which `SpendSettle` checks; the others are proved
(below), or would only repeat what the proofs say, and no configuration lists them.

Why the bounds are enough.  Two writers of the same budget are needed to break a
cap.  In `SpendBooks` an authorization takes 2 of it, a payment 3 or 4: the period
cap of 4 holds either but not both, the lifetime cap of 5 holds both at the
payment's lower fee and not at the higher, so each refusal and each race occurs.  Fees
are distinct there, and equal in `SpendRetry`, where a key's two payments compete.
Two calls are enough for a retry, and a kickoff with the sweep is enough for a
double drive; a third driver of a row would wait in the same queue.  One crash separates any two steps.  Two
controls give freeze then unfreeze, and revoke or expire then delete, between
any two awaits.  `EstimateRetries` and `SettleAttempts` are 2 instead of 3: what
matters is that there is a first, a repeated and a last attempt.  `MaxWindow`,
`MaxCrashes` and `MaxControls` cap the counters, and `sent` saturates at 2.

For x402 the headroom is 2, so that the payment fits next to a finalized fetch
but not next to its reservation when the fee is raised; the Visa webhook is not
part of that run (see Disagreements).  For the two judges, four rows give a
sub-card of a sub-card with one redemption, or one sub-card with two redemptions
that are mined in either order; the terms are chosen so that each one that may be
left out is left out by the parent, by the child, by both and by none.  One
redemption of three executions and a `uses` of 1 and 2 separate the two units.

For the administration, two requests finalize the one operation, beside the
server-signed routes, a log of a payment falls before or after the block that a
call reads, a crash falls anywhere once, and two token rows are one rotation, of
either of two grants.  A third row would repeat the second.  A second operation
would meet the first only at the card's status, the nonce and the shared fee; the
proofs cover any number.  For the proofs, a batch of one row and three jobs are
enough for a row to be kept waiting; the jobs stand in the only order that the
contracts care about.  Overlap needs two sweeps and one row.  `MaxAttempts` and
`MaxRetries` bound the counters as `MAX_ATTEMPTS` of the worker does.

For the credit line, draws of 1 and 2 at half interest owe 1, 3 and 4, so that
rounding shows and the one repayment of 3 overpays, exactly pays or partly pays,
depending on which draws are proven before it; the other line of the same
borrower shares the bonds.  The limit holds both draws of the first line and a
nonce clash keeps one of its two sets of terms out.  The clock has one instant
before the expiry, the expiry itself, and one after it, and the unbond delay is
one unit, so a request can mature before, at and after the expiry.  An atom
answers for two wei and a bond is three, so that one bond pays for a debt of one
atom and a half: a slash stops within a bond, needs two, or runs out, and a second
slash finds the rest.  `MaxHeld` bounds the bonds that are held at once.

For its mirror, three signings write a late signature before, during and after a
registration, and two registrations overlap; a third would find the row as one of
them left it.  For the books of a line, two draws and an ordinary payment are the
three kinds of owners a key can have, with two amounts to confuse, and a call that
repeats a key may do so again after its crash.  Time does not pass in that run:
the expiry plays no part in what is booked.

Fairness.  `FairSpec` of `SpendPipeline`, and `X402FairSpec`, assume what the
event loop and `setInterval` give: runnable microtasks and timers run, every
request is answered or fails, a redemption is mined or dropped, rows age.  Strong
fairness is assumed of `ResolveStale` only: the RPC answers a reconcile sweep now
and then, since each failed sweep (`PostponeReconcile`) is repeated five minutes
later.  Nothing says that a send, an estimate or a settlement succeeds, nor that
an owner unfreezes a card: `FiatResolves` therefore ends in "or a card of the
chain is frozen".

For the contracts, `FairSpec` of `Guarantee` assumes that time passes and that
the server's credit sweep, which visits every line past its expiry at every
tick and repeats what failed, closes or defaults a line that the contract allows
it to.  No fairness is assumed of anchoring, proving or slashing.  For the
mirror, time passes, the sweep goes on, and its reads and settlements, which are
repeated at every tick, succeed now and then (strong fairness).

For the proof worker, the timer fires, every await ends, and a height that could
be read again and again is read some day; no transaction, proof or scan need ever
succeed, because `MAX_ATTEMPTS` ends what keeps failing.  `RowsEnd` says openly
that the attestors keep up.  For the administration, the one thing assumed is
that a call whose operation is done goes on to the tokens (`Cascade`): the nonce
read before that ends in an answer or an error, and both go on.  A crash is not
excluded by it.

## Proofs

All theorems hold for every value of the constants under the modules' named
assumptions: cards that form a forest whose chains nest and end in one root,
natural amounts, disjoint kinds of charges, terms of the right shape, finitely
many lines, guarantors, jobs and sweeps, and one resolution per opening and
outcome.  TLC evaluates each assumption in a run.  A theorem that needs more
names it as a hypothesis (`ASSUME ... PROVE`); each such hypothesis is explained
below.  Every safety invariant and every action property that a passing run
checks is stated by a theorem.

Visa lane (`SpendProofs`):

- `FiatInvariant`: `Spec => []FiatInv`;
- `TypeCorrect`: `Spec => []TypeOK`;
- `BroadcastOnce`: a Visa charge is broadcast at most once;
- `NeverReleased`: no step fails an approved Visa charge, changes its amount, or
  removes it without its card;
- `NoSendOnceKilledHolds`: no call begins to broadcast under a frozen or revoked
  card that is on the books.

Why `BroadcastOnce` needs an invariant.  The claim `request_id = claim-…` is
written in one synchronous step before `relayer.send`, and the row is read again
only at the start of the next run of `spend()`.  Between that read and the claim
there are three awaits, so a second driver of the row must be kept out: both
drivers must wait on one key.  The key is computed from the card chain when the
driver queues, and after a deletion it is the card itself instead of the root.
`FiatInv` therefore says: whoever is inside the section is the head of its queue
(`LockInv`); a driver inside it holds the key of its card's root
(`SettleKeyInv`, with the exception of a driver that queued after the deletion,
which then finds no row); rows that are listed or driven exist or went with
their card (`KnownInv`); a row that was broadcast carries a mark, and one whose
driver has still to broadcast never was (`ClaimInv`).

The proof is layered.  Every action keeps types, queues and call records
(`TypeInv`); then it is shown what one step of anything can do to an
authorization's row (`NextRows`) and to a call (`NextMove`), and each conjunct of
the invariant is derived from those two.

Agents' payments (`PayProofs`):

- `PayInvariant`: `Spec => [](FiatInv /\ DrawnInv /\ PayInv)`, without a hypothesis;
- `OnePayment`: one key moves money once, if a send that errs was not queued
  (`~AmbiguousSend`);
- `ConfirmedMined`: a confirmed charge is on the chain, if no two charges are
  given one fee (`FeesDistinct`);
- `SweepReleases`: nothing but the sweep gives up a redemption that is on the
  chain, whatever the fees and the collector, if a send that errs was not queued
  and what the relayer calls failed is not queued, nor mined where the logs do
  not show it (`FailuresReal`);
- `BooksCover`: what is on the chain, or may yet be, keeps its budget, under
  all of these and `CollectorMatches`, the one fee collector the code looks for.

Each hypothesis is needed: `RetryAmbiguous`, `SharedLog`, `BlindRevert` and
`StaleCollector` are the configurations without it.

`PayInv` ties a payment's row to its call and to the chain (`PayOK`): a row whose
call has not sent has no redemption anywhere, one that was sent keeps its row and
its fee unless its card went, and what a reconcile sweep has listed is a row whose
call is over.  For `OnePayment` the proof adds `OneLive`, that two payments with
one card and key are never both in the books, because the key's rows are read in
the same synchronous code that inserts; for `BooksCover` it adds `FeeInv`, that a
redemption carries the fee its row holds, through the re-pricing of a settlement.

A log names a fee and not a charge, so `ConfirmedMined` has to follow the fee: from
the estimate that quoted it to the call that holds it, the row that books it and
the redemption that pays it.  `DrawnInv` says of each of these places that its fee
is one its own charge could be quoted; when no fee belongs to two charges, the log
that matched belongs to the charge it confirms.

Caps (`PayProofs`).  `AmountsWithinCaps` holds for every value of the constants:
agents' payments with their fees, and the amounts of Visa charges, fit every
cap of every card above them.  `BooksWithin` is `BooksWithinCaps` with all fees, if
settlement is off or every fee is the headroom (`Reserved`): without that
hypothesis it is false, which is what `SettleReprice` shows.  Both are one proof
about the part of a row that no later step raises (`Firm`).  A reservation and a
webhook's insert each find, in the state in which they write, room at every
ancestor for that part (`RoomAt`); all other steps can only take a row out of a
sum or leave its part alone (`Shrinks`).  A charge booked in an old period lowers
no room of a later one because `SinceWindow` counts every later charge.

x402 (`PayProofs`, over `X402Spec`):

- `X402Invariant`: the pipeline's invariants hold beside carves, and so does
  `XInv`;
- `ReceiptsAreTrue`: `ReceiptIsTrue`, a confirmed payment is on the chain and its
  row holds the fee it paid or, when the receipt named none, zero; under
  `FeesDistinct`, because the seller's confirmation reads the same logs;
- `PaidStaysCounted`: `PaidIsCounted`, under `FailuresReal`;
- `ReservationsWithin`: `ReservationsFit`, for instances without Visa charges,
  because the webhook books without the mutex (see Disagreements).

The pipeline's proofs are used again as they are.  A step of a carve writes only
its own row, redemption and place in a queue (`Besides`), so it keeps whatever
the invariants say of the others, and a step of the pipeline leaves carves alone
or confirms, releases or deletes their rows as the reconcile sweep and deletion do.
`XInv` says of each carve where it stands in its queue, what its row holds, and
what its seller has been given (`QueueOK`, `CarveOK`, `DealOK`).  A carve validates,
awaits its signature and then inserts without a second look; what makes that
sound is `RoomInv`, that the room it found is there for as long as it signs.  All
other reservations of the tree need the key that the carve holds (`PayKeyInv`),
and what the sweeps do meanwhile only makes room.

Credit line, contracts: under `CreditAssumption`, `CreditProofs` shows
`LineInvariant` (`Spec => []LineInv`) and `MoveForward` (`Spec =>
LinesMoveForward`) for every set of lines and transfers.  The argument needs one
arithmetic lemma, `OwedGrows`: each unit drawn adds at least one unit to what is
owed although interest is rounded down, so a draw never leaves an active line
without a debt.  The invariant is strengthened with the types and with "what is
anchored is positive" (`FactAnchor` refuses zero amounts).  Each contract call
is shown to be one good write to one line (`GoodWrite`, `OneLineWritten`).

The totals are proved there too: `RecordsHold` (`RecordsAddUp`), `BondsHold`
(`BondsAddUp`) and `SlashWithinDebt` (`SlashPaysTheDebt`, for every factor between
the currencies).  Totals are sums over
finite sets, and a step moves one term of them.  The library defines such sums by
a recursion whose order `CHOOSE` fixes; `SetSums` therefore proves what sums
need (no term, one term more, one term changed, terms that are at most others,
a bound on each) by taking a least set that refutes it.  `RemainingAfterIs`
says what the loop of `slash` takes along the list of guarantors, which holds each
of them once: from each at most the bond, and never more than was due.

Credit line, server (`LineProofs`): `SpecInv`, `MirrorShowsRealLines`
(`MirrorOfRealLine`), `MoneyMovesUnderRealLines` (`MoneyUnderOpenLine`),
`FactsRestOnCharges` (`FactsAreBooked`) and `OneFactOfACharge`
(`OneFactPerCharge`), for any calls, keys and amounts.  `FactsAreTrue` shows
`FactsArePaid`, that an anchored amount reached the party it names, if calls that
share a key ask for the same payment; `KeyReplay` shows what happens when they do
not, because the code compares neither amount nor recipient.  A stale write can
put an old status back, so the properties are not inductive.  `KnownInv` lists
everything that can still write a status: the row, the row an executor read, an
opening that landed, the view of a sweep; each of them shows a line only if the
contract knows it, and the contract forgets none.  `BookInv` does the same for
facts: a queued job has an event, and under its key a confirmed charge, and neither
is taken back, since only charges that failed unsent are deleted; under one key
there is one charge and one event.

Terms (`TermsProofs`): `SubCardsNarrow`, `Spec => []NarrowerThanAncestors`.
`AttenuationNarrows` compares the terms of one child with its parent's, for all
terms, child requests and remainders; what makes the invariant inductive is that
"allows no more" is transitive, so the ancestors of a parent need not be looked
at again (`NarrowerTransitive`), and that terms and chains of issued cards never
change (`LineInv` of that module, `LineStep`).  The expiry is compared as a set of
instants: an inherited or earlier expiry at most shortens what is allowed
(`Sooner`).

`EnforcersAdmit`, `Spec => []ChainNeverPreempts`, compares the two judges of a
redemption.  The server sums rows by when they were booked, an enforcer adds up
what was mined; the property itself says nothing of how the two are related.
`ChainInv` supplies it: for each card, the rows that count in the current window
fit its terms (`BooksFit`), where windows only move on (`WindowGrows`), so a row
that leaves the window leaves the sum.  What an enforcer has counted in a window,
for a redemption that was booked in it, is part of what the books count
(`TotalsAre`, `ExecutionsAre`), and one row is at most `ExecutionsPerUse`
executions, so a limit of that many calls per use is never the first to refuse.

Cards, admin operations and grants (`AdminProofs`):

- `AdminTypes`: `Spec => []TypeOK`;
- `RevocationReachesChain`: a root that the books call revoked is disabled, if no
  two fees of the account are equal (`FeesUnique`; `RevokeTwin` is the
  configuration without);
- `LeafSentOnce`: an admin leaf reaches the relayer at most once;
- `EndedFamilies`, `OneLiveToken`: an ended token family has no live row, a
  family never has two.

Three invariants carry them.  `GrantInv` ties rows to codes: a row's family is
the row it began with, it was minted from a used code, a code has at most one
family, and at most one row of it is live; rotation and replay keep it because
each revokes before, or instead of, adding.  `OpInv` says what an operation has
done: nothing was sent for one that is ready or was only claimed, a fee in the
logs is one of the account's payments or of an operation that was mined, so that
under `FeesUnique` a log of an operation's fee is its own, and a mined revocation
disabled its card (`OneBroadcast`, `MinedDisables`).  `AdminInv` adds the books.  Grants
change only by `GrantStep` or by revoking rows (`GrantsChange`), and statuses only
as `StatusMoves` says, so each invariant is shown against few kinds of steps.

Proof pipeline (`ProofProofs`), for all sets of jobs and of overlapping sweeps:

- `WorkerImplementsVerifiedOnce`: `Spec => ImplementsVerifiedOnce`;
- `BooksNeverAhead`: a verified row's event is recorded;
- `AnchorsAreOwn`: a row's anchor is its own, and a row past anchoring has one;
- `CreditedOnce`: a payment counts once, and when its event was recorded;
- `ProofTypes`: `Spec => []TypeOK`.

Neither the properties nor the refinement are inductive: a sweep acts on rows as it
read them, and a transaction nobody waits for may execute at any time.  `Inv`
says what old knowledge is still worth: every anchor a snapshot holds is a height
of its job, at which the row has its anchor too (`SnapshotOK`); a sweep past the
look at the anchor has read one, and one whose proof was accepted has its event
recorded (`SweepOK`); a transaction in flight is of a job with a row, or of a
height of the chain (`TxOK`).  On the contracts' side a job is at one height at
most (`UniqueAnchors`, which the replay guard keeps) and a dispute the ledger
knows was recorded (`OpeningsRecorded`).  All of it survives because contracts
and rows only grow (`ContractsGrow`, `RowsGrow`): the lemmas show that a step of
the contracts grows, that a written row keeps its anchor, and that growth keeps
the rest.  For the refinement, each step then moves at most one job's stage
(`AnchorRefines`, `ProofRefines`, `EnqueueRefines`) or rewrites one row
(`RowRefines`).

`TallyHolds` (`TallyAddsUp`) counts: the dispute, win and loss counters of a
payer are the cardinalities of what is recorded, in every order of anchoring and
proving.

Model-checked only: the liveness properties, `FiatResolves`, `BroadcastResolves`,
`QueueMoves`, `ReservationsEnd`, `GrantsEnd`, `AnchoringNeverStarves`, `RowsEnd`,
`ExpiredLinesEnd` and `ExpiredMirrorEnds`; fairness and ENABLED are beyond the
prover.  What holds under `FairSpec` of safety is proved of `Spec`.

TLC checked each inductive invariant before it was proved: `FiatInv` and `LineInv`
still are invariants of runs; `XInv`, `Inv` of `ProofProofs` and of `LineProofs`,
and the parts of `ChainInv` were checked on the instances of the runs of their
components.

## Disagreements

Where the code does something else than a comment, a tool's description or a test
says.  `BlindRevert` is a run; those that name another configuration are found by
it; the others were met while modelling and are described by the models as the
code has them.  A few contradict nothing and are only surprising.

- `confirmRedemption` says that the logs are read "BEFORE trusting a 500"
  (`engine/src/spend.ts:376-378`) so that an included redemption is never called
  failed, but it swallows an error of `getLogs` (`:396-398`) and then believes the
  500 (`:400`): a mined payment is failed and its budget released (`BlindRevert`).
  The seller's side confirms through the same function (`engine/src/x402.ts:341-346`).
- `pay` promises "same key -> same charge (safe retries)", yet a send that errs
  after the relayer queued the redemption fails its row, and a retry under the
  key sends again (`RetryAmbiguous`).  `SpendRetry` shows the promise kept when a
  send that errs was not queued.
- The webhook reserves "headroom for the on-chain settlement fee"
  (`server/src/stripe/routes.ts:83-84`), "held in the books" (`CHANGELOG.md:454`).
  A settlement does not validate (`engine/src/spend.ts:579`) and writes the fee it
  is asked for over the headroom (`:584-585`) before it reads the block number
  (`:605`).  A lower fee frees budget; when the read throws, another payment may
  book it, and the retry writes a higher fee over full books (`SettleReprice`).  In
  `SpendBooks` the only fee of the authorization is the headroom: that is the
  hypothesis under which the caps are proved.
- "A per-user consumed-txHash set stops two same-fee charges ... from both
  claiming one log" (`engine/src/spend.ts:795-796`), but the set lives for one
  user and one sweep (`:819`), and a call that confirms inline (`:394`) neither
  reads nor fills it: two charges of one fee are confirmed by one log (`SharedLog`).
- The same scan confirms an admin operation (`engine/src/ops.ts:199-208`), so a
  payment of the same fee marks a card revoked whose delegation is still enabled,
  against `:209-212` (`RevokeTwin`).
- A nuke marks every card (`engine/src/ops.ts:274`, `:467`), awaits the nonce and
  only then ends the tokens (`server/src/api/routes.ts:660`, `:696`).  A crash in
  between leaves grants that no start-up and no sweep looks for, against
  `:110-112` (`NukeCrash`).
- `executeDraw` finds its charge by card and key and books its own amount and line
  for it (`server/src/attestcoin/credit-exec.ts:86-92`), although `spend()` may
  have replayed a charge of another amount or recipient
  (`engine/src/spend.ts:441-451`).  `server/src/mcp/credit-tools.ts:90` says "same
  key -> same draw", and `contracts/src/FactAnchor.sol:30` that the event means
  USDC that reached a borrower (`KeyReplay`).
- `server/src/index.ts:25` runs the reconcile sweep without `onChargeConfirmed`,
  although `engine/src/spend.ts:68-69` says that every confirmation calls it: a
  charge that the sweep confirms is never enqueued for proof.
- `engine/src/spend.ts:391` and `:779` scan for the fee leg at a constant
  collector, while the redemption pays the one the relayer quoted (`:524-526`);
  when they differ an included redemption is failed, against the comment at
  `:377-378` (`StaleCollector`).  `engine/src/chains.ts:49-52` says that the
  constant did go stale.
- `engine/src/spend.ts:832` parks a Visa row without freezing its card;
  `server/src/stripe/settlement.ts:7-8` says that parking freezes.
- `contracts/src/AttestPayGuarantee.sol:97` honours a request to unbond however
  old it is, so one that matured while the line was good is used when it goes
  bad, against `:23-24`.
- `engine/src/attestcoin/credit.ts:303-305` says that the check on the mirror
  "keeps a refused draw from ever moving USDC".  Two draws in flight pass it
  together, both transfers are made, and the contract refuses the second.
- A root card finalized between the mining of a nuke and its confirmation is
  marked nuked by `engine/src/ops.ts:274` although its delegation carries the new
  nonce and can still be redeemed; `:209-212` warns of exactly such a tree.
- Revoking a sub-card, by the agent or by the server-signed route, leaves its
  grants; `server/src/api/routes.ts:110-113` says that a card's grants die with
  it.  `GrantsEnd` is therefore about root cards.
- `engine/src/x402.ts:9-10` says that concurrent spends cannot overdraw.  The
  Visa webhook takes no mutex and may book between the carve's validation and
  its insert; the enforcers then refuse one of the two.  `ReservationsFit` is
  therefore checked among the callers of the mutex.
- A 200 whose receipt names no fee, does not decode or is absent
  (`server/src/mcp/server.ts:295-312`) sets the row's fee to zero
  (`engine/src/x402.ts:147-149`), although "the server-side budget is still
  reserved either way" (`server/src/mcp/server.ts:313-316`): the amount is, the
  fee is not (`BareReceipt`).
- A seller that times out on a settlement that is mined later, or a fetch that
  breaks, fails the row and releases its budget, although the leaf the seller
  holds has no expiry of its own.  `PaidIsCounted` says for whom the budget stays.
- `attenuate` compares amounts of periods but not their lengths, and a child that
  names its own pay terms inherits neither lifetime nor uses
  (`engine/src/compiler.ts:431`): the child's own terms may then promise more
  than the chain walk will allow.  A child with `increaseAllowance` and without
  `approve` does not inherit `perTradeMax`, though `:497-501` says that such a
  child can never meet it.  The walk over the ancestors refuses it either way.
- After a slash has paid the lender, the borrower's repayment still counts and the
  lender is paid twice; nothing in the contract promises the guarantor a refund
  (`contracts/src/AttestPayGuarantee.sol:118-141`).  `SlashPaysTheDebt` is about
  slashes only.
- A sub-card's parent is read before the awaits of `engine/src/issuance.ts:232`
  and may be dead when the row is inserted.  The row is active and spends nothing,
  because every check walks the cards above it.
- A redemption booked in one window and mined in the next may be refused by a
  period enforcer that the books still have room for; `ChainNeverPreempts`
  excludes it.

## Not modelled, and the plan

- Webhook events (`server/src/events`): an outbox whose sweeps may overlap; a late
  failure may overwrite a delivered row, and more than twenty hooks race in one
  batch.  A module of its own with an "at least once, or dead" promise is the
  next candidate.
- Proofs: what the caps say of carves when the Visa webhook books beside them;
  an abstract ledger that the pipeline implements, as `VerifiedOnce` is for the
  proof worker; the joint promise of mirror and contract once a line has ended.
- The webhook inside the x402 run, and two settlements of one leaf.
- `CreditPassport` (a read-only score), the registry of card terms and
  `ProvenTxDecoder` (decoding), teams (a roster), shop and fiat tools (callers of
  the Visa lane).

Left out for good: cryptography and encodings (delegations, EIP-712, EIP-7702,
the OR-wrapper's bytes), custody, telemetry, the rate limiter, the SDK and the
dashboard, which is about half of the repository's code and keeps no protocol
state of its own.

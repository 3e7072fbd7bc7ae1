-------------------------- MODULE SpendProperties --------------------------
(* What the books promise while spend(), the webhook, the settlement         *)
(* executor, the sweeps and the owner interleave.                            *)
EXTENDS SpendPipeline

\* Every variable stays in its type.
TypeOK ==
    /\ cardStatus \in [Cards -> CardStatuses]
    /\ expired \in SUBSET Cards
    /\ window \in Nat
    /\ charges \in [ChargeIds -> Charge]
    /\ t \in [Spenders -> Call]
    /\ mutex \in [Cards -> Seq(Spenders \cup X402Calls)]
    /\ backlog \in SUBSET Auths
    /\ recon \in SUBSET ChargeIds
    /\ inflight \in SUBSET Redemption
    /\ mined \in Seq(Redemption)
    /\ sent \in [ChargeIds -> 0..2]
    /\ notified \in SUBSET ChargeIds
    /\ crashes \in Nat
    /\ controls \in Nat

\* The spend-time validations and the webhook's decision, although they run
\* unsynchronized with each other, never let the charges of a subtree exceed
\* its lifetime cap, its cap for any one period or its number of uses
\* (validateSpend's caps and decideAuthorization's, against insertCharge).
BooksWithinCaps ==
    \A c \in Cards :
        /\ SubtreeSpentLifetime(c) <= LifetimeCap[c]
        /\ \A w \in 0..window :
              MapThenSumSet(Total, {i \in Counted(c) : charges[i].win = w})
                <= PeriodCap[c]
        /\ SubtreeUsesCount(c) <= MaxUses[c]

CardOf(i) == IF i \in Auths THEN AuthCard[i] ELSE t[i].card

\* No two charges are given the same fee: what the jitter of 0..999 atoms is for
\* (spend.ts 91-94), and does with high probability.
FeesDistinct == \A i, j \in ChargeIds : i # j => Fees[i] \cap Fees[j] = {}

\* A redemption is called failed when it is neither queued nor mined; a relayer
\* that says so of a mined one is contradicted by the logs, which can be read and
\* name the collector that was paid.
FailuresReal ==
    /\ "queued" \notin FalseFailures
    /\ "included" \in FalseFailures => ~LogErrors /\ CollectorMatches

\* A redemption on the chain is still counted by the books, with the fee the
\* chain took, unless its card was deleted: no path releases or re-prices the
\* budget of a transfer that happened.  It takes FailuresReal, FeesDistinct and a
\* FEE_COLLECTOR that is the one the relayer names: see OnlySweepReleases.
BooksCoverChain ==
    \A k \in DOMAIN mined :
        LET i == mined[k].charge
        IN  \/ cardStatus[CardOf(i)] = "deleted"
            \/ /\ charges[i].status \notin {"absent", "failed"}
               /\ charges[i].fee = mined[k].fee

\* Whatever FEE_COLLECTOR is, only the reconcile sweep, ten minutes later, gives
\* up a redemption that is on the chain; until then its budget is held, with the
\* fee the chain took.
OnlySweepReleases ==
    \A k \in DOMAIN mined :
        LET i == mined[k].charge
        IN  \/ cardStatus[CardOf(i)] = "deleted"
            \/ /\ charges[i].status # "absent"
               /\ charges[i].fee = mined[k].fee
               /\ charges[i].status = "failed" => charges[i].aged

\* A confirmed charge that has an on-chain leg did reach the chain, whichever
\* of the inline confirmation and the reconcile sweep confirmed it.
ConfirmedIsMined ==
    \A i \in PayCalls \cup (IF SettlementOn THEN Auths ELSE {}) :
        charges[i].status = "confirmed" => IsMined(i)

\* Retries under one idempotency key move money at most once.
OneTransferPerKey ==
    \A c \in Cards, k \in Keys :
        Cardinality({p \in PayCalls : /\ t[p].card = c /\ t[p].key = k
                                      /\ IsMined(p) \/ IsInflight(p)}) <= 1

\* A Visa charge is broadcast at most once, whatever kickoff, sweep, retries
\* and restarts do.
FiatBroadcastOnce == \A a \in Auths : sent[a] <= 1

\* An approved Visa charge keeps its budget: its row never becomes "failed"
\* and leaves the books only with its card.
FiatKept ==
    \A a \in Auths : charges[a].status # "absent" =>
        /\ charges'[a].status # "failed"
        /\ charges'[a].status = "absent" => cardStatus'[AuthCard[a]] = "deleted"
        /\ charges'[a].status # "absent" => charges'[a].amount = charges[a].amount

FiatNeverReleased == [][FiatKept]_vars

AtSend(p, c) == t[p].pc = "send" /\ t[p].card \in SubtreeOf(c)

\* From the moment a card is frozen or revoked no call under it begins to
\* broadcast, as long as the card it spends from is on the books: the only
\* sends that outlive a kill were begun before it (spend()'s second look at the
\* chain of cards, in pay and in settle mode).
SendsSpendable ==
    \A c \in Cards, p \in Spenders :
        /\ AtSend(p, c)'
        /\ cardStatus[c] \in {"frozen", "revoked"}
        /\ cardStatus[t'[p].card] # "deleted"
        => AtSend(p, c)

NoSendOnceKilled == [][SendsSpendable]_vars

Pending(i) == charges[i].status = "pending"

Broadcasted(i) == Pending(i) /\ charges[i].request # "null"

\* An approved Visa charge does not stay open forever: it settles, is parked,
\* or waits for its owner to unfreeze the card.
FiatResolves ==
    \A a \in Auths :
        Pending(a) ~> \/ ~Pending(a)
                      \/ \E c \in AncestorsOf[AuthCard[a]] : cardStatus[c] = "frozen"

\* A charge that was broadcast is settled from the chain, however its call ended.
BroadcastResolves == \A i \in ChargeIds : Broadcasted(i) ~> ~Pending(i)

\* A call that queues for a card tree gets its turn: a throw does not wedge it.
QueueMoves == \A p \in Spenders : t[p].pc = "queued" ~> t[p].pc # "queued"

-----------------------------------------------------------------------------
(* The inductive invariant behind FiatBroadcastOnce and FiatNeverReleased. *)

IsIn(p, q) == \E k \in 1..Len(q) : q[k] = p

InQueue(p) == t[p].pc \in {"queued"} \cup InSection

\* A call that waits for or holds a key is in that key's queue, and the holder
\* is its head.
LockOK(p) ==
    /\ InQueue(p) => /\ t[p].lock \in Cards
                      /\ IsIn(p, mutex[t[p].lock])
    /\ t[p].pc \in InSection => Head(mutex[t[p].lock]) = p

LockInv == \A p \in Spenders : LockOK(p)

\* An agent's call drives its own charge; a settler drives an authorization's,
\* on the card that authorization maps to.
RowOK(p, call) ==
    /\ p \in PayCalls => /\ call.row = p
                         /\ call.pc \notin {"read", "sleep"}
                         /\ call.pc # "idle" => call.card \in Cards
    /\ p \in Auths => call.row = p
    /\ p \in Settlers =>
          /\ call.pc # "idle" => call.row \in Auths
          /\ call.pc \notin {"idle", "read"} => call.card = AuthCard[call.row]

RowInv == \A p \in Spenders : RowOK(p, t[p])

\* The rows of the Visa lane.
FiatRowInv ==
    \A a \in Auths :
        /\ charges[a].status # "failed"
        /\ charges[a].status # "absent" =>
              /\ charges[a].card = AuthCard[a]
              /\ charges[a].key = a
              /\ cardStatus[AuthCard[a]] # "deleted"

\* A settler's key is that of its card's tree, unless the card was deleted
\* before it queued.
SettleKeyOK(s) ==
    /\ t[s].pc \in InSection => t[s].lock = RootOf(t[s].card)
    /\ t[s].pc = "queued" => \/ t[s].lock = RootOf(t[s].card)
                             \/ cardStatus[t[s].card] = "deleted"

SettleKeyInv == \A s \in Settlers : SettleKeyOK(s)

\* The row of an authorization exists, or went with its card.
Known(a) == charges[a].status # "absent" \/ cardStatus[AuthCard[a]] = "deleted"

Driven(s, a) == t[s].pc # "idle" /\ t[s].row = a

\* Rows the sweep has listed and rows settlers drive were once on the books.
KnownInv ==
    /\ \A a \in backlog : Known(a)
    /\ \A s \in Settlers, a \in Auths : Driven(s, a) => Known(a)

\* The row carries the mark of a broadcast, or went with its card.
Claimed(a) == Known(a) /\ (charges[a].status # "absent" => charges[a].request # "null")

\* A settler that has still to broadcast drives a row that never was; one that
\* may be broadcasting has claimed it.
ClaimOK(s) ==
    /\ t[s].pc \in {"fee", "estimate", "block"} => sent[t[s].row] = 0
    /\ t[s].pc = "send" => /\ ~t[s].accepted => sent[t[s].row] = 0
                           /\ Claimed(t[s].row)

ClaimInv ==
    /\ \A a \in Auths : sent[a] # 0 => Claimed(a)
    /\ \A s \in Settlers : ClaimOK(s)

FiatInv ==
    /\ TypeOK /\ LockInv /\ RowInv /\ FiatRowInv
    /\ SettleKeyInv /\ KnownInv /\ ClaimInv /\ FiatBroadcastOnce
=============================================================================

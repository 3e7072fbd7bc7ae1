---------------------------- MODULE ChargeStore ----------------------------
(***************************************************************************)
(* The books of the engine: the `cards` and `charges` tables of            *)
(* packages/engine/src/store.ts and the reads every money path makes of    *)
(* them.  A charge is identified with the call that inserts it (the code   *)
(* draws a random uuid): an agent payment, an x402 carve or a Stripe       *)
(* authorization.  An identity therefore also says the charge's kind.      *)
(***************************************************************************)
EXTENDS Integers, Sequences, FiniteSets, FiniteSetsExt

CONSTANTS
    Cards,         \* card ids
    Parent,        \* parent_card_id of each card, NoCard for a root
    NoCard,
    PayCalls,      \* agent calls of spend(): charge kinds "pay" and "execute"
    X402Calls,     \* agent calls of buildX402Payload(): charge kind "x402"
    Auths,         \* Stripe issuing authorizations: charge kind "fiat"
    Keys, NoKey,   \* idempotency keys an agent may name
    PeriodCap,     \* terms.pay.period.amount of each card, in atoms
    LifetimeCap,   \* terms.pay.lifetime.amount of each card, in atoms
    MaxUses        \* terms.maxUses of each card

ChargeIds == PayCalls \cup X402Calls \cup Auths

CardStatuses == {"active", "frozen", "revoked", "deleted"}
    \* "nuked" is "revoked" to every reader of this module; "deleted" is a
    \* row that deleteCardTree removed

ChargeStatuses == {"absent", "pending", "confirmed", "failed",
                   "settlement_unconfirmed"}

ASSUME StoreAssumption ==
    /\ NoCard \notin Cards
    /\ NoKey \notin Keys
    /\ Parent \in [Cards -> Cards \cup {NoCard}]
    /\ PayCalls \cap X402Calls = {}
    /\ PayCalls \cap Auths = {}
    /\ X402Calls \cap Auths = {}
    /\ Auths \cap (Keys \cup {NoKey}) = {}   \* "stripe-" keys are the webhook's
    /\ PeriodCap \in [Cards -> Nat]
    /\ LifetimeCap \in [Cards -> Nat]
    /\ MaxUses \in [Cards -> Nat]

VARIABLES
    cardStatus,    \* cards.status
    expired,       \* the cards whose terms.expiry has passed
    window,        \* index of the current budget period
    charges        \* the charges table

storeVars == <<cardStatus, expired, window, charges>>

\* Charges rows.  `request` is request_id (null, the claim a settlement
\* writes before it broadcasts, or the relayer's id); `since` is since_block;
\* `win` is the period created_at falls in; `aged` says created_at is before
\* the reconcile cutoff.
Charge == [status : ChargeStatuses, card : Cards \cup {NoCard},
           key : Keys \cup {NoKey} \cup Auths, amount : Nat, fee : Nat,
           request : {"null", "claim", "sent"}, since : Nat, win : Nat,
           aged : BOOLEAN]

NoCharge == [status |-> "absent", card |-> NoCard, key |-> NoKey,
             amount |-> 0, fee |-> 0, request |-> "null", since |-> 0,
             win |-> 0, aged |-> FALSE]

Total(i) == charges[i].amount + charges[i].fee

-----------------------------------------------------------------------------
(* The card tree. *)

\* A card and its ancestors, as issued.
AncestorsOf[c \in Cards] ==
    IF Parent[c] = NoCard THEN {c} ELSE {c} \cup AncestorsOf[Parent[c]]

\* Parents are issued before their children: chains nest, and each ends in one
\* root.
ASSUME ForestAssumption ==
    \A c \in Cards : /\ AncestorsOf[c] \subseteq Cards
                     /\ c \in AncestorsOf[c]
                     /\ \A a \in AncestorsOf[c] : AncestorsOf[a] \subseteq AncestorsOf[c]
                     /\ \E r \in AncestorsOf[c] :
                           \A a \in AncestorsOf[c] : Parent[a] = NoCard <=> a = r

RootOf(c) == CHOOSE r \in AncestorsOf[c] : Parent[r] = NoCard

SubtreeOf(c) == {d \in Cards : c \in AncestorsOf[d]}

\* ancestorChain: the rows that still exist; empty for a deleted card.
AncestorChain(c) ==
    IF cardStatus[c] = "deleted" THEN {}
    ELSE {a \in AncestorsOf[c] : cardStatus[a] # "deleted"}

\* spendKey: the root of the chain, the card itself once its row is gone.
SpendKey(c) ==
    IF AncestorChain(c) = {} THEN c
    ELSE RootOf(c)

\* assertChainSpendable: the refusal code of the card nearest the leaf that
\* refuses, "none" when the whole chain is spendable.
ChainRefusal(c, past) ==
    LET chain == AncestorChain(c)
        bad == {a \in chain : cardStatus[a] # "active" \/ a \in past}
        first == CHOOSE a \in bad : bad \subseteq AncestorsOf[a]
    IN  IF bad = {} THEN "none"
        ELSE IF cardStatus[first] = "frozen" THEN "card_frozen"
        ELSE IF cardStatus[first] = "revoked" THEN "card_revoked"
        ELSE "card_expired"

-----------------------------------------------------------------------------
(* Accounting: everything that has not failed counts, subtree-wide. *)

Counted(c) == {i \in ChargeIds : /\ charges[i].status \notin {"absent", "failed"}
                                 /\ charges[i].card \in SubtreeOf(c)}

SubtreeSpentSince(c, w) ==
    MapThenSumSet(Total, {i \in Counted(c) : charges[i].win >= w})

SubtreeSpentLifetime(c) == SubtreeSpentSince(c, 0)

SubtreeUsesCount(c) == Cardinality(Counted(c))

\* The caps part of validateSpend and of decideAuthorization: uses, period
\* and lifetime, at every ancestor.
WithinCaps(chain, w, total) ==
    \A a \in chain :
        /\ SubtreeUsesCount(a) < MaxUses[a]
        /\ SubtreeSpentSince(a, w) + total <= PeriodCap[a]
        /\ SubtreeSpentLifetime(a) + total <= LifetimeCap[a]

\* Mutant: only a confirmed charge answers for its key.
ConfirmedByIdempotency(c, k) ==
    {i \in ChargeIds : /\ charges[i].status = "confirmed"
                       /\ charges[i].card = c
                       /\ charges[i].key = k}

\* chargeByIdempotency: the rows a card holds under a key (the unique index
\* admits one).
ChargeByIdempotency(c, k) ==
    {i \in ChargeIds : /\ charges[i].status # "absent"
                       /\ charges[i].card = c
                       /\ charges[i].key = k}
=============================================================================

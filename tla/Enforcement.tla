---------------------------- MODULE Enforcement ----------------------------
(***************************************************************************)
(* Two judges of every redemption: the server, which validates it against  *)
(* the books (validateSpend of packages/engine/src/spend.ts), and the      *)
(* chain's enforcers, which the card's terms were compiled to.  Cards are  *)
(* issued and sub-cards attenuated while redemptions run.  One account;    *)
(* what a redemption does between the two judgements is SpendPipeline's    *)
(* subject, here it is mined at some later time or fails.                  *)
(***************************************************************************)
EXTENDS CardTerms, Sequences, FiniteSetsExt

CONSTANTS
    RootTerms, ChildTerms,   \* the terms an owner and an agent may ask for
    Amounts, Fees,
    MaxRows, MaxTime        \* bounds of the model: cards and charges, and time

ASSUME EnforcementAssumption ==
    /\ RootTerms \subseteq Terms /\ ChildTerms \subseteq Terms
    /\ Amounts \subseteq Nat /\ Fees \subseteq Nat
    /\ MaxRows \in Nat /\ MaxTime \in Nat

VARIABLES
    now,
    cards,      \* issued cards; `chain` is the card and its ancestors
    charges     \* redemptions, with when they were booked and mined

vars == <<now, cards, charges>>

Card == [terms : Terms, start : Int, chain : SUBSET (1 .. MaxRows)]

Charge == [card : 1 .. MaxRows, mode : {"pay", "contract"}, total : Nat,
           executions : Nat, booked : Nat, mined : Nat,
           status : {"pending", "confirmed", "failed"}]

RoomLeft == Len(cards) + Len(charges) < MaxRows

Init == now = 0 /\ cards = <<>> /\ charges = <<>>

-----------------------------------------------------------------------------
(* The server's books. *)

\* The charges under a card, itself included.
Under(c) == {k \in DOMAIN charges : c \in cards[charges[k].card].chain}

Total(k) == charges[k].total

Counted(c) == {k \in Under(c) : charges[k].status # "failed"}

SubtreeSpentSince(c, at) ==
    MapThenSumSet(Total, {k \in Counted(c) : charges[k].booked >= at})

CurrentWindow(c) == WindowStart(cards[c].terms, cards[c].start, now)

\* validateSpend's caps, fee included, at one card of the chain.
WithinCaps(c, total) ==
    LET t == cards[c].terms
    IN  /\ \A u \in t.uses : Cardinality(Counted(c)) < u
        /\ t.pays =>
             /\ \A p \in t.period :
                   SubtreeSpentSince(c, CurrentWindow(c)) + total <= p
             /\ \A l \in t.lifetime : SubtreeSpentSince(c, 0) + total <= l

\* parentRemaining.
Remaining(c) ==
    LET t == cards[c].terms
        Rest(S, spent) == SumSet({IF x > spent THEN x - spent ELSE 0 : x \in S})
    IN  [period   |-> Rest(t.period, SubtreeSpentSince(c, CurrentWindow(c))),
         lifetime |-> Rest(t.lifetime, SubtreeSpentSince(c, 0))]

-----------------------------------------------------------------------------
(* Issuing. *)

Issue(terms, chain) ==
    /\ RoomLeft
    /\ ValidTerms(terms, now)
    /\ cards' = Append(cards, [terms |-> terms,
                               start |-> PeriodStart(now),
                               chain |-> chain \cup {Len(cards) + 1}])
    /\ UNCHANGED <<now, charges>>

\* prepareRootCard: the owner issues a card.  One tree is enough: no judge looks
\* beyond it.
IssueCard(terms) == cards = <<>> /\ Issue(Normalized(terms), {})

\* issueSubCard.
IssueSubCard(p, request) ==
    LET left == Remaining(p)
    IN  /\ ~Exceeds(cards[p].terms, left, request)
        /\ Issue(Attenuated(cards[p].terms, left, request), cards[p].chain)

-----------------------------------------------------------------------------
(* Redemptions. *)

Book(c, mode, total, executions) ==
    /\ RoomLeft
    /\ \A a \in cards[c].chain : WithinCaps(a, total)
    /\ charges' = Append(charges, [card |-> c, mode |-> mode, total |-> total,
                                   executions |-> executions, booked |-> now,
                                   mined |-> 0, status |-> "pending"])
    /\ UNCHANGED <<now, cards>>

\* pay, a tool of the cards with a pay capability: every card of the chain must
\* allow the payment.
Pay(c, to, amount, fee) ==
    /\ cards[c].terms.pays /\ amount > 0
    /\ \A a \in cards[c].chain :
          /\ Unexpired(cards[a].terms, now)
          /\ PaymentInScope(cards[a].terms, to, amount)
    /\ Book(c, "pay", amount + fee, 2)

\* execute: up to MaxExecutions - 1 calls, here of one kind.  Every contract card
\* of the chain must allow the calls, and its list of tokens an approval.
Execute(c, calls, target, method, amount, fee) ==
    /\ cards[c].terms.contract
    /\ \A a \in cards[c].chain :
          LET t == cards[a].terms
          IN  /\ Unexpired(t, now)
              /\ t.contract =>
                    /\ CallInScope(t, target, method, amount)
                    /\ (method = Approve /\ t.tokens # {}) => target \in t.tokens
    /\ Book(c, "contract", fee, calls + 1)

-----------------------------------------------------------------------------
(* The chain. *)

MinedUnder(c) == {k \in Under(c) : charges[k].status = "confirmed"}

Executed(k) == charges[k].executions

\* External: the enforcers of one delegation of the chain.  Only the pay group
\* counts money; limitedCalls counts executions, whichever group is chosen.
ChainAdmits(c, k) ==
    LET t == cards[c].terms
        paid == {i \in MinedUnder(c) : charges[i].mode = "pay"}
        recent == {i \in paid : charges[i].mined >= CurrentWindow(c)}
    IN  /\ charges[k].mode = "contract" => t.contract
        /\ charges[k].mode = "pay" =>
             /\ \A p \in t.period : MapThenSumSet(Total, recent) + Total(k) <= p
             /\ \A l \in t.lifetime : MapThenSumSet(Total, paid) + Total(k) <= l
        /\ \A n \in CallLimit(t) :
              MapThenSumSet(Executed, MinedUnder(c)) + Executed(k) <= n
        /\ Unexpired(t, now)

\* External: a redemption that every delegation admits is mined, and the books
\* learn it.
Mine(k) ==
    /\ charges[k].status = "pending"
    /\ \A a \in cards[charges[k].card].chain : ChainAdmits(a, k)
    /\ charges' = [charges EXCEPT ![k].status = "confirmed", ![k].mined = now]
    /\ UNCHANGED <<now, cards>>

\* External: it reverts or is dropped, and the books learn it.
Fail(k) ==
    /\ charges[k].status = "pending"
    /\ charges' = [charges EXCEPT ![k].status = "failed"]
    /\ UNCHANGED <<now, cards>>

Tick ==
    /\ now < MaxTime
    /\ now' = now + 1
    /\ UNCHANGED <<cards, charges>>

Next ==
    \/ \E t \in RootTerms : IssueCard(t)
    \/ \E p \in DOMAIN cards, t \in ChildTerms : IssueSubCard(p, t)
    \/ \E c \in DOMAIN cards, f \in Fees, a \in Amounts :
          \/ \E to \in Payees : Pay(c, to, a, f)
          \/ \E n \in 1 .. MaxExecutions - 1, x \in Targets, m \in Methods :
                Execute(c, n, x, m, a, f)
    \/ \E k \in DOMAIN charges : Mine(k) \/ Fail(k)
    \/ Tick

Spec == Init /\ [][Next]_vars

-----------------------------------------------------------------------------
(* Properties. *)

\* Every variable has its type.
TypeOK ==
    /\ now \in 0 .. MaxTime
    /\ cards \in Seq(Card) /\ Len(cards) <= MaxRows
    /\ charges \in Seq(Charge)

\* However a sub-card was asked for, and however long the line of parents: what
\* its own terms allow, the terms of every card above it allow (compiler.ts
\* 440-545; the comments at 497-501 and 519-525 argue the two hard parts).
NarrowerThanAncestors ==
    \A c \in DOMAIN cards : \A a \in cards[c].chain :
        /\ \A to \in Payees, n \in Amounts :
              AllowsPayment(cards[c].terms, to, n, now)
                 => AllowsPayment(cards[a].terms, to, n, now)
        /\ \A x \in Targets, m \in Methods, n \in Amounts :
              AllowsCall(cards[c].terms, x, m, n, now)
                 => AllowsCall(cards[a].terms, x, m, n, now)

\* A redemption that is mined in the window it was booked in, under a card of
\* which that holds for all that was mined in this window.
OnTime(c, k) ==
    cards[c].terms.period # {} =>
        \A i \in MinedUnder(c) \cup {k} :
            charges[i].mined >= CurrentWindow(c) \/ i = k
                => charges[i].booked >= CurrentWindow(c)

\* The chain is a backstop that never pre-empts the server (compiler.ts 43-56):
\* what validateSpend accepted is admitted by every delegation of the card's
\* chain, in whatever order the redemptions under it are mined, unless one of
\* them crossed a window or the card expired meanwhile.
ChainNeverPreempts ==
    \A k \in DOMAIN charges :
        charges[k].status = "pending" =>
            \A c \in cards[charges[k].card].chain :
                OnTime(c, k) /\ Unexpired(cards[c].terms, now)
                    => ChainAdmits(c, k)
=============================================================================

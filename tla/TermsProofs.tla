---------------------------- MODULE TermsProofs ----------------------------
(***************************************************************************)
(* Attenuation narrows, for every set of terms and every line of cards.    *)
(* What a card may allow does not depend on the amounts its parent has     *)
(* left, so the invariant only types the terms that scope a request.       *)
(***************************************************************************)
EXTENDS Enforcement, SetSums, FiniteSetTheorems, TLAPS

\* The terms that scope a request are well formed.
Scoped(t) ==
    /\ t.pays \in BOOLEAN /\ t.contract \in BOOLEAN
    /\ t.expiry \subseteq Nat /\ t.perTx \subseteq Nat /\ t.perTrade \subseteq Nat

\* What terms t allow, terms u allow, at every time.
Narrower(t, u) ==
    /\ \A to \in Payees, n \in Amounts, at \in Nat :
          AllowsPayment(t, to, n, at) => AllowsPayment(u, to, n, at)
    /\ \A x \in Targets, m \in Methods, n \in Amounts, at \in Nat :
          AllowsCall(t, x, m, n, at) => AllowsCall(u, x, m, n, at)

\* A term that does not exceed another, or is inherited from it, binds at least
\* as tightly.
LEMMA Tighter ==
    ASSUME NEW n \in Nat, NEW S \in SUBSET Nat, NEW T \in SUBSET Nat,
           ~Above(S, T), ~Above({n}, OrElse(S, T))
    PROVE  ~Above({n}, T)
  <1>1. CASE S = {}
    BY <1>1 DEF Above, OrElse
  <1>2. CASE S # {}
    <2>1. PICK x \in S : TRUE  BY <1>2
    <2>2. n <= x  BY <1>2, <2>1 DEF Above, OrElse
    <2>3. \A y \in T : x <= y  BY <2>1 DEF Above
    <2> QED  BY <2>2, <2>3, <2>1 DEF Above
  <1> QED  BY <1>1, <1>2

\* The same for an instant that has to lie before the expiry.
LEMMA Sooner ==
    ASSUME NEW at \in Nat, NEW S \in SUBSET Nat, NEW T \in SUBSET Nat,
           ~Above(S, T), \A e \in OrElse(S, T) : at < e
    PROVE  \A e \in T : at < e
  <1>1. CASE S = {}
    BY <1>1 DEF OrElse
  <1>2. CASE S # {}
    <2>1. PICK x \in S : TRUE  BY <1>2
    <2>2. at < x  BY <1>2, <2>1 DEF OrElse
    <2>3. \A y \in T : x <= y  BY <2>1 DEF Above
    <2> QED  BY <2>2, <2>3, <2>1
  <1> QED  BY <1>1, <1>2

\* attenuate: terms that do not exceed the parent's come out narrower.
LEMMA AttenuationNarrows ==
    ASSUME NEW p, NEW left, NEW child \in Terms,
           Scoped(p), ~Exceeds(p, left, child)
    PROVE  /\ Scoped(Attenuated(p, left, child))
           /\ Narrower(Attenuated(p, left, child), p)
  <1> DEFINE t == Normalized(child)
             out == Attenuated(p, left, child)
  <1>1. t \in Terms
    BY TermsAssumption DEF Normalized, Terms, Optional
  <1>2. Scoped(t)
    BY <1>1 DEF Scoped, Terms, Optional
  <1>3. /\ ~PayExceeds(p, left, t) /\ ~ScopeExceeds(p, t)
        /\ ~Above(t.expiry, p.expiry) /\ ~Above(t.perTx, p.perTx)
        /\ p.merchants # {} => t.merchants \subseteq p.merchants
    BY DEF Exceeds, ExceedsAsAsked
  <1>4. /\ out.pays = (t.pays \/ p.pays) /\ out.contract = t.contract
        /\ out.targets = t.targets /\ out.methods = t.methods
        /\ out.perTrade = TradeCap(p, t)
        /\ out.expiry = OrElse(t.expiry, p.expiry)
        /\ out.perTx = OrElse(t.perTx, p.perTx)
        /\ out.merchants = OrElse(t.merchants, p.merchants)
    BY DEF Attenuated
  <1> HIDE DEF t, out
  <1>5. Scoped(out)
    BY <1>2, <1>4 DEF Scoped, OrElse, TradeCap
  <1>6. ASSUME NEW at \in Nat, Unexpired(out, at)
        PROVE  Unexpired(p, at)
    BY <1>2, <1>3, <1>4, <1>6, Sooner DEF Scoped, Unexpired
  <1>7. ASSUME NEW to \in Payees, NEW n \in Amounts, NEW at \in Nat,
               AllowsPayment(out, to, n, at)
        PROVE  AllowsPayment(p, to, n, at)
    <2>1. p.pays
      BY <1>2, <1>3, <1>4, <1>7 DEF AllowsPayment, PayExceeds, Scoped
    <2>2. ~Above({n}, p.perTx)
      <3>1. n \in Nat  BY EnforcementAssumption
      <3>2. ~Above({n}, OrElse(t.perTx, p.perTx))
        BY <1>4, <1>7 DEF AllowsPayment, PaymentInScope
      <3> QED  BY <3>1, <3>2, <1>2, <1>3, Tighter DEF Scoped
    <2>3. p.merchants = {} \/ to \in p.merchants
      BY <1>3, <1>4, <1>7 DEF AllowsPayment, PaymentInScope, OrElse
    <2> QED  BY <2>1, <2>2, <2>3, <1>6, <1>7 DEF AllowsPayment, PaymentInScope
  <1>8. ASSUME NEW x \in Targets, NEW m \in Methods, NEW n \in Amounts,
               NEW at \in Nat, AllowsCall(out, x, m, n, at)
        PROVE  AllowsCall(p, x, m, n, at)
    <2>1. /\ p.contract /\ x \in p.targets /\ m \in p.methods
          /\ ~Above(t.perTrade, p.perTrade)
      BY <1>3, <1>4, <1>8 DEF AllowsCall, CallInScope, ScopeExceeds
    <2>2. ASSUME m = Approve, x = USDC
          PROVE  ~Above({n}, p.perTrade)
      <3>1. n \in Nat  BY EnforcementAssumption
      <3>2. ~Above({n}, OrElse(t.perTrade, p.perTrade))
        BY <1>4, <1>8, <2>2 DEF AllowsCall, CallInScope, TradeCap
      <3> QED  BY <3>1, <3>2, <1>2, <2>1, Tighter DEF Scoped
    <2> QED  BY <2>1, <2>2, <1>6, <1>8 DEF AllowsCall, CallInScope
  <1> QED  BY <1>5, <1>7, <1>8 DEF Narrower, out

-----------------------------------------------------------------------------

\* Cards are a sequence of well-formed cards, narrower than all of their chain.
LineInv ==
    /\ now \in Nat
    /\ \E S : cards \in Seq(S)
    /\ \A c \in DOMAIN cards :
          /\ Scoped(cards[c].terms)
          /\ cards[c].chain \subseteq DOMAIN cards
          /\ c \in cards[c].chain
          /\ \A a \in cards[c].chain : Narrower(cards[c].terms, cards[a].terms)

\* A card whose terms are narrower than those of its chain joins the line.
LEMMA JoinLine ==
    ASSUME LineInv, NEW terms, NEW chain \in SUBSET DOMAIN cards,
           Scoped(terms), Issue(terms, chain),
           \A a \in chain : Narrower(terms, cards[a].terms)
    PROVE  LineInv'
  <1> DEFINE n == Len(cards) + 1
             card == [terms |-> terms, start |-> PeriodStart(now),
                      chain |-> chain \cup {n}]
  <1>1. PICK S : cards \in Seq(S)
    BY DEF LineInv
  <1>2. cards' = Append(cards, card) /\ now' = now
    BY DEF Issue
  <1>3. cards \in Seq(S \cup {card})
    BY <1>1
  <1>4. /\ cards' \in Seq(S \cup {card})
        /\ Len(cards) \in Nat /\ Len(cards') = n
        /\ DOMAIN cards = 1 .. Len(cards) /\ DOMAIN cards' = 1 .. n
        /\ \A c \in DOMAIN cards : cards'[c] = cards[c]
        /\ cards'[n] = card
    BY <1>2, <1>3
  <1>5. card.terms = terms /\ card.chain = chain \cup {n}
    OBVIOUS
  <1>6. Narrower(terms, terms)
    BY DEF Narrower
  <1> HIDE DEF card, n
  <1>7. n \in DOMAIN cards' /\ n \notin DOMAIN cards
        /\ DOMAIN cards' = DOMAIN cards \cup {n}
    BY <1>4 DEF n
  <1>8. ASSUME NEW c \in DOMAIN cards
        PROVE  /\ Scoped(cards'[c].terms)
               /\ cards'[c].chain \subseteq DOMAIN cards'
               /\ c \in cards'[c].chain
               /\ \A a \in cards'[c].chain : Narrower(cards'[c].terms, cards'[a].terms)
    BY <1>4, <1>7 DEF LineInv
  <1>9. /\ Scoped(cards'[n].terms)
        /\ cards'[n].chain \subseteq DOMAIN cards'
        /\ n \in cards'[n].chain
        /\ \A a \in cards'[n].chain : Narrower(cards'[n].terms, cards'[a].terms)
    BY <1>4, <1>5, <1>6, <1>7
  <1>10. now' \in Nat  BY <1>2 DEF LineInv
  <1>11. \E Q : cards' \in Seq(Q)  BY <1>4
  <1> QED  BY <1>7, <1>8, <1>9, <1>10, <1>11 DEF LineInv

LEMMA NarrowerTransitive ==
    ASSUME NEW t, NEW u, NEW v, Narrower(t, u), Narrower(u, v)
    PROVE  Narrower(t, v)
  BY DEF Narrower

LEMMA LineInit == Init => LineInv
  <1> SUFFICES ASSUME Init PROVE LineInv  OBVIOUS
  <1>1. cards \in Seq({}) /\ DOMAIN cards = {}  BY DEF Init
  <1>2. now \in Nat  BY DEF Init
  <1>3. \E S : cards \in Seq(S)  BY <1>1
  <1> QED  BY <1>1, <1>2, <1>3 DEF LineInv

LEMMA LineStep == LineInv /\ [Next]_vars => LineInv'
  <1> SUFFICES ASSUME LineInv, [Next]_vars PROVE LineInv'  OBVIOUS
  <1>1. ASSUME NEW t \in RootTerms, IssueCard(t) PROVE LineInv'
    <2>1. t \in Terms  BY EnforcementAssumption
    <2>2. Normalized(t) \in Terms
      BY <2>1, TermsAssumption DEF Normalized, Terms, Optional
    <2>3. Scoped(Normalized(t))  BY <2>2 DEF Scoped, Terms, Optional
    <2>4. Issue(Normalized(t), {})  BY <1>1 DEF IssueCard
    <2> QED  BY <2>3, <2>4, JoinLine
  <1>2. ASSUME NEW p \in DOMAIN cards, NEW r \in ChildTerms, IssueSubCard(p, r)
        PROVE  LineInv'
    <2> DEFINE t == Attenuated(cards[p].terms, Remaining(p), r)
    <2>1. r \in Terms  BY EnforcementAssumption
    <2>2. Scoped(cards[p].terms)  BY DEF LineInv
    <2>3. ~Exceeds(cards[p].terms, Remaining(p), r) /\ Issue(t, cards[p].chain)
      BY <1>2 DEF IssueSubCard
    <2>4. Scoped(t) /\ Narrower(t, cards[p].terms)
      BY <2>1, <2>2, <2>3, AttenuationNarrows
    <2>5. \A a \in cards[p].chain : Narrower(cards[p].terms, cards[a].terms)
      BY DEF LineInv
    <2>6. cards[p].chain \in SUBSET DOMAIN cards  BY DEF LineInv
    <2> HIDE DEF t
    <2>7. \A a \in cards[p].chain : Narrower(t, cards[a].terms)
      BY <2>4, <2>5, NarrowerTransitive
    <2> QED  BY <2>3, <2>4, <2>6, <2>7, JoinLine
  <1>3. ASSUME cards' = cards, now' \in Nat PROVE LineInv'
    BY <1>3 DEF LineInv
  <1>4. ASSUME NEW c, NEW mode, NEW total, NEW n, Book(c, mode, total, n) PROVE LineInv'
    BY <1>3, <1>4 DEF Book, LineInv
  <1>5. ASSUME NEW c, NEW to, NEW a, NEW f, Pay(c, to, a, f) PROVE LineInv'
    BY <1>4, <1>5 DEF Pay
  <1>6. ASSUME NEW c, NEW n, NEW x, NEW m, NEW a, NEW f, Execute(c, n, x, m, a, f)
        PROVE  LineInv'
    BY <1>4, <1>6 DEF Execute
  <1>7. ASSUME NEW k, Mine(k) \/ Fail(k) PROVE LineInv'
    BY <1>3, <1>7 DEF Mine, Fail, LineInv
  <1>8. ASSUME Tick PROVE LineInv'
    BY <1>3, <1>8 DEF Tick, LineInv
  <1>9. ASSUME UNCHANGED vars PROVE LineInv'
    BY <1>3, <1>9 DEF vars, LineInv
  <1> QED  BY <1>1, <1>2, <1>5, <1>6, <1>7, <1>8, <1>9 DEF Next

\* For every set of terms, requests and amounts, and however long the line of
\* sub-cards: what a card's own terms allow, every card above it allows.
THEOREM SubCardsNarrow == Spec => []NarrowerThanAncestors
  <1>1. LineInv => NarrowerThanAncestors
    BY DEF LineInv, NarrowerThanAncestors, Narrower
  <1> QED  BY <1>1, LineInit, LineStep, PTL DEF Spec

-----------------------------------------------------------------------------
(* The chain and the books. *)

\* The terms that bound what is redeemed are well formed.
Bounded(t) ==
    /\ t.pays \in BOOLEAN /\ t.contract \in BOOLEAN
    /\ t.period \in Optional(Nat) /\ t.lifetime \in Optional(Nat)
    /\ t.uses \subseteq Nat /\ t.seconds \in Nat

\* A window has a length.
Windowed(t) == t.pays /\ t.period # {} => t.seconds > 0

\* What a card can do, the cards above it can.
Capable(t, u) == (t.pays => u.pays) /\ (t.contract => u.contract)

KindsInv ==
    \A c \in DOMAIN cards :
        /\ Bounded(cards[c].terms) /\ Windowed(cards[c].terms)
        /\ cards[c].start \in Int
        /\ \A a \in cards[c].chain : Capable(cards[c].terms, cards[a].terms)

\* A charge of a card with terms t is of a kind they have.
GoodRow(r, t) ==
    /\ r.total \in Nat /\ r.booked \in Nat /\ r.executions \in Nat
    /\ \/ r.mode = "pay" /\ t.pays /\ r.executions = 2
       \/ r.mode = "contract" /\ t.contract /\ r.executions <= MaxExecutions

RowsInv ==
    /\ \E S : charges \in Seq(S)
    /\ \A k \in DOMAIN charges :
          /\ charges[k].card \in DOMAIN cards
          /\ GoodRow(charges[k], cards[charges[k].card].terms)

Totals(rows) == [k \in DOMAIN rows |-> rows[k].total]

Since(rows, S, at) == {k \in S : rows[k].booked >= at}

CountedIn(cs, rows, c) ==
    {k \in DOMAIN rows : c \in cs[rows[k].card].chain /\ rows[k].status # "failed"}

\* What the rows S say is within terms t, in the window that began at `at`.
Fits(t, rows, S, at) ==
    /\ \A u \in t.uses : Cardinality(S) <= u
    /\ t.pays =>
         /\ \A p \in t.period : SumOver(Totals(rows), Since(rows, S, at)) <= p
         /\ \A l \in t.lifetime : SumOver(Totals(rows), S) <= l

WindowOf(card, n) == WindowStart(card.terms, card.start, n)

\* What is pending or mined under a card is within its terms: the server saw to
\* it, in the window of now as in every earlier one.
BooksFit ==
    \A c \in DOMAIN cards :
        Fits(cards[c].terms, charges, CountedIn(cards, charges, c),
             WindowOf(cards[c], now))

ChainInv == LineInv /\ KindsInv /\ RowsInv /\ BooksFit

\* A window never begins before the one of an earlier instant.
LEMMA WindowGrows ==
    ASSUME NEW t, t.seconds \in Nat, t.seconds > 0, NEW start \in Int, NEW n \in Nat
    PROVE  /\ WindowStart(t, start, n) \in Int /\ WindowStart(t, start, n + 1) \in Int
           /\ WindowStart(t, start, n) <= WindowStart(t, start, n + 1)
<1> DEFINE s == t.seconds
           x == n - start
<1>1. s \in Nat /\ s > 0 /\ x \in Int
  OBVIOUS
<1>2. n + 1 - start = x + 1 /\ (n < start <=> x < 0) /\ (n + 1 < start <=> x + 1 < 0)
  OBVIOUS
<1> HIDE DEF s, x
<1>3. ASSUME NEW y \in Int
      PROVE  y \div s \in Int /\ (y \div s) * s \in Int
             /\ (y \div s) * s <= y /\ y < (y \div s) * s + s
  BY <1>1
<1>4. ASSUME NEW a \in Int, NEW b \in Int, b * s < a * s PROVE b * s + s <= a * s
  <2>1. b < a
    BY <1>1, <1>4
  <2> DEFINE d == a - b - 1
  <2>2. d \in Nat /\ a = b + 1 + d
    BY <2>1
  <2> HIDE DEF d
  <2>3. (b + 1 + d) * s = b * s + s + d * s /\ d * s \in Nat /\ b * s \in Int
    BY <1>1, <2>2
  <2> QED
    BY <1>1, <2>2, <2>3
<1>5. (x \div s) * s <= ((x + 1) \div s) * s
  <2> DEFINE a == x \div s
             b == (x + 1) \div s
  <2>1. /\ a \in Int /\ b \in Int /\ a * s \in Int /\ b * s \in Int
        /\ a * s <= x /\ x + 1 < b * s + s
    BY <1>1, <1>3
  <2>2. b * s < a * s => b * s + s <= a * s
    BY <1>4, <2>1
  <2> HIDE DEF a, b
  <2> QED
    BY <1>1, <2>1, <2>2 DEF a, b
<1>6. (x + 1 >= 0) => ((x + 1) \div s) * s >= 0
  <2> DEFINE b == (x + 1) \div s
  <2>1. b \in Int /\ b * s \in Int /\ x + 1 < b * s + s
    BY <1>1, <1>3
  <2>2. 0 * s = 0
    BY <1>1
  <2>3. b * s < 0 => b * s + s <= 0
    BY <1>4, <2>1, <2>2
  <2> HIDE DEF b
  <2> QED
    BY <1>1, <2>1, <2>3 DEF b
<1>7. (x \div s) * s \in Int /\ ((x + 1) \div s) * s \in Int
  BY <1>1, <1>3
<1>8. /\ WindowStart(t, start, n) = IF x < 0 THEN start ELSE start + (x \div s) * s
      /\ WindowStart(t, start, n + 1) =
           IF x + 1 < 0 THEN start ELSE start + ((x + 1) \div s) * s
  BY <1>2 DEF WindowStart, x, s
<1> QED
  BY <1>1, <1>5, <1>6, <1>7, <1>8

\* Fewer rows, of which as much is true, in a later window, fit as well.
LEMMA FewerFit ==
    ASSUME NEW t, NEW rows, NEW S, IsFiniteSet(S), S \subseteq DOMAIN rows,
           \A k \in S : rows[k].total \in Nat /\ rows[k].booked \in Nat,
           NEW others, NEW T, T \subseteq S, T \subseteq DOMAIN others,
           \A k \in T : others[k].total = rows[k].total
                        /\ others[k].booked = rows[k].booked,
           NEW at, NEW later,
           t.pays /\ t.period # {} => at \in Int /\ later \in Int /\ at <= later,
           Bounded(t), Fits(t, rows, S, at)
    PROVE  Fits(t, others, T, later)
<1>1. IsFiniteSet(T) /\ Cardinality(T) \in Nat /\ Cardinality(S) \in Nat
      /\ Cardinality(T) <= Cardinality(S)
  BY FS_Subset, FS_CardinalityType
<1>2. ASSUME NEW A, A \subseteq S, NEW B, B \subseteq A, B \subseteq T
      PROVE  /\ SumOver(Totals(rows), A) \in Nat /\ SumOver(Totals(others), B) \in Nat
             /\ SumOver(Totals(others), B) <= SumOver(Totals(rows), A)
  <2>1. IsFiniteSet(A) /\ IsFiniteSet(B)
    BY <1>2, FS_Subset
  <2>2. \A k \in A : Totals(rows)[k] \in Nat
    BY <1>2 DEF Totals
  <2>3. \A k \in B : Totals(others)[k] = Totals(rows)[k]
    BY <1>2 DEF Totals
  <2>4. SumOver(Totals(rows), A) \in Nat /\ SumOver(Totals(rows), B) \in Nat
        /\ SumOver(Totals(rows), B) <= SumOver(Totals(rows), A)
    BY <1>2, <2>1, <2>2, SumOverNat, SumOverPart
  <2>5. SumOver(Totals(others), B) = SumOver(Totals(rows), B)
    BY <2>1, <2>3, SumOverEqual
  <2> QED
    BY <2>4, <2>5
<1>3. ASSUME NEW u \in t.uses PROVE Cardinality(T) <= u
  <2>1. u \in Nat /\ Cardinality(S) <= u
    BY <1>3 DEF Bounded, Fits
  <2> QED
    BY <1>1, <2>1
<1>4. ASSUME t.pays, NEW l \in t.lifetime PROVE SumOver(Totals(others), T) <= l
  <2>1. l \in Nat /\ SumOver(Totals(rows), S) <= l
    BY <1>4 DEF Bounded, Fits, Optional
  <2>2. /\ SumOver(Totals(rows), S) \in Nat /\ SumOver(Totals(others), T) \in Nat
        /\ SumOver(Totals(others), T) <= SumOver(Totals(rows), S)
    BY <1>2
  <2> QED
    BY <2>1, <2>2
<1>5. ASSUME t.pays, NEW p \in t.period
      PROVE  SumOver(Totals(others), Since(others, T, later)) <= p
  <2> DEFINE A == Since(rows, S, at)
             B == Since(others, T, later)
  <2>1. p \in Nat /\ SumOver(Totals(rows), A) <= p
    BY <1>5 DEF Bounded, Fits, Optional
  <2>2. at \in Int /\ later \in Int /\ at <= later
    BY <1>5
  <2>3. A \subseteq S /\ B \subseteq T /\ B \subseteq A
    BY <2>2 DEF Since
  <2> HIDE DEF A, B
  <2>4. /\ SumOver(Totals(rows), A) \in Nat /\ SumOver(Totals(others), B) \in Nat
        /\ SumOver(Totals(others), B) <= SumOver(Totals(rows), A)
    BY <1>2, <2>3
  <2> QED
    BY <2>1, <2>4 DEF B
<1> QED
  BY <1>3, <1>4, <1>5 DEF Fits

\* One row more fits where the server found room for it.
LEMMA OneMoreFits ==
    ASSUME NEW t, NEW rows, NEW S, IsFiniteSet(S), S \subseteq DOMAIN rows,
           \A k \in S : rows[k].total \in Nat /\ rows[k].booked \in Nat,
           NEW others, NEW n, n \notin S, n \in DOMAIN others, S \subseteq DOMAIN others,
           \A k \in S : others[k].total = rows[k].total
                        /\ others[k].booked = rows[k].booked,
           NEW total \in Nat, others[n].total = total, NEW at,
           \A u \in t.uses : Cardinality(S) < u,
           t.pays =>
             /\ \A p \in t.period : SumOver(Totals(rows), Since(rows, S, at)) + total <= p
             /\ \A l \in t.lifetime : SumOver(Totals(rows), S) + total <= l,
           Bounded(t)
    PROVE  Fits(t, others, S \cup {n}, at)
<1>1. /\ Cardinality(S \cup {n}) = Cardinality(S) + 1
      /\ Cardinality(S) \in Nat
  BY FS_AddElement, FS_CardinalityType
<1>2. ASSUME NEW A, A \subseteq S
      PROVE  /\ SumOver(Totals(rows), A) \in Nat /\ SumOver(Totals(others), A) \in Nat
             /\ SumOver(Totals(others), A) = SumOver(Totals(rows), A)
             /\ SumOver(Totals(others), A \cup {n}) = SumOver(Totals(rows), A) + total
  <2>1. IsFiniteSet(A)
    BY <1>2, FS_Subset
  <2>2. \A k \in A : Totals(rows)[k] \in Nat /\ Totals(others)[k] = Totals(rows)[k]
    BY <1>2 DEF Totals
  <2>3. n \notin A /\ Totals(others)[n] = total
    BY <1>2 DEF Totals
  <2>4. SumOver(Totals(others), A) = SumOver(Totals(rows), A)
        /\ SumOver(Totals(rows), A) \in Nat
    BY <2>1, <2>2, SumOverEqual, SumOverNat
  <2>5. SumOver(Totals(others), A \cup {n}) = SumOver(Totals(others), A) + Totals(others)[n]
    BY <2>1, <2>2, <2>3, SumOverAdds
  <2> QED
    BY <2>3, <2>4, <2>5
<1>3. ASSUME NEW u \in t.uses PROVE Cardinality(S \cup {n}) <= u
  BY <1>1, <1>3 DEF Bounded
<1>4. ASSUME t.pays, NEW l \in t.lifetime PROVE SumOver(Totals(others), S \cup {n}) <= l
  BY <1>2, <1>4
<1>5. ASSUME t.pays, NEW p \in t.period
      PROVE  SumOver(Totals(others), Since(others, S \cup {n}, at)) <= p
  <2> DEFINE A == Since(rows, S, at)
             B == Since(others, S \cup {n}, at)
  <2>1. p \in Nat /\ SumOver(Totals(rows), A) + total <= p
    BY <1>5 DEF Bounded, Optional
  <2>2. A \subseteq S /\ (B = A \/ B = A \cup {n})
    BY DEF Since
  <2> HIDE DEF A, B
  <2>3. /\ SumOver(Totals(rows), A) \in Nat
        /\ SumOver(Totals(others), A) = SumOver(Totals(rows), A)
        /\ SumOver(Totals(others), A \cup {n}) = SumOver(Totals(rows), A) + total
    BY <1>2, <2>2
  <2>4. SumOver(Totals(others), B) <= p
    <3>1. CASE B = A
      BY <2>1, <2>3, <3>1
    <3>2. CASE B = A \cup {n}
      BY <2>1, <2>3, <3>2
    <3> QED
      BY <2>2, <3>1, <3>2
  <2> QED
    BY <2>4 DEF B
<1> QED
  BY <1>3, <1>4, <1>5 DEF Fits

\* The sums of the books and of the chain, and those of SetSums.
LEMMA TotalsAre ==
    ASSUME NEW P, P \subseteq DOMAIN charges, IsFiniteSet(P)
    PROVE  MapThenSumSet(Total, P) = SumOver(Totals(charges), P)
<1> DEFINE F == Totals(charges)
           Rec(g) == g = [A \in SUBSET P |-> IF A = {} THEN 0
                                 ELSE Total(First(A)) + g[A \ {First(A)}]]
<1>1. \A A \in SUBSET P : A # {} => F[First(A)] = Total(First(A))
  BY FirstMember DEF Totals, Total
<1> HIDE DEF F
<1>2. ASSUME NEW g
      PROVE  IsPartialSums(F, P, g) <=> Rec(g)
  <2> DEFINE u == [A \in SUBSET P |-> PartialSum(F, g, A)]
             v == [A \in SUBSET P |-> IF A = {} THEN 0
                                     ELSE Total(First(A)) + g[A \ {First(A)}]]
  <2>1. \A A \in SUBSET P : u[A] = v[A]
    BY <1>1 DEF PartialSum
  <2>2. u = v
    BY <2>1
  <2> QED
    BY <2>2 DEF IsPartialSums
<1>3. MapThenSumSet(Total, P) = (CHOOSE g : Rec(g))[P]
  BY DEF MapThenSumSet, MapThenFoldSet, First
<1> HIDE DEF Rec
<1>4. IsPartialSums(F, P, CHOOSE g : Rec(g))
  BY <1>2, PartialSumsExist
<1>5. MapThenSumSet(Total, P) = SumOver(F, P)
  BY <1>3, <1>4, SumOverIs
<1> QED
  BY <1>5 DEF F

Executions(rows) == [k \in DOMAIN rows |-> rows[k].executions]

LEMMA ExecutionsAre ==
    ASSUME NEW P, P \subseteq DOMAIN charges, IsFiniteSet(P)
    PROVE  MapThenSumSet(Executed, P) = SumOver(Executions(charges), P)
<1> DEFINE F == Executions(charges)
           Rec(g) == g = [A \in SUBSET P |-> IF A = {} THEN 0
                                 ELSE Executed(First(A)) + g[A \ {First(A)}]]
<1>1. \A A \in SUBSET P : A # {} => F[First(A)] = Executed(First(A))
  BY FirstMember DEF Executions, Executed
<1> HIDE DEF F
<1>2. ASSUME NEW g
      PROVE  IsPartialSums(F, P, g) <=> Rec(g)
  <2> DEFINE u == [A \in SUBSET P |-> PartialSum(F, g, A)]
             v == [A \in SUBSET P |-> IF A = {} THEN 0
                                     ELSE Executed(First(A)) + g[A \ {First(A)}]]
  <2>1. \A A \in SUBSET P : u[A] = v[A]
    BY <1>1 DEF PartialSum
  <2>2. u = v
    BY <2>1
  <2> QED
    BY <2>2 DEF IsPartialSums
<1>3. MapThenSumSet(Executed, P) = (CHOOSE g : Rec(g))[P]
  BY DEF MapThenSumSet, MapThenFoldSet, First
<1> HIDE DEF Rec
<1>4. IsPartialSums(F, P, CHOOSE g : Rec(g))
  BY <1>2, PartialSumsExist
<1>5. MapThenSumSet(Executed, P) = SumOver(F, P)
  BY <1>3, <1>4, SumOverIs
<1> QED
  BY <1>5 DEF F

\* What the server reads of its books under a card.
LEMMA BooksUnder ==
    ASSUME RowsInv, NEW c
    PROVE  LET S == CountedIn(cards, charges, c)
               W == Since(charges, S, CurrentWindow(c))
           IN  /\ IsFiniteSet(DOMAIN charges) /\ IsFiniteSet(S) /\ S \subseteq DOMAIN charges
               /\ \A k \in S : charges[k].total \in Nat /\ charges[k].booked \in Nat
               /\ Counted(c) = S
               /\ SubtreeSpentSince(c, CurrentWindow(c)) = SumOver(Totals(charges), W)
               /\ SumOver(Totals(charges), W) \in Nat
               /\ SubtreeSpentSince(c, 0) = SumOver(Totals(charges), S)
               /\ SumOver(Totals(charges), S) \in Nat
               /\ Cardinality(S) \in Nat
<1> DEFINE S == CountedIn(cards, charges, c)
           W == Since(charges, S, CurrentWindow(c))
<1>1. IsFiniteSet(DOMAIN charges)
  <2>1. PICK X : charges \in Seq(X)
    BY DEF RowsInv
  <2>2. DOMAIN charges = 1 .. Len(charges) /\ Len(charges) \in Nat
    BY <2>1
  <2> QED
    BY <2>2, FS_Interval
<1>2. S \subseteq DOMAIN charges /\ W \subseteq S
  BY DEF CountedIn, Since
<1>3. Counted(c) = S
  BY DEF Counted, Under, CountedIn
<1>4. \A k \in DOMAIN charges : charges[k].total \in Nat /\ charges[k].booked \in Nat
  BY DEF RowsInv, GoodRow
<1>5. {k \in Counted(c) : charges[k].booked >= CurrentWindow(c)} = W
  BY <1>3 DEF Since
<1>6. {k \in Counted(c) : charges[k].booked >= 0} = S
  <2> HIDE DEF S
  <2> QED
    BY <1>2, <1>3, <1>4
<1> HIDE DEF S, W
<1>7. IsFiniteSet(S) /\ IsFiniteSet(W)
  BY <1>1, <1>2, FS_Subset
<1>8. SubtreeSpentSince(c, CurrentWindow(c)) = SumOver(Totals(charges), W)
  BY <1>2, <1>5, <1>7, TotalsAre DEF SubtreeSpentSince
<1>9. SubtreeSpentSince(c, 0) = SumOver(Totals(charges), S)
  BY <1>2, <1>6, <1>7, TotalsAre DEF SubtreeSpentSince
<1>10. \A k \in S : Totals(charges)[k] \in Nat
  BY <1>2, <1>4 DEF Totals
<1>11. SumOver(Totals(charges), W) \in Nat /\ SumOver(Totals(charges), S) \in Nat
  BY <1>2, <1>7, <1>10, SumOverNat
<1>12. Cardinality(S) \in Nat
  BY <1>7, FS_CardinalityType
<1> QED
  BY <1>1, <1>2, <1>3, <1>4, <1>7, <1>8, <1>9, <1>11, <1>12 DEF S, W

\* A set of at most one number sums to a number.
LEMMA SumOptional ==
    ASSUME NEW S \in Optional(Nat)
    PROVE  SumSet(S) \in Nat
<1>1. IsFiniteSet(S)
  <2>1. CASE S = {}
    BY <2>1, FS_EmptySet
  <2>2. CASE S # {}
    <3>1. PICK x \in S : TRUE
      BY <2>2
    <3>2. S = {x}
      BY <3>1 DEF Optional
    <3> QED
      BY <3>2, FS_Singleton
  <2> QED
    BY <2>1, <2>2
<1>2. \A x \in S : [y \in S |-> y][x] \in Nat
  BY DEF Optional
<1> QED
  BY <1>1, <1>2, SumSetIs, SumOverNat

\* parentRemaining is never negative.
LEMMA RemainingNat ==
    ASSUME RowsInv, NEW p, Bounded(cards[p].terms)
    PROVE  Remaining(p).period \in Nat /\ Remaining(p).lifetime \in Nat
<1> DEFINE Left(S, spent) == {IF x > spent THEN x - spent ELSE 0 : x \in S}
           since == SubtreeSpentSince(p, CurrentWindow(p))
           ever == SubtreeSpentSince(p, 0)
<1>1. since \in Nat /\ ever \in Nat
  BY BooksUnder
<1>2. /\ Remaining(p).period = SumSet(Left(cards[p].terms.period, since))
      /\ Remaining(p).lifetime = SumSet(Left(cards[p].terms.lifetime, ever))
  BY DEF Remaining
<1> HIDE DEF since, ever
<1>3. ASSUME NEW S \in Optional(Nat), NEW spent \in Nat
      PROVE  Left(S, spent) \in Optional(Nat)
  BY DEF Optional
<1> HIDE DEF Left
<1> QED
  BY <1>1, <1>2, <1>3, SumOptional DEF Bounded

\* attenuate gives well-formed terms, and no capability the parent lacks.
LEMMA AttenuationBounds ==
    ASSUME NEW p, Bounded(p), NEW left, left.period \in Nat, left.lifetime \in Nat,
           NEW child \in Terms, ~Exceeds(p, left, child)
    PROVE  /\ Bounded(Attenuated(p, left, child))
           /\ Capable(Attenuated(p, left, child), p)
<1> DEFINE t == Normalized(child)
           out == Attenuated(p, left, child)
<1>1. t \in Terms
  BY TermsAssumption DEF Normalized, Terms, Optional
<1>2. ~PayExceeds(p, left, t) /\ ~ScopeExceeds(p, t)
  BY DEF Exceeds, ExceedsAsAsked
<1>3. /\ out.pays = (t.pays \/ p.pays) /\ out.contract = t.contract
      /\ out.period \in {AtMost(left.period, p.period), t.period}
      /\ out.lifetime \in {{left.lifetime : x \in p.lifetime}, t.lifetime}
      /\ out.seconds \in {p.seconds, t.seconds}
      /\ out.uses = t.uses
  BY DEF Attenuated
<1>4. /\ t.pays \in BOOLEAN /\ t.contract \in BOOLEAN
      /\ t.period \in Optional(Nat) /\ t.lifetime \in Optional(Nat)
      /\ t.uses \subseteq Nat /\ t.seconds \in Nat
  BY <1>1 DEF Terms, Optional
<1> HIDE DEF t, out
<1>5. AtMost(left.period, p.period) \in Optional(Nat)
  BY DEF AtMost, Optional, Bounded
<1>6. {left.lifetime : x \in p.lifetime} \in Optional(Nat)
  BY DEF Optional, Bounded
<1>7. Bounded(out)
  BY <1>3, <1>4, <1>5, <1>6 DEF Bounded
<1>8. Capable(out, p)
  BY <1>2, <1>3, <1>4 DEF Capable, PayExceeds, ScopeExceeds
<1> QED
  BY <1>7, <1>8 DEF out

\* No row is under a new card, and no other card's rows change.
LEMMA JoinBooks ==
    ASSUME ChainInv, NEW terms, NEW chain \in SUBSET DOMAIN cards,
           Bounded(terms), Issue(terms, chain),
           \A a \in chain : Capable(terms, cards[a].terms)
    PROVE  KindsInv' /\ RowsInv' /\ BooksFit'
<1> DEFINE n == Len(cards) + 1
           card == [terms |-> terms, start |-> PeriodStart(now), chain |-> chain \cup {n}]
<1>1. PICK X : cards \in Seq(X)
  BY DEF ChainInv, LineInv
<1>2. cards' = Append(cards, card) /\ now' = now /\ charges' = charges
  BY DEF Issue
<1>3. cards \in Seq(X \cup {card})
  BY <1>1
<1>4. /\ Len(cards) \in Nat /\ Len(cards') = n
      /\ DOMAIN cards = 1 .. Len(cards) /\ DOMAIN cards' = 1 .. n
      /\ \A c \in DOMAIN cards : cards'[c] = cards[c]
      /\ cards'[n] = card
  BY <1>2, <1>3
<1>5. card.terms = terms /\ card.chain = chain \cup {n} /\ card.start = now - Backdate
  BY DEF PeriodStart
<1> HIDE DEF card, n
<1>6. n \in DOMAIN cards' /\ n \notin DOMAIN cards /\ DOMAIN cards' = DOMAIN cards \cup {n}
  BY <1>4 DEF n
<1>7. Windowed(terms)
  BY TermsAssumption DEF Issue, ValidTerms, Windowed, Bounded
<1>8. KindsInv'
  <2>1. ASSUME NEW c \in DOMAIN cards
        PROVE  /\ Bounded(cards'[c].terms) /\ Windowed(cards'[c].terms)
               /\ cards'[c].start \in Int
               /\ \A a \in cards'[c].chain : Capable(cards'[c].terms, cards'[a].terms)
    BY <1>4, <2>1 DEF ChainInv, LineInv, KindsInv
  <2>2. /\ Bounded(cards'[n].terms) /\ Windowed(cards'[n].terms)
        /\ cards'[n].start \in Int
        /\ \A a \in cards'[n].chain : Capable(cards'[n].terms, cards'[a].terms)
    <3>1. now - Backdate \in Int
      BY TermsAssumption DEF ChainInv, LineInv
    <3>2. Capable(terms, terms)
      BY DEF Capable
    <3>3. \A a \in chain : cards'[a] = cards[a]
      BY <1>4
    <3> QED
      BY <1>4, <1>5, <1>7, <3>1, <3>2, <3>3
  <2> QED
    BY <1>6, <2>1, <2>2 DEF KindsInv
<1>9. RowsInv'
  BY <1>2, <1>4, <1>6 DEF ChainInv, RowsInv
<1>10. \A k \in DOMAIN charges : cards'[charges[k].card].chain = cards[charges[k].card].chain
                                /\ cards[charges[k].card].chain \subseteq DOMAIN cards
  BY <1>4 DEF ChainInv, RowsInv, LineInv
<1>11. ASSUME NEW c \in DOMAIN cards
       PROVE  Fits(cards'[c].terms, charges', CountedIn(cards', charges', c),
                   WindowOf(cards'[c], now'))
  <2>1. CountedIn(cards', charges, c) = CountedIn(cards, charges, c)
    BY <1>10 DEF CountedIn
  <2> QED
    BY <1>2, <1>4, <1>11, <2>1 DEF ChainInv, BooksFit
<1>12. Fits(cards'[n].terms, charges', CountedIn(cards', charges', n),
            WindowOf(cards'[n], now'))
  <2>1. CountedIn(cards', charges, n) = {}
    BY <1>6, <1>10 DEF CountedIn
  <2>2. \A w : Since(charges, {}, w) = {}
    BY DEF Since
  <2>3. \A x \in terms.uses \cup terms.period \cup terms.lifetime : x \in Nat
    BY DEF Bounded, Optional
  <2>4. SumOver(Totals(charges), {}) = 0 /\ Cardinality({}) = 0
    BY SumOverNothing, FS_EmptySet
  <2>5. ASSUME NEW w PROVE Fits(terms, charges, {}, w)
    BY <2>2, <2>3, <2>4 DEF Fits
  <2> QED
    BY <1>2, <1>4, <1>5, <2>1, <2>5
<1> QED
  BY <1>6, <1>8, <1>9, <1>11, <1>12 DEF BooksFit

\* A charge is booked where validateSpend finds room at every card of its chain.
LEMMA BookFits ==
    ASSUME ChainInv, NEW c \in DOMAIN cards, NEW mode, NEW total \in Nat, NEW n \in Nat,
           \/ mode = "pay" /\ cards[c].terms.pays /\ n = 2
           \/ mode = "contract" /\ cards[c].terms.contract /\ n <= MaxExecutions,
           Book(c, mode, total, n)
    PROVE  KindsInv' /\ RowsInv' /\ BooksFit'
<1> DEFINE i == Len(charges) + 1
           row == [card |-> c, mode |-> mode, total |-> total, executions |-> n,
                   booked |-> now, mined |-> 0, status |-> "pending"]
<1>1. PICK X : charges \in Seq(X)
  BY DEF ChainInv, RowsInv
<1>2. charges' = Append(charges, row) /\ now' = now /\ cards' = cards
  BY DEF Book
<1>3. charges \in Seq(X \cup {row})
  BY <1>1
<1>4. /\ charges' \in Seq(X \cup {row})
      /\ Len(charges) \in Nat
      /\ DOMAIN charges = 1 .. Len(charges) /\ DOMAIN charges' = 1 .. i
      /\ \A k \in DOMAIN charges : charges'[k] = charges[k]
      /\ charges'[i] = row
  BY <1>2, <1>3
<1>5. /\ row.card = c /\ row.mode = mode /\ row.total = total /\ row.executions = n
      /\ row.booked = now /\ row.status = "pending"
  OBVIOUS
<1> HIDE DEF row, i
<1>6. i \in DOMAIN charges' /\ i \notin DOMAIN charges
      /\ DOMAIN charges' = DOMAIN charges \cup {i}
  BY <1>4 DEF i
<1>7. KindsInv'
  BY <1>2 DEF ChainInv, KindsInv
<1>8. RowsInv'
  <2>1. GoodRow(row, cards[c].terms)
    BY <1>5 DEF GoodRow, ChainInv, LineInv
  <2>2. ASSUME NEW k \in DOMAIN charges'
        PROVE  charges'[k].card \in DOMAIN cards
               /\ GoodRow(charges'[k], cards[charges'[k].card].terms)
    BY <1>4, <1>5, <1>6, <2>1, <2>2 DEF ChainInv, RowsInv
  <2>3. \E S : charges' \in Seq(S)
    BY <1>4
  <2> QED
    BY <1>2, <2>2, <2>3 DEF RowsInv
<1>9. ASSUME NEW a \in DOMAIN cards
      PROVE  Fits(cards[a].terms, charges', CountedIn(cards, charges', a),
                  WindowOf(cards[a], now))
  <2> DEFINE S == CountedIn(cards, charges, a)
             t == cards[a].terms
             at == WindowOf(cards[a], now)
  <2>1. /\ IsFiniteSet(S) /\ S \subseteq DOMAIN charges
        /\ \A k \in S : charges[k].total \in Nat /\ charges[k].booked \in Nat
        /\ Counted(a) = S /\ CurrentWindow(a) = at
        /\ SubtreeSpentSince(a, CurrentWindow(a)) = SumOver(Totals(charges), Since(charges, S, at))
        /\ SubtreeSpentSince(a, 0) = SumOver(Totals(charges), S)
    <3>1. CurrentWindow(a) = at
      BY DEF CurrentWindow, WindowOf
    <3> HIDE DEF at
    <3> QED
      BY <3>1, BooksUnder DEF ChainInv
  <2>2. Bounded(t)
    BY DEF ChainInv, KindsInv
  <2>3. CountedIn(cards, charges', a) =
            IF a \in cards[c].chain THEN S \cup {i} ELSE S
    BY <1>4, <1>5, <1>6 DEF CountedIn
  <2>4. Fits(t, charges, S, at)
    BY DEF ChainInv, BooksFit
  <2>5. /\ \A k \in S : charges'[k].total = charges[k].total
                        /\ charges'[k].booked = charges[k].booked
        /\ S \subseteq DOMAIN charges' /\ i \notin S /\ charges'[i].total = total
    BY <1>4, <1>5, <1>6, <2>1
  <2>6. CASE a \in cards[c].chain
    <3>1. WithinCaps(a, total)
      BY <2>6 DEF Book
    <3>2. /\ \A u \in t.uses : Cardinality(S) < u
          /\ t.pays =>
               /\ \A p \in t.period :
                     SumOver(Totals(charges), Since(charges, S, at)) + total <= p
               /\ \A l \in t.lifetime : SumOver(Totals(charges), S) + total <= l
      <4> HIDE DEF S, at
      <4> QED
        BY <2>1, <3>1 DEF WithinCaps
    <3> HIDE DEF S, at, t
    <3>3. Fits(t, charges', S \cup {i}, at)
      BY <1>6, <2>1, <2>2, <2>5, <3>2, OneMoreFits
    <3> QED
      BY <2>3, <2>6, <3>3 DEF t, at
  <2>7. CASE a \notin cards[c].chain
    <3>1. t.pays /\ t.period # {} => at \in Int /\ at <= at
      BY WindowGrows DEF ChainInv, KindsInv, LineInv, Windowed, Bounded, WindowOf
    <3> HIDE DEF S, at, t
    <3>2. Fits(t, charges', S, at)
      BY <2>1, <2>2, <2>4, <2>5, <3>1, FewerFit
    <3> QED
      BY <2>3, <2>7, <3>2 DEF t, at
  <2> QED
    BY <2>6, <2>7
<1>10. BooksFit'
  BY <1>2, <1>9 DEF BooksFit
<1> QED
  BY <1>7, <1>8, <1>10

\* A charge that is settled keeps its row, or is no longer counted.
LEMMA SettledFits ==
    ASSUME ChainInv, NEW k \in DOMAIN charges, Mine(k) \/ Fail(k)
    PROVE  KindsInv' /\ RowsInv' /\ BooksFit'
<1>1. charges[k].status = "pending" /\ cards' = cards /\ now' = now
  BY DEF Mine, Fail
<1>2. /\ DOMAIN charges' = DOMAIN charges
      /\ \A i \in DOMAIN charges :
            /\ charges'[i].card = charges[i].card /\ charges'[i].mode = charges[i].mode
            /\ charges'[i].total = charges[i].total
            /\ charges'[i].executions = charges[i].executions
            /\ charges'[i].booked = charges[i].booked
            /\ charges'[i].status = charges[i].status \/ charges[i].status = "pending"
  <2>1. CASE Mine(k)
    BY <2>1, <1>1 DEF Mine
  <2>2. CASE Fail(k)
    BY <2>2, <1>1 DEF Fail
  <2> QED
    BY <2>1, <2>2
<1>3. \E S : charges' \in Seq(S)
  <2>1. PICK X : charges \in Seq(X)
    BY DEF ChainInv, RowsInv
  <2> DEFINE v == charges'[k]
  <2>2. charges \in Seq(X \cup {v})
    BY <2>1
  <2>3. charges' = [charges EXCEPT ![k] = v]
    <3>1. CASE Mine(k)
      BY <3>1 DEF Mine
    <3>2. CASE Fail(k)
      BY <3>2 DEF Fail
    <3> QED
      BY <3>1, <3>2
  <2> HIDE DEF v
  <2>4. charges' \in Seq(X \cup {v})
    BY <2>2, <2>3
  <2> QED
    BY <2>4
<1>4. KindsInv'
  BY <1>1 DEF ChainInv, KindsInv
<1>5. RowsInv'
  BY <1>1, <1>2, <1>3 DEF ChainInv, RowsInv, GoodRow
<1>6. ASSUME NEW a \in DOMAIN cards
      PROVE  Fits(cards[a].terms, charges', CountedIn(cards, charges', a),
                  WindowOf(cards[a], now))
  <2> DEFINE S == CountedIn(cards, charges, a)
             T == CountedIn(cards, charges', a)
             t == cards[a].terms
             at == WindowOf(cards[a], now)
  <2>1. /\ IsFiniteSet(S) /\ S \subseteq DOMAIN charges
        /\ \A i \in S : charges[i].total \in Nat /\ charges[i].booked \in Nat
    BY BooksUnder DEF ChainInv
  <2>2. Bounded(t) /\ Fits(t, charges, S, at)
    BY DEF ChainInv, KindsInv, BooksFit
  <2>3. t.pays /\ t.period # {} => at \in Int /\ at <= at
    BY WindowGrows DEF ChainInv, KindsInv, LineInv, Windowed, Bounded, WindowOf
  <2>4. T \subseteq S /\ T \subseteq DOMAIN charges'
    BY <1>2 DEF CountedIn
  <2>5. \A i \in T : charges'[i].total = charges[i].total
                     /\ charges'[i].booked = charges[i].booked
    BY <1>2, <2>4, <2>1
  <2> HIDE DEF S, T, t, at
  <2>6. Fits(t, charges', T, at)
    BY <2>1, <2>2, <2>3, <2>4, <2>5, FewerFit
  <2> QED
    BY <2>6 DEF t, T, at
<1>7. BooksFit'
  BY <1>1, <1>6 DEF BooksFit
<1> QED
  BY <1>4, <1>5, <1>7

\* Time passes: windows only move on.
LEMMA TickFits ==
    ASSUME ChainInv, Tick
    PROVE  KindsInv' /\ RowsInv' /\ BooksFit'
<1>1. now' = now + 1 /\ cards' = cards /\ charges' = charges /\ now \in Nat
  BY DEF Tick, ChainInv, LineInv
<1>2. KindsInv' /\ RowsInv'
  BY <1>1 DEF ChainInv, KindsInv, RowsInv
<1>3. ASSUME NEW a \in DOMAIN cards
      PROVE  Fits(cards[a].terms, charges, CountedIn(cards, charges, a),
                  WindowOf(cards[a], now + 1))
  <2> DEFINE S == CountedIn(cards, charges, a)
             t == cards[a].terms
             at == WindowOf(cards[a], now)
             later == WindowOf(cards[a], now + 1)
  <2>1. /\ IsFiniteSet(S) /\ S \subseteq DOMAIN charges
        /\ \A i \in S : charges[i].total \in Nat /\ charges[i].booked \in Nat
    BY BooksUnder DEF ChainInv
  <2>2. Bounded(t) /\ Fits(t, charges, S, at)
    BY DEF ChainInv, KindsInv, BooksFit
  <2>3. t.pays /\ t.period # {} => at \in Int /\ later \in Int /\ at <= later
    BY <1>1, WindowGrows DEF ChainInv, KindsInv, Windowed, Bounded, WindowOf
  <2> HIDE DEF S, t, at, later
  <2>4. Fits(t, charges, S, later)
    BY <2>1, <2>2, <2>3, FewerFit
  <2> QED
    BY <2>4 DEF S, t, later
<1>4. BooksFit'
  BY <1>1, <1>3 DEF BooksFit
<1> QED
  BY <1>2, <1>4

LEMMA ChainInit == Init => ChainInv
<1> SUFFICES ASSUME Init PROVE ChainInv
  OBVIOUS
<1>1. /\ cards = <<>> /\ charges = <<>> /\ DOMAIN cards = {} /\ DOMAIN charges = {}
      /\ charges \in Seq({})
  BY DEF Init
<1>2. \E S : charges \in Seq(S)
  BY <1>1
<1>3. KindsInv /\ RowsInv /\ BooksFit
  BY <1>1, <1>2 DEF KindsInv, RowsInv, BooksFit
<1> QED
  BY <1>3, LineInit DEF ChainInv

LEMMA ChainStep == ChainInv /\ [Next]_vars => ChainInv'
<1> SUFFICES ASSUME ChainInv, [Next]_vars PROVE KindsInv' /\ RowsInv' /\ BooksFit'
  BY LineStep DEF ChainInv
<1>1. ASSUME NEW t \in RootTerms, IssueCard(t) PROVE KindsInv' /\ RowsInv' /\ BooksFit'
  <2>1. t \in Terms
    BY EnforcementAssumption
  <2>2. Normalized(t) \in Terms
    BY <2>1, TermsAssumption DEF Normalized, Terms, Optional
  <2>3. Bounded(Normalized(t))
    BY <2>2 DEF Bounded, Terms, Optional
  <2>4. Issue(Normalized(t), {})
    BY <1>1 DEF IssueCard
  <2> QED
    BY <2>3, <2>4, JoinBooks
<1>2. ASSUME NEW p \in DOMAIN cards, NEW r \in ChildTerms, IssueSubCard(p, r)
      PROVE  KindsInv' /\ RowsInv' /\ BooksFit'
  <2> DEFINE left == Remaining(p)
             t == Attenuated(cards[p].terms, left, r)
  <2>1. r \in Terms
    BY EnforcementAssumption
  <2>2. Bounded(cards[p].terms)
    BY DEF ChainInv, KindsInv
  <2>3. ~Exceeds(cards[p].terms, left, r) /\ Issue(t, cards[p].chain)
    BY <1>2 DEF IssueSubCard
  <2>4. left.period \in Nat /\ left.lifetime \in Nat
    BY <2>2, RemainingNat DEF ChainInv
  <2> HIDE DEF left
  <2>5. Bounded(t) /\ Capable(t, cards[p].terms)
    BY <2>1, <2>2, <2>3, <2>4, AttenuationBounds
  <2>6. \A a \in cards[p].chain : Capable(cards[p].terms, cards[a].terms)
    BY DEF ChainInv, KindsInv
  <2>7. cards[p].chain \in SUBSET DOMAIN cards
    BY DEF ChainInv, LineInv
  <2> HIDE DEF t
  <2>8. \A a \in cards[p].chain : Capable(t, cards[a].terms)
    BY <2>5, <2>6 DEF Capable
  <2> QED
    BY <2>3, <2>5, <2>7, <2>8, JoinBooks
<1>3. ASSUME NEW c \in DOMAIN cards, NEW to, NEW a \in Amounts, NEW f \in Fees,
             Pay(c, to, a, f)
      PROVE  KindsInv' /\ RowsInv' /\ BooksFit'
  <2>1. a + f \in Nat /\ 2 \in Nat
    BY EnforcementAssumption
  <2>2. cards[c].terms.pays /\ Book(c, "pay", a + f, 2)
    BY <1>3 DEF Pay
  <2> QED
    BY <2>1, <2>2, BookFits
<1>4. ASSUME NEW c \in DOMAIN cards, NEW n \in 1 .. MaxExecutions - 1, NEW x, NEW m,
             NEW a \in Amounts, NEW f \in Fees, Execute(c, n, x, m, a, f)
      PROVE  KindsInv' /\ RowsInv' /\ BooksFit'
  <2>1. f \in Nat /\ n + 1 \in Nat /\ n + 1 <= MaxExecutions
    BY EnforcementAssumption, TermsAssumption
  <2>2. cards[c].terms.contract /\ Book(c, "contract", f, n + 1)
    BY <1>4 DEF Execute
  <2> QED
    BY <2>1, <2>2, BookFits
<1>5. ASSUME NEW k \in DOMAIN charges, Mine(k) \/ Fail(k)
      PROVE  KindsInv' /\ RowsInv' /\ BooksFit'
  BY <1>5, SettledFits
<1>6. ASSUME Tick PROVE KindsInv' /\ RowsInv' /\ BooksFit'
  BY <1>6, TickFits
<1>7. ASSUME UNCHANGED vars PROVE KindsInv' /\ RowsInv' /\ BooksFit'
  BY <1>7 DEF vars, ChainInv, KindsInv, RowsInv, BooksFit
<1> QED
  BY <1>1, <1>2, <1>3, <1>4, <1>5, <1>6, <1>7 DEF Next

\* limitedCalls never runs out first: the executions of the rows under a card are
\* at most as many for each as one use may take.
LEMMA CallsLast ==
    ASSUME ChainInv, NEW c \in DOMAIN cards, NEW k \in DOMAIN charges,
           charges[k].status = "pending", c \in cards[charges[k].card].chain,
           NEW n \in CallLimit(cards[c].terms)
    PROVE  MapThenSumSet(Executed, MinedUnder(c)) + Executed(k) <= n
<1> DEFINE t == cards[c].terms
           S == CountedIn(cards, charges, c)
           M == MinedUnder(c)
           F == Executions(charges)
           e == ExecutionsPerUse(t)
<1>1. PICK u \in t.uses : n = u * e
  BY DEF CallLimit
<1>2. Bounded(t) /\ u \in Nat /\ Cardinality(S) <= u
  BY DEF ChainInv, KindsInv, BooksFit, Fits, Bounded
<1>3. IsFiniteSet(S) /\ S \subseteq DOMAIN charges /\ Cardinality(S) \in Nat
  BY BooksUnder DEF ChainInv
<1>4. M \subseteq S /\ k \in S /\ k \notin M
  BY DEF MinedUnder, Under, CountedIn
<1>5. e \in Nat
  BY TermsAssumption DEF ExecutionsPerUse
<1>6. ASSUME NEW i \in S PROVE F[i] \in Nat /\ F[i] <= e
  <2> DEFINE own == cards[charges[i].card].terms
  <2>1. i \in DOMAIN charges /\ c \in cards[charges[i].card].chain
    BY <1>6 DEF CountedIn
  <2>2. GoodRow(charges[i], own) /\ Capable(own, t)
    BY <2>1 DEF ChainInv, RowsInv, KindsInv
  <2>3. F[i] = charges[i].executions
    BY <2>1 DEF Executions
  <2> HIDE DEF own, F
  <2> QED
    BY <2>2, <2>3, <1>2, TermsAssumption
    DEF GoodRow, Capable, ExecutionsPerUse, Bounded
<1>7. IsFiniteSet(M) /\ IsFiniteSet(M \cup {k}) /\ M \cup {k} \subseteq S
  BY <1>3, <1>4, FS_Subset
<1>8. MapThenSumSet(Executed, M) = SumOver(F, M)
  BY <1>3, <1>4, <1>7, ExecutionsAre
<1>9. Executed(k) = F[k]
  BY DEF Executed, Executions
<1> HIDE DEF t, S, M, F, e
<1>10. SumOver(F, M \cup {k}) = SumOver(F, M) + F[k]
  BY <1>4, <1>6, <1>7, SumOverAdds
<1>11. /\ SumOver(F, M \cup {k}) <= SumOver(F, S)
       /\ SumOver(F, M \cup {k}) \in Nat /\ SumOver(F, S) \in Nat
  BY <1>3, <1>6, <1>7, SumOverPart, SumOverNat
<1>12. SumOver(F, S) <= Cardinality(S) * e
  BY <1>3, <1>5, <1>6, SumOverBound
<1>13. Cardinality(S) * e <= u * e /\ Cardinality(S) * e \in Nat /\ u * e \in Nat
  <2> DEFINE q == Cardinality(S)
             d == u - q
  <2>1. q \in Nat /\ d \in Nat /\ u = q + d
    BY <1>2, <1>3
  <2> HIDE DEF q, d
  <2>2. (q + d) * e = q * e + d * e /\ q * e \in Nat /\ d * e \in Nat
    BY <1>5, <2>1
  <2>3. q * e <= u * e /\ q * e \in Nat /\ u * e \in Nat
    BY <2>1, <2>2
  <2> QED
    BY <2>3 DEF q
<1>14. MapThenSumSet(Executed, M) + Executed(k) <= n
  BY <1>1, <1>8, <1>9, <1>10, <1>11, <1>12, <1>13
<1> QED
  BY <1>14 DEF M

\* Nor does an allowance of money, as long as nothing crossed a window.
LEMMA MoneyLasts ==
    ASSUME ChainInv, NEW c \in DOMAIN cards, NEW k \in DOMAIN charges,
           charges[k].status = "pending", c \in cards[charges[k].card].chain,
           cards[c].terms.pays,
           NEW at, NEW P, P \subseteq MinedUnder(c),
           \A i \in P \cup {k} : charges[i].booked >= at
    PROVE  LET S == CountedIn(cards, charges, c)
           IN  /\ MapThenSumSet(Total, P) + Total(k)
                    <= SumOver(Totals(charges), Since(charges, S, at))
               /\ MapThenSumSet(Total, P) + Total(k) \in Nat
               /\ SumOver(Totals(charges), Since(charges, S, at)) \in Nat
<1> DEFINE S == CountedIn(cards, charges, c)
           W == Since(charges, S, at)
           F == Totals(charges)
<1>1. /\ IsFiniteSet(S) /\ S \subseteq DOMAIN charges
      /\ \A i \in S : charges[i].total \in Nat
  BY BooksUnder DEF ChainInv
<1>2. MinedUnder(c) \subseteq S /\ k \in S /\ k \notin MinedUnder(c)
  BY DEF MinedUnder, Under, CountedIn
<1>3. W \subseteq S /\ P \cup {k} \subseteq W
  BY <1>2 DEF Since
<1>4. \A i \in S : F[i] \in Nat
  BY <1>1 DEF Totals
<1>5. Total(k) = F[k]
  BY DEF Total, Totals
<1> HIDE DEF S, W, F
<1>6. IsFiniteSet(W) /\ IsFiniteSet(P) /\ IsFiniteSet(P \cup {k})
      /\ P \subseteq DOMAIN charges /\ k \notin P
  BY <1>1, <1>2, <1>3, FS_Subset
<1>7. MapThenSumSet(Total, P) = SumOver(F, P)
  BY <1>6, TotalsAre DEF F
<1>8. SumOver(F, P \cup {k}) = SumOver(F, P) + F[k]
  BY <1>3, <1>4, <1>6, SumOverAdds
<1>9. /\ SumOver(F, P \cup {k}) <= SumOver(F, W)
      /\ SumOver(F, P \cup {k}) \in Nat /\ SumOver(F, W) \in Nat
  BY <1>3, <1>4, <1>6, SumOverPart, SumOverNat
<1>10. /\ MapThenSumSet(Total, P) + Total(k) <= SumOver(F, W)
       /\ MapThenSumSet(Total, P) + Total(k) \in Nat /\ SumOver(F, W) \in Nat
  BY <1>5, <1>7, <1>8, <1>9
<1> QED
  BY <1>10 DEF F, W, S

\* Once the server has accepted a redemption no delegation of the card's chain
\* refuses it, whatever the terms and the line of sub-cards, and in whatever
\* order redemptions are mined, unless one crossed a window or the card expired.
THEOREM EnforcersAdmit == Spec => []ChainNeverPreempts
<1>1. ASSUME ChainInv PROVE ChainNeverPreempts
  <2> SUFFICES ASSUME NEW k \in DOMAIN charges, charges[k].status = "pending",
                      NEW c \in cards[charges[k].card].chain,
                      OnTime(c, k), Unexpired(cards[c].terms, now)
               PROVE  ChainAdmits(c, k)
    BY DEF ChainNeverPreempts
  <2> DEFINE t == cards[c].terms
             paid == {i \in MinedUnder(c) : charges[i].mode = "pay"}
             recent == {i \in paid : charges[i].mined >= CurrentWindow(c)}
             S == CountedIn(cards, charges, c)
             own == cards[charges[k].card].terms
  <2>1. c \in DOMAIN cards /\ Bounded(t)
    BY <1>1 DEF ChainInv, LineInv, RowsInv, KindsInv
  <2>2. GoodRow(charges[k], own) /\ Capable(own, t)
    BY <1>1 DEF ChainInv, RowsInv, KindsInv
  <2>3. charges[k].mode = "contract" => t.contract
    BY <2>1, <2>2 DEF GoodRow, Capable, Bounded
  <2>4. Fits(t, charges, S, CurrentWindow(c))
    BY <1>1, <2>1 DEF ChainInv, BooksFit, CurrentWindow, WindowOf
  <2>5. ASSUME charges[k].mode = "pay"
        PROVE  /\ \A p \in t.period : MapThenSumSet(Total, recent) + Total(k) <= p
               /\ \A l \in t.lifetime : MapThenSumSet(Total, paid) + Total(k) <= l
    <3>1. t.pays
      BY <2>1, <2>2, <2>5 DEF GoodRow, Capable, Bounded
    <3>2. ASSUME NEW p \in t.period PROVE MapThenSumSet(Total, recent) + Total(k) <= p
      <4> DEFINE w == CurrentWindow(c)
      <4>1. \A i \in recent \cup {k} : charges[i].booked >= w
        BY <3>2 DEF OnTime
      <4>2. recent \subseteq MinedUnder(c)
        OBVIOUS
      <4>3. p \in Nat /\ SumOver(Totals(charges), Since(charges, S, w)) <= p
        BY <2>1, <2>4, <3>1, <3>2 DEF Fits, Bounded, Optional
      <4> HIDE DEF recent, S, w
      <4>4. /\ MapThenSumSet(Total, recent) + Total(k)
                  <= SumOver(Totals(charges), Since(charges, S, w))
            /\ MapThenSumSet(Total, recent) + Total(k) \in Nat
            /\ SumOver(Totals(charges), Since(charges, S, w)) \in Nat
        BY <1>1, <2>1, <3>1, <4>1, <4>2, MoneyLasts DEF S
      <4> DEFINE sum == MapThenSumSet(Total, recent) + Total(k)
                 all == SumOver(Totals(charges), Since(charges, S, w))
      <4>5. sum <= all /\ sum \in Nat /\ all \in Nat
        BY <4>4
      <4>6. all <= p /\ p \in Nat
        BY <4>3
      <4> HIDE DEF sum, all
      <4>7. sum <= p
        BY <4>5, <4>6
      <4> QED
        BY <4>7 DEF sum
    <3>3. ASSUME NEW l \in t.lifetime PROVE MapThenSumSet(Total, paid) + Total(k) <= l
      <4>1. \A i \in DOMAIN charges : charges[i].booked \in Nat
        BY <1>1 DEF ChainInv, RowsInv, GoodRow
      <4>2. paid \subseteq MinedUnder(c) /\ MinedUnder(c) \subseteq DOMAIN charges
        BY DEF MinedUnder, Under
      <4>3. \A i \in paid \cup {k} : charges[i].booked >= 0
        BY <4>1, <4>2
      <4>4. Since(charges, S, 0) = S
        BY <4>1 DEF Since, CountedIn
      <4>5. l \in Nat /\ SumOver(Totals(charges), S) <= l
        BY <2>1, <2>4, <3>1, <3>3 DEF Fits, Bounded, Optional
      <4> HIDE DEF paid, S
      <4>6. /\ MapThenSumSet(Total, paid) + Total(k)
                  <= SumOver(Totals(charges), Since(charges, S, 0))
            /\ MapThenSumSet(Total, paid) + Total(k) \in Nat
            /\ SumOver(Totals(charges), Since(charges, S, 0)) \in Nat
        BY <1>1, <2>1, <3>1, <4>2, <4>3, MoneyLasts DEF S
      <4> DEFINE sum == MapThenSumSet(Total, paid) + Total(k)
                 all == SumOver(Totals(charges), Since(charges, S, 0))
      <4>7. sum <= all /\ sum \in Nat /\ all \in Nat
        BY <4>6
      <4>8. all <= l /\ l \in Nat
        BY <4>4, <4>5
      <4> HIDE DEF sum, all
      <4>9. sum <= l
        BY <4>7, <4>8
      <4> QED
        BY <4>9 DEF sum
    <3> QED
      BY <3>2, <3>3
  <2>6. \A n \in CallLimit(t) : MapThenSumSet(Executed, MinedUnder(c)) + Executed(k) <= n
    BY <1>1, <2>1, CallsLast
  <2> QED
    BY <2>3, <2>5, <2>6 DEF ChainAdmits
<1> QED
  BY <1>1, ChainInit, ChainStep, PTL DEF Spec

=============================================================================

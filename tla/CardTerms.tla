----------------------------- MODULE CardTerms -----------------------------
(***************************************************************************)
(* The terms of a card and the pure functions of                           *)
(* packages/engine/src/compiler.ts over them: validation, normalization,   *)
(* attenuation of a sub-card against its parent, and what a card compiles  *)
(* to on the chain.                                                        *)
(*                                                                         *)
(* A term the owner may leave out is a set: {} when it is undefined, a     *)
(* singleton for a number.  Amounts are atoms.                             *)
(***************************************************************************)
EXTENDS Integers, FiniteSets

CONSTANTS
    Targets,             \* contract addresses
    Methods,             \* canonical method signatures
    Approve,             \* APPROVE_SIG
    USDC,                \* the chain's USDC, a token and a possible target
    Payees,              \* recipients a merchant list may name
    MinPeriod,           \* the shortest period, 60 s in the code
    Backdate,            \* START_DATE_BACKDATE_S
    MaxExecutions        \* MAX_EXECUTIONS_PER_REDEMPTION

ASSUME TermsAssumption ==
    /\ Approve \in Methods /\ USDC \in Targets
    /\ MinPeriod \in Nat \ {0} /\ Backdate \in Nat
    /\ MaxExecutions \in Nat /\ MaxExecutions >= 2

Optional(S) == {T \in SUBSET S : \A x, y \in T : x = y}

Terms == [pays : BOOLEAN, period : Optional(Nat), seconds : Nat,
          lifetime : Optional(Nat),
          contract : BOOLEAN, targets : SUBSET Targets, methods : SUBSET Methods,
          tokens : SUBSET Targets, perTrade : Optional(Nat),
          expiry : Optional(Nat), uses : Optional(Nat),
          perTx : Optional(Nat), merchants : SUBSET Payees]

-----------------------------------------------------------------------------
(* Validation. *)

\* validateAndNormalizeContract: an allowance token is a target, and approve is
\* in scope when tokens are named.
Normalized(t) ==
    IF t.contract /\ t.tokens # {}
    THEN [t EXCEPT !.targets = @ \cup t.tokens, !.methods = @ \cup {Approve}]
    ELSE t

\* validateTerms.  Malformed amounts, addresses and signatures are left out, as
\* is an empty list, which the code refuses where it is given.
ValidTerms(t, now) ==
    /\ t.pays \/ t.contract
    /\ t.pays => /\ t.period \cup t.lifetime # {}
                 /\ \A a \in t.period \cup t.lifetime : a > 0
                 /\ t.period # {} => t.seconds >= MinPeriod
    /\ t.contract => t.targets # {} /\ t.methods # {}
    /\ \A n \in t.perTrade \cup t.perTx \cup t.uses : n > 0
    /\ \A e \in t.expiry : e > now

-----------------------------------------------------------------------------
(* Attenuation.  `left` is parentRemaining: what the parent may still spend  *)
(* in its period and in its lifetime.                                        *)

Above(S, T) == \E x \in S, y \in T : x > y

AtMost(n, S) == {IF n < x THEN n ELSE x : x \in S}

PayExceeds(parent, left, child) ==
    /\ child.pays
    /\ \/ ~parent.pays
       \/ Above(child.period, parent.period)
       \/ parent.period = {} /\ Above(child.period, parent.lifetime)
       \/ parent.lifetime # {} /\ Above(child.lifetime, {left.lifetime})

ScopeExceeds(parent, child) ==
    /\ child.contract
    /\ \/ ~parent.contract
       \/ ~(child.targets \subseteq parent.targets)
       \/ ~(child.methods \subseteq parent.methods)
       \/ parent.tokens # {} /\ ~(child.tokens \subseteq parent.tokens)
       \/ Above(child.perTrade, parent.perTrade)

\* The comparison of a child's terms with its parent's, term by term.
ExceedsAsAsked(parent, left, t) ==
    \/ PayExceeds(parent, left, t)
    \/ ScopeExceeds(parent, t)
    \/ Above(t.expiry, parent.expiry)
    \/ parent.merchants # {} /\ ~(t.merchants \subseteq parent.merchants)
    \/ Above(t.perTx, parent.perTx)
    \/ Above(t.uses, parent.uses)

\* Refused with exceeds_parent_terms: the child is normalized first, so that its
\* tokens are compared as the targets and the method they add.
Exceeds(parent, left, child) ==
    ExceedsAsAsked(parent, left, Normalized(child))

\* A term the child leaves out is its parent's.
OrElse(own, inherited) == IF own = {} THEN inherited ELSE own

\* perTradeMax is inherited only by a child that can approve.
TradeCap(parent, t) ==
    IF t.contract /\ Approve \in t.methods
    THEN OrElse(t.perTrade, parent.perTrade) ELSE t.perTrade

\* attenuate: the child's terms when nothing exceeds the parent's.  Money,
\* expiry, merchants and the per-charge maximum are inherited, the contract
\* scope, its tokens and maxUses are not.
Attenuated(parent, left, child) ==
    LET t == Normalized(child)
        silent == parent.pays /\ ~t.pays
    IN  [pays      |-> t.pays \/ parent.pays,
         period    |-> IF silent THEN AtMost(left.period, parent.period) ELSE t.period,
         seconds   |-> IF silent THEN parent.seconds ELSE t.seconds,
         lifetime  |-> IF silent THEN {left.lifetime : x \in parent.lifetime}
                                 ELSE t.lifetime,
         contract  |-> t.contract,
         targets   |-> t.targets,
         methods   |-> t.methods,
         tokens    |-> t.tokens,
         perTrade  |-> TradeCap(parent, t),
         expiry    |-> OrElse(t.expiry, parent.expiry),
         uses      |-> t.uses,
         perTx     |-> OrElse(t.perTx, parent.perTx),
         merchants |-> OrElse(t.merchants, parent.merchants)]

-----------------------------------------------------------------------------
(* What a card compiles to. *)

\* The executions that one redemption of a card may take: the fee's transfer,
\* and one payment or up to five calls.
ExecutionsPerUse(t) == IF t.contract THEN MaxExecutions ELSE 2

\* Mutant: the limit is maxUses, as if a redemption were one execution.
OneCallPerUse(t) == t.uses

\* limitedCalls counts executions, maxUses redemptions.
CallLimit(t) == {u * ExecutionsPerUse(t) : u \in t.uses}

\* startDate of the period enforcer and periodStartDate of the books.
PeriodStart(now) == now - Backdate

\* periodWindow: the start of the window an instant falls in.
WindowStart(t, start, at) ==
    IF at < start THEN start ELSE start + ((at - start) \div t.seconds) * t.seconds

-----------------------------------------------------------------------------
(* What terms allow one request, by themselves. *)

Unexpired(t, at) == \A e \in t.expiry : at < e

\* The merchant list and the per-charge maximum.
PaymentInScope(t, to, amount) ==
    /\ t.merchants = {} \/ to \in t.merchants
    /\ ~Above({amount}, t.perTx)

\* The contract scope; for an approval of USDC also its amount.  The list of
\* tokens is a gate of the walk over the chain at spend time only.
CallInScope(t, target, method, amount) ==
    /\ target \in t.targets /\ method \in t.methods
    /\ (method = Approve /\ target = USDC) => ~Above({amount}, t.perTrade)

AllowsPayment(t, to, amount, at) ==
    t.pays /\ PaymentInScope(t, to, amount) /\ Unexpired(t, at)

AllowsCall(t, target, method, amount, at) ==
    t.contract /\ CallInScope(t, target, method, amount) /\ Unexpired(t, at)
=============================================================================

----------------------------- MODULE Guarantee ------------------------------
(***************************************************************************)
(* AttestPayGuarantee (contracts/src): bonds of native CTC that guarantors *)
(* keep behind a borrower and that pay the lender of a defaulted line.  It *)
(* reads the line contract and never writes it.  Bonds are in wei of CTC,  *)
(* debts in atoms of USDC, and one CTC answers for one USDC.  A call whose *)
(* payment is not accepted reverts.                                        *)
(***************************************************************************)
EXTENDS CreditLine, Sequences, Functions

CONSTANTS
    Guarantors,    \* the accounts that bond
    BondAmounts,   \* what a guarantor sends along
    UnbondDelay,   \* UNBOND_DELAY
    WeiPerAtom,    \* the 1e12 wei of CTC that answer for an atom of USDC
    MaxHeld        \* bound on the bonds taken in

\* Addresses have 20 bytes.
ASSUME GuaranteeAssumption ==
    /\ IsFiniteSet(Guarantors)
    /\ Guarantors \subseteq Accounts
    /\ BondAmounts \subseteq Nat
    /\ UnbondDelay \in Nat \ {0}
    /\ WeiPerAtom \in Nat \ {0}
    /\ MaxHeld \in Nat

VARIABLES
    bonds,           \* _bonds: borrower, then guarantor
    guarantors,      \* _guarantors, in the order of their first bond
    totalBonded,     \* totalBonded
    slashedForLine,  \* slashedForLine
    held             \* the contract's balance of CTC

bondVars == <<bonds, guarantors, totalBonded, slashedForLine, held>>
vars == <<creditVars, bondVars>>

\* The accounts bonds can be slashed for.
Borrowers == {Terms[l].borrower : l \in Lines}

NoBond == [amount |-> 0, unbondRequestedAt |-> 0]

Init ==
    /\ CreditInit
    /\ bonds = [b \in Borrowers |-> [g \in Guarantors |-> NoBond]]
    /\ guarantors = [b \in Borrowers |-> <<>>]
    /\ totalBonded = [b \in Borrowers |-> 0]
    /\ slashedForLine = [l \in Lines |-> 0]
    /\ held = 0

-----------------------------------------------------------------------------
\* Mutant: a guarantor who left and comes back is listed again.
KnownByAmount(b, g) == bonds[b][g].amount > 0

Known(b, g) == g \in Range(guarantors[b])

\* A top-up cancels a pending request to unbond.
Bond(b, g, value) ==
    /\ value > 0
    /\ held + value <= MaxHeld
    /\ bonds' = [bonds EXCEPT ![b][g] = [amount |-> @.amount + value,
                                         unbondRequestedAt |-> 0]]
    /\ totalBonded' = [totalBonded EXCEPT ![b] = @ + value]
    /\ guarantors' = [guarantors EXCEPT
                         ![b] = IF Known(b, g) THEN @ ELSE Append(@, g)]
    /\ held' = held + value
    /\ UNCHANGED <<creditVars, slashedForLine>>

RequestUnbond(b, g) ==
    /\ bonds[b][g].amount > 0
    /\ bonds' = [bonds EXCEPT ![b][g].unbondRequestedAt = now]
    /\ UNCHANGED <<creditVars, guarantors, totalBonded, slashedForLine, held>>

Unbond(b, g) ==
    LET bond == bonds[b][g]
    IN  /\ bond.amount > 0
        /\ bond.unbondRequestedAt # 0
        /\ now >= bond.unbondRequestedAt + UnbondDelay
        /\ bonds' = [bonds EXCEPT ![b][g] = NoBond]
        /\ totalBonded' = [totalBonded EXCEPT ![b] = @ - bond.amount]
        /\ held' = held - bond.amount
        /\ UNCHANGED <<creditVars, guarantors, slashedForLine>>

-----------------------------------------------------------------------------
(* slash: guarantors pay in bonding order until the debt is covered. *)

Lesser(a, b) == IF a < b THEN a ELSE b

\* What is left of `due` after the first i guarantors of b have paid.
RemainingAfter(b, due) ==
    LET after[i \in 0..Len(guarantors[b])] ==
            IF i = 0 THEN due
            ELSE after[i-1] - Lesser(after[i-1], bonds[b][guarantors[b][i]].amount)
    IN  after

\* Mutant: atoms are taken for wei.
DueInAtoms(l) == Outstanding(l)

\* What the line owes, in wei.
Due(l) == Outstanding(l) * WeiPerAtom

Slash(l) ==
    LET b == Terms[l].borrower
        gs == guarantors[b]
        left == RemainingAfter(b, Due(l) - slashedForLine[l])
        paid == left[0] - left[Len(gs)]
    IN  /\ line[l].status = "defaulted"
        /\ Due(l) > slashedForLine[l]
        /\ paid > 0
        /\ bonds' = [bonds EXCEPT ![b] = [g \in Guarantors |->
                        IF g \in Range(gs)
                        THEN LET i == CHOOSE j \in DOMAIN gs : gs[j] = g
                             IN  [bonds[b][g] EXCEPT !.amount = @ - (left[i-1] - left[i])]
                        ELSE bonds[b][g]]]
        /\ totalBonded' = [totalBonded EXCEPT ![b] = @ - paid]
        /\ slashedForLine' = [slashedForLine EXCEPT ![l] = @ + paid]
        /\ held' = held - paid
        /\ UNCHANGED <<creditVars, guarantors>>

-----------------------------------------------------------------------------
BondNext ==
    \E b \in Borrowers, g \in Guarantors :
        \/ \E value \in BondAmounts : Bond(b, g, value)
        \/ RequestUnbond(b, g)
        \/ Unbond(b, g)

Next ==
    \/ CreditNext /\ UNCHANGED bondVars
    \/ BondNext
    \/ \E l \in Lines : Slash(l)

Spec == Init /\ [][Next]_vars

\* The server's credit sweep (engine/src/attestcoin/credit.ts) settles every
\* expired line it knows, again at each tick until it succeeds; the clock
\* runs.
FairSpec ==
    /\ Spec
    /\ WF_vars(Tick /\ UNCHANGED bondVars)
    /\ \A l \in Lines :
          WF_vars((MarkDefaulted(l) \/ CloseUnused(l)) /\ UNCHANGED bondVars)

=============================================================================

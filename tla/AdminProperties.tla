--------------------------- MODULE AdminProperties ---------------------------
(* Correctness properties of card administration and its grants. *)
EXTENDS CardAdmin

\* Every variable has its type.
TypeOK ==
    /\ request \in [Requests -> {"absent", "open", "acted"}]
    /\ code \in [Requests -> CodeRow]
    /\ token \in Seq(TokenRow) /\ ended \subseteq DOMAIN token
    /\ status \in [Cards -> Statuses] /\ expired \subseteq Cards
    /\ issue \in [Cards -> {"idle", "prepared", "signing", "done"}]
    /\ disabled \subseteq Roots
    /\ op \in [Ops -> Op] /\ call \in [Calls -> Call]
    /\ logs \in [Calls -> SUBSET Nat]
    /\ crashes \in Nat /\ orphaned \subseteq Cards
    /\ \A o \in Ops : op[o].kind = "revoke" => op[o].card \in Roots

\* Hypothesis: no two fees of the account are equal.  The jitter draws each
\* of them from a thousand values; nothing in the code keeps them apart.
FeesUnique ==
    /\ \A o, q \in Ops : Fee[o] = Fee[q] => o = q
    /\ \A o \in Ops : Fee[o] \notin SpendFees

\* A root card the books call revoked is disabled on the chain (ops.ts 209-212:
\* a confirmation that timed out is not proof that the disable landed), though
\* the log that confirms it names a fee and not an operation: where fees differ.
RevokedIsDisabled ==
    \A c \in Roots : status[c] = "revoked" => c \in disabled

\* A signed admin leaf reaches the relayer at most once, with two finalizes of
\* one prepare racing and bad signatures retried (routes.ts 94-101).
AdminSentOnce == \A o \in Ops : op[o].sends <= 1

\* A family that a replay or a revocation ended never has a live row again,
\* whatever was rotated before and whatever is presented after.
EndedStaysDead ==
    \A i \in DOMAIN token : token[i].family \in ended => ~token[i].live

\* A family has at most one live row, and a code at most one family.
OneLiveRow ==
    \A i, j \in DOMAIN token :
        token[i].live /\ token[j].live /\ token[i].code = token[j].code => i = j

Ungranted(c) == \A i \in DOMAIN token : token[i].card = c => ~token[i].live

\* The grants of a root card that dies end, though a nuke marks the cards first
\* and revokes the tokens after another read; unless the server crashed between
\* the two, and then nothing is promised for the cards of that kill.
GrantsEnd ==
    \A c \in Roots :
        status[c] \in Dead \cup {"deleted"} ~> Ungranted(c) \/ c \in orphaned

\* What routes.ts 110-113 says: no live-looking grant survives a dead card.
NoGrantSurvives ==
    \A c \in Roots : status[c] \in Dead \cup {"deleted"} ~> Ungranted(c)
=============================================================================

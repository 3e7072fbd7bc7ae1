------------------------------ MODULE CardAdmin ------------------------------
(***************************************************************************)
(* The life of one account's cards: issuance (engine/src/issuance.ts),     *)
(* freeze, deletion, revocation and nuke (engine/src/ops.ts), the routes   *)
(* that run them (server/src/api/routes.ts), the grants that die with a    *)
(* card, and what the chain holds: the delegations the account disabled    *)
(* and the fee transfers it made.                                          *)
(*                                                                         *)
(* An admin operation is a user-signed leaf, prepared and finalized by two *)
(* requests, or signed and run by one server-side request.  A request that *)
(* runs one is a call; it awaits the signature check, the relayer and the  *)
(* chain, and other requests run meanwhile.  The server may crash between  *)
(* any two writes; it forgets its calls and what was prepared.             *)
(***************************************************************************)
EXTENDS Grants

CONSTANTS
    Parent, NoCard,    \* parent_card_id, NoCard for a root card
    Issued,            \* the root cards issued before the behaviour starts
    Expiring,          \* the cards whose terms.expiry may pass
    Ops,               \* admin operations
    Calls,             \* finalize and server-signed requests
    Fee,               \* the fee each operation is sent with
    SpendFees,         \* the fees of the account's other redemptions
    MaxCrashes         \* bound of the model: crashes of the server

Lineage[c \in Cards] ==
    IF Parent[c] = NoCard THEN {c} ELSE {c} \cup Lineage[Parent[c]]

Roots == {c \in Cards : Parent[c] = NoCard}

ASSUME AdminAssumption ==
    /\ NoCard \notin Cards
    /\ Parent \in [Cards -> Cards \cup {NoCard}]
    /\ Issued \subseteq Roots
    /\ Expiring \subseteq Cards
    /\ Fee \in [Ops -> Nat] /\ SpendFees \subseteq Nat /\ MaxCrashes \in Nat

\* Parents are issued before their children: every lineage ends in a root.
ASSUME LineageAssumption ==
    \A c \in Cards :
        Lineage[c] = IF Parent[c] = NoCard THEN {c} ELSE {c} \cup Lineage[Parent[c]]

VARIABLES
    status,      \* cards.status
    expired,     \* the cards past their expiry
    issue,       \* the issuance of each card
    disabled,    \* chain: the delegations DelegationManager holds disabled
    op,          \* the admin operations: pendingAdmin and the leaf's broadcasts
    call,        \* local state of each call
    logs,        \* chain: fees transferred since the block each call read
    crashes,     \* crashes so far
    orphaned     \* history: cards whose kill a crash cut short of their grants

cardVars == <<status, expired, issue>>
runVars == <<op, call, logs>>
crashVars == <<crashes, orphaned>>
adminVars == <<disabled, runVars, crashVars>>
vars == <<request, code, token, ended, status, expired, issue, disabled, op,
          call, logs, crashes, orphaned>>

Live == {"active", "frozen"}
Dead == {"revoked", "nuked"}
Statuses == {"none", "deleted"} \cup Live \cup Dead

Exists(c) == status[c] \notin {"none", "deleted"}
Subtree(c) == {d \in Cards : Exists(d) /\ c \in Lineage[d]}

\* A pendingAdmin entry is ready, claimed by a call (inProgress) or consumed.
Op == [kind : {"revoke", "nuke"}, card : Cards \cup {NoCard},
       entry : {"absent", "ready", "claimed", "consumed"},
       tx : {"none", "flight", "mined", "reverted"}, sends : Nat]
NoOp == [kind |-> "nuke", card |-> NoCard, entry |-> "absent", tx |-> "none",
         sends |-> 0]

Stages == {"verifying", "sending", "broadcasting", "confirming", "cascading"}
Idle == [at |-> "idle"]
Call == {Idle} \cup [at : Stages, op : Ops]

AdminInit ==
    /\ GrantsInit
    /\ status = [c \in Cards |-> IF c \in Issued THEN "active" ELSE "none"]
    /\ expired = {}
    /\ issue = [c \in Cards |-> IF c \in Issued THEN "done" ELSE "idle"]
    /\ disabled = {}
    /\ op = [o \in Ops |-> NoOp]
    /\ call = [f \in Calls |-> Idle]
    /\ logs = [f \in Calls |-> {}]
    /\ crashes = 0 /\ orphaned = {}

-----------------------------------------------------------------------------
(* Issuance. *)

\* cards/prepare: the unsigned delegation waits in memory for its signature.
PrepareCard(c) ==
    /\ c \in Roots /\ issue[c] = "idle"
    /\ issue' = [issue EXCEPT ![c] = "prepared"]
    /\ UNCHANGED <<grantVars, status, expired, adminVars>>

\* The signature recovers to the owner and the card is inserted.
FinalizeCard(c) ==
    /\ issue[c] = "prepared"
    /\ issue' = [issue EXCEPT ![c] = "done"]
    /\ status' = [status EXCEPT ![c] = "active"]
    /\ UNCHANGED <<grantVars, expired, adminVars>>

\* issueSubCard checks the parent, then signs with the parent's key.
BeginSubCard(c) ==
    /\ c \notin Roots /\ issue[c] = "idle"
    /\ status[Parent[c]] = "active"
    /\ issue' = [issue EXCEPT ![c] = "signing"]
    /\ UNCHANGED <<grantVars, status, expired, adminVars>>

\* The insert: the parent's row must still be there (its foreign key), in
\* whatever state.
InsertSubCard(c) ==
    /\ issue[c] = "signing"
    /\ issue' = [issue EXCEPT ![c] = "done"]
    /\ status' = IF Exists(Parent[c]) THEN [status EXCEPT ![c] = "active"] ELSE status
    /\ UNCHANGED <<grantVars, expired, adminVars>>

-----------------------------------------------------------------------------
(* Server-side controls. *)

Freeze(c) ==
    /\ status[c] = "active"
    /\ status' = [status EXCEPT ![c] = "frozen"]
    /\ UNCHANGED <<grantVars, expired, issue, adminVars>>

Unfreeze(c) ==
    /\ status[c] = "frozen"
    /\ status' = [status EXCEPT ![c] = "active"]
    /\ UNCHANGED <<grantVars, expired, issue, adminVars>>

Expire(c) ==
    /\ c \in Expiring \ expired /\ Exists(c)
    /\ expired' = expired \cup {c}
    /\ UNCHANGED <<grantVars, status, issue, adminVars>>

\* setSubtreeStatus(c, "revoked"), over whatever the status was.
KillSubtree(c) ==
    status' = [d \in Cards |-> IF d \in Subtree(c) THEN "revoked" ELSE status[d]]

\* revoke_subcard, from a live card's agent: it leaves the tokens alone.
AgentRevoke(p, c) ==
    /\ status[p] \in Live /\ c \in Subtree(p) \ {p}
    /\ KillSubtree(c)
    /\ UNCHANGED <<grantVars, expired, issue, adminVars>>

MayRevokeSub(c) == c \notin Roots /\ status[c] \in Live

\* A sub-card dies in revoke/prepare, with its subtree's tokens.
RevokeSubCard(c) ==
    /\ MayRevokeSub(c)
    /\ KillSubtree(c)
    /\ RevokeTokensOf(Subtree(c))
    /\ UNCHANGED <<expired, issue, adminVars>>

\* deleteDeadCard looks at every card of the subtree, not at its root alone.
MayDelete(c) ==
    Exists(c) /\ \A d \in Subtree(c) : status[d] \in Dead \/ d \in expired

RemoveSubtree(c) ==
    status' = [d \in Cards |-> IF d \in Subtree(c) THEN "deleted" ELSE status[d]]

\* The rows vanish, then their tokens are revoked.
Delete(c) ==
    /\ MayDelete(c)
    /\ RemoveSubtree(c)
    /\ RevokeTokensOf(Subtree(c))
    /\ UNCHANGED <<expired, issue, adminVars>>

-----------------------------------------------------------------------------
(* Admin operations. *)

Prepare(o, kind, c) ==
    /\ op[o].entry = "absent"
    /\ op' = [op EXCEPT ![o].kind = kind, ![o].card = c, ![o].entry = "ready"]
    /\ UNCHANGED <<grantVars, cardVars, disabled, call, logs, crashVars>>

PrepareRevoke(o, c) == c \in Roots /\ status[c] \in Live /\ Prepare(o, "revoke", c)
PrepareNuke(o) == Prepare(o, "nuke", NoCard)

\* Mutant: inProgress is not looked at.
ClaimableTwice(o) == op[o].entry \in {"ready", "claimed"}

\* The synchronous claim of a finalize: ready, and not in progress.
Claimable(o) == op[o].entry = "ready"

Finalize(f, o) ==
    /\ call[f].at = "idle" /\ Claimable(o)
    /\ op[o].kind = "revoke" => Exists(op[o].card)
    /\ op' = [op EXCEPT ![o].entry = "claimed"]
    /\ call' = [call EXCEPT ![f] = [at |-> "verifying", op |-> o]]
    /\ UNCHANGED <<grantVars, cardVars, disabled, logs, crashVars>>

Goto(f, at) == call' = [call EXCEPT ![f].at = at] /\ logs' = logs
End(f) == call' = [call EXCEPT ![f] = Idle] /\ logs' = [logs EXCEPT ![f] = {}]

\* The signature does not recover: the entry can be finalized again.
BadSignature(f) ==
    /\ call[f].at = "verifying"
    /\ op' = [op EXCEPT ![call[f].op].entry = "ready"]
    /\ End(f)
    /\ UNCHANGED <<grantVars, cardVars, disabled, crashVars>>

\* Nothing left to kill when finalizeAdminOp looks again.
Moot(o) ==
    IF op[o].kind = "revoke" THEN status[op[o].card] \notin Live
    ELSE \A c \in Cards : status[c] \notin Live

\* The entry is consumed; the operation goes on, or is answered as done.
Verified(f) ==
    /\ call[f].at = "verifying"
    /\ op' = [op EXCEPT ![call[f].op].entry = "consumed"]
    /\ Goto(f, IF Moot(call[f].op) THEN "cascading" ELSE "sending")
    /\ UNCHANGED <<grantVars, cardVars, disabled, crashVars>>

\* The server-signed lane has no entry and looks at no status.
ServerOp(f, o, kind, c) ==
    /\ call[f].at = "idle" /\ op[o].entry = "absent"
    /\ op' = [op EXCEPT ![o].kind = kind, ![o].card = c, ![o].entry = "consumed"]
    /\ call' = [call EXCEPT ![f] = [at |-> "sending", op |-> o]]
    /\ UNCHANGED <<grantVars, cardVars, disabled, logs, crashVars>>

\* revokeCard kills a sub-card's subtree and throws: no token is revoked.
ServerRevokeSub(c) ==
    /\ c \notin Roots /\ Exists(c)
    /\ KillSubtree(c)
    /\ UNCHANGED <<grantVars, expired, issue, adminVars>>

\* The estimate passed; the block the logs will be read from.
ReadBlock(f) ==
    /\ call[f].at = "sending"
    /\ Goto(f, "broadcasting")
    /\ UNCHANGED <<grantVars, cardVars, disabled, op, crashVars>>

Send(f) ==
    /\ call[f].at = "broadcasting"
    /\ op' = [op EXCEPT ![call[f].op].tx = "flight", ![call[f].op].sends = @ + 1]
    /\ Goto(f, "confirming")
    /\ UNCHANGED <<grantVars, cardVars, disabled, crashVars>>

\* A transfer from the account to the fee collector, as every call that has
\* read its block will find it.
Logged(fee) ==
    logs' = [f \in Calls |-> IF call[f].at \in {"broadcasting", "confirming"}
                             THEN logs[f] \cup {fee} ELSE logs[f]]

\* Mined with its fee leg, or reverted: a delegation is disabled once.
Mine(o) ==
    /\ op[o].tx = "flight"
    /\ \/ op[o].kind = "nuke" /\ disabled' = disabled
       \/ /\ op[o].kind = "revoke" /\ op[o].card \notin disabled
          /\ disabled' = disabled \cup {op[o].card}
    /\ op' = [op EXCEPT ![o].tx = "mined"]
    /\ Logged(Fee[o])
    /\ UNCHANGED <<grantVars, cardVars, call, crashVars>>

Revert(o) ==
    /\ op[o].tx = "flight"
    /\ op' = [op EXCEPT ![o].tx = "reverted"]
    /\ UNCHANGED <<grantVars, cardVars, disabled, call, logs, crashVars>>

\* A payment of one of the account's cards is mined, with its fee leg.
MineSpend(fee) ==
    /\ Logged(fee)
    /\ UNCHANGED <<grantVars, cardVars, disabled, op, call, crashVars>>

\* The relayer refused, the transaction reverted, or the wait timed out: the
\* call throws, and what was sent may still mine.
GiveUp(f) ==
    /\ call[f].at \in {"sending", "broadcasting", "confirming"}
    /\ End(f)
    /\ UNCHANGED <<grantVars, cardVars, disabled, op, crashVars>>

\* Mutant: a confirmation that timed out counts.
ConfirmedSoFar(f) == op[call[f].op].tx \in {"flight", "mined"}

\* confirmRedemption: the relayer reports the transaction, or a transfer of
\* the operation's fee is in the logs since the block.
Confirmed(f) ==
    op[call[f].op].tx = "mined" \/ Fee[call[f].op] \in logs[f]

RecordRevoke(f) ==
    /\ call[f].at = "confirming"
    /\ Confirmed(f) /\ op[call[f].op].kind = "revoke"
    /\ KillSubtree(op[call[f].op].card)
    /\ Goto(f, "cascading")
    /\ UNCHANGED <<grantVars, expired, issue, disabled, op, crashVars>>

\* Every card of the account is marked, then the nonce is read again.
RecordNuke(f) ==
    /\ call[f].at = "confirming"
    /\ Confirmed(f) /\ op[call[f].op].kind = "nuke"
    /\ status' = [c \in Cards |-> IF Exists(c) THEN "nuked" ELSE status[c]]
    /\ Goto(f, "cascading")
    /\ UNCHANGED <<grantVars, expired, issue, disabled, op, crashVars>>

\* Mutant: the grants of live cards only, after the cards were marked.
ReachLive(o) ==
    IF op[o].kind = "revoke" THEN Subtree(op[o].card)
    ELSE {c \in Cards : status[c] \in Live}

\* The cards whose grants the route revokes when the operation is done.
Reach(o) ==
    IF op[o].kind = "revoke" THEN Subtree(op[o].card) ELSE {c \in Cards : Exists(c)}

\* The operation returned to its route, which revokes the tokens.
Cascade(f) ==
    /\ call[f].at = "cascading"
    /\ RevokeTokensOf(Reach(call[f].op))
    /\ End(f)
    /\ UNCHANGED <<cardVars, disabled, op, crashVars>>

-----------------------------------------------------------------------------
(* The server dies and starts again. *)

\* The cards marked by calls that have not come to their tokens.
KillsUnderWay ==
    UNION {Reach(call[f].op) : f \in {g \in Calls : call[g].at = "cascading"}}

\* What lived in memory is gone: calls, and the two maps of prepared entries.
Forget ==
    /\ call' = [f \in Calls |-> Idle] /\ logs' = [f \in Calls |-> {}]
    /\ issue' = [c \in Cards |-> IF issue[c] = "done" THEN "done" ELSE "idle"]
    /\ op' = [o \in Ops |-> IF op[o].entry \in {"ready", "claimed"}
                            THEN [op[o] EXCEPT !.entry = "consumed"] ELSE op[o]]

\* It may fall between the two writes of a handler that does not await, too:
\* the cards are dead or gone and their tokens are not.
Crash ==
    /\ crashes < MaxCrashes /\ crashes' = crashes + 1
    /\ Forget
    /\ \/ status' = status /\ orphaned' = orphaned \cup KillsUnderWay
       \/ \E c \in Cards :
             /\ \/ MayRevokeSub(c) /\ KillSubtree(c)
                \/ MayDelete(c) /\ RemoveSubtree(c)
             /\ orphaned' = orphaned \cup KillsUnderWay \cup Subtree(c)
    /\ UNCHANGED <<grantVars, expired, disabled>>

-----------------------------------------------------------------------------
(* The grants' endpoints look at the card. *)

Elsewhere == UNCHANGED <<cardVars, adminVars>>

\* Approval takes the state an agent would see, which calls a frozen card frozen
\* even when it expired; a refresh does not look at the expiry.
Approvable(c) == status[c] = "frozen" \/ (status[c] = "active" /\ c \notin expired)
Redeemable(c) == status[c] \in Live /\ c \notin expired
Renewable(c) == status[c] \in Live

GrantStep ==
    \/ \E q \in Requests :
          \/ Authorize(q) \/ Deny(q) \/ ReplayCode(q)
          \/ \E c \in Cards : Approve(q, c, Approvable(c))
          \/ code[q].at = "issued" /\ Redeem(q, Redeemable(code[q].card))
    \/ \E i \in DOMAIN token :
          Refresh(i, Renewable(token[i].card)) \/ RevokeToken(i)

Next ==
    \/ GrantStep /\ Elsewhere
    \/ \E c \in Cards :
          \/ PrepareCard(c) \/ FinalizeCard(c)
          \/ BeginSubCard(c) \/ InsertSubCard(c)
          \/ Freeze(c) \/ Unfreeze(c) \/ Expire(c) \/ Delete(c)
          \/ RevokeSubCard(c) \/ ServerRevokeSub(c)
          \/ \E p \in Cards : AgentRevoke(p, c)
          \/ \E o \in Ops : PrepareRevoke(o, c)
    \/ \E o \in Ops : PrepareNuke(o) \/ Mine(o) \/ Revert(o)
    \/ \E fee \in SpendFees : MineSpend(fee)
    \/ \E f \in Calls :
          \/ BadSignature(f) \/ Verified(f) \/ ReadBlock(f) \/ Send(f) \/ GiveUp(f)
          \/ RecordRevoke(f) \/ RecordNuke(f) \/ Cascade(f)
          \/ \E o \in Ops :
                \/ Finalize(f, o) \/ ServerOp(f, o, "nuke", NoCard)
                \/ \E c \in Roots : Exists(c) /\ ServerOp(f, o, "revoke", c)
    \/ Crash

Spec == AdminInit /\ [][Next]_vars

\* A call that marked the cards goes on, its nonce read or failed.
FairSpec == Spec /\ \A f \in Calls : WF_vars(Cascade(f))
=============================================================================

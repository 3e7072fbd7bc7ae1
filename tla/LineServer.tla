----------------------------- MODULE LineServer -----------------------------
(***************************************************************************)
(* The server side of credit lines over the credit-line contract: the      *)
(* mirror of each line (attestcoin/store.ts), its signatures and its       *)
(* registration (attestcoin/credit.ts), the execution of draws and         *)
(* repayments (server/src/attestcoin/credit-exec.ts), the facts they       *)
(* become, and the refreshes of the mirror by the proof worker and the     *)
(* expiry sweep.                                                           *)
(*                                                                         *)
(* A transfer is what one call of executeDraw or executeRepayment asks     *)
(* for: kind, line and amount.  The call runs spend() under a key and then *)
(* takes the charge it finds under that key, whoever made it: a call that  *)
(* repeats the key may ask for another amount or name another line, and an *)
(* ordinary payment of the same card may have used the key before.  spend()*)
(* is modelled by what the executor sees of it: a charge appears, and ends *)
(* confirmed or failed before or after spend() returns.  A fact's row is   *)
(* modelled by its two ends, proven or given up; how it gets there is the  *)
(* subject of module ProofWorker.                                          *)
(***************************************************************************)
EXTENDS CreditLine

CONSTANTS
    Signings,    \* calls of the sign route
    Signing,     \* line and party of each of them
    Openers,     \* the calls of openLineOnChain that may overlap on a line
    Pays,        \* ordinary payments from the cards of the transfers
    Payment,     \* recipient and amount of each of them
    Keys,        \* idempotency keys, each of one card
    Key,         \* the key of each transfer and each ordinary payment
    Keyed,       \* the transfers whose key the caller chose and keeps
    MaxCrashes   \* bound of the model

\* Whoever makes a charge.
Payers == Transfers \cup Pays

Parties == {"lender", "borrower"}

ASSUME ServerAssumption ==
    /\ Signing \in [Signings -> [line : Lines, party : Parties]]
    /\ Pays \cap Transfers = {}
    /\ Payment \in [Pays -> [to : Accounts, amount : Nat]]
    /\ Key \in [Payers -> Keys]
    /\ Keyed \subseteq Transfers
    /\ \A x \in Transfers \ Keyed, m \in Payers : Key[m] = Key[x] => m = x
    /\ MaxCrashes \in Nat

VARIABLES
    mirror,    \* credit_lines
    signing,   \* local state of each signing, between its two reads of the row
    opening,   \* openLineOnChain, per line and call
    orphans,   \* openLine transactions nobody waits for and that may execute
    call,      \* the executor of each transfer, with the row it read
    charge,    \* the charge each payer has made
    event,     \* credit_line_events, of the charges that still exist
    job,       \* attestcoin_facts
    sync,      \* syncLineFromChain, in the proof worker and the expiry sweep
    crashes

serverVars == <<mirror, signing, opening, orphans, call, charge, event, job,
                sync, crashes>>
vars == <<now, line, nonceUsed, record, fact, proven, mirror, signing, opening,
          orphans, call, charge, event, job, sync, crashes>>

MirrorStatuses == {"none", "proposed", "signed", "opening", "open", "active",
                   "repaid", "defaulted", "closed", "failed"}

Mirror == [status : MirrorStatuses, sigs : SUBSET Parties,
           drawn : Nat, repaid : Nat]
NoMirror == [status |-> "none", sigs |-> {}, drawn |-> 0, repaid |-> 0]

\* other: the other party's signature was on the row when the call read it.
SigningPoints == {"idle", "recovering", "done"}
OpeningPoints == {"none", "simulating", "sent", "landed"}

\* waiting: for the mutex of the card tree.
CallPoints == {"idle", "waiting", "spending", "done"}

\* unsent: failed, and without a request_id.
ChargeStates == {"none", "pending", "confirmed", "failed", "unsent"}
JobStates == {"none", "queued", "verified", "failed"}

Syncers == {"worker", "sweep"}
SyncPoints == {"idle", "read", "write", "decide", "close", "default",
               "reread", "rewrite"}
\* What getLine returned: the fields syncLineFromChain mirrors.
View == [status : LineStatuses, drawn : Nat, repaid : Nat]
NoView == [status |-> "none", drawn |-> 0, repaid |-> 0]
AnyLine == CHOOSE l \in Lines : TRUE
Resting == [at |-> "idle", line |-> AnyLine, view |-> NoView]

ServerInit ==
    /\ mirror = [l \in Lines |-> NoMirror]
    /\ signing = [c \in Signings |-> [at |-> "idle", other |-> FALSE]]
    /\ opening = [l \in Lines |-> [o \in Openers |-> "none"]]
    /\ orphans = {}
    /\ call = [x \in Transfers |-> [at |-> "idle", seen |-> NoMirror]]
    /\ charge = [m \in Payers |-> [status |-> "none", at |-> 0]]
    /\ event = {}
    /\ job = [x \in Transfers |-> "none"]
    /\ sync = [p \in Syncers |-> Resting]
    /\ crashes = 0

Init == CreditInit /\ ServerInit

-----------------------------------------------------------------------------
(* Proposing, signing and registering a line. *)

Propose(l) ==
    /\ mirror[l].status = "none"
    /\ ValidTerms(l)
    /\ mirror' = [mirror EXCEPT ![l].status = "proposed"]
    /\ UNCHANGED <<signing, opening, orphans, call, charge, event, job, sync, crashes>>
    /\ UNCHANGED creditVars

OtherParty(p) == CHOOSE q \in Parties : q # p

\* attachLineSignature up to the recovery of the signer.
StartSigning(c) ==
    LET l == Signing[c].line
        other == OtherParty(Signing[c].party) \in mirror[l].sigs
    IN  /\ signing[c].at = "idle"
        /\ mirror[l].status = "proposed"
        /\ signing' = [signing EXCEPT ![c] = [at |-> "recovering", other |-> other]]
        /\ UNCHANGED <<mirror, opening, orphans, call, charge, event, job, sync, crashes>>
        /\ UNCHANGED creditVars

\* The row becomes signed when the row read before the recovery had the other
\* signature, whatever its status is by now.
SignedStatus(old, c) == IF signing[c].other THEN "signed" ELSE old

EndSigning(c) ==
    LET l == Signing[c].line
    IN  /\ signing[c].at = "recovering"
        /\ signing' = [signing EXCEPT ![c].at = "done"]
        /\ mirror' = [mirror EXCEPT ![l].sigs = @ \cup {Signing[c].party},
                                    ![l].status = SignedStatus(@, c)]
        /\ UNCHANGED <<opening, orphans, call, charge, event, job, sync, crashes>>
        /\ UNCHANGED creditVars

\* openLineOnChain, from the sign route or from the sweep.  A signature written
\* late makes the row signed again, and another call may start meanwhile.
StartOpening(l, o) ==
    /\ mirror[l].status = "signed"
    /\ mirror[l].sigs = Parties
    /\ opening[l][o] = "none"
    /\ mirror' = [mirror EXCEPT ![l].status = "opening"]
    /\ opening' = [opening EXCEPT ![l][o] = "simulating"]
    /\ UNCHANGED <<signing, orphans, call, charge, event, job, sync, crashes>>
    /\ UNCHANGED creditVars

EndOpening(l, o, status) ==
    /\ opening' = [opening EXCEPT ![l][o] = "none"]
    /\ mirror' = [mirror EXCEPT ![l].status = status]

\* What openLine requires.
Openable(l) == ValidTerms(l) /\ NonceFree(l) /\ line[l].status = "none"

\* The simulation: refused for good, unreachable, or fine and then sent.
SimulateOpening(l, o) ==
    /\ opening[l][o] = "simulating"
    /\ \/ ~Openable(l) /\ EndOpening(l, o, "failed")
       \/ EndOpening(l, o, "signed")
       \/ /\ Openable(l)
          /\ opening' = [opening EXCEPT ![l][o] = "sent"]
          /\ UNCHANGED mirror
    /\ UNCHANGED <<signing, orphans, call, charge, event, job, sync, crashes>>
    /\ UNCHANGED creditVars

MineOpening(l, o) ==
    /\ opening[l][o] = "sent"
    /\ OpenLine(l)
    /\ opening' = [opening EXCEPT ![l][o] = "landed"]
    /\ UNCHANGED <<mirror, signing, orphans, call, charge, event, job, sync, crashes>>

ReceiveOpening(l, o) ==
    /\ opening[l][o] = "landed"
    /\ EndOpening(l, o, "open")
    /\ UNCHANGED <<signing, orphans, call, charge, event, job, sync, crashes>>
    /\ UNCHANGED creditVars

\* Mutant: a lost answer is taken for a success.
AfterLoss == "open"

\* A retryable failure: the sweep tries again.
AfterLostOpening == "signed"

\* The transaction reverted or its answer is lost, mined or not.
LoseOpening(l, o) ==
    /\ opening[l][o] \in {"sent", "landed"}
    /\ orphans' = IF opening[l][o] = "sent" THEN orphans \cup {l} ELSE orphans
    /\ EndOpening(l, o, AfterLostOpening)
    /\ UNCHANGED <<signing, call, charge, event, job, sync, crashes>>
    /\ UNCHANGED creditVars

MineOrphan(l) ==
    /\ OpenLine(l)
    /\ orphans' = orphans \ {l}
    /\ UNCHANGED <<mirror, signing, opening, call, charge, event, job, sync, crashes>>

-----------------------------------------------------------------------------
(* Draws and repayments. *)

LineOf(x) == Transfer[x].line
IsDraw(x) == Transfer[x].kind = "draw"

MirrorOwed(m, l) ==
    LET total == Owed(l, m.drawn)
    IN  IF total > m.repaid THEN total - m.repaid ELSE 0

\* Mutant: the status of the line is not looked at.
DrawableByLimit(l, amount) ==
    /\ ~PastExpiry(l)
    /\ amount > 0 /\ mirror[l].drawn + amount <= Terms[l].limit

\* assertDrawable, assertRepayable: the mirror as it is when the call starts.
MayDraw(l, amount) ==
    /\ mirror[l].status \in {"open", "active"}
    /\ ~PastExpiry(l)
    /\ amount > 0 /\ mirror[l].drawn + amount <= Terms[l].limit

MayRepay(l, amount) ==
    /\ mirror[l].status \in {"active", "defaulted"}
    /\ amount > 0 /\ MirrorOwed(mirror[l], l) > 0

StartCall(x) ==
    LET l == LineOf(x)
    IN  /\ call[x].at = "idle"
        /\ IF IsDraw(x) THEN MayDraw(l, Transfer[x].amount)
                        ELSE MayRepay(l, Transfer[x].amount)
        /\ call' = [call EXCEPT ![x] = [at |-> "waiting", seen |-> mirror[l]]]
        /\ UNCHANGED <<mirror, signing, opening, orphans, charge, event, job, sync, crashes>>
        /\ UNCHANGED creditVars

\* The payers whose charge is the one the store holds under the key of m.
Holders(m) == {n \in Payers : Key[n] = Key[m] /\ charge[n].status # "none"}

\* The mutex: one spend() at a time on the card of a key.
Alone(m) == \A x \in Transfers : Key[x] = Key[m] => call[x].at # "spending"

\* spend() finds no charge under its key, or one that failed unsent, which it
\* deletes; the events of a deleted charge are nobody's.
ReserveFor(m) ==
    /\ Alone(m)
    /\ \A n \in Holders(m) : charge[n].status = "unsent"
    /\ charge' = [n \in Payers |->
                     IF n = m THEN [status |-> "pending", at |-> now]
                     ELSE IF Key[n] = Key[m] THEN [status |-> "none", at |-> 0]
                     ELSE charge[n]]
    /\ event' = {y \in event : Key[y] # Key[m]}

Reserve(x) ==
    /\ call[x].at = "waiting"
    /\ ReserveFor(x)
    /\ call' = [call EXCEPT ![x].at = "spending"]
    /\ UNCHANGED <<mirror, signing, opening, orphans, job, sync, crashes>>
    /\ UNCHANGED creditVars

\* An ordinary payment of the card under one of the keys.
Pay(p) ==
    /\ ReserveFor(p)
    /\ UNCHANGED <<mirror, signing, opening, orphans, call, job, sync, crashes>>
    /\ UNCHANGED creditVars

\* A charge ends inside spend() or by the reconcile sweep.  The first finds no
\* line event yet, the second has no hook: neither enqueues a fact.
EndCharge(m) ==
    /\ charge[m].status = "pending"
    /\ \E r \in {"confirmed", "failed", "unsent"} :
          charge' = [charge EXCEPT ![m].status = r]
    /\ UNCHANGED <<mirror, signing, opening, orphans, call, event, job, sync, crashes>>
    /\ UNCHANGED creditVars

\* A keyed call can be made again.
Leave(x) == call' = [call EXCEPT ![x] =
                [at |-> IF x \in Keyed THEN "idle" ELSE "done", seen |-> NoMirror]]

\* Mutant: the event is looked up by the request, not by its charge.
UnbookedHere(x) == x \notin event

\* getLineEventByCharge: the charge has no event, of this request or another.
Unbooked(x) == \A y \in event : Key[y] # Key[x]

\* recordLineEvent: the row is written from what was read before the spend.
Book(x) ==
    LET l == LineOf(x)
        seen == call[x].seen
    IN  IF Unbooked(x)
        THEN /\ event' = event \cup {x}
             /\ mirror' = IF IsDraw(x)
                  THEN [mirror EXCEPT ![l].drawn = seen.drawn + Transfer[x].amount,
                                      ![l].status = "active"]
                  ELSE [mirror EXCEPT ![l].repaid = seen.repaid + Transfer[x].amount]
        ELSE UNCHANGED <<event, mirror>>

\* Mutant: a fact is queued for whatever spend() did not fail.
ConfirmedSoFar(x) == \E n \in Holders(x) : charge[n].status # "failed"

\* enqueueLineFactForCharge wants a confirmed charge.
Factual(x) == \E n \in Holders(x) : charge[n].status = "confirmed"

\* The event of the charge is queued, once: the insert does nothing when the
\* row exists.
EnqueueFact(x) ==
    job' = [y \in Transfers |->
               IF Factual(x) /\ y \in event' /\ Key[y] = Key[x] /\ job[y] = "none"
               THEN "queued" ELSE job[y]]

\* spend() throws: it refuses, or its charge failed.
Throw(x) ==
    /\ \/ call[x].at = "waiting"
       \/ call[x].at = "spending" /\ charge[x].status \in {"failed", "unsent"}
    /\ Leave(x)
    /\ UNCHANGED <<mirror, signing, opening, orphans, charge, event, job, sync, crashes>>
    /\ UNCHANGED creditVars

\* spend() returns the charge it made, or the one it found under the key.
Return(x) ==
    /\ \/ call[x].at = "spending"
       \/ call[x].at = "waiting" /\ Alone(x)
    /\ \E n \in Holders(x) : charge[n].status \in {"pending", "confirmed"}
    /\ Book(x)
    /\ EnqueueFact(x)
    /\ Leave(x)
    /\ UNCHANGED <<signing, opening, orphans, charge, sync, crashes>>
    /\ UNCHANGED creditVars

-----------------------------------------------------------------------------
(* The facts, and the two ways in which the mirror is refreshed. *)

Anchor(x) ==
    /\ job[x] = "queued"
    /\ AnchorTransfer(x)
    /\ \E n \in Holders(x) :
          fact'[x] = IF IsDraw(x) /\ charge[n].at > Terms[LineOf(x)].expiresAt
                     THEN "late" ELSE "timely"
    /\ UNCHANGED serverVars

\* The worker proves the fact and goes on to refresh the mirror.
Prove(x) ==
    /\ job[x] = "queued"
    /\ sync["worker"].at = "idle"
    /\ ProveDraw(x) \/ ProveRepayment(x)
    /\ job' = [job EXCEPT ![x] = "verified"]
    /\ sync' = [sync EXCEPT !["worker"] = [at |-> "read", line |-> LineOf(x),
                                           view |-> NoView]]
    /\ UNCHANGED <<mirror, signing, opening, orphans, call, charge, event, crashes>>

\* The contract refuses the fact for good, or the attempts run out.
GiveUp(x) ==
    /\ job[x] = "queued"
    /\ job' = [job EXCEPT ![x] = "failed"]
    /\ UNCHANGED <<mirror, signing, opening, orphans, call, charge, event, sync, crashes>>
    /\ UNCHANGED creditVars

\* linesPastExpiry, then syncLineFromChain.
StartSweep(l) ==
    /\ sync["sweep"].at = "idle"
    /\ mirror[l].status \in {"open", "active"}
    /\ PastExpiry(l)
    /\ sync' = [sync EXCEPT !["sweep"] = [at |-> "read", line |-> l, view |-> NoView]]
    /\ UNCHANGED <<mirror, signing, opening, orphans, call, charge, event, job, crashes>>
    /\ UNCHANGED creditVars

\* getLine answers.
ReadLine(p) ==
    LET l == sync[p].line
        view == [status |-> line[l].status, drawn |-> line[l].drawn,
                 repaid |-> line[l].repaid]
    IN  /\ sync[p].at \in {"read", "reread"}
        /\ sync' = [sync EXCEPT ![p].at = IF @ = "read" THEN "write" ELSE "rewrite",
                                ![p].view = view]
        /\ UNCHANGED <<mirror, signing, opening, orphans, call, charge, event, job, crashes>>
        /\ UNCHANGED creditVars

\* Mutant: the status is not mirrored.
RefreshAmounts(l, view) ==
    mirror' = IF view.status = "none" THEN mirror
              ELSE [mirror EXCEPT ![l].drawn = view.drawn, ![l].repaid = view.repaid]

\* The mirror takes the view; a line the chain does not know is left alone.
Refresh(l, view) ==
    mirror' = IF view.status = "none" THEN mirror
              ELSE [mirror EXCEPT ![l].status = view.status,
                                  ![l].drawn = view.drawn, ![l].repaid = view.repaid]

WriteMirror(p) ==
    /\ sync[p].at \in {"write", "rewrite"}
    /\ Refresh(sync[p].line, sync[p].view)
    /\ sync' = [sync EXCEPT ![p] = IF p = "sweep" /\ @.at = "write"
                                   THEN [@ EXCEPT !.at = "decide"] ELSE Resting]
    /\ UNCHANGED <<signing, opening, orphans, call, charge, event, job, crashes>>
    /\ UNCHANGED creditVars

\* The sweep closes a line never drawn on, defaults one with a balance.
Decide ==
    LET l == sync["sweep"].line
        m == mirror[l]
    IN  /\ sync["sweep"].at = "decide"
        /\ sync' = [sync EXCEPT !["sweep"].at =
                IF m.status = "open" THEN "close"
                ELSE IF m.status = "active" /\ MirrorOwed(m, l) > 0 THEN "default"
                ELSE "reread"]
        /\ UNCHANGED <<mirror, signing, opening, orphans, call, charge, event, job, crashes>>
        /\ UNCHANGED creditVars

Settle ==
    LET l == sync["sweep"].line
    IN  /\ \/ sync["sweep"].at = "close" /\ CloseUnused(l)
           \/ sync["sweep"].at = "default" /\ MarkDefaulted(l)
        /\ sync' = [sync EXCEPT !["sweep"].at = "reread"]
        /\ UNCHANGED <<mirror, signing, opening, orphans, call, charge, event, job, crashes>>

\* A read or a transaction fails: the worker swallows it, the sweep goes on to
\* its next line.
FailSync(p) ==
    /\ sync[p].at \in {"read", "reread", "close", "default"}
    /\ sync' = [sync EXCEPT ![p] = Resting]
    /\ UNCHANGED <<mirror, signing, opening, orphans, call, charge, event, job, crashes>>
    /\ UNCHANGED creditVars

\* Anyone may settle an expired line.
SettledByOthers(l) ==
    /\ CloseUnused(l) \/ MarkDefaulted(l)
    /\ UNCHANGED serverVars

Crash ==
    /\ crashes < MaxCrashes
    /\ crashes' = crashes + 1
    /\ signing' = [c \in Signings |->
                      IF signing[c].at = "recovering"
                      THEN [at |-> "done", other |-> FALSE] ELSE signing[c]]
    /\ opening' = [l \in Lines |-> [o \in Openers |-> "none"]]
    /\ orphans' = orphans \cup {l \in Lines : \E o \in Openers : opening[l][o] = "sent"}
    /\ call' = [x \in Transfers |->
                   IF call[x].at \in {"waiting", "spending"}
                   THEN [at |-> IF x \in Keyed THEN "idle" ELSE "done", seen |-> NoMirror]
                   ELSE call[x]]
    /\ sync' = [p \in Syncers |-> Resting]
    /\ UNCHANGED <<mirror, charge, event, job>>
    /\ UNCHANGED creditVars

-----------------------------------------------------------------------------
SweepStep ==
    \/ \E l \in Lines : StartSweep(l)
    \/ ReadLine("sweep") \/ WriteMirror("sweep") \/ Decide \/ Settle
    \/ FailSync("sweep")

Next ==
    \/ \E l \in Lines : Propose(l) \/ SettledByOthers(l)
    \/ \E l \in Lines, o \in Openers :
          \/ StartOpening(l, o) \/ SimulateOpening(l, o) \/ MineOpening(l, o)
          \/ ReceiveOpening(l, o) \/ LoseOpening(l, o)
    \/ \E c \in Signings : StartSigning(c) \/ EndSigning(c)
    \/ \E l \in orphans : MineOrphan(l)
    \/ \E x \in Transfers :
          \/ StartCall(x) \/ Reserve(x) \/ Return(x) \/ Throw(x)
          \/ Anchor(x) \/ Prove(x) \/ GiveUp(x)
    \/ \E p \in Pays : Pay(p)
    \/ \E m \in Payers : EndCharge(m)
    \/ ReadLine("worker") \/ WriteMirror("worker") \/ FailSync("worker")
    \/ SweepStep
    \/ Tick /\ UNCHANGED serverVars
    \/ Crash

Spec == Init /\ [][Next]_vars

\* The clock and the timers go on; a read, or a settlement that the contract
\* accepts, does not fail for ever; a read that returned is written.
Fairness ==
    /\ WF_vars(Tick /\ UNCHANGED serverVars)
    /\ WF_vars(SweepStep)
    /\ SF_vars(ReadLine("sweep"))
    /\ SF_vars(Settle)

FairSpec == Spec /\ Fairness
=============================================================================

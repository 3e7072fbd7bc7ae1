--------------------------- MODULE LineProperties ---------------------------
(* Correctness properties of the server side of credit lines. *)
EXTENDS LineServer

\* Every variable has its type.
TypeOK ==
    /\ now \in 1 .. MaxTime /\ line \in [Lines -> Line]
    /\ fact \in [Transfers -> {"none", "timely", "late"}] /\ proven \subseteq Transfers
    /\ mirror \in [Lines -> Mirror]
    /\ signing \in [Signings -> [at : SigningPoints, other : BOOLEAN]]
    /\ opening \in [Lines -> [Openers -> OpeningPoints]]
    /\ orphans \subseteq Lines
    /\ call \in [Transfers -> [at : CallPoints, seen : Mirror]]
    /\ charge \in [Payers -> [status : ChargeStates, at : 0 .. MaxTime]]
    /\ event \subseteq Transfers
    /\ job \in [Transfers -> JobStates]
    /\ sync \in [Syncers -> [at : SyncPoints, line : Lines, view : View]]
    /\ crashes \in 0 .. MaxCrashes

\* The mirror shows a line as registered only when it is, whatever answers
\* were lost, however often the line was signed and whatever stale row was
\* written over it (credit.ts 266-301, 346-352).
MirrorOfRealLine ==
    \A l \in Lines :
        mirror[l].status \in {"open", "active", "repaid", "defaulted", "closed"}
            => line[l].status # "none"

\* A draw or a repayment makes a charge only when the contract knows its line.
\* (credit.ts 303-316, 318-324)
MoneyUnderOpenLine ==
    \A x \in Transfers : charge[x].status # "none" => line[LineOf(x)].status # "none"

\* What is anchored under a line is what the server booked for a charge that is
\* confirmed, though charges fail late, are deleted and made anew under one key.
\* (credit.ts 357-389, credit-exec.ts 86-98, spend.ts 441-451)
FactsAreBooked ==
    \A x \in Transfers :
        fact[x] # "none" =>
            x \in event /\ \E n \in Holders(x) : charge[n].status = "confirmed"

\* However many calls repeat a key, with whatever lines and amounts, its charge
\* is booked under one line only, and one fact is made of it.  (credit-exec.ts
\* 86-98)
OneFactPerCharge ==
    \A x, y \in Transfers :
        x # y /\ Key[x] = Key[y] => ~(x \in event /\ y \in event)
                                    /\ ~(job[x] # "none" /\ job[y] # "none")

\* What a payer's charge transfers: the recipient and the amount.
Paid(m) == IF m \in Pays THEN Payment[m]
           ELSE [to |-> IF IsDraw(m) THEN Terms[LineOf(m)].borrower
                                     ELSE Terms[LineOf(m)].lender,
                 amount |-> Transfer[m].amount]

\* What FactAnchor promises of its events (FactAnchor.sol 30-35): the amount
\* that was anchored reached the party it names.
FactsArePaid ==
    \A x \in Transfers :
        fact[x] # "none" => \E n \in Holders(x) : Paid(n) = Paid(x)

\* An expired line that the mirror shows as drawable ends in the mirror, however
\* stale the writes and however often reads and settlements fail.
ExpiredMirrorEnds ==
    \A l \in Lines : mirror[l].status \in {"open", "active"}
                        ~> mirror[l].status \notin {"open", "active"}
=============================================================================

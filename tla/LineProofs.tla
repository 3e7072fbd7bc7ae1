----------------------------- MODULE LineProofs -----------------------------
(***************************************************************************)
(* Proofs about the server side of credit lines (module LineServer), for   *)
(* all sets of lines, transfers and signings.                              *)
(*                                                                         *)
(* Whatever the server holds about a line that is registered, however old, *)
(* was read when the contract knew the line, and the contract never        *)
(* forgets one: so each copy of a status the server keeps is an invariant  *)
(* of its own (KnownInv).  BookInv orders the bookkeeping of a charge:     *)
(* confirmed and booked, then queued, then anchored.  A key that has a     *)
(* fact has a confirmed charge, and spend() deletes none of those.         *)
(***************************************************************************)
EXTENDS LineProperties, TLAPS

Known(l) == line[l].status # "none"

RealStatuses == {"open", "active", "repaid", "defaulted", "closed"}

ChainTypes ==
    /\ now \in 1 .. MaxTime /\ line \in [Lines -> Line]
    /\ fact \in [Transfers -> {"none", "timely", "late"}] /\ proven \subseteq Transfers

\* A refresh under way is of a line; one at rest may have none to be of.
SyncState == {r \in [at : SyncPoints, line : Lines \cup {AnyLine}, view : View] :
                 r.at = "idle" \/ r.line \in Lines}

ServerTypes ==
    /\ mirror \in [Lines -> Mirror]
    /\ signing \in [Signings -> [at : SigningPoints, other : BOOLEAN]]
    /\ opening \in [Lines -> [Openers -> OpeningPoints]]
    /\ orphans \subseteq Lines
    /\ call \in [Transfers -> [at : CallPoints, seen : Mirror]]
    /\ charge \in [Payers -> [status : ChargeStates, at : 0 .. MaxTime]]
    /\ event \subseteq Transfers
    /\ job \in [Transfers -> JobStates]
    /\ sync \in [Syncers -> SyncState]
    /\ crashes \in 0 .. MaxCrashes

\* Everywhere the server says that a line is registered, it is.
KnownInv ==
    /\ \A l \in Lines : mirror[l].status \in RealStatuses => Known(l)
    /\ \A l \in Lines, o \in Openers : opening[l][o] = "landed" => Known(l)
    /\ \A x \in Transfers : call[x].at \in {"waiting", "spending"} => Known(LineOf(x))
    /\ \A x \in Transfers : charge[x].status # "none" => Known(LineOf(x))
    /\ \A p \in Syncers : sync[p].view.status # "none" =>
           sync[p].line \in Lines /\ Known(sync[p].line)

\* Some payer's charge under the key of x is confirmed.
Secure(x) == \E n \in Payers : Key[n] = Key[x] /\ charge[n].status = "confirmed"

\* A fact is queued for a booked transfer under whose key a charge is confirmed,
\* anchored when queued; a key has one event.
BookInv ==
    /\ \A x \in Transfers : job[x] # "none" => Secure(x) /\ x \in event
    /\ \A x \in Transfers : fact[x] # "none" => job[x] # "none"
    /\ \A x \in event, y \in event : Key[x] = Key[y] => x = y

Inv == ChainTypes /\ ServerTypes /\ KnownInv /\ BookInv

-----------------------------------------------------------------------------
(* The contract: it keeps its types and never forgets a line. *)

KnownGrows == \A l \in Lines : Known(l) => line'[l].status # "none"

LEMMA TransferFields ==
    ASSUME NEW x \in Transfers
    PROVE  Transfer[x].line \in Lines /\ Transfer[x].amount \in Nat
BY CreditAssumption

LEMMA LineWritten ==
    ASSUME ChainTypes, NEW l \in Lines, NEW r \in Line, r.status # "none",
           line' = [line EXCEPT ![l] = r]
    PROVE  line' \in [Lines -> Line] /\ KnownGrows /\ line'[l].status # "none"
BY DEF ChainTypes, KnownGrows, Known

LEMMA Opened ==
    ASSUME ChainTypes, NEW l \in Lines, OpenLine(l)
    PROVE  ChainTypes' /\ KnownGrows /\ line'[l].status # "none"
<1> DEFINE r == [line[l] EXCEPT !.status = "open"]
<1>1. line' = [line EXCEPT ![l] = r]
  BY DEF OpenLine, ChainTypes
<1>2. r \in Line /\ r.status # "none"
  BY DEF ChainTypes, Line, LineStatuses
<1> HIDE DEF r
<1> QED
  BY <1>1, <1>2, LineWritten DEF OpenLine, ChainTypes

LEMMA Settled ==
    ASSUME ChainTypes, NEW l \in Lines, CloseUnused(l) \/ MarkDefaulted(l)
    PROVE  ChainTypes' /\ KnownGrows /\ UNCHANGED <<fact, proven>>
<1>1. CASE CloseUnused(l)
  <2> DEFINE r == [line[l] EXCEPT !.status = "closed"]
  <2>1. line' = [line EXCEPT ![l] = r]
    BY <1>1 DEF CloseUnused, ChainTypes
  <2>2. r \in Line /\ r.status # "none"
    BY DEF ChainTypes, Line, LineStatuses
  <2> HIDE DEF r
  <2> QED
    BY <1>1, <2>1, <2>2, LineWritten DEF CloseUnused, ChainTypes
<1>2. CASE MarkDefaulted(l)
  <2> DEFINE r == [line[l] EXCEPT !.status = "defaulted", !.defaultedAt = now]
  <2>1. line' = [line EXCEPT ![l] = r]
    BY <1>2 DEF MarkDefaulted, ChainTypes
  <2>2. line[l] \in Line /\ now \in Nat
    BY CreditAssumption DEF ChainTypes
  <2>3. r \in Line /\ r.status # "none"
    BY <2>2 DEF Line, LineStatuses
  <2> HIDE DEF r
  <2> QED
    BY <1>2, <2>1, <2>3, LineWritten DEF MarkDefaulted, ChainTypes
<1> QED
  BY <1>1, <1>2

LEMMA FactProven ==
    ASSUME ChainTypes, NEW x \in Transfers, ProveDraw(x) \/ ProveRepayment(x)
    PROVE  /\ ChainTypes' /\ KnownGrows /\ UNCHANGED fact
           /\ proven' = proven \cup {x} /\ fact[x] # "none"
<1> DEFINE l == Transfer[x].line
           a == Transfer[x].amount
<1>1. l \in Lines /\ a \in Nat
  BY TransferFields
<1> HIDE DEF l, a
<1>2. line[l] \in Line
  BY <1>1 DEF ChainTypes
<1>3. CASE ProveDraw(x)
  <2> DEFINE r == [line[l] EXCEPT !.drawn = @ + a, !.status = "active"]
  <2>1. line' = [line EXCEPT ![l] = r]
    BY <1>3, <1>2 DEF ProveDraw, ChainTypes, l, a
  <2>2. line[l].drawn + a \in Nat
    BY <1>1, <1>2 DEF Line
  <2>3. r \in Line /\ r.status = "active"
    BY <1>2, <2>2 DEF Line, LineStatuses
  <2> HIDE DEF r
  <2> QED
    BY <1>1, <1>3, <2>1, <2>3, LineWritten DEF ProveDraw, Provable, ChainTypes
<1>4. CASE ProveRepayment(x)
  <2> DEFINE full == InFull(l, line[l].repaid + a)
             r == [line[l] EXCEPT !.repaid = line[l].repaid + a,
                                  !.status = IF full THEN "repaid" ELSE @]
  <2>1. line' = [line EXCEPT ![l] = r]
    BY <1>4, <1>2 DEF ProveRepayment, ChainTypes, l, a
  <2>2. line[l].status \in {"active", "defaulted"}
    BY <1>4 DEF ProveRepayment, l
  <2>3. line[l].repaid + a \in Nat
    BY <1>1, <1>2 DEF Line
  <2> HIDE DEF full
  <2>4. /\ r \in Line
        /\ r.status = IF full THEN "repaid" ELSE line[l].status
    BY <1>2, <2>3 DEF Line, LineStatuses
  <2> HIDE DEF r
  <2>5. r.status # "none"
    BY <2>2, <2>4
  <2>6. line' \in [Lines -> Line] /\ KnownGrows
    BY <1>1, <2>1, <2>4, <2>5, LineWritten
  <2> QED
    BY <1>4, <2>6 DEF ProveRepayment, Provable, ChainTypes
<1> QED
  BY <1>3, <1>4

LEMMA ChainKept ==
    ASSUME ChainTypes, UNCHANGED creditVars
    PROVE  ChainTypes' /\ KnownGrows /\ UNCHANGED <<line, fact, proven>>
BY DEF ChainTypes, KnownGrows, Known, creditVars

\* What the server holds stays true of a contract that moved on.
LEMMA ServerKept ==
    ASSUME ServerTypes, KnownInv, KnownGrows, UNCHANGED serverVars
    PROVE  ServerTypes' /\ KnownInv'
<1>1. ServerTypes'
  BY DEF ServerTypes, serverVars
<1>2. \A x \in Transfers : LineOf(x) \in Lines
  BY TransferFields DEF LineOf
<1> QED
  BY <1>1, <1>2 DEF KnownInv, KnownGrows, Known, LineOf, serverVars

-----------------------------------------------------------------------------
(* Proposing, signing and registering a line. *)

\* A row whose status is not of a registered line, or whose line is known, is
\* as good as the one it replaces.
LEMMA RowWritten ==
    ASSUME Inv, NEW l \in Lines, NEW m \in Mirror,
           mirror' = [mirror EXCEPT ![l] = m],
           m.status \in RealStatuses => Known(l),
           UNCHANGED creditVars
    PROVE  /\ mirror' \in [Lines -> Mirror]
           /\ \A k \in Lines : mirror'[k].status \in RealStatuses => Known(k)'
BY DEF Inv, ServerTypes, KnownInv, Known, creditVars

\* The row m with another status is a row.
LEMMA StatusWritten ==
    ASSUME NEW m \in Mirror, NEW s \in MirrorStatuses
    PROVE  [m EXCEPT !.status = s] \in Mirror /\ [m EXCEPT !.status = s].status = s
BY DEF Mirror

LEMMA RowsOfLines ==
    ASSUME Inv
    PROVE  /\ \A l \in Lines : mirror[l] \in Mirror
           /\ \A c \in Signings : Signing[c].line \in Lines
           /\ \A x \in Transfers : LineOf(x) \in Lines
BY ServerAssumption, TransferFields DEF Inv, ServerTypes, LineOf

LEMMA ProposeKeeps ==
    ASSUME Inv, NEW l \in Lines, Propose(l)
    PROVE  Inv'
<1>1. /\ [mirror[l] EXCEPT !.status = "proposed"] \in Mirror
      /\ [mirror[l] EXCEPT !.status = "proposed"].status = "proposed"
  BY RowsOfLines, StatusWritten DEF MirrorStatuses
<1>2. /\ mirror' \in [Lines -> Mirror]
      /\ \A k \in Lines : mirror'[k].status \in RealStatuses => Known(k)'
  BY <1>1, RowWritten DEF Propose, RealStatuses
<1> QED
  BY <1>2 DEF Propose, Inv, ChainTypes, ServerTypes, KnownInv, Known, BookInv, Secure,
              creditVars

LEMMA SigningKeeps ==
    ASSUME Inv, NEW c \in Signings, StartSigning(c) \/ EndSigning(c)
    PROVE  Inv'
<1>1. CASE StartSigning(c)
  BY <1>1 DEF StartSigning, Inv, ChainTypes, ServerTypes, KnownInv, Known, BookInv, Secure,
              creditVars, SigningPoints
<1>2. CASE EndSigning(c)
  <2> DEFINE l == Signing[c].line
             m == [mirror[l] EXCEPT !.sigs = @ \cup {Signing[c].party},
                                    !.status = SignedStatus(@, c)]
  <2>1. l \in Lines /\ mirror[l] \in Mirror
    BY RowsOfLines
  <2>2. mirror' = [mirror EXCEPT ![l] = m]
    BY <1>2 DEF EndSigning
  <2>3. Signing[c].party \in Parties
    BY ServerAssumption
  <2>4. SignedStatus(mirror[l].status, c) \in {"signed", mirror[l].status}
    BY DEF SignedStatus
  <2>5. m \in Mirror /\ m.status \in {"signed", mirror[l].status}
    BY <2>1, <2>3, <2>4 DEF Mirror, MirrorStatuses
  <2>6. m.status \in RealStatuses => Known(l)
    BY <2>1, <2>5 DEF RealStatuses, Inv, KnownInv
  <2> HIDE DEF m
  <2>7. /\ mirror' \in [Lines -> Mirror]
        /\ \A k \in Lines : mirror'[k].status \in RealStatuses => Known(k)'
    BY <1>2, <2>1, <2>2, <2>5, <2>6, RowWritten DEF EndSigning
  <2>8. signing' \in [Signings -> [at : SigningPoints, other : BOOLEAN]]
    BY <1>2 DEF EndSigning, Inv, ServerTypes, SigningPoints
  <2> QED
    BY <1>2, <2>7, <2>8 DEF EndSigning, Inv, ChainTypes, ServerTypes, KnownInv, Known,
                            BookInv, Secure, creditVars
<1> QED
  BY <1>1, <1>2

\* A call of openLineOnChain moves on; none lands by it.
LEMMA PointWritten ==
    ASSUME Inv, NEW l \in Lines, NEW o \in Openers,
           NEW w \in OpeningPoints \ {"landed"},
           opening' = [opening EXCEPT ![l][o] = w]
    PROVE  /\ opening' \in [Lines -> [Openers -> OpeningPoints]]
           /\ \A k \in Lines, q \in Openers :
                  opening'[k][q] = "landed" => opening[k][q] = "landed"
<1>1. opening \in [Lines -> [Openers -> OpeningPoints]]
  BY DEF Inv, ServerTypes
<1>2. opening' = [k \in Lines |-> [q \in Openers |->
                    IF k = l /\ q = o THEN w ELSE opening[k][q]]]
  BY <1>1
<1> QED
  BY <1>1, <1>2

\* The end of an attempt to register: the row takes a status it may take.
LEMMA EndOpeningKeeps ==
    ASSUME Inv, NEW l \in Lines, NEW o \in Openers, NEW s \in MirrorStatuses,
           EndOpening(l, o, s),
           s \in RealStatuses => Known(l), orphans' \subseteq Lines,
           UNCHANGED <<signing, call, charge, event, job, sync, crashes>>,
           UNCHANGED creditVars
    PROVE  Inv'
<1> DEFINE m == [mirror[l] EXCEPT !.status = s]
<1>1. m \in Mirror /\ m.status = s
  BY RowsOfLines, StatusWritten
<1>2. mirror' = [mirror EXCEPT ![l] = m]
  BY DEF EndOpening
<1> HIDE DEF m
<1>3. /\ mirror' \in [Lines -> Mirror]
      /\ \A k \in Lines : mirror'[k].status \in RealStatuses => Known(k)'
  BY <1>1, <1>2, RowWritten
<1>4. /\ opening' \in [Lines -> [Openers -> OpeningPoints]]
      /\ \A k \in Lines, q \in Openers : opening'[k][q] = "landed" => opening[k][q] = "landed"
  BY PointWritten DEF EndOpening, OpeningPoints
<1> QED
  BY <1>3, <1>4 DEF Inv, ChainTypes, ServerTypes, KnownInv, Known, BookInv, Secure, creditVars

LEMMA StartOpeningKeeps ==
    ASSUME Inv, NEW l \in Lines, NEW o \in Openers, StartOpening(l, o)
    PROVE  Inv'
<1>1. /\ [mirror[l] EXCEPT !.status = "opening"] \in Mirror
      /\ [mirror[l] EXCEPT !.status = "opening"].status = "opening"
  BY RowsOfLines, StatusWritten DEF MirrorStatuses
<1>2. /\ mirror' \in [Lines -> Mirror]
      /\ \A k \in Lines : mirror'[k].status \in RealStatuses => Known(k)'
  BY <1>1, RowWritten DEF StartOpening, RealStatuses
<1>3. /\ opening' \in [Lines -> [Openers -> OpeningPoints]]
      /\ \A k \in Lines, q \in Openers : opening'[k][q] = "landed" => opening[k][q] = "landed"
  BY PointWritten DEF StartOpening, OpeningPoints
<1> QED
  BY <1>2, <1>3 DEF StartOpening, Inv, ChainTypes, ServerTypes, KnownInv, Known, BookInv, Secure,
                    creditVars

LEMMA SimulateOpeningKeeps ==
    ASSUME Inv, NEW l \in Lines, NEW o \in Openers, SimulateOpening(l, o)
    PROVE  Inv'
<1>1. ASSUME NEW s \in {"failed", "signed"}, EndOpening(l, o, s)
      PROVE  Inv'
  BY <1>1, EndOpeningKeeps
     DEF SimulateOpening, MirrorStatuses, RealStatuses, Inv, ServerTypes
<1>2. CASE opening' = [opening EXCEPT ![l][o] = "sent"] /\ UNCHANGED mirror
  <2>1. /\ opening' \in [Lines -> [Openers -> OpeningPoints]]
        /\ \A k \in Lines, q \in Openers :
               opening'[k][q] = "landed" => opening[k][q] = "landed"
    BY <1>2, PointWritten DEF OpeningPoints
  <2> QED
    BY <1>2, <2>1 DEF SimulateOpening, Inv, ChainTypes, ServerTypes, KnownInv, Known,
                      BookInv, Secure, creditVars
<1> QED
  BY <1>1, <1>2 DEF SimulateOpening

LEMMA MineOpeningKeeps ==
    ASSUME Inv, NEW l \in Lines, NEW o \in Openers, MineOpening(l, o)
    PROVE  Inv'
<1>1. ChainTypes' /\ KnownGrows /\ line'[l].status # "none"
  BY Opened DEF MineOpening, Inv
<1>2. /\ opening' \in [Lines -> [Openers -> OpeningPoints]]
      /\ \A k \in Lines, q \in Openers :
             opening'[k][q] = "landed" => opening[k][q] = "landed" \/ k = l
  BY DEF MineOpening, Inv, ServerTypes, OpeningPoints
<1>3. UNCHANGED <<fact, proven>>
  BY DEF MineOpening, OpenLine
<1> QED
  BY <1>1, <1>2, <1>3, RowsOfLines
     DEF MineOpening, Inv, ServerTypes, KnownInv, KnownGrows, Known, BookInv, Secure, LineOf

LEMMA ReceiveOpeningKeeps ==
    ASSUME Inv, NEW l \in Lines, NEW o \in Openers, ReceiveOpening(l, o)
    PROVE  Inv'
<1>1. Known(l)
  BY DEF ReceiveOpening, Inv, KnownInv
<1> QED
  BY <1>1, EndOpeningKeeps DEF ReceiveOpening, MirrorStatuses, Inv, ServerTypes

LEMMA LoseOpeningKeeps ==
    ASSUME Inv, NEW l \in Lines, NEW o \in Openers, LoseOpening(l, o)
    PROVE  Inv'
<1>1. orphans' \subseteq Lines
  BY DEF LoseOpening, Inv, ServerTypes
<1> QED
  BY <1>1, EndOpeningKeeps DEF LoseOpening, AfterLostOpening, MirrorStatuses, RealStatuses

LEMMA MineOrphanKeeps ==
    ASSUME Inv, NEW l \in orphans, MineOrphan(l)
    PROVE  Inv'
<1>1. l \in Lines
  BY DEF Inv, ServerTypes
<1>2. ChainTypes' /\ KnownGrows
  BY <1>1, Opened DEF MineOrphan, Inv
<1>3. UNCHANGED <<fact, proven>>
  BY DEF MineOrphan, OpenLine
<1> QED
  BY <1>2, <1>3, RowsOfLines
     DEF MineOrphan, Inv, ServerTypes, KnownInv, KnownGrows, Known, BookInv, Secure, LineOf

-----------------------------------------------------------------------------
(* Draws and repayments. *)

LEMMA StartCallKeeps ==
    ASSUME Inv, NEW x \in Transfers, StartCall(x)
    PROVE  Inv'
<1>1. Known(LineOf(x)) /\ mirror[LineOf(x)] \in Mirror
  BY RowsOfLines DEF StartCall, MayDraw, MayRepay, Inv, KnownInv, RealStatuses
<1>2. call' \in [Transfers -> [at : CallPoints, seen : Mirror]]
  BY <1>1 DEF StartCall, Inv, ServerTypes, CallPoints
<1>3. \A y \in Transfers : call'[y].at \in {"waiting", "spending"} => Known(LineOf(y))
  BY <1>1 DEF StartCall, Inv, ServerTypes, KnownInv
<1> QED
  BY <1>2, <1>3 DEF StartCall, Inv, ChainTypes, ServerTypes, KnownInv, Known, BookInv, Secure,
                    creditVars

\* A charge is made under a key that no fact rests on.
LEMMA ReservedKeeps ==
    ASSUME Inv, NEW m \in Payers, ReserveFor(m),
           m \in Transfers => Known(LineOf(m)),
           call' \in [Transfers -> [at : CallPoints, seen : Mirror]],
           \A y \in Transfers : call'[y].at \in {"waiting", "spending"} =>
                                    call[y].at \in {"waiting", "spending"},
           UNCHANGED <<mirror, signing, opening, orphans, job, sync, crashes>>,
           UNCHANGED creditVars
    PROVE  Inv'
<1>1. now \in 0 .. MaxTime /\ 0 \in 0 .. MaxTime
  BY CreditAssumption DEF Inv, ChainTypes
<1>2. charge' \in [Payers -> [status : ChargeStates, at : 0 .. MaxTime]]
  BY <1>1 DEF ReserveFor, Inv, ServerTypes, ChargeStates
<1>3. \A y \in Transfers : charge'[y].status # "none" => Known(LineOf(y))
  BY DEF ReserveFor, Payers, Inv, KnownInv
<1>4. \A n \in Payers : charge[n].status = "confirmed" =>
          Key[n] # Key[m] /\ charge'[n] = charge[n]
  BY DEF ReserveFor, Holders
<1>5. \A y \in Transfers : Secure(y) => Secure(y)' /\ Key[y] # Key[m]
  BY <1>4 DEF Secure
<1>6. BookInv'
  BY <1>5 DEF ReserveFor, Inv, BookInv, Secure, creditVars
<1>7. ServerTypes'
  BY <1>2 DEF ReserveFor, Inv, ServerTypes
<1>8. ChainTypes' /\ KnownInv'
  BY <1>3 DEF Inv, ChainTypes, KnownInv, Known, creditVars
<1> QED
  BY <1>6, <1>7, <1>8 DEF Inv

LEMMA ReserveKeeps ==
    ASSUME Inv, NEW x \in Transfers, Reserve(x)
    PROVE  Inv'
<1>1. x \in Payers /\ Known(LineOf(x))
  BY DEF Reserve, Payers, Inv, KnownInv
<1>2. /\ call' \in [Transfers -> [at : CallPoints, seen : Mirror]]
      /\ \A y \in Transfers : call'[y].at \in {"waiting", "spending"} =>
                                  call[y].at \in {"waiting", "spending"}
  BY DEF Reserve, Inv, ServerTypes, CallPoints
<1> QED
  BY <1>1, <1>2, ReservedKeeps DEF Reserve

LEMMA PayKeeps ==
    ASSUME Inv, NEW p \in Pays, Pay(p)
    PROVE  Inv'
<1>1. p \in Payers /\ p \notin Transfers
  BY ServerAssumption DEF Payers
<1>2. call \in [Transfers -> [at : CallPoints, seen : Mirror]] /\ UNCHANGED call
  BY DEF Pay, Inv, ServerTypes
<1> QED
  BY <1>1, <1>2, ReservedKeeps DEF Pay

LEMMA EndChargeKeeps ==
    ASSUME Inv, NEW m \in Payers, EndCharge(m)
    PROVE  Inv'
<1>1. PICK r \in {"confirmed", "failed", "unsent"} :
         charge' = [charge EXCEPT ![m].status = r]
  BY DEF EndCharge
<1>2. charge' \in [Payers -> [status : ChargeStates, at : 0 .. MaxTime]]
  BY <1>1 DEF Inv, ServerTypes, ChargeStates
<1>3. \A n \in Payers : /\ charge'[n].status # "none" => charge[n].status # "none"
                        /\ charge[n].status = "confirmed" => charge'[n] = charge[n]
  BY <1>1 DEF EndCharge, Inv, ServerTypes
<1>4. \A y \in Transfers : Secure(y) => Secure(y)'
  BY <1>3 DEF Secure
<1>5. \A y \in Transfers : charge'[y].status # "none" => Known(LineOf(y))
  BY <1>3 DEF Payers, Inv, KnownInv
<1>6. BookInv'
  BY <1>4 DEF EndCharge, Inv, BookInv, Secure, creditVars
<1>7. ServerTypes'
  BY <1>2 DEF EndCharge, Inv, ServerTypes
<1>8. ChainTypes' /\ KnownInv'
  BY <1>5 DEF EndCharge, Inv, ChainTypes, KnownInv, Known, creditVars
<1> QED
  BY <1>6, <1>7, <1>8 DEF Inv

\* A call that leaves holds nothing any more.
LEMMA Left ==
    ASSUME Inv, NEW x \in Transfers, Leave(x)
    PROVE  /\ call' \in [Transfers -> [at : CallPoints, seen : Mirror]]
           /\ \A y \in Transfers : call'[y].at \in {"waiting", "spending"} =>
                                       call[y].at \in {"waiting", "spending"}
<1>1. NoMirror \in Mirror
  BY DEF NoMirror, Mirror, MirrorStatuses
<1> QED
  BY <1>1 DEF Leave, Inv, ServerTypes, CallPoints

LEMMA ThrowKeeps ==
    ASSUME Inv, NEW x \in Transfers, Throw(x)
    PROVE  Inv'
BY Left DEF Throw, Inv, ChainTypes, ServerTypes, KnownInv, Known, BookInv, Secure, creditVars

\* A row is written from an old one only for a line that is known, and a charge
\* gets one event.
LEMMA Booked ==
    ASSUME Inv, NEW x \in Transfers, call[x].at \in {"waiting", "spending"}, Book(x),
           UNCHANGED creditVars
    PROVE  /\ mirror' \in [Lines -> Mirror]
           /\ \A k \in Lines : mirror'[k].status \in RealStatuses => Known(k)'
           /\ event \subseteq event' /\ event' \subseteq Transfers
           /\ \A y \in event', z \in event' : Key[y] = Key[z] => y = z
<1>1. CASE ~Unbooked(x)
  BY <1>1 DEF Book, Inv, ServerTypes, KnownInv, BookInv, Secure, Known, creditVars
<1>2. CASE Unbooked(x)
  <2> DEFINE l == LineOf(x)
             a == Transfer[x].amount
             seen == call[x].seen
             m == IF IsDraw(x)
                  THEN [mirror[l] EXCEPT !.drawn = seen.drawn + a, !.status = "active"]
                  ELSE [mirror[l] EXCEPT !.repaid = seen.repaid + a]
  <2>1. l \in Lines /\ a \in Nat /\ mirror[l] \in Mirror /\ Known(l)
    BY TransferFields, RowsOfLines DEF Inv, KnownInv
  <2>2. seen \in Mirror
    BY DEF Inv, ServerTypes
  <2>3. seen.drawn + a \in Nat /\ seen.repaid + a \in Nat
    BY <2>1, <2>2 DEF Mirror
  <2>4. mirror' = [mirror EXCEPT ![l] = m]
    BY <1>2, <2>1 DEF Book, Inv, ServerTypes
  <2> HIDE DEF seen
  <2>5. m \in Mirror
    BY <2>1, <2>3 DEF Mirror, MirrorStatuses
  <2> HIDE DEF m
  <2>6. /\ mirror' \in [Lines -> Mirror]
        /\ \A k \in Lines : mirror'[k].status \in RealStatuses => Known(k)'
    BY <2>1, <2>4, <2>5, RowWritten
  <2>7. /\ event \subseteq event' /\ event' \subseteq Transfers
        /\ \A y \in event', z \in event' : Key[y] = Key[z] => y = z
    BY <1>2 DEF Book, Unbooked, Inv, ServerTypes, BookInv, Secure
  <2> QED
    BY <2>6, <2>7
<1> QED
  BY <1>1, <1>2

LEMMA ReturnKeeps ==
    ASSUME Inv, NEW x \in Transfers, Return(x)
    PROVE  Inv'
<1>1. /\ mirror' \in [Lines -> Mirror]
      /\ \A k \in Lines : mirror'[k].status \in RealStatuses => Known(k)'
      /\ event \subseteq event' /\ event' \subseteq Transfers
      /\ \A y \in event', z \in event' : Key[y] = Key[z] => y = z
  BY Booked DEF Return
<1>2. Factual(x) => \A y \in Transfers : Key[y] = Key[x] => Secure(y)
  BY DEF Factual, Holders, Secure
<1>3. /\ job' \in [Transfers -> JobStates]
      /\ \A y \in Transfers : /\ job[y] # "none" => job'[y] # "none"
                              /\ job'[y] # "none" =>
                                    job[y] # "none" \/ (Secure(y) /\ y \in event')
  BY <1>2 DEF Return, EnqueueFact, Inv, ServerTypes, JobStates
<1>4. \A y \in Transfers : Secure(y) <=> Secure(y)'
  BY DEF Return, Secure
<1>5. BookInv'
  BY <1>1, <1>3, <1>4 DEF Return, Inv, BookInv, Secure, creditVars
<1>6. ServerTypes'
  BY <1>1, <1>3, Left DEF Return, Inv, ServerTypes
<1>7. ChainTypes' /\ KnownInv'
  BY <1>1, Left DEF Return, Inv, ChainTypes, KnownInv, Known, creditVars
<1> QED
  BY <1>5, <1>6, <1>7 DEF Inv

-----------------------------------------------------------------------------
(* The facts. *)

LEMMA AnchorKeeps ==
    ASSUME Inv, NEW x \in Transfers, Anchor(x)
    PROVE  Inv'
<1>1. PICK at \in {"timely", "late"} : fact' = [fact EXCEPT ![x] = at]
  BY DEF Anchor, AnchorTransfer
<1>2. UNCHANGED <<now, line, proven>>
  BY DEF Anchor, AnchorTransfer
<1>3. ChainTypes' /\ KnownGrows
  BY <1>1, <1>2 DEF Inv, ChainTypes, KnownGrows, Known
<1>4. ServerTypes' /\ KnownInv'
  BY <1>3, ServerKept DEF Anchor, Inv
<1>5. job[x] # "none" /\ UNCHANGED <<charge, event, job>>
  BY DEF Anchor, serverVars
<1>6. BookInv'
  BY <1>1, <1>2, <1>5 DEF Inv, ChainTypes, BookInv, Secure
<1> QED
  BY <1>3, <1>4, <1>6 DEF Inv

LEMMA ProveKeeps ==
    ASSUME Inv, NEW x \in Transfers, Prove(x)
    PROVE  Inv'
<1>1. /\ ChainTypes' /\ KnownGrows /\ UNCHANGED fact
      /\ proven' = proven \cup {x} /\ fact[x] # "none"
  BY FactProven DEF Prove, Inv
<1>2. job' \in [Transfers -> JobStates]
      /\ \A y \in Transfers : job'[y] # "none" <=> job[y] # "none"
  BY DEF Prove, Inv, ServerTypes, JobStates
<1>3. /\ sync' \in [Syncers -> SyncState]
      /\ \A p \in Syncers : \/ sync'[p] = sync[p]
                            \/ sync'[p].view.status = "none"
  <2>1. [at |-> "read", line |-> LineOf(x), view |-> NoView] \in SyncState
    BY RowsOfLines DEF SyncState, SyncPoints, NoView, View, LineStatuses
  <2> QED
    BY <2>1 DEF Prove, Inv, ServerTypes, Syncers, NoView
<1>4. UNCHANGED <<mirror, signing, opening, orphans, call, charge, event, crashes>>
  BY DEF Prove
<1>5. ServerTypes'
  BY <1>2, <1>3, <1>4 DEF Inv, ServerTypes
<1>6. \A l \in Lines : Known(l) => Known(l)'
  BY <1>1 DEF KnownGrows, Known
<1>7. \A p \in Syncers : sync'[p].view.status # "none" =>
         sync'[p].line \in Lines /\ line'[sync'[p].line].status # "none"
  BY <1>1, <1>3 DEF Inv, KnownInv, KnownGrows
<1>8. KnownInv'
  BY <1>4, <1>6, <1>7, RowsOfLines DEF Inv, KnownInv, Known, LineOf
<1>9. BookInv'
  BY <1>1, <1>2, <1>4 DEF Inv, BookInv, Secure
<1> QED
  BY <1>1, <1>5, <1>8, <1>9 DEF Inv

LEMMA GiveUpKeeps ==
    ASSUME Inv, NEW x \in Transfers, GiveUp(x)
    PROVE  Inv'
<1>1. job' \in [Transfers -> JobStates]
      /\ \A y \in Transfers : job'[y] # "none" <=> job[y] # "none"
  BY DEF GiveUp, Inv, ServerTypes, JobStates
<1> QED
  BY <1>1 DEF GiveUp, Inv, ChainTypes, ServerTypes, KnownInv, Known, BookInv, Secure, creditVars

-----------------------------------------------------------------------------
(* The two ways in which the mirror is refreshed. *)

\* A refresh that moves on, and leaves what it read as it is or forgets it.
LEMMA SyncMoved ==
    ASSUME Inv, sync' \in [Syncers -> SyncState],
           \A p \in Syncers : sync'[p].view.status # "none" =>
               sync'[p].line \in Lines /\ Known(sync'[p].line),
           UNCHANGED <<mirror, signing, opening, orphans, call, charge, event, job>>,
           crashes' \in 0 .. MaxCrashes, UNCHANGED creditVars
    PROVE  Inv'
BY DEF Inv, ChainTypes, ServerTypes, KnownInv, Known, BookInv, Secure, creditVars

LEMMA RestingState ==
    Resting \in SyncState /\ Resting.view.status = "none"
BY DEF Resting, SyncState, SyncPoints, NoView, View, LineStatuses

\* Only the point of a refresh changes.
LEMMA PointMoved ==
    ASSUME Inv, NEW p \in Syncers, NEW a \in SyncPoints \ {"idle"}, sync[p].at # "idle",
           sync' = [sync EXCEPT ![p].at = a]
    PROVE  /\ sync' \in [Syncers -> SyncState]
           /\ \A q \in Syncers : sync'[q].view.status # "none" =>
                  sync'[q].line \in Lines /\ Known(sync'[q].line)
<1>1. sync[p] \in SyncState
  BY DEF Inv, ServerTypes
<1>2. [sync[p] EXCEPT !.at = a] \in SyncState
  BY <1>1 DEF SyncState
<1> QED
  BY <1>2 DEF Inv, ServerTypes, KnownInv

LEMMA StartSweepKeeps ==
    ASSUME Inv, NEW l \in Lines, StartSweep(l)
    PROVE  Inv'
<1>1. [at |-> "read", line |-> l, view |-> NoView] \in SyncState
  BY DEF SyncState, SyncPoints, NoView, View, LineStatuses
<1>2. /\ sync' \in [Syncers -> SyncState]
      /\ \A p \in Syncers : sync'[p] = sync[p] \/ sync'[p].view.status = "none"
  BY <1>1 DEF StartSweep, Inv, ServerTypes, Syncers, NoView
<1> QED
  BY <1>2, SyncMoved DEF StartSweep, Inv, ServerTypes, KnownInv

LEMMA ReadLineKeeps ==
    ASSUME Inv, NEW p \in Syncers, ReadLine(p)
    PROVE  Inv'
<1> DEFINE l == sync[p].line
           view == [status |-> line[l].status, drawn |-> line[l].drawn,
                    repaid |-> line[l].repaid]
           a == IF sync[p].at = "read" THEN "write" ELSE "rewrite"
           w == [sync[p] EXCEPT !.at = a, !.view = view]
<1>1. sync[p] \in SyncState /\ l \in Lines
  BY DEF ReadLine, Inv, ServerTypes, SyncState
<1>2. line[l] \in Line
  BY <1>1 DEF Inv, ChainTypes
<1>3. view \in View /\ (view.status # "none" => Known(l))
  BY <1>2 DEF Line, View, Known
<1>4. sync' = [sync EXCEPT ![p] = w]
  BY DEF ReadLine, Inv, ServerTypes
<1> HIDE DEF view
<1>5. w \in SyncState /\ w.line = l /\ w.view = view
  BY <1>1, <1>3 DEF SyncState, SyncPoints
<1> HIDE DEF w
<1>6. /\ sync' \in [Syncers -> SyncState]
      /\ \A q \in Syncers : sync'[q].view.status # "none" =>
             sync'[q].line \in Lines /\ Known(sync'[q].line)
  BY <1>1, <1>3, <1>4, <1>5 DEF Inv, ServerTypes, KnownInv
<1> QED
  BY <1>6, SyncMoved DEF ReadLine, Inv, ServerTypes

LEMMA WriteMirrorKeeps ==
    ASSUME Inv, NEW p \in Syncers, WriteMirror(p)
    PROVE  Inv'
<1> DEFINE l == sync[p].line
           view == sync[p].view
<1>1. sync[p] \in SyncState /\ l \in Lines /\ view \in View
  BY DEF WriteMirror, Inv, ServerTypes, SyncState
<1>2. /\ mirror' \in [Lines -> Mirror]
      /\ \A k \in Lines : mirror'[k].status \in RealStatuses => Known(k)'
  <2>1. CASE view.status = "none"
    BY <2>1 DEF WriteMirror, Refresh, Inv, ServerTypes, KnownInv, Known, creditVars
  <2>2. CASE view.status # "none"
    <3> DEFINE m == [mirror[l] EXCEPT !.status = view.status, !.drawn = view.drawn,
                                      !.repaid = view.repaid]
    <3>1. Known(l)
      BY <2>2 DEF Inv, KnownInv
    <3>2. mirror' = [mirror EXCEPT ![l] = m]
      BY <1>1, <2>2 DEF WriteMirror, Refresh, Inv, ServerTypes
    <3>3. mirror[l] \in Mirror
      BY <1>1, RowsOfLines
    <3> HIDE DEF view
    <3>4. m \in Mirror
      BY <1>1, <3>3 DEF Mirror, View, MirrorStatuses, LineStatuses
    <3> HIDE DEF m
    <3> QED
      BY <1>1, <3>1, <3>2, <3>4, RowWritten DEF WriteMirror
  <2> QED
    BY <2>1, <2>2
<1>3. /\ sync' \in [Syncers -> SyncState]
      /\ \A q \in Syncers : sync'[q].view.status # "none" =>
             sync'[q].line \in Lines /\ Known(sync'[q].line)
  <2>1. CASE p = "sweep" /\ sync[p].at = "write"
    <3>1. sync' = [sync EXCEPT ![p].at = "decide"]
      BY <2>1 DEF WriteMirror, Inv, ServerTypes
    <3> QED
      BY <2>1, <3>1, PointMoved DEF SyncPoints
  <2>2. CASE ~(p = "sweep" /\ sync[p].at = "write")
    <3>1. sync' = [sync EXCEPT ![p] = Resting]
      BY <2>2 DEF WriteMirror, Inv, ServerTypes
    <3> QED
      BY <3>1, RestingState DEF Inv, ServerTypes, KnownInv
  <2> QED
    BY <2>1, <2>2
<1> QED
  BY <1>2, <1>3 DEF WriteMirror, Inv, ChainTypes, ServerTypes, KnownInv, Known, BookInv, Secure,
                    creditVars

LEMMA DecideKeeps == Inv /\ Decide => Inv'
<1> SUFFICES ASSUME Inv, Decide PROVE Inv'
  OBVIOUS
<1>1. PICK a \in {"close", "default", "reread"} : sync' = [sync EXCEPT !["sweep"].at = a]
  BY DEF Decide
<1>2. /\ sync' \in [Syncers -> SyncState]
      /\ \A q \in Syncers : sync'[q].view.status # "none" =>
             sync'[q].line \in Lines /\ Known(sync'[q].line)
  BY <1>1, PointMoved DEF Decide, SyncPoints, Syncers
<1> QED
  BY <1>2, SyncMoved DEF Decide, Inv, ServerTypes

LEMMA SettleKeeps == Inv /\ Settle => Inv'
<1> SUFFICES ASSUME Inv, Settle PROVE Inv'
  OBVIOUS
<1> DEFINE l == sync["sweep"].line
<1>1. l \in Lines /\ sync["sweep"].at # "idle"
  BY DEF Settle, Inv, ServerTypes, SyncState, Syncers
<1>2. ChainTypes' /\ KnownGrows /\ UNCHANGED <<fact, proven>>
  BY <1>1, Settled DEF Settle, Inv
<1>3. /\ sync' \in [Syncers -> SyncState]
      /\ \A q \in Syncers : sync'[q].view.status # "none" =>
             sync'[q].line \in Lines /\ Known(sync'[q].line)
  BY <1>1, PointMoved DEF Settle, SyncPoints, Syncers
<1>4. \A k \in Lines : Known(k) => Known(k)'
  BY <1>2 DEF KnownGrows, Known
<1>5. UNCHANGED <<mirror, signing, opening, orphans, call, charge, event, job, crashes>>
  BY DEF Settle
<1>6. KnownInv'
  BY <1>3, <1>4, <1>5, RowsOfLines DEF Inv, KnownInv, Known, LineOf
<1>7. ServerTypes' /\ BookInv'
  BY <1>2, <1>3, <1>5 DEF Inv, ServerTypes, BookInv, Secure
<1> QED
  BY <1>2, <1>6, <1>7 DEF Inv

LEMMA FailSyncKeeps ==
    ASSUME Inv, NEW p \in Syncers, FailSync(p)
    PROVE  Inv'
<1>1. /\ sync' \in [Syncers -> SyncState]
      /\ \A q \in Syncers : sync'[q].view.status # "none" =>
             sync'[q].line \in Lines /\ Known(sync'[q].line)
  BY RestingState DEF FailSync, Inv, ServerTypes, KnownInv
<1> QED
  BY <1>1, SyncMoved DEF FailSync, Inv, ServerTypes

LEMMA SettledByOthersKeeps ==
    ASSUME Inv, NEW l \in Lines, SettledByOthers(l)
    PROVE  Inv'
<1>1. ChainTypes' /\ KnownGrows /\ UNCHANGED <<fact, proven>>
  BY Settled DEF SettledByOthers, Inv
<1>2. ServerTypes' /\ KnownInv'
  BY <1>1, ServerKept DEF SettledByOthers, Inv
<1> QED
  BY <1>1, <1>2 DEF SettledByOthers, Inv, BookInv, Secure, serverVars

LEMMA TickKeeps == Inv /\ Tick /\ UNCHANGED serverVars => Inv'
<1> SUFFICES ASSUME Inv, Tick, UNCHANGED serverVars PROVE Inv'
  OBVIOUS
<1>1. ChainTypes' /\ KnownGrows /\ UNCHANGED <<fact, proven>>
  BY CreditAssumption DEF Tick, Inv, ChainTypes, KnownGrows, Known
<1>2. ServerTypes' /\ KnownInv'
  BY <1>1, ServerKept DEF Inv
<1> QED
  BY <1>1, <1>2 DEF Inv, BookInv, Secure, serverVars

LEMMA CrashKeeps == Inv /\ Crash => Inv'
<1> SUFFICES ASSUME Inv, Crash PROVE Inv'
  OBVIOUS
<1>1. /\ signing' \in [Signings -> [at : SigningPoints, other : BOOLEAN]]
      /\ opening' \in [Lines -> [Openers -> OpeningPoints]]
      /\ \A l \in Lines, o \in Openers : opening'[l][o] # "landed"
      /\ orphans' \subseteq Lines
  BY DEF Crash, Inv, ServerTypes, SigningPoints, OpeningPoints
<1>2. /\ call' \in [Transfers -> [at : CallPoints, seen : Mirror]]
      /\ \A x \in Transfers : call'[x].at \notin {"waiting", "spending"}
  <2>1. NoMirror \in Mirror
    BY DEF NoMirror, Mirror, MirrorStatuses
  <2> QED
    BY <2>1 DEF Crash, Inv, ServerTypes, CallPoints
<1>3. /\ sync' \in [Syncers -> SyncState]
      /\ \A p \in Syncers : sync'[p].view.status = "none"
  BY RestingState DEF Crash
<1>4. crashes' \in 0 .. MaxCrashes
  BY ServerAssumption DEF Crash, Inv, ServerTypes
<1> QED
  BY <1>1, <1>2, <1>3, <1>4 DEF Crash, Inv, ChainTypes, ServerTypes, KnownInv, Known,
                                BookInv, Secure, creditVars

-----------------------------------------------------------------------------
(* The theorems. *)

LEMMA InitSound == Init => Inv
<1> SUFFICES ASSUME Init PROVE Inv
  OBVIOUS
<1>1. ChainTypes
  BY CreditAssumption DEF Init, CreditInit, ChainTypes, NoLine, Line, LineStatuses
<1>2. NoMirror \in Mirror
  BY DEF NoMirror, Mirror, MirrorStatuses
<1>3. ServerTypes
  <2>1. 0 \in 0 .. MaxTime
    BY CreditAssumption
  <2>2. charge \in [Payers -> [status : ChargeStates, at : 0 .. MaxTime]]
    BY <2>1 DEF Init, ServerInit, ChargeStates
  <2> QED
    BY <1>2, <2>2, RestingState, ServerAssumption
       DEF Init, ServerInit, ServerTypes, SigningPoints, OpeningPoints, CallPoints,
           JobStates
<1>4. KnownInv
  BY RestingState DEF Init, ServerInit, KnownInv, NoMirror, RealStatuses, Payers
<1>5. BookInv
  BY DEF Init, CreditInit, ServerInit, BookInv, Secure
<1> QED
  BY <1>1, <1>3, <1>4, <1>5 DEF Inv

LEMMA StepSound == Inv /\ [Next]_vars => Inv'
<1> SUFFICES ASSUME Inv, [Next]_vars PROVE Inv'
  OBVIOUS
<1>1. ASSUME NEW l \in Lines, Propose(l) \/ SettledByOthers(l)
      PROVE  Inv'
  BY <1>1, ProposeKeeps, SettledByOthersKeeps
<1>8. ASSUME NEW l \in Lines, NEW o \in Openers,
             \/ StartOpening(l, o) \/ SimulateOpening(l, o) \/ MineOpening(l, o)
             \/ ReceiveOpening(l, o) \/ LoseOpening(l, o)
      PROVE  Inv'
  BY <1>8, StartOpeningKeeps, SimulateOpeningKeeps, MineOpeningKeeps,
     ReceiveOpeningKeeps, LoseOpeningKeeps
<1>2. ASSUME NEW c \in Signings, StartSigning(c) \/ EndSigning(c)
      PROVE  Inv'
  BY <1>2, SigningKeeps
<1>3. ASSUME NEW l \in orphans, MineOrphan(l)
      PROVE  Inv'
  BY <1>3, MineOrphanKeeps
<1>4. ASSUME NEW x \in Transfers,
             \/ StartCall(x) \/ Reserve(x) \/ Return(x) \/ Throw(x)
             \/ Anchor(x) \/ Prove(x) \/ GiveUp(x)
      PROVE  Inv'
  BY <1>4, StartCallKeeps, ReserveKeeps, ReturnKeeps, ThrowKeeps, AnchorKeeps,
     ProveKeeps, GiveUpKeeps
<1>9. ASSUME NEW p \in Pays, Pay(p)
      PROVE  Inv'
  BY <1>9, PayKeeps
<1>10. ASSUME NEW m \in Payers, EndCharge(m)
       PROVE  Inv'
  BY <1>10, EndChargeKeeps
<1>5. ASSUME NEW p \in Syncers, ReadLine(p) \/ WriteMirror(p) \/ FailSync(p)
      PROVE  Inv'
  BY <1>5, ReadLineKeeps, WriteMirrorKeeps, FailSyncKeeps
<1>6. CASE SweepStep
  BY <1>5, <1>6, StartSweepKeeps, DecideKeeps, SettleKeeps DEF SweepStep, Syncers
<1>7. CASE UNCHANGED vars
  BY <1>7 DEF vars, Inv, ChainTypes, ServerTypes, KnownInv, Known, BookInv, Secure
<1> QED
  BY <1>1, <1>2, <1>3, <1>4, <1>5, <1>6, <1>7, <1>8, <1>9, <1>10, TickKeeps, CrashKeeps
     DEF Next, Syncers

THEOREM SpecInv == Spec => []Inv
BY InitSound, StepSound, PTL DEF Spec

\* The types hold where there is a line at all.
THEOREM LineServerTyped ==
    ASSUME Lines # {}
    PROVE  Spec => []TypeOK
<1>1. AnyLine \in Lines
  BY DEF AnyLine
<1>2. Inv => TypeOK
  BY <1>1 DEF Inv, ChainTypes, ServerTypes, SyncState, TypeOK
<1> QED
  BY <1>2, SpecInv, PTL

\* The mirror shows a line as registered only when the contract knows it,
\* whatever answers were lost, signatures repeated and old rows written back.
THEOREM MirrorShowsRealLines == Spec => []MirrorOfRealLine
<1>1. Inv => MirrorOfRealLine
  BY DEF Inv, KnownInv, MirrorOfRealLine, RealStatuses, Known
<1> QED
  BY <1>1, SpecInv, PTL

\* No charge is made for a draw or a repayment of a line the contract does not
\* know.
THEOREM MoneyMovesUnderRealLines == Spec => []MoneyUnderOpenLine
<1>1. Inv => MoneyUnderOpenLine
  BY DEF Inv, KnownInv, MoneyUnderOpenLine, Known
<1> QED
  BY <1>1, SpecInv, PTL

\* What is anchored, and so whatever the contract counts, is what the server
\* booked for a confirmed charge, though failed charges are deleted and made
\* anew under their keys.
THEOREM FactsRestOnCharges == Spec => []FactsAreBooked
<1>1. Inv => FactsAreBooked
  BY DEF Inv, BookInv, Secure, FactsAreBooked, Secure, Holders
<1> QED
  BY <1>1, SpecInv, PTL

\* A charge is booked under one line and makes one fact, whatever calls repeat
\* its key.
THEOREM OneFactOfACharge == Spec => []OneFactPerCharge
<1>1. Inv => OneFactPerCharge
  BY DEF Inv, BookInv, Secure, OneFactPerCharge
<1> QED
  BY <1>1, SpecInv, PTL

\* Where a key is only ever repeated for the same recipient and amount, what is
\* anchored reached the party the event names.
THEOREM FactsAreTrue ==
    ASSUME \A m, n \in Payers : Key[m] = Key[n] => Paid(m) = Paid(n)
    PROVE  Spec => []FactsArePaid
<1>1. Inv => FactsArePaid
  BY DEF Inv, BookInv, Secure, FactsArePaid, Secure, Holders, Payers
<1> QED
  BY <1>1, SpecInv, PTL
=============================================================================

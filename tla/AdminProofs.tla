----------------------------- MODULE AdminProofs -----------------------------
(* Card administration and its grants, for every set of cards, operations,   *)
(* calls and requests: a family that ended stays dead, a code has one live   *)
(* row, a signed leaf is sent once, and a card the books call revoked is     *)
(* disabled on the chain where no two fees are equal.                        *)
EXTENDS AdminProperties, TLAPS

-----------------------------------------------------------------------------
(* Grants: the inductive invariant. *)

GrantTypeOK ==
    /\ request \in [Requests -> {"absent", "open", "acted"}]
    /\ code \in [Requests -> CodeRow]
    /\ token \in Seq(TokenRow)
    /\ ended \subseteq DOMAIN token

\* A row's family began with an earlier row, of the same code.
FamiliesRooted ==
    \A i \in DOMAIN token :
        /\ token[i].family \in 1 .. i
        /\ token[token[i].family].code = token[i].code

\* A row was minted from a code that is used.
MintedFromUsed == \A i \in DOMAIN token : code[token[i].code].at = "used"

\* A request that was not acted on has no code.
ConsentFirst == \A q \in Requests : request[q] # "acted" => code[q] = NoCode

GrantInv == GrantTypeOK /\ FamiliesRooted /\ MintedFromUsed /\ ConsentFirst
            /\ EndedStaysDead /\ OneLiveRow

LEMMA GrantInitInv == GrantsInit => GrantInv
<1> SUFFICES ASSUME GrantsInit PROVE GrantInv
  OBVIOUS
<1>1. token = <<>> /\ DOMAIN token = {} /\ token \in Seq(TokenRow)
  BY DEF GrantsInit
<1> QED
  BY <1>1 DEF GrantsInit, GrantInv, GrantTypeOK, FamiliesRooted, MintedFromUsed,
              EndedStaysDead, OneLiveRow, ConsentFirst, CodeRow, NoCode

\* What revoking a set of rows does to each row.
LEMMA RevokedRows ==
  ASSUME token \in Seq(TokenRow), NEW rows
  PROVE  /\ Revoked(rows) \in Seq(TokenRow)
         /\ DOMAIN Revoked(rows) = DOMAIN token
         /\ \A i \in DOMAIN token :
               /\ Revoked(rows)[i].card = token[i].card
               /\ Revoked(rows)[i].family = token[i].family
               /\ Revoked(rows)[i].code = token[i].code
               /\ Revoked(rows)[i].live = (token[i].live /\ i \notin rows)
<1>1. DOMAIN token = 1 .. Len(token) /\ Len(token) \in Nat
  OBVIOUS
<1>2. ASSUME NEW i \in DOMAIN token
      PROVE  /\ token[i] \in TokenRow
             /\ [token[i] EXCEPT !.live = @ /\ i \notin rows] \in TokenRow
  <2>1. token[i] \in TokenRow
    BY <1>1
  <2> QED
    BY <2>1 DEF TokenRow
<1> DEFINE R == [i \in DOMAIN token |-> [token[i] EXCEPT !.live = @ /\ i \notin rows]]
<1>3. R \in [1 .. Len(token) -> TokenRow]
  BY <1>1, <1>2
<1>4. R \in Seq(TokenRow)
  BY <1>1, <1>3
<1>5. \A i \in DOMAIN token : R[i] = [token[i] EXCEPT !.live = @ /\ i \notin rows]
  OBVIOUS
<1>6. Revoked(rows) = R
  BY DEF Revoked
<1> HIDE DEF R
<1>7. DOMAIN R = DOMAIN token
  BY <1>1, <1>3
<1> QED
  BY <1>2, <1>4, <1>5, <1>6, <1>7 DEF TokenRow

\* What appending a row does to the table.
LEMMA AppendedRow ==
  ASSUME NEW t \in Seq(TokenRow), NEW r \in TokenRow
  PROVE  /\ Append(t, r) \in Seq(TokenRow)
         /\ DOMAIN Append(t, r) = 1 .. (Len(t) + 1)
         /\ DOMAIN t = 1 .. Len(t) /\ Len(t) \in Nat
         /\ \A i \in 1 .. Len(t) : Append(t, r)[i] = t[i]
         /\ Append(t, r)[Len(t) + 1] = r
OBVIOUS

\* Revoking rows keeps the invariant, if what it ends is revoked with it.
LEMMA RevokingKeepsInv ==
  ASSUME GrantInv, NEW rows, token' = Revoked(rows),
         NEW more \in SUBSET DOMAIN token, ended' = ended \cup more,
         \A i \in DOMAIN token : token[i].family \in more => i \in rows,
         UNCHANGED <<request, code>>
  PROVE  GrantInv'
<1>1. token \in Seq(TokenRow)
  BY DEF GrantInv, GrantTypeOK
<1>2. /\ token' \in Seq(TokenRow) /\ DOMAIN token' = DOMAIN token
      /\ \A i \in DOMAIN token : /\ token'[i].family = token[i].family
                                 /\ token'[i].code = token[i].code
                                 /\ token'[i].live = (token[i].live /\ i \notin rows)
  BY <1>1, RevokedRows
<1>3. DOMAIN token = 1 .. Len(token) /\ Len(token) \in Nat
  BY <1>1
<1>4. GrantTypeOK'
  BY <1>2 DEF GrantInv, GrantTypeOK
<1>5. FamiliesRooted'
  <2>1. \A i \in DOMAIN token : token[i].family \in DOMAIN token
    BY <1>3 DEF GrantInv, FamiliesRooted
  <2>2. ASSUME NEW i \in DOMAIN token
        PROVE  /\ token'[i].family \in 1 .. i
               /\ token'[token'[i].family].code = token'[i].code
    <3>1. /\ token[i].family \in 1 .. i
          /\ token[token[i].family].code = token[i].code
      BY DEF GrantInv, FamiliesRooted
    <3>2. token'[i].family = token[i].family /\ token'[i].code = token[i].code
      BY <1>2
    <3>3. token'[token[i].family].code = token[token[i].family].code
      BY <1>2, <2>1
    <3> QED
      BY <3>1, <3>2, <3>3
  <2> QED
    BY <1>2, <2>2 DEF FamiliesRooted
<1>6. MintedFromUsed'
  BY <1>2 DEF GrantInv, MintedFromUsed
<1>7. OneLiveRow'
  <2>1. \A i \in DOMAIN token' : i \in DOMAIN token
    BY <1>2
  <2>2. \A i \in DOMAIN token : token'[i].live => token[i].live
    BY <1>2
  <2>3. \A i \in DOMAIN token : token'[i].code = token[i].code
    BY <1>2
  <2> QED
    BY <2>1, <2>2, <2>3, Zenon DEF GrantInv, OneLiveRow
<1>8. EndedStaysDead'
  BY <1>2 DEF GrantInv, EndedStaysDead
<1>9. ConsentFirst'
  BY DEF GrantInv, ConsentFirst
<1> QED
  BY <1>4, <1>5, <1>6, <1>7, <1>8, <1>9 DEF GrantInv

LEMMA RevokeTokensKeepsInv ==
  ASSUME GrantInv, NEW C, RevokeTokensOf(C)
  PROVE  GrantInv'
<1>1. ended' = ended \cup {} /\ {} \in SUBSET DOMAIN token
  BY DEF RevokeTokensOf
<1> QED
  BY <1>1, RevokingKeepsInv DEF RevokeTokensOf

LEMMA RevokeFamilyKeepsInv ==
  ASSUME GrantInv, NEW i \in DOMAIN token, RevokeFamily(token[i].family)
  PROVE  GrantInv'
<1>1. DOMAIN token = 1 .. Len(token) /\ Len(token) \in Nat
  BY DEF GrantInv, GrantTypeOK
<1>2. token[i].family \in DOMAIN token
  BY <1>1 DEF GrantInv, FamiliesRooted
<1>3. \A j \in DOMAIN token : token[j].family \in {token[i].family}
                                 => j \in FamilyRows(token[i].family)
  BY DEF FamilyRows
<1> QED
  BY <1>2, <1>3, RevokingKeepsInv DEF RevokeFamily

LEMMA ReplayKeepsInv ==
  ASSUME GrantInv, NEW q \in Requests, ReplayCode(q)
  PROVE  GrantInv'
<1> DEFINE more == {i \in RowsMintedFrom(q) : token[i].family = i}
<1>1. more \subseteq DOMAIN token
  BY DEF RowsMintedFrom
<1>2. \A i \in DOMAIN token : token[i].family \in more => i \in RowsMintedFrom(q)
  BY DEF RowsMintedFrom, GrantInv, FamiliesRooted
<1> QED
  BY <1>1, <1>2, RevokingKeepsInv DEF ReplayCode

\* Redeeming a code: the row is the first of its code and of its family.
LEMMA RedeemKeepsInv ==
  ASSUME GrantInv, NEW q \in Requests, NEW b, code[q].at = "issued", Redeem(q, b)
  PROVE  GrantInv'
<1> DEFINE n == Len(token) + 1
           r == [card |-> code[q].card, family |-> n, code |-> q, live |-> TRUE]
<1>1. /\ code \in [Requests -> CodeRow] /\ token \in Seq(TokenRow)
      /\ request \in [Requests -> {"absent", "open", "acted"}]
      /\ ended \subseteq DOMAIN token
  BY DEF GrantInv, GrantTypeOK
<1>2. code[q].card \in Cards /\ code[q] = [at |-> "issued", card |-> code[q].card]
  <2>1. code[q] \in CodeRow
    BY <1>1
  <2>2. code[q] \in [at : {"issued", "used"}, card : Cards]
    BY <2>1 DEF CodeRow, NoCode
  <2> QED
    BY <2>2
<1>3. n \in Nat /\ r \in TokenRow
  BY <1>1, <1>2 DEF TokenRow
<1>4. token' = Append(token, r)
  BY DEF Redeem
<1>5. /\ token' \in Seq(TokenRow) /\ DOMAIN token' = 1 .. n
      /\ DOMAIN token = 1 .. Len(token) /\ Len(token) \in Nat
      /\ \A i \in 1 .. Len(token) : token'[i] = token[i]
      /\ token'[n] = r
  BY <1>1, <1>3, <1>4, AppendedRow
<1>6. /\ r.family = n /\ r.code = q /\ r.live
      /\ \A i \in DOMAIN token' : i \in DOMAIN token \/ i = n
      /\ \A i \in DOMAIN token : i \in DOMAIN token'
      /\ n \notin DOMAIN token /\ n \notin ended
  BY <1>1, <1>5
<1> HIDE DEF n, r
<1>7. \A i \in DOMAIN token : token[i].code # q /\ token[i].family \in DOMAIN token
  <2>1. \A i \in DOMAIN token : token[i].code # q
    BY DEF GrantInv, MintedFromUsed
  <2>2. \A i \in DOMAIN token : token[i].family \in DOMAIN token
    BY <1>5 DEF GrantInv, FamiliesRooted
  <2> QED
    BY <2>1, <2>2
<1>8. /\ code' = [code EXCEPT ![q].at = "used"] /\ ended' = ended
      /\ request' = request
  BY DEF Redeem
<1>9. GrantTypeOK'
  <2>1. [code[q] EXCEPT !.at = "used"] \in CodeRow
    BY <1>2 DEF CodeRow
  <2>2. code' \in [Requests -> CodeRow]
    BY <1>1, <1>8, <2>1
  <2> QED
    <3>1. ended' \subseteq DOMAIN token'
      BY <1>1, <1>6, <1>8
    <3> QED
      BY <3>1, <1>1, <1>5, <1>8, <2>2 DEF GrantTypeOK
<1>10. FamiliesRooted'
  BY <1>5, <1>6, <1>7 DEF GrantInv, FamiliesRooted
<1>11. MintedFromUsed'
  <2>1. code'[q].at = "used" /\ \A p \in Requests \ {q} : code'[p] = code[p]
    BY <1>1, <1>2, <1>8
  <2>2. \A i \in DOMAIN token : token[i].code \in Requests
    <3>1. \A i \in DOMAIN token : token[i] \in TokenRow
      BY <1>1
    <3> QED
      BY <3>1 DEF TokenRow
  <2> QED
    BY <1>5, <1>6, <1>7, <2>1, <2>2 DEF GrantInv, MintedFromUsed
<1>12. OneLiveRow'
  BY <1>5, <1>6, <1>7 DEF GrantInv, OneLiveRow
<1>13. EndedStaysDead'
  BY <1>5, <1>6, <1>8 DEF GrantInv, EndedStaysDead
<1>14. ConsentFirst'
  <2>1. \A p \in Requests \ {q} : code'[p] = code[p]
    BY <1>1, <1>8
  <2>2. request[q] = "acted"
    BY <1>2 DEF GrantInv, ConsentFirst, NoCode
  <2> QED
    BY <1>8, <2>1, <2>2 DEF GrantInv, ConsentFirst
<1> QED
  BY <1>9, <1>10, <1>11, <1>12, <1>13, <1>14 DEF GrantInv

\* Rotating a live row: its successor takes its place.
LEMMA RotateKeepsInv ==
  ASSUME GrantInv, NEW k \in DOMAIN token, token[k].live, token' = Rotated(k),
         UNCHANGED <<request, code, ended>>
  PROVE  GrantInv'
<1> DEFINE n == Len(token) + 1
           r == [token[k] EXCEPT !.live = TRUE]
           R == Revoked({k})
<1>1. token \in Seq(TokenRow) /\ DOMAIN token = 1 .. Len(token) /\ Len(token) \in Nat
  BY DEF GrantInv, GrantTypeOK
<1>2. /\ r \in TokenRow /\ r.family = token[k].family /\ r.code = token[k].code
      /\ r.live = TRUE
  <2>1. token[k] \in TokenRow
    BY <1>1
  <2> QED
    BY <2>1 DEF TokenRow
<1>3. /\ R \in Seq(TokenRow) /\ DOMAIN R = DOMAIN token
      /\ \A i \in DOMAIN token :
            /\ R[i].family = token[i].family /\ R[i].code = token[i].code
            /\ R[i].live = (token[i].live /\ i # k)
  <2>1. \A i : i \notin {k} <=> i # k
    OBVIOUS
  <2> QED
    BY <1>1, <2>1, RevokedRows
<1>4. token' = Append(R, r)
  BY DEF Rotated
<1> HIDE DEF R, r
<1>5. Len(R) = Len(token)
  BY <1>1, <1>3
<1>6. /\ token' \in Seq(TokenRow) /\ DOMAIN token' = 1 .. n
      /\ \A i \in DOMAIN token : token'[i] = R[i]
      /\ token'[n] = r
  BY <1>1, <1>2, <1>3, <1>4, <1>5, AppendedRow
<1>7. /\ n \notin DOMAIN token /\ n \in Nat
      /\ \A i \in DOMAIN token' : i \in DOMAIN token \/ i = n
      /\ \A i \in DOMAIN token : i \in DOMAIN token' /\ i < n
  BY <1>1, <1>6
<1>8. \A i \in DOMAIN token :
         /\ token'[i].family = token[i].family /\ token'[i].code = token[i].code
         /\ token'[i].live = (token[i].live /\ i # k)
  BY <1>3, <1>6
<1>9. /\ token'[n].family = token[k].family /\ token'[n].code = token[k].code
      /\ token'[n].live = TRUE
  BY <1>2, <1>6
<1>10. \A i \in DOMAIN token : /\ token[i].family \in 1 .. i
                               /\ token[i].family \in DOMAIN token
  BY <1>1 DEF GrantInv, FamiliesRooted
<1> HIDE DEF n
<1>11. GrantTypeOK'
  BY <1>6, <1>7 DEF GrantInv, GrantTypeOK
<1>12. FamiliesRooted'
  <2>1. ASSUME NEW i \in DOMAIN token'
        PROVE  /\ token'[i].family \in 1 .. i
               /\ token'[token'[i].family].code = token'[i].code
    <3>1. CASE i \in DOMAIN token
      BY <3>1, <1>8, <1>10 DEF GrantInv, FamiliesRooted
    <3>2. CASE i = n
      <4>1. token[k].family \in 1 .. n
        BY <1>1, <1>7, <1>10
      <4> QED
        BY <3>2, <4>1, <1>8, <1>9, <1>10 DEF GrantInv, FamiliesRooted
    <3> QED
      BY <3>1, <3>2, <1>7
  <2> QED
    BY <2>1 DEF FamiliesRooted
<1>13. MintedFromUsed'
  BY <1>7, <1>8, <1>9 DEF GrantInv, MintedFromUsed
<1>14. OneLiveRow'
  <2>1. \A i \in DOMAIN token : token'[i].live => token[i].live /\ i # k
    BY <1>8
  <2>2. \A i \in DOMAIN token :
           token[i].live /\ token[i].code = token[k].code => i = k
    BY DEF GrantInv, OneLiveRow
  <2>3. ASSUME NEW i \in DOMAIN token', NEW j \in DOMAIN token',
               token'[i].live, token'[j].live, token'[i].code = token'[j].code
        PROVE  i = j
    <3>1. CASE i \in DOMAIN token /\ j \in DOMAIN token
      <4>1. token[i].live /\ token[j].live /\ token[i].code = token[j].code
        BY <2>1, <2>3, <3>1, <1>8
      <4> QED
        BY <4>1, <3>1, Zenon DEF GrantInv, OneLiveRow
    <3>2. CASE i = n /\ j \in DOMAIN token
      BY <3>2, <2>1, <2>2, <2>3, <1>8, <1>9
    <3>3. CASE i \in DOMAIN token /\ j = n
      BY <3>3, <2>1, <2>2, <2>3, <1>8, <1>9
    <3> QED
      BY <3>1, <3>2, <3>3, <1>7
  <2> QED
    BY <2>3, Zenon DEF OneLiveRow
<1>15. EndedStaysDead'
  BY <1>7, <1>8, <1>9 DEF GrantInv, EndedStaysDead
<1>16. ConsentFirst'
  BY DEF GrantInv, ConsentFirst
<1> QED
  BY <1>11, <1>12, <1>13, <1>14, <1>15, <1>16 DEF GrantInv

\* Requests and codes that move on before a code is used.
LEMMA ConsentKeepsInv ==
  ASSUME GrantInv, NEW q \in Requests,
         \/ Authorize(q) \/ Deny(q)
         \/ \E c \in Cards : Approve(q, c, Approvable(c))
  PROVE  GrantInv'
<1>1. /\ code \in [Requests -> CodeRow] /\ token' = token /\ ended' = ended
      /\ request \in [Requests -> {"absent", "open", "acted"}]
  BY DEF GrantInv, GrantTypeOK, Authorize, Deny, Approve
<1>2. \A s \in {"open", "acted"} :
         [request EXCEPT ![q] = s] \in [Requests -> {"absent", "open", "acted"}]
  BY <1>1
<1>3. request' \in [Requests -> {"absent", "open", "acted"}]
  BY <1>2 DEF Authorize, Deny, Approve
<1>4. code' \in [Requests -> CodeRow] /\ \A p \in Requests \ {q} : code'[p] = code[p]
  <2>1. CASE code' = code
    BY <2>1, <1>1
  <2>2. ASSUME NEW c \in Cards,
               code' = [code EXCEPT ![q] = [at |-> "issued", card |-> c]]
        PROVE  code' \in [Requests -> CodeRow]
               /\ \A p \in Requests \ {q} : code'[p] = code[p]
    <3>1. [at |-> "issued", card |-> c] \in CodeRow
      BY DEF CodeRow
    <3> QED
      BY <2>2, <3>1, <1>1
  <2> QED
    BY <2>1, <2>2 DEF Authorize, Deny, Approve
<1>5. code[q] = NoCode /\ request[q] # "acted"
  BY DEF GrantInv, ConsentFirst, Authorize, Deny, Approve
<1>6. \A i \in DOMAIN token : token[i].code \in Requests \ {q}
  <2>1. \A i \in DOMAIN token : token[i] \in TokenRow
    BY DEF GrantInv, GrantTypeOK
  <2>2. \A i \in DOMAIN token : token[i].code # q
    BY <1>5 DEF GrantInv, MintedFromUsed, NoCode
  <2> QED
    BY <2>1, <2>2 DEF TokenRow
<1>7. MintedFromUsed'
  BY <1>1, <1>4, <1>6 DEF GrantInv, MintedFromUsed
<1>8. ConsentFirst'
  <2>1. CASE Authorize(q)
    BY <2>1, <1>1, <1>5 DEF GrantInv, GrantTypeOK, ConsentFirst, Authorize
  <2>2. CASE Deny(q) \/ \E c \in Cards : Approve(q, c, Approvable(c))
    <3>1. request'[q] = "acted" /\ \A p \in Requests \ {q} : request'[p] = request[p]
      BY <2>2, <1>1 DEF Deny, Approve
    <3> QED
      BY <3>1, <1>4 DEF GrantInv, ConsentFirst
  <2> QED
    BY <2>1, <2>2
<1>9. FamiliesRooted' /\ OneLiveRow' /\ EndedStaysDead'
  BY <1>1 DEF GrantInv, FamiliesRooted, OneLiveRow, EndedStaysDead
<1> QED
  BY <1>1, <1>3, <1>4, <1>7, <1>8, <1>9 DEF GrantInv, GrantTypeOK

LEMMA GrantStepKeepsInv == GrantInv /\ GrantStep => GrantInv'
<1> SUFFICES ASSUME GrantInv, GrantStep PROVE GrantInv'
  OBVIOUS
<1>1. ASSUME NEW q \in Requests, Authorize(q) \/ Deny(q) PROVE GrantInv'
  BY <1>1, ConsentKeepsInv
<1>2. ASSUME NEW q \in Requests, ReplayCode(q) PROVE GrantInv'
  BY <1>2, ReplayKeepsInv
<1>3. ASSUME NEW q \in Requests, NEW c \in Cards, Approve(q, c, Approvable(c))
      PROVE  GrantInv'
  BY <1>3, ConsentKeepsInv
<1>4. ASSUME NEW q \in Requests, code[q].at = "issued",
             Redeem(q, Redeemable(code[q].card))
      PROVE  GrantInv'
  BY <1>4, RedeemKeepsInv
<1>5. ASSUME NEW i \in DOMAIN token, Refresh(i, Renewable(token[i].card))
      PROVE  GrantInv'
  BY <1>5, RevokeFamilyKeepsInv, RotateKeepsInv DEF Refresh
<1>6. ASSUME NEW i \in DOMAIN token, RevokeToken(i) PROVE GrantInv'
  BY <1>6, RevokeFamilyKeepsInv DEF RevokeToken
<1> QED
  BY <1>1, <1>2, <1>3, <1>4, <1>5, <1>6 DEF GrantStep

-----------------------------------------------------------------------------
(* What a step of card administration can do to the grants. *)

LEMMA GrantsChange ==
  ASSUME Next
  PROVE  \/ UNCHANGED grantVars
         \/ GrantStep
         \/ \E C : RevokeTokensOf(C)
<1> USE DEF cardVars
<1>1. ASSUME NEW c \in Cards,
             \/ PrepareCard(c) \/ FinalizeCard(c)
             \/ BeginSubCard(c) \/ InsertSubCard(c)
             \/ Freeze(c) \/ Unfreeze(c) \/ Expire(c) \/ ServerRevokeSub(c)
             \/ \E p \in Cards : AgentRevoke(p, c)
             \/ \E o \in Ops : PrepareRevoke(o, c)
      PROVE  UNCHANGED grantVars
  BY <1>1 DEF PrepareCard, FinalizeCard, BeginSubCard, InsertSubCard,
              Freeze, Unfreeze, Expire, ServerRevokeSub, AgentRevoke,
              PrepareRevoke, Prepare
<1>2. ASSUME NEW c \in Cards, Delete(c) \/ RevokeSubCard(c)
      PROVE  \E C : RevokeTokensOf(C)
  BY <1>2 DEF Delete, RevokeSubCard
<1>3. ASSUME NEW o \in Ops, PrepareNuke(o) \/ Mine(o) \/ Revert(o)
      PROVE  UNCHANGED grantVars
  BY <1>3 DEF PrepareNuke, Prepare, Mine, Revert
<1>4. ASSUME NEW f \in Calls,
             \/ BadSignature(f) \/ Verified(f) \/ ReadBlock(f) \/ Send(f)
             \/ GiveUp(f) \/ RecordRevoke(f) \/ RecordNuke(f)
      PROVE  UNCHANGED grantVars
  BY <1>4 DEF BadSignature, Verified, ReadBlock, Send, GiveUp, RecordRevoke, RecordNuke
<1>5. ASSUME NEW f \in Calls, NEW o \in Ops,
             \/ Finalize(f, o) \/ ServerOp(f, o, "nuke", NoCard)
             \/ \E c \in Roots : ServerOp(f, o, "revoke", c)
      PROVE  UNCHANGED grantVars
  BY <1>5 DEF Finalize, ServerOp
<1>6. ASSUME NEW f \in Calls, Cascade(f)
      PROVE  \E C : RevokeTokensOf(C)
  BY <1>6 DEF Cascade
<1>7. ASSUME NEW fee \in SpendFees, MineSpend(fee)
      PROVE  UNCHANGED grantVars
  BY <1>7 DEF MineSpend
<1>8. CASE Crash
  BY <1>8 DEF Crash
<1> QED
  BY <1>1, <1>2, <1>3, <1>4, <1>5, <1>6, <1>7, <1>8 DEF Next, Roots

-----------------------------------------------------------------------------
(* Admin operations: the inductive invariant. *)

AdminTypeOK ==
    /\ status \in [Cards -> Statuses] /\ expired \subseteq Cards
    /\ issue \in [Cards -> {"idle", "prepared", "signing", "done"}]
    /\ disabled \subseteq Roots
    /\ op \in [Ops -> Op] /\ call \in [Calls -> Call]
    /\ logs \in [Calls -> SUBSET Nat]
    /\ crashes \in Nat /\ orphaned \subseteq Cards
    /\ \A o \in Ops : op[o].kind = "revoke" => op[o].card \in Roots

Unsent == {"verifying", "sending", "broadcasting"}

\* Before a leaf's entry is consumed nothing was sent; a call that has not
\* sent yet is alone with its operation.
OneBroadcast ==
    /\ \A o \in Ops :
          /\ op[o].sends <= 1
          /\ op[o].sends = 0 => op[o].tx = "none"
          /\ op[o].entry # "consumed" => op[o].sends = 0
    /\ \A f \in Calls :
          /\ call[f].at = "verifying" => op[call[f].op].entry = "claimed"
          /\ call[f].at \in {"sending", "broadcasting"} => op[call[f].op].entry = "consumed"
          /\ call[f].at = "confirming" => op[call[f].op].entry = "consumed"
          /\ call[f].at \in Unsent => op[call[f].op].sends = 0
    /\ \A f, g \in Calls :
          /\ call[f].at \in Unsent /\ call[g].at \in Unsent
          /\ call[f].op = call[g].op
          => f = g

\* A revocation that mined disabled its card.
MinedDisables ==
    \A o \in Ops : op[o].tx = "mined" /\ op[o].kind = "revoke" => op[o].card \in disabled

\* Where fees differ, a log of an operation's fee is that operation's.
LogsTellTruth ==
    FeesUnique =>
        \A f \in Calls, o \in Ops : Fee[o] \in logs[f] => op[o].tx = "mined"

AdminInv == /\ AdminTypeOK /\ OneBroadcast /\ MinedDisables /\ LogsTellTruth
            /\ FeesUnique => RevokedIsDisabled

LEMMA AdminInitInv == AdminInit => AdminInv
<1> SUFFICES ASSUME AdminInit PROVE AdminInv
  OBVIOUS
<1>1. NoOp \in Op /\ Idle \in Call
  BY DEF NoOp, Op, Idle, Call
<1>2. AdminTypeOK
  BY <1>1 DEF AdminInit, AdminTypeOK, Statuses, Live, NoOp
<1>3. OneBroadcast /\ MinedDisables /\ LogsTellTruth
  BY DEF AdminInit, OneBroadcast, MinedDisables, LogsTellTruth, NoOp, Idle, Unsent
<1>4. RevokedIsDisabled
  BY AdminAssumption DEF AdminInit, RevokedIsDisabled, Roots
<1> QED
  BY <1>2, <1>3, <1>4 DEF AdminInv

-----------------------------------------------------------------------------
(* The card tree. *)

LEMMA RootAlone ==
  ASSUME NEW c \in Roots, NEW d \in Cards, c \in Subtree(d)
  PROVE  c = d
<1>1. Lineage[c] = {c}
  BY LineageAssumption DEF Roots
<1> QED
  BY <1>1 DEF Subtree

\* What a step can do to a card's status.
LEMMA StatusMoves ==
  ASSUME AdminInv, Next
  PROVE  /\ status' \in [Cards -> Statuses]
         /\ FeesUnique => \A c \in Roots : status'[c] = "revoked"
                                             => status[c] = "revoked" \/ c \in disabled
<1> DEFINE Goal == /\ status' \in [Cards -> Statuses]
                   /\ FeesUnique => \A c \in Roots :
                         status'[c] = "revoked" => status[c] = "revoked" \/ c \in disabled
<1>1. status \in [Cards -> Statuses] /\ Roots \subseteq Cards
  BY DEF AdminInv, AdminTypeOK, Roots
<1>2. CASE UNCHANGED status
  BY <1>1, <1>2
<1>3. ASSUME NEW c \in Cards, NEW s \in {"active", "frozen"},
             status' = [status EXCEPT ![c] = s]
      PROVE  Goal
  BY <1>1, <1>3 DEF Statuses, Live, Dead
<1>4. ASSUME NEW c \in Cards, KillSubtree(c), FeesUnique /\ c \in Roots => c \in disabled
      PROVE  Goal
  <2>1. \A d \in Cards : status'[d] = IF d \in Subtree(c) THEN "revoked" ELSE status[d]
    BY <1>4 DEF KillSubtree
  <2>2. status' \in [Cards -> Statuses]
    BY <1>1, <1>4 DEF KillSubtree, Statuses, Dead
  <2> QED
    BY <1>1, <1>4, <2>1, <2>2, RootAlone
<1>5. ASSUME NEW p \in Cards, NEW c \in Cards, AgentRevoke(p, c)
      PROVE  Goal
  <2>1. c \notin Roots
    BY <1>5, RootAlone DEF AgentRevoke
  <2> QED
    BY <1>4, <1>5, <2>1 DEF AgentRevoke
<1>6. ASSUME NEW f \in Calls, RecordRevoke(f)
      PROVE  Goal
  <2> DEFINE o == call[f].op
  <2>1. o \in Ops /\ op[o].kind = "revoke" /\ KillSubtree(op[o].card)
    <3>1. call[f] \in Call /\ call[f].at # "idle"
      BY <1>6 DEF AdminInv, AdminTypeOK, RecordRevoke
    <3> QED
      BY <1>6, <3>1 DEF RecordRevoke, Call, Idle
  <2>2. op[o].tx = "mined" \/ Fee[o] \in logs[f]
    BY <1>6 DEF RecordRevoke, Confirmed
  <2>3. FeesUnique => op[o].tx = "mined"
    BY <2>1, <2>2 DEF AdminInv, LogsTellTruth
  <2>4. op[o].card \in Roots /\ (FeesUnique => op[o].card \in disabled)
    BY <2>1, <2>3 DEF AdminInv, AdminTypeOK, MinedDisables
  <2> QED
    BY <1>1, <1>4, <2>1, <2>4
<1>7. ASSUME NEW f \in Calls, RecordNuke(f)
      PROVE  Goal
  BY <1>1, <1>7 DEF RecordNuke, Statuses, Dead
<1>8. ASSUME NEW c \in Cards, RemoveSubtree(c)
      PROVE  Goal
  BY <1>1, <1>8 DEF RemoveSubtree, Statuses
<1>9. ASSUME NEW c \in Cards, FinalizeCard(c) \/ Freeze(c) \/ Unfreeze(c)
      PROVE  Goal
  BY <1>3, <1>9 DEF FinalizeCard, Freeze, Unfreeze
<1>10. ASSUME NEW c \in Cards, InsertSubCard(c)
       PROVE  Goal
  BY <1>2, <1>3, <1>10 DEF InsertSubCard
<1>11. ASSUME NEW c \in Cards, RevokeSubCard(c) \/ ServerRevokeSub(c) \/ Delete(c)
       PROVE  Goal
  BY <1>4, <1>8, <1>11 DEF RevokeSubCard, MayRevokeSub, ServerRevokeSub, Delete
<1>12. ASSUME NEW c \in Cards,
              \/ PrepareCard(c) \/ BeginSubCard(c) \/ Expire(c)
              \/ \E o \in Ops : PrepareRevoke(o, c)
       PROVE  UNCHANGED status
  BY <1>12 DEF PrepareCard, BeginSubCard, Expire, PrepareRevoke, Prepare, cardVars
<1>13. ASSUME NEW o \in Ops, PrepareNuke(o) \/ Mine(o) \/ Revert(o)
       PROVE  UNCHANGED status
  BY <1>13 DEF PrepareNuke, Prepare, Mine, Revert, cardVars
<1>14. ASSUME NEW f \in Calls,
              \/ BadSignature(f) \/ Verified(f) \/ ReadBlock(f) \/ Send(f)
              \/ GiveUp(f) \/ Cascade(f)
              \/ \E o \in Ops : Finalize(f, o) \/ ServerOp(f, o, "nuke", NoCard)
              \/ \E o \in Ops, c \in Roots : ServerOp(f, o, "revoke", c)
       PROVE  UNCHANGED status
  BY <1>14 DEF BadSignature, Verified, ReadBlock, Send, GiveUp, Cascade, Finalize,
               ServerOp, cardVars
<1>15. ASSUME GrantStep /\ Elsewhere PROVE Goal
  BY <1>2, <1>15 DEF Elsewhere, cardVars
<1>16. ASSUME Crash PROVE Goal
  BY <1>2, <1>4, <1>8, <1>16 DEF Crash, MayRevokeSub
<1> HIDE DEF Goal
<1>17. UNCHANGED status => Goal
  BY <1>2 DEF Goal
<1>18. ASSUME NEW fee \in SpendFees, MineSpend(fee)
       PROVE  UNCHANGED status
  BY <1>18 DEF MineSpend, cardVars
<1>19. ASSUME NEW c \in Cards,
              \/ PrepareCard(c) \/ FinalizeCard(c)
              \/ BeginSubCard(c) \/ InsertSubCard(c)
              \/ Freeze(c) \/ Unfreeze(c) \/ Expire(c) \/ Delete(c)
              \/ RevokeSubCard(c) \/ ServerRevokeSub(c)
              \/ \E p \in Cards : AgentRevoke(p, c)
              \/ \E o \in Ops : PrepareRevoke(o, c)
       PROVE  Goal
  BY <1>19, <1>5, <1>9, <1>10, <1>11, <1>12, <1>17
<1>20. ASSUME NEW f \in Calls,
              \/ BadSignature(f) \/ Verified(f) \/ ReadBlock(f) \/ Send(f) \/ GiveUp(f)
              \/ RecordRevoke(f) \/ RecordNuke(f) \/ Cascade(f)
              \/ \E o \in Ops :
                    \/ Finalize(f, o) \/ ServerOp(f, o, "nuke", NoCard)
                    \/ \E c \in Roots : Exists(c) /\ ServerOp(f, o, "revoke", c)
       PROVE  Goal
  BY <1>20, <1>6, <1>7, <1>14, <1>17
<1>21. Goal
  BY <1>13, <1>15, <1>16, <1>17, <1>18, <1>19, <1>20 DEF Next
<1> QED
  BY <1>21 DEF Goal
-----------------------------------------------------------------------------
(* Admin operations and calls. *)

\* The part of the invariant that operations and calls can disturb.
OpTypeOK ==
    /\ disabled \subseteq Roots
    /\ op \in [Ops -> Op] /\ call \in [Calls -> Call]
    /\ \A o \in Ops : op[o].kind = "revoke" => op[o].card \in Roots

OpInv == OpTypeOK /\ OneBroadcast /\ MinedDisables

LEMMA OpFields ==
  ASSUME OpTypeOK, NEW o \in Ops
  PROVE  /\ op[o].kind \in {"revoke", "nuke"} /\ op[o].card \in Cards \cup {NoCard}
         /\ op[o].entry \in {"absent", "ready", "claimed", "consumed"}
         /\ op[o].tx \in {"none", "flight", "mined", "reverted"}
         /\ op[o].sends \in Nat
BY DEF OpTypeOK, Op

LEMMA MinedWasSent ==
  ASSUME OpInv, NEW o \in Ops, op[o].tx # "none"
  PROVE  op[o].sends # 0
BY DEF OpInv, OneBroadcast

LEMMA BusyCall ==
  ASSUME OpTypeOK, NEW f \in Calls, call[f].at # "idle"
  PROVE  call[f].op \in Ops /\ call[f].at \in Stages
BY DEF OpTypeOK, Call, Idle

\* A call that moves on.
LEMMA Gone ==
  ASSUME OpTypeOK, NEW f \in Calls, call[f].at # "idle",
         NEW at \in Stages,
         Goto(f, at)
  PROVE  /\ call' \in [Calls -> Call]
         /\ call'[f].at = at /\ call'[f].op = call[f].op
         /\ \A g \in Calls : g # f => call'[g] = call[g]
<1>1. call \in [Calls -> Call] /\ call[f] \in Call /\ call[f].op \in Ops
  BY BusyCall DEF OpTypeOK
<1>2. call[f] \in [at : Stages, op : Ops]
  BY <1>1 DEF Call, Idle
<1>3. /\ [call[f] EXCEPT !.at = at] \in Call
      /\ [call[f] EXCEPT !.at = at].at = at
      /\ [call[f] EXCEPT !.at = at].op = call[f].op
  BY <1>2 DEF Call
<1> QED
  BY <1>1, <1>3 DEF Goto

LEMMA Ended ==
  ASSUME OpTypeOK, NEW f \in Calls, End(f)
  PROVE  /\ call' \in [Calls -> Call]
         /\ call'[f].at = "idle"
         /\ \A g \in Calls : g # f => call'[g] = call[g]
BY DEF OpTypeOK, End, Idle, Call

\* A call that ends, or that waits for the chain, disturbs nothing.
LEMMA EndKeepsInv ==
  ASSUME OpInv, NEW f \in Calls, End(f), UNCHANGED <<op, disabled>>
  PROVE  OpInv'
<1>1. /\ call' \in [Calls -> Call] /\ call'[f].at = "idle"
      /\ \A g \in Calls : g # f => call'[g] = call[g]
  BY Ended DEF OpInv
<1>2. OpTypeOK' /\ MinedDisables'
  BY <1>1 DEF OpInv, OpTypeOK, MinedDisables
<1>3. \A g \in Calls : call'[g].at # "idle" => g # f /\ call'[g] = call[g]
  BY <1>1
<1>4. OneBroadcast'
  BY <1>3 DEF OpInv, OneBroadcast, Unsent
<1> QED
  BY <1>2, <1>4 DEF OpInv

LEMMA PrepareKeepsInv ==
  ASSUME OpInv, NEW o \in Ops, NEW kind \in {"revoke", "nuke"},
         NEW c \in Cards \cup {NoCard}, Prepare(o, kind, c),
         kind = "revoke" => c \in Roots
  PROVE  OpInv'
<1>1. /\ op \in [Ops -> Op] /\ op[o].entry = "absent"
      /\ UNCHANGED <<call, disabled>>
      /\ op' = [op EXCEPT ![o].kind = kind, ![o].card = c, ![o].entry = "ready"]
  BY DEF OpInv, OpTypeOK, Prepare
<1>2. /\ op' \in [Ops -> Op]
      /\ op'[o].kind = kind /\ op'[o].card = c /\ op'[o].entry = "ready"
      /\ op'[o].tx = op[o].tx /\ op'[o].sends = op[o].sends
      /\ \A x \in Ops : x # o => op'[x] = op[x]
  BY <1>1 DEF Op
<1>3. op[o].tx = "none" /\ op[o].sends = 0
  BY <1>1 DEF OpInv, OneBroadcast
<1>4. OpTypeOK' /\ MinedDisables'
  BY <1>1, <1>2, <1>3 DEF OpInv, OpTypeOK, MinedDisables
<1>5. \A f \in Calls : call[f].at \in Stages \ {"cascading"}
                            => call[f].op # o
  BY <1>1 DEF OpInv, OneBroadcast, Stages
<1>6. \A f \in Calls : call[f].at # "idle" => call[f].op \in Ops
  BY BusyCall DEF OpInv
<1>7. OneBroadcast'
  BY <1>1, <1>2, <1>3, <1>5, <1>6 DEF OpInv, OneBroadcast, Unsent
<1> QED
  BY <1>4, <1>7 DEF OpInv

\* A call takes up an operation that nothing was sent for: a finalize that
\* claims its entry, or a server-signed request.
LEMMA TakeUpKeepsInv ==
  ASSUME OpInv, NEW f \in Calls, NEW o \in Ops, call[f].at = "idle",
         op[o].entry \in {"absent", "ready"},
         NEW kind \in {"revoke", "nuke"}, NEW c \in Cards \cup {NoCard},
         kind = "revoke" => c \in Roots,
         NEW at \in Unsent,
         NEW entry, entry = IF at = "verifying" THEN "claimed" ELSE "consumed",
         op' \in [Ops -> Op],
         op'[o].kind = kind, op'[o].card = c, op'[o].entry = entry,
         op'[o].tx = op[o].tx, op'[o].sends = op[o].sends,
         \A x \in Ops : x # o => op'[x] = op[x],
         call' = [call EXCEPT ![f] = [at |-> at, op |-> o]],
         UNCHANGED disabled
  PROVE  OpInv'
<1>1. op[o].tx = "none" /\ op[o].sends = 0
  BY DEF OpInv, OneBroadcast
<1>2. /\ call \in [Calls -> Call] /\ call' \in [Calls -> Call]
      /\ call'[f].at = at /\ call'[f].op = o
      /\ \A g \in Calls : g # f => call'[g] = call[g]
  BY DEF OpInv, OpTypeOK, Call, Stages, Unsent
<1>3. OpTypeOK' /\ MinedDisables'
  BY <1>1, <1>2 DEF OpInv, OpTypeOK, MinedDisables
<1>4. \A g \in Calls : call[g].at \in Stages \ {"cascading"}
                            => call[g].op # o /\ call[g].op \in Ops
  BY BusyCall DEF OpInv, OneBroadcast, Stages
<1>5. at \in {"verifying", "sending", "broadcasting"}
  BY DEF Unsent
<1>6. \A x \in Ops : /\ op'[x].sends <= 1
                     /\ op'[x].sends = 0 => op'[x].tx = "none"
                     /\ op'[x].entry # "consumed" => op'[x].sends = 0
  BY <1>1 DEF OpInv, OneBroadcast
<1>7. ASSUME NEW g \in Calls
      PROVE  /\ call'[g].at = "verifying" => op'[call'[g].op].entry = "claimed"
             /\ call'[g].at \in {"sending", "broadcasting"} => op'[call'[g].op].entry = "consumed"
             /\ call'[g].at = "confirming" => op'[call'[g].op].entry = "consumed"
             /\ call'[g].at \in Unsent => op'[call'[g].op].sends = 0
  <2>1. CASE g = f
    BY <2>1, <1>1, <1>2, <1>5
  <2>2. CASE g # f
    BY <2>2, <1>2, <1>4 DEF OpInv, OneBroadcast, Stages, Unsent
  <2> QED
    BY <2>1, <2>2
<1>8. ASSUME NEW g \in Calls, NEW h \in Calls, call'[g].at \in Unsent,
             call'[h].at \in Unsent, call'[g].op = call'[h].op
      PROVE  g = h
  BY <1>2, <1>4, <1>8 DEF OpInv, OneBroadcast, Stages, Unsent
<1>9. OneBroadcast'
  BY <1>6, <1>7, <1>8 DEF OneBroadcast
<1> QED
  BY <1>3, <1>9 DEF OpInv
LEMMA StartKeepsInv ==
  ASSUME OpInv, NEW f \in Calls, NEW o \in Ops,
         \/ Finalize(f, o) \/ ServerOp(f, o, "nuke", NoCard)
         \/ \E c \in Roots : ServerOp(f, o, "revoke", c)
  PROVE  OpInv'
<1>1. op \in [Ops -> Op] /\ op[o] \in Op
  BY DEF OpInv, OpTypeOK
<1>2. CASE Finalize(f, o)
  <2>1. /\ op' = [op EXCEPT ![o].entry = "claimed"] /\ op[o].entry = "ready"
        /\ call[f].at = "idle" /\ UNCHANGED disabled
        /\ call' = [call EXCEPT ![f] = [at |-> "verifying", op |-> o]]
    BY <1>2 DEF Finalize, Claimable
  <2>2. /\ op' \in [Ops -> Op]
        /\ op'[o].kind = op[o].kind /\ op'[o].card = op[o].card
        /\ op'[o].entry = "claimed"
        /\ op'[o].tx = op[o].tx /\ op'[o].sends = op[o].sends
        /\ \A x \in Ops : x # o => op'[x] = op[x]
    BY <1>1, <2>1 DEF Op
  <2>3. op[o].kind = "revoke" => op[o].card \in Roots
    BY DEF OpInv, OpTypeOK
  <2>4. /\ op[o].kind \in {"revoke", "nuke"} /\ op[o].card \in Cards \cup {NoCard}
        /\ "verifying" \in Unsent
    BY <1>1 DEF Op, Unsent
  <2> QED
    BY <2>1, <2>2, <2>3, <2>4, TakeUpKeepsInv
<1>3. ASSUME NEW kind \in {"revoke", "nuke"}, NEW c \in Cards \cup {NoCard},
             kind = "revoke" => c \in Roots, ServerOp(f, o, kind, c)
      PROVE  OpInv'
  <2>1. /\ op' = [op EXCEPT ![o].kind = kind, ![o].card = c, ![o].entry = "consumed"]
        /\ op[o].entry = "absent"
        /\ call[f].at = "idle" /\ UNCHANGED disabled
        /\ call' = [call EXCEPT ![f] = [at |-> "sending", op |-> o]]
    BY <1>3 DEF ServerOp
  <2>2. /\ op' \in [Ops -> Op]
        /\ op'[o].kind = kind /\ op'[o].card = c
        /\ op'[o].entry = "consumed"
        /\ op'[o].tx = op[o].tx /\ op'[o].sends = op[o].sends
        /\ \A x \in Ops : x # o => op'[x] = op[x]
    BY <1>1, <2>1 DEF Op
  <2>3. "sending" \in Unsent
    BY DEF Unsent
  <2>4. op'[o].entry = IF "sending" = "verifying" THEN "claimed" ELSE "consumed"
    BY <2>2
  <2>5. op[o].entry \in {"absent", "ready"}
    BY <2>1
  <2> QED
    BY <1>3, <2>1, <2>2, <2>3, <2>4, <2>5, TakeUpKeepsInv, ZenonT(60)
<1>4. \A c \in Roots : c \in Cards
  BY DEF Roots
<1> QED
  BY <1>2, <1>3, <1>4

\* The entry of a call's operation changes, and the call moves on or ends.
LEMMA EntryKeepsInv ==
  ASSUME OpInv, NEW f \in Calls, call[f].at = "verifying",
         NEW entry \in {"ready", "consumed"},
         op' = [op EXCEPT ![call[f].op].entry = entry],
         \/ End(f)
         \/ entry = "consumed" /\ \E at \in {"sending", "cascading"} : Goto(f, at),
         UNCHANGED disabled
  PROVE  OpInv'
<1> DEFINE o == call[f].op
<1>1. o \in Ops /\ op \in [Ops -> Op]
  BY BusyCall DEF OpInv, OpTypeOK
<1>2. /\ op' \in [Ops -> Op] /\ op'[o].entry = entry
      /\ op'[o].kind = op[o].kind /\ op'[o].card = op[o].card
      /\ op'[o].tx = op[o].tx /\ op'[o].sends = op[o].sends
      /\ \A x \in Ops : x # o => op'[x] = op[x]
  BY <1>1 DEF Op
<1>3. op[o].sends = 0 /\ op[o].entry = "claimed" /\ op[o].tx = "none"
  BY <1>1 DEF OpInv, OneBroadcast, Unsent
<1>4. /\ call' \in [Calls -> Call]
      /\ \/ call'[f].at = "idle"
         \/ /\ entry = "consumed" /\ call'[f].at \in {"sending", "cascading"}
            /\ call'[f].op = o
      /\ \A g \in Calls : g # f => call'[g] = call[g]
  <2>1. CASE End(f)
    BY <2>1, Ended DEF OpInv
  <2>2. ASSUME entry = "consumed", NEW at \in {"sending", "cascading"}, Goto(f, at)
        PROVE  /\ call' \in [Calls -> Call]
               /\ call'[f].at = at /\ call'[f].op = o
               /\ \A g \in Calls : g # f => call'[g] = call[g]
    BY <2>2, Gone DEF OpInv, Stages
  <2> QED
    BY <2>1, <2>2
<1> HIDE DEF o
<1>5. OpTypeOK' /\ MinedDisables'
  BY <1>1, <1>2, <1>4 DEF OpInv, OpTypeOK, MinedDisables
<1>6. \A g \in Calls : g # f /\ call[g].at \in Stages \ {"cascading"}
                            => call[g].op # o /\ call[g].op \in Ops
  <2>1. \A g \in Calls : call[g].at # "idle" => call[g].op \in Ops
    BY BusyCall DEF OpInv
  <2>2. \A g \in Calls : call[g].at \in {"sending", "broadcasting", "confirming"} => call[g].op # o
    BY <1>3 DEF OpInv, OneBroadcast
  <2>3. \A g \in Calls : g # f /\ call[g].at = "verifying" => call[g].op # o
    BY DEF OpInv, OneBroadcast, Unsent, o
  <2> QED
    BY <2>1, <2>2, <2>3 DEF Stages
<1>7. \A x \in Ops : /\ op'[x].sends <= 1
                     /\ op'[x].sends = 0 => op'[x].tx = "none"
                     /\ op'[x].entry # "consumed" => op'[x].sends = 0
  BY <1>2, <1>3 DEF OpInv, OneBroadcast
<1>8. ASSUME NEW g \in Calls
      PROVE  /\ call'[g].at = "verifying" => op'[call'[g].op].entry = "claimed"
             /\ call'[g].at \in {"sending", "broadcasting"} => op'[call'[g].op].entry = "consumed"
             /\ call'[g].at = "confirming" => op'[call'[g].op].entry = "consumed"
             /\ call'[g].at \in Unsent => op'[call'[g].op].sends = 0
  <2>1. CASE g = f
    BY <2>1, <1>2, <1>3, <1>4 DEF Unsent
  <2>2. CASE g # f
    BY <2>2, <1>2, <1>4, <1>6 DEF OpInv, OneBroadcast, Stages, Unsent
  <2> QED
    BY <2>1, <2>2
<1>9. ASSUME NEW g \in Calls, NEW h \in Calls, call'[g].at \in Unsent,
             call'[h].at \in Unsent, call'[g].op = call'[h].op
      PROVE  g = h
  BY <1>4, <1>6, <1>9 DEF OpInv, OneBroadcast, Stages, Unsent
<1>10. OneBroadcast'
  BY <1>7, <1>8, <1>9 DEF OneBroadcast
<1> QED
  BY <1>5, <1>10 DEF OpInv

LEMMA SendKeepsInv ==
  ASSUME OpInv, NEW f \in Calls, Send(f)
  PROVE  OpInv'
<1> DEFINE o == call[f].op
<1>1. /\ o \in Ops /\ op \in [Ops -> Op] /\ call[f].at = "broadcasting"
      /\ UNCHANGED disabled
      /\ op' = [op EXCEPT ![o].tx = "flight", ![o].sends = @ + 1]
      /\ Goto(f, "confirming")
  BY BusyCall DEF OpInv, OpTypeOK, Send
<1>2. op[o].sends = 0 /\ op[o].entry = "consumed"
  BY <1>1 DEF OpInv, OneBroadcast, Unsent
<1>3. /\ op' \in [Ops -> Op] /\ op'[o].entry = op[o].entry
      /\ op'[o].kind = op[o].kind /\ op'[o].card = op[o].card
      /\ op'[o].tx = "flight" /\ op'[o].sends = 1
      /\ \A x \in Ops : x # o => op'[x] = op[x]
  BY <1>1, <1>2 DEF Op
<1>4. /\ call' \in [Calls -> Call]
      /\ call'[f].at = "confirming" /\ call'[f].op = o
      /\ \A g \in Calls : g # f => call'[g] = call[g]
  BY <1>1, Gone DEF OpInv, Stages
<1>5. \A g \in Calls : g # f /\ call[g].at \in Unsent => call[g].op # o
  BY <1>1 DEF OpInv, OneBroadcast, Unsent
<1>6. \A g \in Calls : call[g].at # "idle" => call[g].op \in Ops
  BY BusyCall DEF OpInv
<1> HIDE DEF o
<1>7. OpTypeOK' /\ MinedDisables'
  BY <1>1, <1>3, <1>4 DEF OpInv, OpTypeOK, MinedDisables
<1>8. OneBroadcast'
  BY <1>2, <1>3, <1>4, <1>5, <1>6 DEF OpInv, OneBroadcast, Unsent
<1> QED
  BY <1>7, <1>8 DEF OpInv

\* A transaction is mined or reverts.
LEMMA OutcomeKeepsInv ==
  ASSUME OpInv, NEW o \in Ops, Mine(o) \/ Revert(o)
  PROVE  OpInv' /\ disabled \subseteq disabled'
<1>1. op \in [Ops -> Op] /\ op[o].tx = "flight" /\ UNCHANGED call
  BY DEF OpInv, OpTypeOK, Mine, Revert
<1>2. PICK tx \in {"mined", "reverted"} : op' = [op EXCEPT ![o].tx = tx]
  BY DEF Mine, Revert
<1>3. /\ op' \in [Ops -> Op] /\ op'[o].entry = op[o].entry
      /\ op'[o].kind = op[o].kind /\ op'[o].card = op[o].card
      /\ op'[o].tx = tx /\ op'[o].sends = op[o].sends
      /\ \A x \in Ops : x # o => op'[x] = op[x]
  BY <1>1, <1>2 DEF Op
<1>4. /\ disabled' \subseteq Roots /\ disabled \subseteq disabled'
      /\ tx = "mined" /\ op[o].kind = "revoke" => op[o].card \in disabled'
  <2>1. op[o].kind = "revoke" => op[o].card \in Roots
    BY DEF OpInv, OpTypeOK
  <2>2. CASE Mine(o)
    BY <2>1, <2>2 DEF OpInv, OpTypeOK, Mine
  <2>3. CASE Revert(o)
    <3>1. tx = "reverted"
      BY <1>1, <1>2, <2>3 DEF Revert, Op
    <3> QED
      BY <2>3, <3>1 DEF OpInv, OpTypeOK, Revert
  <2> QED
    BY <2>2, <2>3
<1>5. OpTypeOK' /\ MinedDisables'
  BY <1>1, <1>3, <1>4 DEF OpInv, OpTypeOK, MinedDisables
<1>6. op[o].entry = "consumed"
  BY <1>1 DEF OpInv, OneBroadcast
<1>7. \A g \in Calls : call[g].at # "idle" => call[g].op \in Ops
  BY BusyCall DEF OpInv
<1>8. OneBroadcast'
  BY <1>1, <1>3, <1>6, <1>7 DEF OpInv, OneBroadcast, Unsent
<1> QED
  BY <1>4, <1>5, <1>8 DEF OpInv

\* A call reads its block, or goes on to the tokens.
LEMMA StageKeepsInv ==
  ASSUME OpInv, NEW f \in Calls,
         \/ call[f].at = "sending" /\ Goto(f, "broadcasting")
         \/ call[f].at = "confirming" /\ Goto(f, "cascading"),
         UNCHANGED <<op, disabled>>
  PROVE  OpInv'
<1>1. /\ call' \in [Calls -> Call] /\ call'[f].op = call[f].op
      /\ \/ call[f].at = "sending" /\ call'[f].at = "broadcasting"
         \/ call[f].at = "confirming" /\ call'[f].at = "cascading"
      /\ \A g \in Calls : g # f => call'[g] = call[g]
  BY Gone DEF OpInv, Stages
<1>2. OpTypeOK' /\ MinedDisables'
  BY <1>1 DEF OpInv, OpTypeOK, MinedDisables
<1>3. \A g \in Calls : /\ call'[g].at = "verifying" => call[g] = call'[g]
                       /\ call'[g].at = "sending" => call[g] = call'[g]
                       /\ call'[g].at = "confirming" => call[g] = call'[g]
                       /\ call'[g].at = "broadcasting" =>
                             /\ call[g].at \in {"sending", "broadcasting"}
                             /\ call[g].op = call'[g].op
  BY <1>1
<1>4. \A g \in Calls : call'[g].at \in Unsent
                          => call[g].at \in Unsent /\ call[g].op = call'[g].op
  BY <1>3 DEF Unsent
<1>5. OneBroadcast'
  BY <1>3, <1>4 DEF OpInv, OneBroadcast
<1> QED
  BY <1>2, <1>5 DEF OpInv

\* A crash ends every call and drops the entries that nothing was sent for.
LEMMA ForgetKeepsInv ==
  ASSUME OpInv, Forget, UNCHANGED disabled
  PROVE  OpInv'
<1>1. /\ call' \in [Calls -> Call] /\ \A f \in Calls : call'[f].at = "idle"
  BY DEF Forget, Idle, Call
<1>2. ASSUME NEW o \in Ops
      PROVE  /\ op'[o] \in Op /\ op'[o].kind = op[o].kind /\ op'[o].card = op[o].card
             /\ op'[o].tx = op[o].tx /\ op'[o].sends = op[o].sends
             /\ op'[o].entry # "consumed" => op[o].entry # "consumed"
  BY DEF Forget, OpInv, OpTypeOK, Op
<1>3. op' \in [Ops -> Op]
  BY <1>2 DEF Forget
<1>4. OpTypeOK' /\ MinedDisables'
  BY <1>1, <1>2, <1>3 DEF OpInv, OpTypeOK, MinedDisables
<1>5. OneBroadcast'
  BY <1>1, <1>2 DEF OpInv, OneBroadcast, Unsent
<1> QED
  BY <1>4, <1>5 DEF OpInv

LEMMA QuietKeepsInv ==
  ASSUME OpInv, UNCHANGED <<op, call, disabled>>
  PROVE  OpInv'
<1>1. OpTypeOK'
  BY DEF OpInv, OpTypeOK
<1>2. OneBroadcast' /\ MinedDisables'
  BY DEF OpInv, OneBroadcast, MinedDisables
<1> QED
  BY <1>1, <1>2 DEF OpInv

LEMMA OpMoves ==
  ASSUME OpInv, Next
  PROVE  OpInv' /\ disabled \subseteq disabled'
<1> DEFINE Goal == OpInv' /\ disabled \subseteq disabled'
<1> SUFFICES Goal
  OBVIOUS
<1> USE DEF adminVars, runVars
<1>1. UNCHANGED <<op, call, disabled>> => Goal
  BY QuietKeepsInv
<1>2. ASSUME NEW c \in Cards,
             \/ PrepareCard(c) \/ FinalizeCard(c)
             \/ BeginSubCard(c) \/ InsertSubCard(c)
             \/ Freeze(c) \/ Unfreeze(c) \/ Expire(c) \/ Delete(c)
             \/ RevokeSubCard(c) \/ ServerRevokeSub(c)
             \/ \E p \in Cards : AgentRevoke(p, c)
      PROVE  UNCHANGED <<op, call, disabled>>
  BY <1>2 DEF PrepareCard, FinalizeCard, BeginSubCard, InsertSubCard,
              Freeze, Unfreeze, Expire, Delete, RevokeSubCard, ServerRevokeSub,
              AgentRevoke
<1>3. ASSUME NEW c \in Cards, NEW o \in Ops, PrepareRevoke(o, c)
      PROVE  Goal
  BY <1>3, PrepareKeepsInv DEF PrepareRevoke, Prepare
<1>4. ASSUME NEW o \in Ops, PrepareNuke(o)
      PROVE  Goal
  BY <1>4, PrepareKeepsInv DEF PrepareNuke, Prepare
<1>5. ASSUME NEW o \in Ops, Mine(o) \/ Revert(o)
      PROVE  Goal
  BY <1>5, OutcomeKeepsInv
<1>6. ASSUME NEW f \in Calls, NEW o \in Ops,
             \/ Finalize(f, o) \/ ServerOp(f, o, "nuke", NoCard)
             \/ \E c \in Roots : ServerOp(f, o, "revoke", c)
      PROVE  Goal
  <2>1. UNCHANGED disabled
    BY <1>6 DEF Finalize, ServerOp
  <2> QED
    BY <1>6, <2>1, StartKeepsInv
<1>7. ASSUME NEW f \in Calls, BadSignature(f)
      PROVE  Goal
  BY <1>7, EntryKeepsInv DEF BadSignature
<1>8. ASSUME NEW f \in Calls, Verified(f)
      PROVE  Goal
  <2>1. /\ call[f].at = "verifying" /\ UNCHANGED disabled
        /\ op' = [op EXCEPT ![call[f].op].entry = "consumed"]
        /\ \E at \in {"sending", "cascading"} : Goto(f, at)
    BY <1>8 DEF Verified
  <2> QED
    BY <2>1, EntryKeepsInv
<1>9. ASSUME NEW f \in Calls, Send(f)
      PROVE  Goal
  BY <1>9, SendKeepsInv DEF Send
<1>10. ASSUME NEW f \in Calls, GiveUp(f) \/ Cascade(f)
       PROVE  Goal
  BY <1>10, EndKeepsInv DEF GiveUp, Cascade
<1>11. ASSUME NEW f \in Calls, ReadBlock(f) \/ RecordRevoke(f) \/ RecordNuke(f)
       PROVE  Goal
  BY <1>11, StageKeepsInv DEF ReadBlock, RecordRevoke, RecordNuke
<1>12. CASE GrantStep /\ Elsewhere
  BY <1>1, <1>12 DEF Elsewhere
<1>13. CASE Crash
  BY <1>13, ForgetKeepsInv DEF Crash
<1>14. ASSUME NEW fee \in SpendFees, MineSpend(fee)
       PROVE  Goal
  BY <1>1, <1>14 DEF MineSpend
<1> HIDE DEF Goal
<1>15. CASE \E c \in Cards :
               \/ PrepareCard(c) \/ FinalizeCard(c)
               \/ BeginSubCard(c) \/ InsertSubCard(c)
               \/ Freeze(c) \/ Unfreeze(c) \/ Expire(c) \/ Delete(c)
               \/ RevokeSubCard(c) \/ ServerRevokeSub(c)
               \/ \E p \in Cards : AgentRevoke(p, c)
               \/ \E o \in Ops : PrepareRevoke(o, c)
  <2>1. PICK c \in Cards :
               \/ PrepareCard(c) \/ FinalizeCard(c)
               \/ BeginSubCard(c) \/ InsertSubCard(c)
               \/ Freeze(c) \/ Unfreeze(c) \/ Expire(c) \/ Delete(c)
               \/ RevokeSubCard(c) \/ ServerRevokeSub(c)
               \/ \E p \in Cards : AgentRevoke(p, c)
               \/ \E o \in Ops : PrepareRevoke(o, c)
    BY <1>15
  <2>2. CASE \E o \in Ops : PrepareRevoke(o, c)
    BY <2>2, <1>3
  <2> QED
    BY <2>1, <2>2, <1>1, <1>2
<1>16. CASE \E f \in Calls :
               \/ BadSignature(f) \/ Verified(f) \/ ReadBlock(f) \/ Send(f) \/ GiveUp(f)
               \/ RecordRevoke(f) \/ RecordNuke(f) \/ Cascade(f)
               \/ \E o \in Ops :
                     \/ Finalize(f, o) \/ ServerOp(f, o, "nuke", NoCard)
                     \/ \E c \in Roots : Exists(c) /\ ServerOp(f, o, "revoke", c)
  BY <1>16, <1>6, <1>7, <1>8, <1>9, <1>10, <1>11
<1>17. CASE \E o \in Ops : PrepareNuke(o) \/ Mine(o) \/ Revert(o)
  BY <1>17, <1>4, <1>5
<1> QED
  BY <1>12, <1>13, <1>14, <1>15, <1>16, <1>17 DEF Next

-----------------------------------------------------------------------------
(* What the logs tell. *)

LogTypeOK == logs \in [Calls -> SUBSET Nat]

\* What a call keeps of its logs, or forgets.
LEMMA LogsKept ==
  ASSUME LogTypeOK, LogsTellTruth, logs' \in [Calls -> SUBSET Nat],
         \A f \in Calls : logs'[f] \subseteq logs[f],
         \A o \in Ops : op[o].tx = "mined" => op'[o].tx = "mined"
  PROVE  LogTypeOK' /\ LogsTellTruth'
BY DEF LogTypeOK, LogsTellTruth, FeesUnique

\* A transfer of a fee is every watching call's to see.
LEMMA LogsGrow ==
  ASSUME LogTypeOK, LogsTellTruth, NEW fee \in Nat, Logged(fee),
         \A o \in Ops : op[o].tx = "mined" => op'[o].tx = "mined",
         FeesUnique => \A o \in Ops : Fee[o] = fee => op'[o].tx = "mined"
  PROVE  LogTypeOK' /\ LogsTellTruth'
<1>1. \A f \in Calls : logs'[f] \subseteq logs[f] \cup {fee} /\ logs'[f] \subseteq Nat
  BY DEF Logged, LogTypeOK
<1>2. logs' \in [Calls -> SUBSET Nat]
  BY <1>1 DEF Logged, LogTypeOK
<1> QED
  BY <1>1, <1>2 DEF LogTypeOK, LogsTellTruth, FeesUnique

LEMMA LogMoves ==
  ASSUME OpInv, LogTypeOK, LogsTellTruth, Next
  PROVE  LogTypeOK' /\ LogsTellTruth'
<1> DEFINE Goal == LogTypeOK' /\ LogsTellTruth'
<1> SUFFICES Goal
  OBVIOUS
<1>a. op \in [Ops -> Op] /\ logs \in [Calls -> SUBSET Nat]
  BY DEF OpInv, OpTypeOK, LogTypeOK
<1>b. \A f \in Calls : call[f].at # "idle" => call[f].op \in Ops
  BY BusyCall DEF OpInv
<1> USE DEF adminVars, runVars
<1>1. UNCHANGED <<op, logs>> => Goal
  BY <1>a, LogsKept
<1>2. ASSUME NEW o \in Ops,
             \/ \E kind \in {"revoke", "nuke"}, c \in Cards \cup {NoCard} :
                   Prepare(o, kind, c)
             \/ Revert(o)
      PROVE  Goal
  <2>1. logs' = logs
    BY <1>2 DEF Prepare, Revert
  <2>2. /\ op[o].tx # "mined" \/ op'[o].tx = op[o].tx
        /\ \A q \in Ops : q # o => op'[q] = op[q]
    <3>1. CASE Revert(o)
      BY <3>1, <1>a DEF Revert
    <3>2. ASSUME NEW kind, NEW c, Prepare(o, kind, c)
          PROVE  /\ op'[o].tx = op[o].tx
                 /\ \A q \in Ops : q # o => op'[q] = op[q]
      <4>1. op' = [op EXCEPT ![o].kind = kind, ![o].card = c, ![o].entry = "ready"]
        BY <3>2 DEF Prepare
      <4> QED
        BY <4>1, <1>a DEF Op
    <3> QED
      BY <1>2, <3>1, <3>2
  <2> QED
    BY <1>a, <2>1, <2>2, LogsKept
<1>3. ASSUME NEW o \in Ops, Mine(o)
      PROVE  Goal
  <2>1. op' = [op EXCEPT ![o].tx = "mined"] /\ Logged(Fee[o])
    BY <1>3 DEF Mine
  <2>2. op'[o].tx = "mined" /\ \A q \in Ops : q # o => op'[q] = op[q]
    BY <1>a, <2>1 DEF Op
  <2>3. FeesUnique => \A q \in Ops : Fee[q] = Fee[o] => op'[q].tx = "mined"
    BY <2>2 DEF FeesUnique
  <2>4. \A q \in Ops : op[q].tx = "mined" => op'[q].tx = "mined"
    BY <2>2
  <2>5. Fee[o] \in Nat
    BY AdminAssumption
  <2> QED
    BY <2>1, <2>3, <2>4, <2>5, LogsGrow
<1>4. ASSUME NEW fee \in SpendFees, MineSpend(fee)
      PROVE  Goal
  <2>1. fee \in Nat /\ Logged(fee) /\ op' = op
    BY <1>4, AdminAssumption DEF MineSpend
  <2>2. FeesUnique => \A o \in Ops : Fee[o] # fee
    BY DEF FeesUnique
  <2> QED
    BY <2>1, <2>2, LogsGrow
\* A call that ends drops its logs; one that goes on keeps them.
<1>5. ASSUME NEW f \in Calls,
             \/ BadSignature(f) \/ Verified(f) \/ ReadBlock(f) \/ Send(f) \/ GiveUp(f)
             \/ RecordRevoke(f) \/ RecordNuke(f) \/ Cascade(f)
             \/ \E o \in Ops : Finalize(f, o) \/ \E kind, c : ServerOp(f, o, kind, c)
      PROVE  Goal
  <2>1. logs' = logs \/ logs' = [logs EXCEPT ![f] = {}]
    BY <1>5 DEF BadSignature, Verified, ReadBlock, Send, GiveUp, RecordRevoke,
                RecordNuke, Cascade, Finalize, ServerOp, Goto, End
  <2>2. /\ logs' \in [Calls -> SUBSET Nat]
        /\ \A g \in Calls : logs'[g] \subseteq logs[g]
    BY <1>a, <2>1
  <2>3. ASSUME NEW o \in Ops, op[o].tx = "mined" PROVE op'[o].tx = "mined"
    <3>1. CASE Send(f)
      <4>1. /\ call[f].op \in Ops /\ call[f].at = "broadcasting"
            /\ op' = [op EXCEPT ![call[f].op].tx = "flight", ![call[f].op].sends = @ + 1]
        BY <3>1, BusyCall DEF Send, OpInv
      <4>2. op[call[f].op].sends = 0
        BY <4>1 DEF OpInv, OneBroadcast, Unsent
      <4>3. o # call[f].op
        BY <2>3, <4>2, MinedWasSent DEF OpInv
      <4> QED
        BY <2>3, <4>1, <4>3, <1>a
    <3>2. CASE ~Send(f)
      <4>1. CASE BadSignature(f) \/ Verified(f)
        <5>1. \E entry : op' = [op EXCEPT ![call[f].op].entry = entry]
          BY <4>1 DEF BadSignature, Verified
        <5>2. call[f].op \in Ops
          BY <4>1, <1>b DEF BadSignature, Verified
        <5> QED
          BY <2>3, <5>1, <5>2, <1>a DEF Op
      <4>2. CASE \/ ReadBlock(f) \/ GiveUp(f) \/ RecordRevoke(f)
                 \/ RecordNuke(f) \/ Cascade(f)
        BY <2>3, <4>2 DEF ReadBlock, GiveUp, RecordRevoke, RecordNuke, Cascade
      <4>3. ASSUME NEW q \in Ops, Finalize(f, q)
            PROVE  op'[o].tx = "mined"
        BY <2>3, <4>3, <1>a DEF Finalize, Op
      <4>4. ASSUME NEW q \in Ops, NEW kind, NEW c, ServerOp(f, q, kind, c)
            PROVE  op'[o].tx = "mined"
        <5>1. op' = [op EXCEPT ![q].kind = kind, ![q].card = c, ![q].entry = "consumed"]
          BY <4>4 DEF ServerOp
        <5> QED
          BY <2>3, <5>1, <1>a DEF Op
      <4> QED
        BY <1>5, <3>2, <4>1, <4>2, <4>3, <4>4
    <3> QED
      BY <3>1, <3>2
  <2> QED
    BY <2>2, <2>3, LogsKept
<1>6. CASE Crash
  <2>1. /\ logs' = [f \in Calls |-> {}]
        /\ \A o \in Ops : op'[o].tx = op[o].tx
    BY <1>6, <1>a DEF Crash, Forget, Op
  <2>2. /\ logs' \in [Calls -> SUBSET Nat]
        /\ \A g \in Calls : logs'[g] \subseteq logs[g]
    BY <1>a, <2>1
  <2> QED
    BY <2>1, <2>2, LogsKept
<1>7. CASE GrantStep /\ Elsewhere
  BY <1>1, <1>7 DEF Elsewhere
<1>8. ASSUME NEW c \in Cards,
             \/ PrepareCard(c) \/ FinalizeCard(c)
             \/ BeginSubCard(c) \/ InsertSubCard(c)
             \/ Freeze(c) \/ Unfreeze(c) \/ Expire(c) \/ Delete(c)
             \/ RevokeSubCard(c) \/ ServerRevokeSub(c)
             \/ \E p \in Cards : AgentRevoke(p, c)
      PROVE  UNCHANGED <<op, logs>>
  BY <1>8 DEF PrepareCard, FinalizeCard, BeginSubCard, InsertSubCard,
              Freeze, Unfreeze, Expire, Delete, RevokeSubCard, ServerRevokeSub,
              AgentRevoke
<1>9. ASSUME NEW c \in Cards, NEW o \in Ops, PrepareRevoke(o, c)
      PROVE  Goal
  BY <1>2, <1>9 DEF PrepareRevoke
<1>10. ASSUME NEW o \in Ops, PrepareNuke(o)
       PROVE  Goal
  BY <1>2, <1>10 DEF PrepareNuke
<1> HIDE DEF Goal
<1>11. CASE \E f \in Calls :
               \/ BadSignature(f) \/ Verified(f) \/ ReadBlock(f) \/ Send(f) \/ GiveUp(f)
               \/ RecordRevoke(f) \/ RecordNuke(f) \/ Cascade(f)
               \/ \E o \in Ops :
                     \/ Finalize(f, o) \/ ServerOp(f, o, "nuke", NoCard)
                     \/ \E c \in Roots : Exists(c) /\ ServerOp(f, o, "revoke", c)
  BY <1>5, <1>11
<1> QED
  BY <1>1, <1>2, <1>3, <1>4, <1>6, <1>7, <1>8, <1>9, <1>10, <1>11 DEF Next

-----------------------------------------------------------------------------
(* Cards. *)

CardTypeOK ==
    /\ expired \subseteq Cards
    /\ issue \in [Cards -> {"idle", "prepared", "signing", "done"}]
    /\ crashes \in Nat /\ orphaned \subseteq Cards

LEMMA CardTypes ==
  ASSUME CardTypeOK, Next
  PROVE  CardTypeOK'
<1> SUFFICES CardTypeOK'
  OBVIOUS
<1> USE DEF adminVars, crashVars
<1>1. ASSUME UNCHANGED <<expired, issue, crashVars>>
      PROVE  CardTypeOK'
  BY <1>1 DEF CardTypeOK
<1>2. ASSUME NEW c \in Cards,
             \/ PrepareCard(c) \/ FinalizeCard(c) \/ BeginSubCard(c) \/ InsertSubCard(c)
      PROVE  CardTypeOK'
  <2>1. /\ \E at \in {"prepared", "signing", "done"} : issue' = [issue EXCEPT ![c] = at]
        /\ UNCHANGED <<expired, crashVars>>
    BY <1>2 DEF PrepareCard, FinalizeCard, BeginSubCard, InsertSubCard
  <2> QED
    BY <2>1 DEF CardTypeOK
<1>3. ASSUME NEW c \in Cards, Expire(c)
      PROVE  CardTypeOK'
  BY <1>3 DEF Expire, CardTypeOK
<1>4. ASSUME NEW c \in Cards,
             \/ Freeze(c) \/ Unfreeze(c) \/ Delete(c)
             \/ RevokeSubCard(c) \/ ServerRevokeSub(c)
             \/ \E p \in Cards : AgentRevoke(p, c)
             \/ \E o \in Ops : PrepareRevoke(o, c)
      PROVE  CardTypeOK'
  BY <1>1, <1>4 DEF Freeze, Unfreeze, Delete, RevokeSubCard, ServerRevokeSub,
                    AgentRevoke, PrepareRevoke, Prepare, cardVars
<1>5. ASSUME NEW o \in Ops, PrepareNuke(o) \/ Mine(o) \/ Revert(o)
      PROVE  CardTypeOK'
  BY <1>1, <1>5 DEF PrepareNuke, Prepare, Mine, Revert, cardVars
<1>6. ASSUME NEW f \in Calls,
             \/ BadSignature(f) \/ Verified(f) \/ ReadBlock(f) \/ Send(f) \/ GiveUp(f)
             \/ RecordRevoke(f) \/ RecordNuke(f) \/ Cascade(f)
             \/ \E o \in Ops : Finalize(f, o) \/ ServerOp(f, o, "nuke", NoCard)
             \/ \E o \in Ops, c \in Roots : ServerOp(f, o, "revoke", c)
      PROVE  CardTypeOK'
  BY <1>1, <1>6 DEF BadSignature, Verified, ReadBlock, Send, GiveUp, RecordRevoke,
                    RecordNuke, Cascade, Finalize, ServerOp, cardVars
<1>7. ASSUME NEW fee \in SpendFees, MineSpend(fee)
      PROVE  CardTypeOK'
  BY <1>1, <1>7 DEF MineSpend, cardVars
<1>8. CASE Crash
  <2>1. \A c : Subtree(c) \subseteq Cards
    BY DEF Subtree
  <2>2. KillsUnderWay \subseteq Cards
    BY <2>1 DEF KillsUnderWay, Reach
  <2>3. orphaned' \subseteq Cards
    BY <1>8, <2>1, <2>2 DEF Crash, CardTypeOK
  <2>4. issue' \in [Cards -> {"idle", "prepared", "signing", "done"}]
    BY <1>8 DEF Crash, Forget
  <2> QED
    BY <1>8, <2>3, <2>4 DEF Crash, CardTypeOK
<1>9. CASE GrantStep /\ Elsewhere
  BY <1>1, <1>9 DEF Elsewhere, cardVars
<1> QED
  BY <1>2, <1>3, <1>4, <1>5, <1>6, <1>7, <1>8, <1>9 DEF Next

LEMMA AdminNextInv == AdminInv /\ Next => AdminInv'
<1> SUFFICES ASSUME AdminInv, Next PROVE AdminInv'
  OBVIOUS
<1>1. OpInv /\ CardTypeOK /\ LogTypeOK /\ LogsTellTruth /\ status \in [Cards -> Statuses]
  BY DEF AdminInv, AdminTypeOK, OpInv, OpTypeOK, CardTypeOK, LogTypeOK
<1>2. OpInv' /\ disabled \subseteq disabled' /\ CardTypeOK' /\ LogTypeOK' /\ LogsTellTruth'
  BY <1>1, OpMoves, CardTypes, LogMoves
<1>3. status' \in [Cards -> Statuses]
  BY StatusMoves
<1>4. AdminTypeOK' /\ OneBroadcast' /\ MinedDisables'
  BY <1>2, <1>3 DEF OpInv, OpTypeOK, CardTypeOK, LogTypeOK, AdminTypeOK
<1>5. FeesUnique => RevokedIsDisabled'
  BY <1>2, StatusMoves DEF AdminInv, RevokedIsDisabled
<1>6. FeesUnique' <=> FeesUnique
  BY DEF FeesUnique
<1> QED
  BY <1>2, <1>4, <1>5, <1>6 DEF AdminInv

LEMMA GrantNextInv == GrantInv /\ Next => GrantInv'
<1> SUFFICES ASSUME GrantInv, Next PROVE GrantInv'
  OBVIOUS
<1>1. CASE UNCHANGED grantVars
  BY <1>1 DEF grantVars, GrantInv, GrantTypeOK, FamiliesRooted, MintedFromUsed,
              ConsentFirst, EndedStaysDead, OneLiveRow
<1> QED
  BY <1>1, GrantsChange, GrantStepKeepsInv, RevokeTokensKeepsInv

-----------------------------------------------------------------------------
(* The theorems. *)

LEMMA Invariance == Spec => [](GrantInv /\ AdminInv)
<1>1. AdminInit => GrantInv /\ AdminInv
  BY GrantInitInv, AdminInitInv DEF AdminInit
<1>2. GrantInv /\ AdminInv /\ [Next]_vars => (GrantInv /\ AdminInv)'
  <2> SUFFICES ASSUME GrantInv, AdminInv, [Next]_vars PROVE (GrantInv /\ AdminInv)'
    OBVIOUS
  <2>1. CASE Next
    BY <2>1, AdminNextInv, GrantNextInv
  <2>2. CASE UNCHANGED vars
    BY <2>2 DEF vars, GrantInv, GrantTypeOK, FamiliesRooted, MintedFromUsed,
                ConsentFirst, EndedStaysDead, OneLiveRow, AdminInv, AdminTypeOK,
                OneBroadcast, MinedDisables, LogsTellTruth, RevokedIsDisabled
  <2> QED
    BY <2>1, <2>2
<1> QED
  BY <1>1, <1>2, PTL DEF Spec

\* Every variable keeps its type.
THEOREM AdminTypes == Spec => []TypeOK
<1>1. GrantInv /\ AdminInv => TypeOK
  BY DEF GrantInv, GrantTypeOK, AdminInv, AdminTypeOK, TypeOK
<1> QED
  BY <1>1, Invariance, PTL

\* A root card the books call revoked is disabled on the chain, for any number
\* of cards, operations and concurrent requests, with lost answers, timeouts and
\* crashes, where no two fees of the account are equal.
THEOREM RevocationReachesChain ==
  ASSUME FeesUnique
  PROVE  Spec => []RevokedIsDisabled
<1>1. AdminInv => RevokedIsDisabled
  BY DEF AdminInv
<1> QED
  BY <1>1, Invariance, PTL

\* A signed admin leaf is sent to the relayer at most once.
THEOREM LeafSentOnce == Spec => []AdminSentOnce
<1>1. AdminInv => AdminSentOnce
  BY DEF AdminInv, OneBroadcast, AdminSentOnce
<1> QED
  BY <1>1, Invariance, PTL

\* A token family that a replay or a revocation ended has no live row again.
THEOREM EndedFamilies == Spec => []EndedStaysDead
<1>1. GrantInv => EndedStaysDead
  BY DEF GrantInv
<1> QED
  BY <1>1, Invariance, PTL

\* A code yields one live refresh token at a time.
THEOREM OneLiveToken == Spec => []OneLiveRow
<1>1. GrantInv => OneLiveRow
  BY DEF GrantInv
<1> QED
  BY <1>1, Invariance, PTL
=============================================================================

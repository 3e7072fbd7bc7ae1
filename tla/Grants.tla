------------------------------- MODULE Grants -------------------------------
(***************************************************************************)
(* The OAuth grants of cards: authorization requests, codes and token rows *)
(* (server/src/oauth/store.ts), as the consent routes and the token and    *)
(* revocation endpoints change them.  Every handler runs to its end with   *)
(* no await after its body is parsed, so each is one action.               *)
(*                                                                         *)
(* A request yields at most one code, so a code is named by its request;   *)
(* a token row is its index in the table.  Presenting something the server *)
(* does not know, or that has expired, changes nothing: time is not        *)
(* modelled, and what expired is what nobody presents any more.            *)
(***************************************************************************)
EXTENDS Integers, Sequences

CONSTANTS
    Cards,
    Requests,    \* authorization requests
    MaxTokens    \* bound of the model: rows of oauth_tokens

ASSUME GrantsAssumption == MaxTokens \in Nat

VARIABLES
    request,    \* oauth_requests
    code,       \* oauth_codes, per request, with the card it grants
    token,      \* oauth_tokens
    ended       \* families the server was asked, or decided, to end

grantVars == <<request, code, token, ended>>

\* family_id is the row the family began with; code is code_hash.
TokenRow == [card : Cards, family : Nat, code : Requests, live : BOOLEAN]

NoCode == [at |-> "none"]
CodeRow == {NoCode} \cup [at : {"issued", "used"}, card : Cards]

GrantsInit ==
    /\ request = [q \in Requests |-> "absent"]
    /\ code = [q \in Requests |-> NoCode]
    /\ token = <<>>
    /\ ended = {}

-----------------------------------------------------------------------------
(* The statements on oauth_tokens. *)

FamilyRows(f) == {i \in DOMAIN token : token[i].family = f}
RowsMintedFrom(q) == {i \in DOMAIN token : token[i].code = q}
RowsOf(C) == {i \in DOMAIN token : token[i].card \in C}

\* UPDATE oauth_tokens SET revoked = 1 over a set of rows.
Revoked(rows) ==
    [i \in DOMAIN token |-> [token[i] EXCEPT !.live = @ /\ i \notin rows]]

\* The card's grants die with it (revokeTokensByCardId over a set of cards).
RevokeTokensOf(C) ==
    /\ token' = Revoked(RowsOf(C))
    /\ UNCHANGED <<request, code, ended>>

RevokeFamily(f) ==
    /\ token' = Revoked(FamilyRows(f))
    /\ ended' = ended \cup {f}
    /\ UNCHANGED <<request, code>>

\* The claim of a row for rotation and the insert of its successor; the
\* successor keeps the family and the code.
Rotated(i) ==
    Append(Revoked({i}), [token[i] EXCEPT !.live = TRUE])

-----------------------------------------------------------------------------
(* The endpoints.  `live` is what the handler found of the card. *)

Authorize(q) ==
    /\ request[q] = "absent"
    /\ request' = [request EXCEPT ![q] = "open"]
    /\ UNCHANGED <<code, token, ended>>

Approve(q, c, live) ==
    /\ request[q] = "open" /\ live
    /\ request' = [request EXCEPT ![q] = "acted"]
    /\ code' = [code EXCEPT ![q] = [at |-> "issued", card |-> c]]
    /\ UNCHANGED <<token, ended>>

Deny(q) ==
    /\ request[q] = "open"
    /\ request' = [request EXCEPT ![q] = "acted"]
    /\ UNCHANGED <<code, token, ended>>

\* POST /token with a code: the first redemption mints a family.
Redeem(q, live) ==
    /\ code[q].at = "issued" /\ live
    /\ Len(token) < MaxTokens
    /\ code' = [code EXCEPT ![q].at = "used"]
    /\ token' = Append(token, [card |-> code[q].card, family |-> Len(token) + 1,
                               code |-> q, live |-> TRUE])
    /\ UNCHANGED <<request, ended>>

\* A code presented again ends what it minted.
ReplayCode(q) ==
    /\ code[q].at = "used"
    /\ token' = Revoked(RowsMintedFrom(q))
    /\ ended' = ended \cup {i \in RowsMintedFrom(q) : token[i].family = i}
    /\ UNCHANGED <<request, code>>

\* Mutant: the result of the rotation's claim is not looked at.
RefreshAnyway(i, live) ==
    IF live
    THEN /\ Len(token) < MaxTokens
         /\ token' = Rotated(i)
         /\ UNCHANGED <<request, code, ended>>
    ELSE RevokeFamily(token[i].family)

\* POST /token with a refresh token.
Refresh(i, live) ==
    \/ /\ token[i].live => ~live
       /\ RevokeFamily(token[i].family)
    \/ /\ token[i].live /\ live
       /\ Len(token) < MaxTokens
       /\ token' = Rotated(i)
       /\ UNCHANGED <<request, code, ended>>

\* POST /revoke with either half of a token.
RevokeToken(i) == RevokeFamily(token[i].family)
=============================================================================

--------------------------- MODULE RefreshTokens ---------------------------
(***************************************************************************)
(* The refresh tokens of one user (backend/app/services/refresh_tokens.py  *)
(* behind routers/auth.py), served by requests that overlap.  A request    *)
(* reads the presented token's row in one step and writes what it decided  *)
(* in another: the handlers await between the SELECT and the COMMIT and    *)
(* take no lock, so other requests run in between.  Tokens are numbered in *)
(* the order of their issue, and since all have one lifetime they expire   *)
(* in that order.  A family is named by the token that founded it.         *)
(***************************************************************************)
EXTENDS Integers, FiniteSets

CONSTANTS
  MaxTokens,  \* bound on the tokens issued
  Slots,      \* requests that can be under way at once
  None        \* no token, no answer

ASSUME TokensAssumption ==
  /\ MaxTokens \in Nat
  /\ IsFiniteSet(Slots)
  /\ None \notin Int

VARIABLES
  tokens,    \* refresh_tokens: a function from the tokens stored to rows
  issued,    \* number of tokens issued so far
  expired,   \* the first `expired` of them are past their expires_at
  requests,  \* slot -> request under way
  ended      \* history: families revoked while none of them was rotating

serverVars == <<tokens, issued, expired, requests, ended>>

Ids == 1 .. MaxTokens

(* from is no column: the token whose rotation issued this one. *)
TokenRow == [family : Ids, revoked : BOOLEAN, from : Ids \cup {None}]

Failed == 0  \* the answer of a request that raised

Idle == [step |-> "idle", kind |-> "none", token |-> None,
         family |-> None, answer |-> None]

SlotState ==
  [step : {"idle", "sent", "rotating", "revoking", "answered"},
   kind : {"none", "login", "refresh", "logout"},
   token : Ids \cup {None}, family : Ids \cup {None},
   answer : Ids \cup {None, Failed}]

-----------------------------------------------------------------------------
IssueIntoParent(table, t, family, from) ==
  [u \in DOMAIN table \cup {t} |->
     IF u = t THEN [family |-> from, revoked |-> FALSE, from |-> from]
     ELSE table[u]]

Issue(table, t, family, from) ==
  [u \in DOMAIN table \cup {t} |->
     IF u = t THEN [family |-> family, revoked |-> FALSE, from |-> from]
     ELSE table[u]]

Revoke(table, ids) ==
  [t \in DOMAIN table |->
     IF t \in ids THEN [table[t] EXCEPT !.revoked = TRUE] ELSE table[t]]

WholeUser(table, f) == DOMAIN table

FamilyOf(table, f) == {t \in DOMAIN table : table[t].family = f}

IsExpired(t) == t <= expired

ExpiredOrRevoked(table) == {t \in DOMAIN table : IsExpired(t) \/ table[t].revoked}

(* The rows a login deletes. *)
DeadRows(table) == {t \in DOMAIN table : IsExpired(t)}

Without(table, ids) == [t \in DOMAIN table \ ids |-> table[t]]

(* One token of a family for another. *)
ExchangeKeepingOld(table, t, new) == Issue(table, new, table[t].family, t)

Exchange(table, t, new) == Issue(Revoke(table, {t}), new, table[t].family, t)

-----------------------------------------------------------------------------
(* The requests.                                                           *)

Init ==
  /\ tokens = <<>>
  /\ issued = 0
  /\ expired = 0
  /\ requests = [w \in Slots |-> Idle]
  /\ ended = {}

(* Requests under way that may still issue a token. *)
Issuing == {w \in Slots : /\ requests[w].step \in {"sent", "rotating"}
                          /\ requests[w].kind # "logout"}

Send(w, kind, t) ==
  /\ requests[w] = Idle
  /\ kind # "logout" => issued + Cardinality(Issuing) < MaxTokens
  /\ requests' = [requests EXCEPT
       ![w] = [Idle EXCEPT !.step = "sent", !.kind = kind, !.token = t]]
  /\ UNCHANGED <<tokens, issued, expired, ended>>

(* The request is lost on its way. *)
Drop(w) ==
  /\ requests[w].step = "sent"
  /\ requests' = [requests EXCEPT ![w] = Idle]
  /\ UNCHANGED <<tokens, issued, expired, ended>>

Answer(w, answer) ==
  requests' = [requests EXCEPT ![w].step = "answered", ![w].answer = answer]

(* POST /login, or /register for a new user: issue_session. *)
IssueSession(w) ==
  /\ requests[w].step = "sent" /\ requests[w].kind = "login"
  /\ tokens' = Issue(Without(tokens, DeadRows(tokens)), issued + 1, issued + 1, None)
  /\ issued' = issued + 1
  /\ Answer(w, issued + 1)
  /\ UNCHANGED <<expired, ended>>

(* What a request does with the row it reads. *)
NextStepIgnoringRevocation(kind, t) ==
  IF kind = "logout" THEN "revoking"
  ELSE IF IsExpired(t) THEN "answered" ELSE "rotating"

NextStep(kind, t) ==
  IF kind = "logout" \/ tokens[t].revoked THEN "revoking"
  ELSE IF IsExpired(t) THEN "answered" ELSE "rotating"

(* The SELECT of rotate_session and revoke_session, and the decision taken *)
(* on what it returned: a token that is not stored is refused or ignored.  *)
ReadToken(w) ==
  /\ requests[w].step = "sent" /\ requests[w].kind \in {"refresh", "logout"}
  /\ LET t == requests[w].token
     IN  IF t \notin DOMAIN tokens THEN Answer(w, None)
         ELSE requests' = [requests EXCEPT
                ![w].step = NextStep(requests[w].kind, t),
                ![w].family = tokens[t].family]
  /\ UNCHANGED <<tokens, issued, expired, ended>>

(* The rest of rotate_session for a token read as redeemable; its row may  *)
(* have been deleted by a login meanwhile, and then the UPDATE raises.     *)
Rotate(w) ==
  /\ requests[w].step = "rotating"
  /\ LET t == requests[w].token
     IN  \/ /\ t \in DOMAIN tokens
            /\ tokens' = Exchange(tokens, t, issued + 1)
            /\ issued' = issued + 1
            /\ Answer(w, issued + 1)
         \/ /\ t \notin DOMAIN tokens
            /\ Answer(w, Failed)
            /\ UNCHANGED <<tokens, issued>>
  /\ UNCHANGED <<expired, ended>>

Rotating(f) == \E w \in Slots : requests[w].step = "rotating" /\ requests[w].family = f

(* _revoke_family and its commit: after a replay, or at a logout. *)
RevokeFamily(w) ==
  /\ requests[w].step = "revoking"
  /\ LET f == requests[w].family
     IN  /\ tokens' = Revoke(tokens, FamilyOf(tokens, f))
         /\ ended' = IF Rotating(f) THEN ended ELSE ended \cup {f}
  /\ Answer(w, None)
  /\ UNCHANGED <<issued, expired>>

(* The response leaves the server: it is received, or lost. *)
Receive(w) ==
  /\ requests[w].step = "answered"
  /\ requests' = [requests EXCEPT ![w] = Idle]
  /\ UNCHANGED <<tokens, issued, expired, ended>>

(* A token's ninety days pass. *)
Expire ==
  /\ expired < issued
  /\ expired' = expired + 1
  /\ UNCHANGED <<tokens, issued, requests, ended>>

Serve(w) == IssueSession(w) \/ ReadToken(w) \/ Rotate(w) \/ RevokeFamily(w)

(* Any client, presenting any token that was ever issued. *)
Next ==
  \/ \E w \in Slots :
       \/ Send(w, "login", None)
       \/ \E t \in 1 .. issued, kind \in {"refresh", "logout"} : Send(w, kind, t)
       \/ Drop(w)
       \/ Serve(w)
       \/ Receive(w)
  \/ Expire

Spec == Init /\ [][Next]_serverVars

-----------------------------------------------------------------------------
(* Properties.                                                             *)

(* The columns of refresh_tokens and the stages of a request. *)
TypeOK ==
  /\ issued \in 0 .. MaxTokens
  /\ expired \in 0 .. issued
  /\ DOMAIN tokens \subseteq 1 .. issued
  /\ tokens \in [DOMAIN tokens -> TokenRow]
  /\ requests \in [Slots -> SlotState]
  /\ ended \subseteq 1 .. issued

(* Once a session was ended by its owner or by a replay, with none of its  *)
(* tokens being exchanged at that moment, no token of it is redeemable     *)
(* ever again: not the old ones, and no new one appears.                   *)
RevocationIsFinal ==
  \A t \in DOMAIN tokens : tokens[t].family \in ended => tokens[t].revoked

(* A token that was exchanged cannot be redeemed again later: whoever      *)
(* presents it then is found out (refresh_tokens.py: "Presenting one that  *)
(* was already rotated revokes its whole family").                         *)
ExchangedIsRevoked ==
  \A t \in DOMAIN tokens :
    tokens[t].from \in DOMAIN tokens => tokens[tokens[t].from].revoked

(* A login tidies up: it forgets no token that can still be redeemed, nor  *)
(* a spent one whose replay must still be noticed.                         *)
OnlyExpiredForgotten ==
  [][\A t \in DOMAIN tokens \ DOMAIN tokens' : IsExpired(t)]_serverVars

(* Ending one session leaves the user's other devices signed in. *)
OtherSessionsGoOn ==
  [][\A t, u \in DOMAIN tokens \cap DOMAIN tokens' :
       /\ ~tokens[t].revoked /\ tokens'[t].revoked
       /\ ~tokens[u].revoked /\ tokens'[u].revoked
       => tokens[t].family = tokens[u].family]_serverVars

(* A refresh token works exactly once (refresh_tokens.py:3). *)
WorksOnce ==
  \A t, u \in DOMAIN tokens :
    tokens[t].from # None /\ tokens[t].from = tokens[u].from => t = u
=============================================================================

----------------------------- MODULE ApiSession -----------------------------
(***************************************************************************)
(* One device of a user: its tabs share a token store and reach the        *)
(* refresh-token endpoints of RefreshTokens over a network that may lose a *)
(* response (packages/core/src/api/client.ts and auth.ts).  An API call    *)
(* that is answered 401 waits for its tab's refresh, which all such calls  *)
(* of the tab share, and is then retried once.  A pair of access and       *)
(* refresh token is named by its refresh token.  What a call does at the   *)
(* server beyond the check of its access token is left out.                *)
(***************************************************************************)
EXTENDS Integers, FiniteSets

CONSTANTS
  MaxTokens, Slots, None,  \* as in RefreshTokens
  Tabs,       \* open tabs, one client each
  Calls,      \* API calls a tab's page can have under way
  TabOf,      \* the tab of a call
  MaxEvents   \* bound on sign-ins and lost responses together

ASSUME SessionAssumption ==
  /\ MaxTokens \in Nat
  /\ IsFiniteSet(Slots) /\ None \notin Slots
  /\ None \notin Int
  /\ TabOf \in [Calls -> Tabs]
  /\ MaxEvents \in Nat

VARIABLES
  tokens, issued, expired, requests, ended,  \* as in RefreshTokens
  store,      \* the token store: the stored pair, or None
  stale,      \* pairs whose access token has expired
  calls,      \* call -> stage, and the pair it carries
  exchanges,  \* tab -> the shared refresh (refreshInFlight)
  signIn,     \* the slot of the login request under way, or None
  session,    \* history: the family signed in to and not signed out of
  logins,     \* number of sign-ins
  losses      \* number of losses

Server == INSTANCE RefreshTokens

serverVars == <<tokens, issued, expired, requests, ended>>
clientVars == <<store, stale, calls, exchanges, signIn, session, logins, losses>>
vars == <<serverVars, clientVars>>

NoCall == [step |-> "idle", pair |-> None]
NoExchange == [step |-> "none", failed |-> None, slot |-> None]

InFlight(tab) == exchanges[tab].step # "none"

(* The access token of a pair is checked without looking at the session.   *)
Authorized(pair) == pair # None /\ pair \notin stale

(* Tokens that requests under way, and refreshes about to be sent, may     *)
(* still take: the bound on tokens must not block one of those.            *)
Reserved ==
  Cardinality(Server!Issuing) +
  Cardinality({tab \in Tabs : exchanges[tab].step = "starting"})

TokensLeft == issued + Reserved < MaxTokens

-----------------------------------------------------------------------------
Init ==
  /\ Server!Init
  /\ store = None
  /\ stale = {}
  /\ calls = [c \in Calls |-> NoCall]
  /\ exchanges = [tab \in Tabs |-> NoExchange]
  /\ signIn = None
  /\ session = None
  /\ logins = 0
  /\ losses = 0

(* sendWithSession: the call goes out with the stored access token. *)
SendCall(c) ==
  /\ calls[c].step = "idle"
  /\ calls' = [calls EXCEPT ![c] = [step |-> "sent", pair |-> store]]
  /\ UNCHANGED <<serverVars, store, stale, exchanges, signIn, session, logins, losses>>

(* refreshInFlight ??= exchangeRefreshToken(...) *)
JoinAlone(tab, pair) ==
  [exchanges EXCEPT ![tab] = [step |-> "starting", failed |-> pair, slot |-> None]]

Join(tab, pair) ==
  IF InFlight(tab) THEN exchanges
  ELSE [exchanges EXCEPT ![tab] = [step |-> "starting", failed |-> pair, slot |-> None]]

(* Its response: good, or a 401 that no refresh can cure, or one that sets *)
(* the call waiting for the tab's refresh.                                 *)
CallAnswered(c) ==
  /\ calls[c].step = "sent"
  /\ \/ /\ Authorized(calls[c].pair) \/ calls[c].pair = None
        /\ calls' = [calls EXCEPT ![c] = NoCall]
        /\ UNCHANGED exchanges
     \/ /\ calls[c].pair \in stale
        /\ InFlight(TabOf[c]) \/ TokensLeft
        /\ calls' = [calls EXCEPT ![c].step = "waiting"]
        /\ exchanges' = Join(TabOf[c], calls[c].pair)
  /\ UNCHANGED <<serverVars, store, stale, signIn, session, logins, losses>>

(* The refresh is over and refreshInFlight null again; all calls that      *)
(* waited for it go on.                                                    *)
SettleOne(tab, step) ==
  /\ exchanges' = [exchanges EXCEPT ![tab] = NoExchange]
  /\ \E c \in Calls :
       /\ TabOf[c] = tab /\ calls[c].step = "waiting"
       /\ calls' = [calls EXCEPT ![c] = [step |-> step, pair |-> None]]

Settle(tab, step) ==
  /\ exchanges' = [exchanges EXCEPT ![tab] = NoExchange]
  /\ calls' = [c \in Calls |->
       IF TabOf[c] = tab /\ calls[c].step = "waiting"
       THEN [step |-> step, pair |-> None] ELSE calls[c]]

(* exchangeRefreshToken up to its request: nothing is sent when the store  *)
(* was emptied or another tab has already renewed the pair.                *)
StartExchange(tab) ==
  /\ exchanges[tab].step = "starting"
  /\ \/ /\ store = None
        /\ Settle(tab, "idle")
        /\ UNCHANGED serverVars
     \/ /\ store \notin {None, exchanges[tab].failed}
        /\ Settle(tab, "resumed")
        /\ UNCHANGED serverVars
     \/ /\ store = exchanges[tab].failed
        /\ \E w \in Slots :
             /\ Server!Send(w, "refresh", store)
             /\ exchanges' = [exchanges EXCEPT ![tab].step = "sent", ![tab].slot = w]
        /\ UNCHANGED calls
  /\ UNCHANGED <<store, stale, signIn, session, logins, losses>>

Response(tab) == requests[exchanges[tab].slot].answer

(* The store after the refresh was refused, failed, or brought a new pair. *)
KeepOldPair(answer) == IF answer = None THEN None ELSE store

StoreAfter(answer) == IF answer = Server!Failed THEN store ELSE answer

(* ... and from its response on: refused ends the session, a failure is    *)
(* thrown and leaves it alone, a new pair is stored and the calls retried. *)
FinishExchange(tab) ==
  /\ exchanges[tab].step = "sent"
  /\ requests[exchanges[tab].slot].step = "answered"
  /\ store' = StoreAfter(Response(tab))
  /\ Settle(tab, IF Response(tab) \in Server!Ids THEN "resumed" ELSE "idle")
  /\ Server!Receive(exchanges[tab].slot)
  /\ UNCHANGED <<stale, signIn, session, logins, losses>>

SendRetry(c) ==
  /\ calls[c].step = "resumed"
  /\ calls' = [calls EXCEPT ![c] = [step |-> "retried", pair |-> store]]
  /\ UNCHANGED <<serverVars, store, stale, exchanges, signIn, session, logins, losses>>

(* A retry that is refused as well ends the session. *)
RetryAnswered(c) ==
  /\ calls[c].step = "retried"
  /\ store' = IF Authorized(calls[c].pair) THEN store ELSE None
  /\ calls' = [calls EXCEPT ![c] = NoCall]
  /\ UNCHANGED <<serverVars, stale, exchanges, signIn, session, logins, losses>>

(* fetch rejects: the call throws. *)
CallFails(c) ==
  /\ calls[c].step \in {"sent", "retried"}
  /\ calls' = [calls EXCEPT ![c] = NoCall]
  /\ UNCHANGED <<serverVars, store, stale, exchanges, signIn, session, logins, losses>>

(* The same for the refresh: its response is lost, or its request never    *)
(* reached the server; whatever the server does with it goes on.           *)
LoseExchange(tab) ==
  /\ exchanges[tab].step = "sent"
  /\ logins + losses < MaxEvents
  /\ losses' = losses + 1
  /\ Settle(tab, "idle")
  /\ LET w == exchanges[tab].slot
     IN  \/ UNCHANGED serverVars
         \/ Server!Drop(w)
  /\ UNCHANGED <<store, stale, signIn, session, logins>>

(* login(): the form does not look whether somebody is signed in already. *)
SignIn ==
  /\ signIn = None
  /\ logins + losses < MaxEvents /\ TokensLeft
  /\ \E w \in Slots : Server!Send(w, "login", None) /\ signIn' = w
  /\ logins' = logins + 1
  /\ UNCHANGED <<store, stale, calls, exchanges, session, losses>>

SignedIn ==
  /\ signIn # None
  /\ requests[signIn].step = "answered"
  /\ store' = requests[signIn].answer
  /\ session' = requests[signIn].answer
  /\ signIn' = None
  /\ Server!Receive(signIn)
  /\ UNCHANGED <<stale, calls, exchanges, logins, losses>>

(* logout(): the store first, then the server if it can be reached. *)
SignOutBlindly ==
  /\ session # None
  /\ store' = None
  /\ session' = None
  /\ \/ \E w \in Slots : Server!Send(w, "logout", store)
     \/ UNCHANGED serverVars
  /\ UNCHANGED <<stale, calls, exchanges, signIn, logins, losses>>

SignOut ==
  /\ session # None
  /\ store' = None
  /\ session' = None
  /\ \/ store # None /\ \E w \in Slots : Server!Send(w, "logout", store)
     \/ UNCHANGED serverVars
  /\ UNCHANGED <<stale, calls, exchanges, signIn, logins, losses>>

(* A response nobody waits for. *)
Unawaited(w) == w # signIn /\ \A tab \in Tabs : w # exchanges[tab].slot

Discard(w) ==
  /\ Unawaited(w)
  /\ Server!Receive(w)
  /\ UNCHANGED clientVars

(* The hour of an access token passes.  No call takes so long: one that is *)
(* under way was sent with this pair, and has not been answered.           *)
AccessExpires ==
  /\ store # None
  /\ \A c \in Calls : calls[c] # NoCall => calls[c] = [step |-> "sent", pair |-> store]
  /\ stale' = stale \cup {store}
  /\ UNCHANGED <<serverVars, store, calls, exchanges, signIn, session, logins, losses>>

ServerStep ==
  /\ (\E w \in Slots : Server!Serve(w)) \/ Server!Expire
  /\ UNCHANGED clientVars

Next ==
  \/ \E c \in Calls :
       SendCall(c) \/ CallAnswered(c) \/ SendRetry(c) \/ RetryAnswered(c) \/ CallFails(c)
  \/ \E tab \in Tabs : StartExchange(tab) \/ FinishExchange(tab) \/ LoseExchange(tab)
  \/ SignIn \/ SignedIn \/ SignOut
  \/ \E w \in Slots : Discard(w)
  \/ AccessExpires
  \/ ServerStep

(* The server handles every request it has received, every fetch settles   *)
(* in the end, and the event loop runs what became ready.  The user owes   *)
(* nothing, and no time has to pass.                                       *)
Fairness ==
  /\ \A w \in Slots : WF_vars((Server!Serve(w) /\ UNCHANGED clientVars) \/ Discard(w))
  /\ \A tab \in Tabs : WF_vars(StartExchange(tab) \/ FinishExchange(tab))
  /\ \A c \in Calls :
       WF_vars(CallAnswered(c) \/ SendRetry(c) \/ RetryAnswered(c) \/ CallFails(c))

Spec == Init /\ [][Next]_vars

FairSpec == Spec /\ Fairness

-----------------------------------------------------------------------------
(* Properties.                                                             *)

(* The store holds at most one pair, and each tab at most one refresh. *)
TypeOK ==
  /\ Server!TypeOK
  /\ store \in 1 .. issued \cup {None}
  /\ stale \subseteq 1 .. issued
  /\ calls \in [Calls -> [step : {"idle", "sent", "waiting", "resumed", "retried"},
                          pair : 1 .. issued \cup {None}]]
  /\ exchanges \in [Tabs -> [step : {"none", "starting", "sent"},
                             failed : 1 .. issued \cup {None},
                             slot : Slots \cup {None}]]
  /\ signIn \in Slots \cup {None}
  /\ session \in 1 .. issued \cup {None}
  /\ logins \in Nat /\ losses \in Nat /\ logins + losses <= MaxEvents

Redeemable(f) == {t \in Server!FamilyOf(tokens, f) : t > expired}

(* A user who signed in stays signed in until they sign out, or in again:  *)
(* as long as no response was lost and the ninety days are not over, the   *)
(* store holds a pair of their session, and between refreshes it is the one that the     *)
(* server will exchange ("the legitimate client only ever holds the newest *)
(* token").                                                                *)
SignedInStays ==
  session # None /\ logins <= 1 /\ losses = 0 /\ Redeemable(session) # {} =>
    /\ store \in Server!FamilyOf(tokens, session)
    /\ (\A tab \in Tabs : ~InFlight(tab)) => ~tokens[store].revoked

(* A device never takes itself for a thief: while its user is signed in    *)
(* and nothing was lost, it presents no token of the session twice,        *)
(* however many calls run into an expired access token at once (client.ts: *)
(* "a second parallel attempt would look like a replay and revoke the      *)
(* session").                                                              *)
OwnTokenNeverReplayed ==
  session # None /\ losses = 0 =>
    \A w \in Slots : requests[w].step = "revoking" /\ requests[w].kind = "refresh" =>
      requests[w].family # session

(* Signing out leaves nothing in the store, and nothing comes back: it     *)
(* "never depends on the network" (auth.ts).                               *)
StaysSignedOut == session = None => store = None

(* The server sees of a device what RefreshTokens allows any client, so    *)
(* what holds of the tokens there holds here.                              *)
ServedByTokens == Server!Spec

(* Every call comes to an end, with a result or an error; none is left     *)
(* waiting for a refresh that somebody else started.                       *)
CallsFinish == \A c \in Calls : calls[c].step # "idle" ~> calls[c].step = "idle"
=============================================================================

------------------------- MODULE ApiSession_proofs -------------------------
(***************************************************************************)
(* The requests of ApiSession's devices are requests that RefreshTokens    *)
(* allows any client, so what is proved there of the tokens holds here.    *)
(* What has to be known of a device is that it presents no token it was    *)
(* not given, and that each tab awaits a response of its own: a free slot  *)
(* is never taken for one that is still awaited.                           *)
(***************************************************************************)
EXTENDS ApiSession, TLAPS

Tokens == INSTANCE RefreshTokens_proofs

(* ex are the tabs' refreshes, reqs the requests under way. *)
ExchangesOK(ex, reqs) ==
  /\ ex = [tab \in Tabs |-> ex[tab]]
  /\ \A tab \in Tabs :
       /\ ex[tab] = [step |-> ex[tab].step, failed |-> ex[tab].failed,
                     slot |-> ex[tab].slot]
       /\ ex[tab].step = "starting" => ex[tab].failed # None
       /\ ex[tab].step = "sent" =>
            ex[tab].slot \in Slots /\ reqs[ex[tab].slot].kind = "refresh"
       /\ ex[tab].step # "sent" => ex[tab].slot = None
  /\ \A one, other \in Tabs :
       ex[one].slot = ex[other].slot => one = other \/ ex[one].slot = None

SignInOK(slot, reqs) == slot # None => slot \in Slots /\ reqs[slot].kind = "login"

ClientInv ==
  /\ store \in 1 .. issued \cup {None}
  /\ None \notin stale
  /\ ExchangesOK(exchanges, requests)
  /\ SignInOK(signIn, requests)

Inv == Tokens!IInv /\ ClientInv

-----------------------------------------------------------------------------
(* RefreshTokens_proofs speaks of the same server.                         *)

(* Its assumption on the constants is part of SessionAssumption. *)
LEMMA FiniteSlots == Tokens!IsFiniteSet(Slots)
BY SessionAssumption DEF IsFiniteSet, Tokens!IsFiniteSet

(* Its initial states are those of Server. *)
LEMMA SameInit == Server!Init <=> Tokens!Init
BY DEF Server!Init, Server!Idle, Tokens!Init, Tokens!Idle

(* A request is sent on the same condition. *)
LEMMA SameSend ==
  ASSUME NEW w, NEW kind, NEW t
  PROVE  Server!Send(w, kind, t) <=> Tokens!Send(w, kind, t)
<1>1. Server!Cardinality(Server!Issuing) = Tokens!Cardinality(Tokens!Issuing)
  BY DEF Server!Cardinality, Tokens!Cardinality, Server!IsFiniteSet,
         Tokens!IsFiniteSet, Server!Issuing, Tokens!Issuing
<1>. QED  BY <1>1 DEF Server!Send, Tokens!Send, Server!Idle, Tokens!Idle

(* A request is served in the same way. *)
LEMMA SameServe ==
  ASSUME NEW w
  PROVE  Server!Serve(w) <=> Tokens!Serve(w)
BY DEF Server!Serve, Server!IssueSession, Server!ReadToken, Server!Rotate,
       Server!RevokeFamily, Server!Issue, Server!Without, Server!DeadRows,
       Server!IsExpired, Server!Answer, Server!NextStep, Server!Exchange,
       Server!Revoke, Server!Rotating, Server!FamilyOf, Server!Failed,
       Tokens!Serve, Tokens!IssueSession, Tokens!ReadToken, Tokens!Rotate,
       Tokens!RevokeFamily, Tokens!Issue, Tokens!Without, Tokens!DeadRows,
       Tokens!IsExpired, Tokens!Answer, Tokens!NextStep, Tokens!Exchange,
       Tokens!Revoke, Tokens!Rotating, Tokens!FamilyOf, Tokens!Failed

(* So the steps are the same. *)
LEMMA SameNext == Server!Next <=> Tokens!Next
BY SameSend, SameServe
DEF Server!Next, Server!Drop, Server!Receive, Server!Expire, Server!Idle,
    Tokens!Next, Tokens!Drop, Tokens!Receive, Tokens!Expire, Tokens!Idle

(* What the invariant proved there says of the requests under way. *)
LEMMA RequestFacts ==
  ASSUME Tokens!IInv
  PROVE  /\ issued \in Nat
         /\ requests = [w \in Slots |-> requests[w]]
         /\ \A w \in Slots :
              /\ requests[w] \in Server!SlotState
              /\ requests[w].kind = "none" <=> requests[w].step = "idle"
              /\ requests[w].step = "answered" =>
                   /\ requests[w].answer \in 1 .. issued \cup {None, Server!Failed}
                   /\ requests[w].kind = "login" => requests[w].answer \in 1 .. issued
BY DEF Tokens!IInv, Tokens!Counters, Tokens!Requests, Tokens!RequestOK,
       Tokens!SlotState, Tokens!Ids, Tokens!Failed,
       Server!SlotState, Server!Ids, Server!Failed

(* Serving a request does not change what it is. *)
LEMMA ServeKeepsKinds ==
  ASSUME Tokens!IInv, NEW w \in Slots, Server!Serve(w) \/ Server!Expire
  PROVE  /\ issued' \in {issued, issued + 1}
         /\ \A v \in Slots : requests'[v].kind = requests[v].kind
<1>1. CASE Server!Expire
  BY <1>1 DEF Server!Expire
<1>2. CASE Server!Serve(w)
  <2>1. PICK r : /\ requests' = [requests EXCEPT ![w] = r]
                 /\ r.kind = requests[w].kind
    BY <1>2, RequestFacts
    DEF Server!Serve, Server!IssueSession, Server!ReadToken, Server!Rotate,
        Server!RevokeFamily, Server!Answer, Server!SlotState
  <2>2. issued' \in {issued, issued + 1}
    BY <1>2 DEF Server!Serve, Server!IssueSession, Server!ReadToken,
                Server!Rotate, Server!RevokeFamily
  <2>. QED  BY <2>1, <2>2, RequestFacts
<1>. QED  BY <1>1, <1>2

(* A request sent takes a slot that nobody awaits. *)
LEMMA SendKeepsKinds ==
  ASSUME Tokens!IInv, NEW w \in Slots, NEW kind, NEW t, Server!Send(w, kind, t)
  PROVE  /\ issued' = issued
         /\ requests[w].kind = "none" /\ requests'[w].kind = kind
         /\ \A v \in Slots \ {w} : requests'[v].kind = requests[v].kind
BY RequestFacts DEF Server!Send, Server!Idle

(* A slot that becomes free. *)
LEMMA FreeKeepsKinds ==
  ASSUME Tokens!IInv, NEW w \in Slots, Server!Receive(w) \/ Server!Drop(w)
  PROVE  /\ issued' = issued
         /\ \A v \in Slots \ {w} : requests'[v].kind = requests[v].kind
BY RequestFacts DEF Server!Receive, Server!Drop

-----------------------------------------------------------------------------
(* The refreshes of the tabs.                                              *)

(* They stay in order while the requests they await stay what they are. *)
LEMMA ExchangesKept ==
  ASSUME NEW ex, NEW reqs, NEW reqs2, ExchangesOK(ex, reqs),
         \A tab \in Tabs : ex[tab].step = "sent" =>
           reqs2[ex[tab].slot].kind = reqs[ex[tab].slot].kind
  PROVE  ExchangesOK(ex, reqs2)
BY DEF ExchangesOK

(* One that ends lets go of its slot. *)
LEMMA ExchangeSettled ==
  ASSUME NEW ex, NEW reqs, NEW reqs2, NEW one \in Tabs, ExchangesOK(ex, reqs),
         \A w \in Slots \ {ex[one].slot} : reqs2[w].kind = reqs[w].kind
  PROVE  ExchangesOK([ex EXCEPT ![one] = NoExchange], reqs2)
<1>. DEFINE new == [ex EXCEPT ![one] = NoExchange]
<1>1. /\ new = [tab \in Tabs |-> new[tab]]
      /\ new[one] = NoExchange
      /\ \A tab \in Tabs \ {one} : new[tab] = ex[tab]
  BY DEF ExchangesOK
<1>. HIDE DEF new
<1>2. ASSUME NEW tab \in Tabs, tab # one, ex[tab].step = "sent"
      PROVE  reqs2[ex[tab].slot].kind = "refresh" /\ ex[tab].slot \in Slots
  BY <1>2, SessionAssumption DEF ExchangesOK
<1>3. ExchangesOK(new, reqs2)
  BY <1>1, <1>2 DEF ExchangesOK, NoExchange
<1>. QED  BY <1>3 DEF new

(* No tab awaits a request that is not a refresh. *)
LEMMA NotAwaited ==
  ASSUME NEW ex, NEW reqs, NEW reqs2, ExchangesOK(ex, reqs),
         NEW w, w \in Slots => reqs[w].kind # "refresh",
         \A v \in Slots \ {w} : reqs2[v].kind = reqs[v].kind
  PROVE  ExchangesOK(ex, reqs2)
BY ExchangesKept DEF ExchangesOK

-----------------------------------------------------------------------------
(* Each step of a device is a step of the server, or none of its business. *)

Good == [Server!Next]_serverVars /\ ClientInv'

(* The calls, which leave the server, the refreshes and the sign-in alone. *)
LEMMA CallSteps ==
  ASSUME Inv, NEW c \in Calls,
         SendCall(c) \/ SendRetry(c) \/ RetryAnswered(c) \/ CallFails(c)
  PROVE  Good
<1>1. UNCHANGED <<serverVars, stale, exchanges, signIn>> /\ store' \in {store, None}
  BY DEF SendCall, SendRetry, RetryAnswered, CallFails
<1>. QED  BY <1>1 DEF Good, Inv, ClientInv, serverVars

(* A call that runs into an expired access token joins or starts a refresh. *)
LEMMA CallAnsweredStep ==
  ASSUME Inv, NEW c \in Calls, CallAnswered(c)
  PROVE  Good
<1>1. UNCHANGED <<serverVars, store, stale, signIn>>
  BY DEF CallAnswered
<1>2. ExchangesOK(exchanges', requests)
  <2>1. CASE exchanges' = exchanges
    BY <2>1 DEF Inv, ClientInv
  <2>2. CASE /\ calls[c].pair \in stale
             /\ exchanges' = [exchanges EXCEPT ![TabOf[c]] =
                  [step |-> "starting", failed |-> calls[c].pair, slot |-> None]]
    <3>1. TabOf[c] \in Tabs /\ calls[c].pair # None
      BY <2>2, SessionAssumption DEF Inv, ClientInv
    <3>. QED  BY <2>2, <3>1 DEF Inv, ClientInv, ExchangesOK
  <2>. QED  BY <2>1, <2>2 DEF CallAnswered, Join
<1>. QED  BY <1>1, <1>2 DEF Good, Inv, ClientInv, serverVars

(* A refresh presents the stored token, which the device was given.        *)
LEMMA StartExchangeStep ==
  ASSUME Inv, NEW tab \in Tabs, StartExchange(tab)
  PROVE  Good
<1>1. UNCHANGED <<store, stale, signIn>> /\ exchanges[tab].step = "starting"
  BY DEF StartExchange
<1>2. CASE UNCHANGED serverVars /\ exchanges' = [exchanges EXCEPT ![tab] = NoExchange]
  <2>1. ExchangesOK(exchanges', requests')
    BY <1>2, ExchangeSettled DEF Inv, ClientInv, serverVars
  <2>. QED  BY <1>1, <1>2, <2>1 DEF Good, Inv, ClientInv, serverVars
<1>3. ASSUME NEW w \in Slots, store = exchanges[tab].failed,
             Server!Send(w, "refresh", store),
             exchanges' = [exchanges EXCEPT ![tab].step = "sent", ![tab].slot = w]
      PROVE  Good
  <2>1. store \in 1 .. issued
    BY <1>1, <1>3 DEF Inv, ClientInv, ExchangesOK
  <2>2. Server!Next
    BY <1>3, <2>1 DEF Server!Next
  <2>3. /\ issued' = issued
        /\ requests[w].kind = "none" /\ requests'[w].kind = "refresh"
        /\ \A v \in Slots \ {w} : requests'[v].kind = requests[v].kind
    BY <1>3, SendKeepsKinds DEF Inv
  <2>4. ExchangesOK(exchanges', requests')
    <3>1. /\ exchanges' = [t \in Tabs |-> exchanges'[t]]
          /\ exchanges'[tab] = [step |-> "sent", failed |-> exchanges[tab].failed,
                                slot |-> w]
          /\ \A t \in Tabs \ {tab} : exchanges'[t] = exchanges[t]
      <4>1. /\ exchanges = [t \in Tabs |-> exchanges[t]]
            /\ exchanges[tab] = [step |-> exchanges[tab].step,
                 failed |-> exchanges[tab].failed, slot |-> exchanges[tab].slot]
        BY DEF Inv, ClientInv, ExchangesOK
      <4>2. exchanges'[tab] = [exchanges[tab] EXCEPT !.step = "sent", !.slot = w]
        BY <1>3, <4>1
      <4>. QED  BY <1>3, <4>1, <4>2
    <3>2. ASSUME NEW t \in Tabs, exchanges[t].step = "sent"
          PROVE  exchanges[t].slot # w
      BY <2>3, <3>2 DEF Inv, ClientInv, ExchangesOK
    <3>3. \A t \in Tabs : exchanges[t].step # "sent" => exchanges[t].slot # w
      BY SessionAssumption DEF Inv, ClientInv, ExchangesOK
    <3>. QED  BY <2>3, <3>1, <3>2, <3>3 DEF Inv, ClientInv, ExchangesOK
  <2>5. SignInOK(signIn', requests')
    BY <1>1, <2>3 DEF Inv, ClientInv, SignInOK
  <2>. QED  BY <1>1, <2>2, <2>3, <2>4, <2>5 DEF Good, Inv, ClientInv
<1>. QED  BY <1>2, <1>3 DEF StartExchange, Settle

(* Its response, received or lost: the slot is this tab's alone.           *)
LEMMA FinishExchangeStep ==
  ASSUME Inv, NEW tab \in Tabs, FinishExchange(tab) \/ LoseExchange(tab)
  PROVE  Good
<1>. DEFINE w == exchanges[tab].slot
<1>1. /\ w \in Slots /\ requests[w].kind = "refresh"
      /\ UNCHANGED <<stale, signIn>>
      /\ exchanges' = [exchanges EXCEPT ![tab] = NoExchange]
  BY DEF FinishExchange, LoseExchange, Settle, Inv, ClientInv, ExchangesOK
<1>2. \/ Server!Receive(w) \/ Server!Drop(w)
      \/ UNCHANGED serverVars
  BY DEF FinishExchange, LoseExchange
<1>3. /\ issued' = issued
      /\ \A v \in Slots \ {w} : requests'[v].kind = requests[v].kind
  BY <1>1, <1>2, FreeKeepsKinds DEF Inv, serverVars
<1>4. [Server!Next]_serverVars
  BY <1>1, <1>2 DEF Server!Next
<1>5. ExchangesOK(exchanges', requests')
  BY <1>1, <1>3, ExchangeSettled DEF Inv, ClientInv
<1>6. SignInOK(signIn', requests')
  BY <1>1, <1>3 DEF Inv, ClientInv, SignInOK
<1>7. store' \in 1 .. issued \cup {None}
  <2>1. CASE LoseExchange(tab)
    BY <2>1 DEF LoseExchange, Inv, ClientInv
  <2>2. CASE FinishExchange(tab)
    <3>1. requests[w].answer \in 1 .. issued \cup {None, Server!Failed}
      BY <1>1, <2>2, RequestFacts DEF Inv, FinishExchange
    <3>. QED  BY <2>2, <3>1 DEF FinishExchange, Response, StoreAfter, Inv, ClientInv
  <2>. QED  BY <2>1, <2>2
<1>. QED  BY <1>1, <1>3, <1>4, <1>5, <1>6, <1>7 DEF Good, Inv, ClientInv

(* Signing in: the login's response is awaited by nobody else. *)
LEMMA SignInSteps ==
  ASSUME Inv, SignIn \/ SignedIn
  PROVE  Good
<1>1. CASE SignIn
  <2>1. PICK w \in Slots : Server!Send(w, "login", None) /\ signIn' = w
    BY <1>1 DEF SignIn
  <2>2. UNCHANGED <<store, stale, exchanges>>
    BY <1>1 DEF SignIn
  <2>3. /\ issued' = issued
        /\ requests[w].kind = "none" /\ requests'[w].kind = "login"
        /\ \A v \in Slots \ {w} : requests'[v].kind = requests[v].kind
    BY <2>1, SendKeepsKinds DEF Inv
  <2>4. ExchangesOK(exchanges', requests')
    BY <2>2, <2>3, NotAwaited DEF Inv, ClientInv
  <2>. QED  BY <2>1, <2>2, <2>3, <2>4
            DEF Good, Inv, ClientInv, SignInOK, Server!Next
<1>2. CASE SignedIn
  <2>1. /\ signIn \in Slots /\ requests[signIn].kind = "login"
        /\ Server!Receive(signIn) /\ signIn' = None
        /\ store' = requests[signIn].answer /\ UNCHANGED <<stale, exchanges>>
    BY <1>2 DEF SignedIn, Inv, ClientInv, SignInOK
  <2>2. store' \in 1 .. issued
    BY <1>2, <2>1, RequestFacts DEF SignedIn, Inv
  <2>3. /\ issued' = issued
        /\ \A v \in Slots \ {signIn} : requests'[v].kind = requests[v].kind
    BY <2>1, FreeKeepsKinds DEF Inv
  <2>4. ExchangesOK(exchanges', requests')
    BY <2>1, <2>3, NotAwaited DEF Inv, ClientInv
  <2>. QED  BY <2>1, <2>2, <2>3, <2>4
            DEF Good, Inv, ClientInv, SignInOK, Server!Next
<1>. QED  BY <1>1, <1>2

(* Signing out, whether or not the server hears of it. *)
LEMMA SignOutStep ==
  ASSUME Inv, SignOut
  PROVE  Good
<1>1. store' = None /\ UNCHANGED <<stale, exchanges, signIn>>
  BY DEF SignOut
<1>2. CASE UNCHANGED serverVars
  BY <1>1, <1>2 DEF Good, Inv, ClientInv, serverVars
<1>3. CASE store # None /\ \E w \in Slots : Server!Send(w, "logout", store)
  <2>1. PICK w \in Slots : Server!Send(w, "logout", store)
    BY <1>3
  <2>2. store \in 1 .. issued
    BY <1>3 DEF Inv, ClientInv
  <2>3. Server!Next
    BY <2>1, <2>2 DEF Server!Next
  <2>4. /\ issued' = issued
        /\ requests[w].kind = "none"
        /\ \A v \in Slots \ {w} : requests'[v].kind = requests[v].kind
    BY <2>1, SendKeepsKinds DEF Inv
  <2>5. ExchangesOK(exchanges', requests')
    BY <1>1, <2>4, NotAwaited DEF Inv, ClientInv
  <2>6. SignInOK(signIn', requests')
    BY <1>1, <2>4 DEF Inv, ClientInv, SignInOK
  <2>. QED  BY <1>1, <2>3, <2>5, <2>6 DEF Good, Inv, ClientInv
<1>. QED  BY <1>2, <1>3 DEF SignOut

(* A response that nobody waits for. *)
LEMMA DiscardStep ==
  ASSUME Inv, NEW w \in Slots, Discard(w)
  PROVE  Good
<1>1. /\ Server!Receive(w) /\ w # signIn
      /\ \A tab \in Tabs : w # exchanges[tab].slot
      /\ UNCHANGED <<store, stale, exchanges, signIn>>
  BY DEF Discard, Unawaited, clientVars
<1>2. /\ issued' = issued
      /\ \A v \in Slots \ {w} : requests'[v].kind = requests[v].kind
  BY <1>1, FreeKeepsKinds DEF Inv
<1>3. \A tab \in Tabs : exchanges[tab].step = "sent" =>
        requests'[exchanges[tab].slot].kind = requests[exchanges[tab].slot].kind
  BY <1>1, <1>2 DEF Inv, ClientInv, ExchangesOK
<1>4. ExchangesOK(exchanges', requests')
  BY <1>1, <1>3, ExchangesKept DEF Inv, ClientInv
<1>5. SignInOK(signIn', requests')
  BY <1>1, <1>2 DEF Inv, ClientInv, SignInOK
<1>. QED  BY <1>1, <1>2, <1>4, <1>5 DEF Good, Inv, ClientInv, Server!Next

(* The server at work. *)
LEMMA ServerSteps ==
  ASSUME Inv, ServerStep
  PROVE  Good
<1>1. UNCHANGED <<store, stale, exchanges, signIn>>
  BY DEF ServerStep, clientVars
<1>2. /\ issued' \in {issued, issued + 1}
      /\ \A v \in Slots : requests'[v].kind = requests[v].kind
  <2>1. CASE Server!Expire
    BY <2>1 DEF Server!Expire
  <2>2. ASSUME NEW w \in Slots, Server!Serve(w)
        PROVE  /\ issued' \in {issued, issued + 1}
               /\ \A v \in Slots : requests'[v].kind = requests[v].kind
    BY <2>2, ServeKeepsKinds DEF Inv
  <2>. QED  BY <2>1, <2>2 DEF ServerStep
<1>3. \A tab \in Tabs : exchanges[tab].step = "sent" =>
        requests'[exchanges[tab].slot].kind = requests[exchanges[tab].slot].kind
  BY <1>2 DEF Inv, ClientInv, ExchangesOK
<1>4. ExchangesOK(exchanges', requests')
  BY <1>1, <1>3, ExchangesKept DEF Inv, ClientInv
<1>5. SignInOK(signIn', requests')
  BY <1>1, <1>2 DEF Inv, ClientInv, SignInOK
<1>6. store' \in 1 .. issued' \cup {None}
  <2>1. issued \in Nat
    BY RequestFacts DEF Inv
  <2>. QED  BY <1>1, <1>2, <2>1 DEF Inv, ClientInv
<1>7. Server!Next
  BY DEF ServerStep, Server!Next
<1>. QED  BY <1>1, <1>4, <1>5, <1>6, <1>7 DEF Good, Inv, ClientInv

-----------------------------------------------------------------------------
(* The initial state is one of the server's, and in order. *)
LEMMA InitInv == Init => Server!Init /\ Inv
<1>. SUFFICES ASSUME Init PROVE Server!Init /\ Inv
  OBVIOUS
<1>1. Tokens!IInv
  BY SameInit, Tokens!InitInv, SessionAssumption, FiniteSlots DEF Init
<1>2. ClientInv
  BY DEF Init, ClientInv, ExchangesOK, SignInOK, NoExchange
<1>. QED  BY <1>1, <1>2 DEF Init, Inv

(* Every step is one of the server's, or none, and keeps things in order.  *)
LEMMA NextInv == Inv /\ [Next]_vars => [Server!Next]_serverVars /\ Inv'
<1>. SUFFICES ASSUME Inv, [Next]_vars PROVE [Server!Next]_serverVars /\ Inv'
  OBVIOUS
<1>1. ASSUME NEW c \in Calls,
             \/ SendCall(c) \/ CallAnswered(c) \/ SendRetry(c)
             \/ RetryAnswered(c) \/ CallFails(c)
      PROVE  Good
  BY <1>1, CallSteps, CallAnsweredStep
<1>2. ASSUME NEW tab \in Tabs,
             StartExchange(tab) \/ FinishExchange(tab) \/ LoseExchange(tab)
      PROVE  Good
  BY <1>2, StartExchangeStep, FinishExchangeStep
<1>3. ASSUME SignIn \/ SignedIn PROVE Good
  BY <1>3, SignInSteps
<1>4. ASSUME SignOut PROVE Good
  BY <1>4, SignOutStep
<1>5. ASSUME NEW w \in Slots, Discard(w) PROVE Good
  BY <1>5, DiscardStep
<1>6. ASSUME AccessExpires PROVE Good
  BY <1>6 DEF AccessExpires, Good, Inv, ClientInv, serverVars
<1>7. ASSUME ServerStep PROVE Good
  BY <1>7, ServerSteps
<1>8. ASSUME UNCHANGED vars PROVE Good
  BY <1>8 DEF vars, clientVars, Good, Inv, ClientInv, serverVars
<1>9. Good
  BY <1>1, <1>2, <1>3, <1>4, <1>5, <1>6, <1>7, <1>8 DEF Next
<1>10. Tokens!IInv'
  <2>1. [Tokens!Next]_Tokens!serverVars
    BY <1>9, SameNext DEF Good, serverVars, Tokens!serverVars
  <2>. QED  BY <2>1, Tokens!NextInv, SessionAssumption, FiniteSlots DEF Inv
<1>. QED  BY <1>9, <1>10 DEF Good, Inv

(* A device with any number of tabs uses the server as RefreshTokens       *)
(* allows: the session of client.ts implements the token service's         *)
(* specification, so every theorem about the tokens holds with it.         *)
THEOREM SessionUsesServer == Spec => ServedByTokens
<1>1. Inv /\ [Next]_vars => [Server!Next]_Server!serverVars
  BY NextInv DEF serverVars, Server!serverVars
<1>. QED  BY <1>1, InitInv, NextInv, PTL DEF Spec, ServedByTokens, Server!Spec

(* In particular a session that was ended at the server stays ended there, *)
(* whatever the devices still do with its tokens (refresh_tokens.py:       *)
(* _revoke_family).                                                        *)
THEOREM EndedAtTheServer == Spec => []Server!RevocationIsFinal
<1>1. Inv => Server!RevocationIsFinal
  BY DEF Inv, Tokens!IInv, Tokens!Book, Server!RevocationIsFinal
<1>. QED  BY <1>1, InitInv, NextInv, PTL DEF Spec
-----------------------------------------------------------------------------
(* The types.  n tokens have been issued.                                  *)

CallStates(n) == [step : {"idle", "sent", "waiting", "resumed", "retried"},
                  pair : 1 .. n \cup {None}]

ExchangeStates(n) == [step : {"none", "starting", "sent"},
                      failed : 1 .. n \cup {None}, slot : Slots \cup {None}]

SessionTypes ==
  /\ stale \subseteq 1 .. issued
  /\ calls \in [Calls -> CallStates(issued)]
  /\ exchanges \in [Tabs -> ExchangeStates(issued)]
  /\ session \in 1 .. issued \cup {None}
  /\ logins \in Nat /\ losses \in Nat /\ logins + losses <= MaxEvents

(* No step takes an issued token back. *)
LEMMA IssuedGrows ==
  ASSUME Inv, [Next]_vars
  PROVE  issued \in Nat /\ issued' \in {issued, issued + 1}
<1>1. issued \in Nat
  BY RequestFacts DEF Inv
<1>2. [Server!Next]_serverVars
  BY NextInv
<1>. QED
  BY <1>1, <1>2
  DEF serverVars, Server!Next, Server!Send, Server!Drop, Server!Receive,
      Server!Expire, Server!Serve, Server!IssueSession, Server!ReadToken,
      Server!Rotate, Server!RevokeFamily

(* The initial state and every step keep to the types. *)
LEMMA InitTypes == Init => SessionTypes
BY SessionAssumption
DEF Init, SessionTypes, CallStates, ExchangeStates, NoCall, NoExchange

(* Whatever a call or a refresh carries was issued before.                 *)
LEMMA NextTypes == Inv /\ SessionTypes /\ [Next]_vars => SessionTypes'
<1>. SUFFICES ASSUME Inv, SessionTypes, [Next]_vars PROVE SessionTypes'
  OBVIOUS
<1>0. issued \in Nat /\ 1 .. issued \subseteq 1 .. issued'
  BY IssuedGrows
<1>1. store \in 1 .. issued \cup {None} /\ TabOf \in [Calls -> Tabs]
  BY SessionAssumption DEF Inv, ClientInv
<1>2. calls' \in [Calls -> CallStates(issued)]
  <2>1. ASSUME NEW c \in Calls,
               \/ SendCall(c) \/ CallAnswered(c) \/ SendRetry(c)
               \/ RetryAnswered(c) \/ CallFails(c)
        PROVE  calls' \in [Calls -> CallStates(issued)]
    BY <1>1, <2>1 DEF SessionTypes, CallStates, NoCall, SendCall, CallAnswered,
                      SendRetry, RetryAnswered, CallFails
  <2>2. ASSUME NEW tab \in Tabs,
               StartExchange(tab) \/ FinishExchange(tab) \/ LoseExchange(tab)
        PROVE  calls' \in [Calls -> CallStates(issued)]
    BY <2>2 DEF SessionTypes, CallStates, Settle, StartExchange, FinishExchange,
                LoseExchange
  <2>. QED  BY <2>1, <2>2
            DEF Next, vars, clientVars, SessionTypes, SignIn, SignedIn, SignOut,
                Discard, AccessExpires, ServerStep
<1>3. exchanges' \in [Tabs -> ExchangeStates(issued)]
  <2>1. ASSUME NEW c \in Calls, CallAnswered(c)
        PROVE  exchanges' \in [Tabs -> ExchangeStates(issued)]
    <3>1. calls[c].pair \in 1 .. issued \cup {None}
      BY DEF SessionTypes, CallStates
    <3>. QED  BY <2>1, <3>1 DEF SessionTypes, ExchangeStates, CallAnswered, Join
  <2>2. ASSUME NEW tab \in Tabs,
               StartExchange(tab) \/ FinishExchange(tab) \/ LoseExchange(tab)
        PROVE  exchanges' \in [Tabs -> ExchangeStates(issued)]
    BY <2>2 DEF SessionTypes, ExchangeStates, NoExchange, Settle, StartExchange,
                FinishExchange, LoseExchange
  <2>. QED  BY <2>1, <2>2
            DEF Next, vars, clientVars, SessionTypes, SendCall, SendRetry,
                RetryAnswered, CallFails, SignIn, SignedIn, SignOut, Discard,
                AccessExpires, ServerStep
<1>4. stale' \subseteq 1 .. issued
  BY <1>1 DEF Next, vars, clientVars, SessionTypes, SendCall, CallAnswered,
              SendRetry, RetryAnswered, CallFails, StartExchange, FinishExchange,
              LoseExchange, SignIn, SignedIn, SignOut, Discard, AccessExpires,
              ServerStep
<1>5. session' \in 1 .. issued \cup {None}
  <2>1. ASSUME SignedIn PROVE session' \in 1 .. issued \cup {None}
    <3>1. requests[signIn].answer \in 1 .. issued
      BY <2>1, RequestFacts DEF SignedIn, Inv, ClientInv, SignInOK
    <3>. QED  BY <2>1, <3>1 DEF SignedIn
  <2>. QED  BY <2>1
            DEF Next, vars, clientVars, SessionTypes, SendCall, CallAnswered,
                SendRetry, RetryAnswered, CallFails, StartExchange, FinishExchange,
                LoseExchange, SignIn, SignOut, Discard, AccessExpires, ServerStep
<1>6. /\ logins' \in Nat /\ losses' \in Nat
      /\ logins' + losses' <= MaxEvents
  <2>1. \/ logins' = logins /\ losses' = losses
        \/ /\ logins + losses < MaxEvents
           /\ \/ logins' = logins + 1 /\ losses' = losses
              \/ losses' = losses + 1 /\ logins' = logins
    BY DEF Next, vars, clientVars, SendCall, CallAnswered, SendRetry, RetryAnswered,
           CallFails, StartExchange, FinishExchange, LoseExchange, SignIn, SignedIn,
           SignOut, Discard, AccessExpires, ServerStep
  <2>. QED  BY <2>1, SessionAssumption DEF SessionTypes
<1>7. /\ CallStates(issued) \subseteq CallStates(issued')
      /\ ExchangeStates(issued) \subseteq ExchangeStates(issued')
  BY <1>0 DEF CallStates, ExchangeStates
<1>. QED  BY <1>0, <1>2, <1>3, <1>4, <1>5, <1>6, <1>7 DEF SessionTypes

(* The server keeps its types. *)
LEMMA ServerTypes ==
  ASSUME Inv
  PROVE  Server!TypeOK
<1>1. Tokens!TypeOK
  BY Tokens!TypesOf, SessionAssumption, FiniteSlots DEF Inv
<1>. QED  BY <1>1 DEF Tokens!TypeOK, Tokens!TokenRow, Tokens!SlotState, Tokens!Ids,
              Tokens!Failed, Server!TypeOK, Server!TokenRow, Server!SlotState,
              Server!Ids, Server!Failed

(* The server's tables, the store and what every call and every refresh    *)
(* carries keep their types, with any number of tabs, calls and sign-ins.  *)
THEOREM SessionTypesHold == Spec => []TypeOK
<1>1. Inv /\ SessionTypes => TypeOK
  <2>. SUFFICES ASSUME Inv, SessionTypes PROVE TypeOK
    OBVIOUS
  <2>. QED  BY ServerTypes
                    DEF TypeOK, Inv, ClientInv, SignInOK, SessionTypes,
                        CallStates, ExchangeStates
<1>. QED  BY <1>1, InitInv, NextInv, InitTypes, NextTypes, PTL DEF Spec

-----------------------------------------------------------------------------
(* The session of a device with one tab, through its first sign-in and as  *)
(* long as no response is lost.  Two tabs could present the same token,    *)
(* and a second sign-in may meet what the first session left under way.    *)

OneTab == \A one, other \in Tabs : one = other

Quiet == losses = 0 /\ logins <= 1

(* Nobody is signed in, and no request is under way but slot, the login. *)
NothingYet(slot) ==
  /\ session = None /\ store = None /\ stale = {}
  /\ \A c \in Calls : calls[c] \in {NoCall, [step |-> "sent", pair |-> None]}
  /\ \A tab \in Tabs : ~InFlight(tab)
  /\ \A w \in Slots \ {slot} : requests[w].step = "idle"

LoginUnderWay(r) ==
  /\ r.kind = "login"
  /\ \/ r.step = "sent" /\ issued = 0
     \/ /\ r.step = "answered" /\ r.answer = 1
        /\ issued = 1 /\ DOMAIN tokens = {1}
        /\ tokens[1].family = 1 /\ tokens[1].revoked = FALSE

(* All tokens are the session's, and the newest is redeemable. *)
NewestHolds ==
  /\ issued # 0 /\ DOMAIN tokens = 1 .. issued
  /\ \A t \in 1 .. issued : tokens[t].family = session
  /\ tokens[issued].revoked = FALSE

(* A call of an old pair meets a new one in the store. *)
CallOK(c) ==
  /\ calls[c].step = "sent" /\ calls[c].pair \in stale =>
       calls[c].pair = store \/ store \notin stale
  /\ calls[c].step = "waiting" => InFlight(TabOf[c])
  /\ calls[c].step \in {"resumed", "retried"} => store # None /\ store \notin stale
  /\ calls[c].step = "retried" => calls[c].pair = store

(* The request r of a refresh: it presents the newest token, which is then *)
(* exchanged for the next, or is found to be past its ninety days.         *)
Renewing(r) ==
  /\ r.kind = "refresh" /\ r.token = store
  /\ \/ r.step \in {"sent", "rotating"} /\ store = issued
     \/ r.step = "answered" /\ r.answer = None /\ expired = issued /\ store = issued
     \/ r.step = "answered" /\ r.answer = issued /\ issued \notin stale

RefreshOK(tab) ==
  /\ InFlight(tab) =>
       /\ exchanges[tab].failed \in stale
       /\ \E c \in Calls : TabOf[c] = tab /\ calls[c].step = "waiting"
  /\ exchanges[tab].step = "starting" =>
       exchanges[tab].failed = store \/ store \notin stale
  /\ exchanges[tab].step = "sent" =>
       exchanges[tab].failed = store /\ Renewing(requests[exchanges[tab].slot])

Renewed == \E tab \in Tabs : exchanges[tab].step = "sent"

InSession ==
  /\ signIn = None
  /\ NewestHolds
  /\ store = None => expired = issued
  /\ ~Renewed => store \in {issued, None}
  /\ \A c \in Calls : CallOK(c)
  /\ \A tab \in Tabs : RefreshOK(tab)
  /\ \A w \in Slots : requests[w].step # "idle" =>
       \E tab \in Tabs : exchanges[tab].step = "sent" /\ exchanges[tab].slot = w

(* The device before, during and after the one session. *)
FirstSession ==
  Quiet =>
    /\ logins = 0 => signIn = None /\ session = None
    /\ logins = 0 => NothingYet(None) /\ issued = 0
    /\ signIn # None => session = None
    /\ signIn # None => NothingYet(signIn) /\ LoginUnderWay(requests[signIn])
    /\ session # None => InSession

SessionInv == Inv /\ SessionTypes /\ FirstSession

(* What the steps below need of the tokens and the types. *)
LEMMA SessionFacts ==
  ASSUME SessionInv
  PROVE  /\ issued \in Nat /\ expired \in 0 .. issued /\ None \notin Int
         /\ requests = [w \in Slots |-> requests[w]]
         /\ \A w \in Slots :
              /\ requests[w].kind = "none" <=> requests[w].step = "idle"
              /\ requests[w].step # "answered" => requests[w].answer = None
              /\ requests[w] = [step |-> requests[w].step, kind |-> requests[w].kind,
                   token |-> requests[w].token, family |-> requests[w].family,
                   answer |-> requests[w].answer]
         /\ stale \subseteq 1 .. issued /\ store \in 1 .. issued \cup {None}
         /\ calls \in [Calls -> CallStates(issued)]
         /\ exchanges \in [Tabs -> ExchangeStates(issued)]
         /\ TabOf \in [Calls -> Tabs] /\ None \notin Slots
         /\ logins \in Nat /\ losses \in Nat
<1>1. /\ issued \in Nat /\ requests = [w \in Slots |-> requests[w]]
      /\ \A w \in Slots : /\ requests[w] \in Server!SlotState
                          /\ requests[w].kind = "none" <=> requests[w].step = "idle"
  BY RequestFacts DEF SessionInv, Inv
<1>2. /\ expired \in 0 .. issued
      /\ \A w \in Slots : requests[w].step # "answered" => requests[w].answer = None
  BY DEF SessionInv, Inv, Tokens!IInv, Tokens!Counters, Tokens!Requests, Tokens!RequestOK
<1>3. \A w \in Slots : requests[w] = [step |-> requests[w].step, kind |-> requests[w].kind,
                   token |-> requests[w].token, family |-> requests[w].family,
                   answer |-> requests[w].answer]
  BY <1>1 DEF Server!SlotState
<1>. QED  BY <1>1, <1>2, <1>3, SessionAssumption
          DEF SessionInv, Inv, ClientInv, SessionTypes

(* A state in which no session changes hands, of which only the calls, the *)
(* refreshes, the store and the requests moved on.                         *)
LEMMA PhasesKept ==
  ASSUME FirstSession, UNCHANGED <<signIn, session, logins, losses>>,
         Quiet /\ logins = 0 => (NothingYet(None) /\ issued = 0)',
         Quiet /\ signIn # None => (NothingYet(signIn) /\ LoginUnderWay(requests[signIn]))',
         Quiet /\ session # None => InSession'
  PROVE  FirstSession'
BY DEF FirstSession, Quiet

(* Before the session a call goes out without a token and is answered.     *)
LEMMA CallBefore ==
  ASSUME SessionInv, NEW slot, NothingYet(slot), NEW c \in Calls,
         \/ SendCall(c) \/ CallAnswered(c) \/ SendRetry(c)
         \/ RetryAnswered(c) \/ CallFails(c)
  PROVE  /\ store' = None /\ UNCHANGED exchanges
         /\ \A d \in Calls : calls'[d] \in {NoCall, [step |-> "sent", pair |-> None]}
<1>1. calls[c] \in {NoCall, [step |-> "sent", pair |-> None]} /\ store = None /\ stale = {}
  BY DEF NothingYet
<1>2. calls[c].step # "resumed" /\ calls[c].step # "retried"
  BY <1>1 DEF NoCall
<1>3. SendCall(c) \/ CallAnswered(c) \/ CallFails(c)
  BY <1>2 DEF SendRetry, RetryAnswered
<1>4. calls' \in {[calls EXCEPT ![c] = NoCall],
                  [calls EXCEPT ![c] = [step |-> "sent", pair |-> None]]}
  BY <1>1, <1>3 DEF SendCall, CallAnswered, CallFails
<1>5. store' = None /\ UNCHANGED exchanges
  BY <1>1, <1>3 DEF SendCall, CallAnswered, CallFails
<1>. QED  BY <1>4, <1>5, SessionFacts DEF NothingYet

(* During it, a call sent carries the stored pair; one that is refused     *)
(* because its pair has expired waits; a retry carries a pair that has not *)
(* expired, so none ends the session.                                      *)
LEMMA CallDuring ==
  ASSUME SessionInv, InSession, NEW c \in Calls,
         SendCall(c) \/ SendRetry(c) \/ RetryAnswered(c) \/ CallFails(c)
  PROVE  InSession'
<1>1. UNCHANGED <<serverVars, stale, signIn, session, exchanges>>
  BY DEF SendCall, SendRetry, RetryAnswered, CallFails
<1>2. store' = store
  <2>1. ASSUME RetryAnswered(c) PROVE store' = store
    BY <2>1 DEF RetryAnswered, InSession, CallOK, Authorized
  <2>. QED  BY <2>1 DEF SendCall, SendRetry, CallFails
<1>3. \/ calls' = [calls EXCEPT ![c] = NoCall]
      \/ calls' = [calls EXCEPT ![c] = [step |-> "sent", pair |-> store]]
      \/ /\ calls' = [calls EXCEPT ![c] = [step |-> "retried", pair |-> store]]
         /\ calls[c].step = "resumed"
  BY DEF SendCall, SendRetry, RetryAnswered, CallFails
<1>4. /\ \/ calls'[c] = NoCall
         \/ calls'[c] = [step |-> "sent", pair |-> store]
         \/ /\ calls'[c] = [step |-> "retried", pair |-> store]
            /\ calls[c].step = "resumed"
      /\ calls[c].step # "waiting"
      /\ \A d \in Calls \ {c} : calls'[d] = calls[d]
  BY <1>3, SessionFacts DEF SendCall, SendRetry, RetryAnswered, CallFails
<1>5. \A d \in Calls : CallOK(d)'
  <2>1. CallOK(c)'
    BY <1>1, <1>2, <1>4 DEF InSession, CallOK, NoCall
  <2>2. ASSUME NEW d \in Calls \ {c} PROVE CallOK(d)'
    BY <1>1, <1>2, <1>4 DEF InSession, CallOK, InFlight
  <2>. QED  BY <2>1, <2>2
<1>6. \A tab \in Tabs : RefreshOK(tab)'
  BY <1>1, <1>2, <1>4 DEF InSession, RefreshOK, InFlight, Renewing, serverVars
<1>. QED  BY <1>1, <1>2, <1>5, <1>6
          DEF InSession, NewestHolds, Renewed, serverVars

(* ... and the refresh it joins or starts is of a pair that has expired.   *)
LEMMA WaitDuring ==
  ASSUME SessionInv, InSession, NEW c \in Calls, CallAnswered(c)
  PROVE  InSession'
<1>. DEFINE t == TabOf[c]
<1>0. t \in Tabs
  BY SessionFacts
<1>1. UNCHANGED <<serverVars, store, stale, signIn, session>> /\ calls[c].step = "sent"
  BY DEF CallAnswered
<1>2. \A d \in Calls \ {c} : calls'[d] = calls[d]
  BY SessionFacts DEF CallAnswered
<1>3. CASE calls' = [calls EXCEPT ![c] = NoCall] /\ UNCHANGED exchanges
  <2>1. calls'[c] = NoCall
    BY <1>3, SessionFacts
  <2>2. \A d \in Calls : CallOK(d)'
    <3>1. CallOK(c)'
      BY <2>1 DEF CallOK, NoCall
    <3>2. ASSUME NEW d \in Calls \ {c} PROVE CallOK(d)'
      BY <1>1, <1>2, <1>3 DEF InSession, CallOK, InFlight
    <3>. QED  BY <3>1, <3>2
  <2>3. \A tab \in Tabs : RefreshOK(tab)'
    BY <1>1, <1>2, <1>3 DEF InSession, RefreshOK, InFlight, Renewing, serverVars
  <2>. QED  BY <1>1, <1>3, <2>2, <2>3
            DEF InSession, NewestHolds, Renewed, serverVars
<1>4. CASE /\ calls[c].pair \in stale
           /\ calls' = [calls EXCEPT ![c].step = "waiting"]
           /\ exchanges' = Join(t, calls[c].pair)
  <2>1. calls'[c].step = "waiting"
    BY <1>4, SessionFacts
  <2>2. /\ \A tab \in Tabs \ {t} : exchanges'[tab] = exchanges[tab]
        /\ \/ InFlight(t) /\ exchanges'[t] = exchanges[t]
           \/ /\ ~InFlight(t)
              /\ exchanges'[t] = [step |-> "starting", failed |-> calls[c].pair,
                                  slot |-> None]
    BY <1>0, <1>4, SessionFacts DEF Join
  <2>3. InFlight(t)'
    BY <2>2 DEF InFlight
  <2>4. \A d \in Calls : CallOK(d)'
    <3>1. CallOK(c)'
      BY <2>1, <2>3 DEF CallOK
    <3>2. \A tab \in Tabs : exchanges[tab].step # "none" => exchanges'[tab].step # "none"
      BY <2>2, <2>3 DEF InFlight
    <3>3. ASSUME NEW d \in Calls \ {c} PROVE CallOK(d)'
      BY <1>1, <1>2, <3>2, <3>3, SessionFacts DEF InSession, CallOK, InFlight
    <3>. QED  BY <3>1, <3>3
  <2>5. RefreshOK(t)'
    BY <1>0, <1>1, <1>4, <2>1, <2>2
    DEF InSession, RefreshOK, CallOK, InFlight, Renewing, serverVars
  <2>6. ASSUME NEW tab \in Tabs \ {t} PROVE RefreshOK(tab)'
    BY <1>1, <1>2, <2>2
    DEF InSession, RefreshOK, InFlight, Renewing, serverVars
  <2>7. \A tab \in Tabs : \/ exchanges'[tab] = exchanges[tab]
                          \/ exchanges'[tab].step = "starting" /\ exchanges[tab].step = "none"
    BY <1>0, <2>2 DEF InFlight
  <2>. QED  BY <1>1, <2>4, <2>5, <2>6, <2>7
            DEF InSession, NewestHolds, Renewed, serverVars
<1>. QED  BY <1>3, <1>4 DEF CallAnswered

(* The refresh of the only tab ends: nothing waits any more, and none of   *)
(* the requests under way is awaited.                                      *)
LEMMA SettledDuring ==
  ASSUME SessionInv, InSession, OneTab, NEW tab \in Tabs,
         NEW step \in {"idle", "resumed"}, Settle(tab, step),
         step = "resumed" => store' # None /\ store' \notin stale,
         store' # store => store' \notin stale
                           /\ \A c \in Calls : calls[c].step \notin {"resumed", "retried"},
         UNCHANGED <<stale, signIn, session>>,
         NewestHolds', store' = None => expired' = issued',
         store' \in {issued', None},
         \A w \in Slots : requests'[w].step = "idle"
  PROVE  InSession'
<1>1. \A other \in Tabs : exchanges'[other] = NoExchange
  BY SessionFacts DEF Settle, OneTab
<1>2. \A other \in Tabs : RefreshOK(other)' /\ ~InFlight(other)'
  BY <1>1 DEF RefreshOK, InFlight, NoExchange
<1>3. ASSUME NEW c \in Calls PROVE CallOK(c)'
  <2>1. TabOf[c] = tab
    BY SessionFacts DEF OneTab
  <2>2. calls'[c] = IF calls[c].step = "waiting" THEN [step |-> step, pair |-> None]
                    ELSE calls[c]
    BY <2>1 DEF Settle
  <2>3. CASE calls[c].step = "waiting"
    BY <2>2, <2>3 DEF CallOK
  <2>4. CASE calls[c].step # "waiting"
    BY <2>2, <2>4 DEF CallOK, InSession
  <2>. QED  BY <2>3, <2>4
<1>. QED  BY <1>2, <1>3 DEF InSession, InFlight

(* Without a refresh at the server no request is under way, and the stored *)
(* pair is the newest.                                                     *)
LEMMA Unrenewed ==
  ASSUME InSession, OneTab, NEW tab \in Tabs, exchanges[tab].step # "sent"
  PROVE  store \in {issued, None} /\ \A w \in Slots : requests[w].step = "idle"
BY DEF InSession, Renewed, OneTab

(* A refresh begins: there is nothing to do when the store holds a newer   *)
(* pair, and otherwise it presents the newest token.                       *)
LEMMA StartDuring ==
  ASSUME SessionInv, InSession, OneTab, NEW tab \in Tabs, StartExchange(tab)
  PROVE  InSession'
<1>1. /\ UNCHANGED <<store, stale, signIn, session>>
      /\ exchanges[tab].step = "starting" /\ RefreshOK(tab)
      /\ exchanges[tab].failed \in stale
  BY DEF StartExchange, InSession, RefreshOK, InFlight
<1>2. store \in {issued, None} /\ \A w \in Slots : requests[w].step = "idle"
  BY <1>1, Unrenewed
<1>3. ASSUME NEW step \in {"idle", "resumed"}, Settle(tab, step), UNCHANGED serverVars,
             step = "resumed" => store # None /\ store \notin stale
      PROVE  InSession'
  <2>1. /\ NewestHolds'
        /\ store' = None => expired' = issued'
        /\ store' \in {issued', None}
        /\ \A w \in Slots : requests'[w].step = "idle"
    BY <1>1, <1>2, <1>3 DEF InSession, NewestHolds, serverVars
  <2>2. step = "resumed" => store' # None /\ store' \notin stale
    BY <1>1, <1>3
  <2>3. store' # store => store' \notin stale
                           /\ \A c \in Calls : calls[c].step \notin {"resumed", "retried"}
    BY <1>1
  <2>. QED  BY <1>1, <1>3, <2>1, <2>2, <2>3, SettledDuring
<1>4. ASSUME NEW w \in Slots, store = exchanges[tab].failed, UNCHANGED calls,
             Server!Send(w, "refresh", store),
             exchanges' = [exchanges EXCEPT ![tab].step = "sent", ![tab].slot = w]
      PROVE  InSession'
  <2>1. store = issued /\ store \in stale
    BY <1>1, <1>2, <1>4, SessionFacts
  <2>2. /\ UNCHANGED <<tokens, issued, expired>>
        /\ requests'[w] = [Server!Idle EXCEPT !.step = "sent", !.kind = "refresh",
                                              !.token = store]
        /\ \A v \in Slots \ {w} : requests'[v] = requests[v]
    BY <1>4, SessionFacts DEF Server!Send
  <2>3. /\ exchanges'[tab].step = "sent" /\ exchanges'[tab].slot = w
        /\ exchanges'[tab].failed = exchanges[tab].failed
        /\ InFlight(tab)
    BY <1>1, <1>4, SessionFacts DEF InFlight, ExchangeStates
  <2>4. Renewing(requests[w])'
    BY <1>1, <2>1, <2>2 DEF Renewing, Server!Idle
  <2>5. RefreshOK(tab)'
    BY <1>1, <1>4, <2>1, <2>3, <2>4 DEF RefreshOK, InFlight
  <2>6. \A c \in Calls : CallOK(c)'
    BY <1>1, <1>4, <2>3, SessionFacts DEF InSession, CallOK, InFlight, OneTab
  <2>. QED  BY <1>1, <1>2, <2>1, <2>2, <2>3, <2>5, <2>6
            DEF InSession, NewestHolds, Renewed, OneTab
<1>5. CASE store = None /\ Settle(tab, "idle") /\ UNCHANGED serverVars
  BY <1>3, <1>5
<1>6. CASE store \notin {None, exchanges[tab].failed} /\ Settle(tab, "resumed")
           /\ UNCHANGED serverVars
  <2>1. store \notin stale
    BY <1>1, <1>6 DEF RefreshOK
  <2>. QED  BY <1>3, <1>6, <2>1
<1>. QED  BY <1>4, <1>5, <1>6 DEF StartExchange

(* Its response brings the newest token, or says that it has expired.      *)
LEMMA FinishDuring ==
  ASSUME SessionInv, InSession, OneTab, NEW tab \in Tabs, FinishExchange(tab)
  PROVE  InSession'
<1>. DEFINE w == exchanges[tab].slot
            answer == requests[w].answer
<1>1. /\ w \in Slots /\ Server!Receive(w) /\ requests[w].step = "answered"
      /\ exchanges[tab].step = "sent" /\ exchanges[tab].failed = store
      /\ exchanges[tab].failed \in stale
      /\ Renewing(requests[w]) /\ UNCHANGED <<stale, signIn, session>>
      /\ store' = StoreAfter(answer)
      /\ Settle(tab, IF answer \in Server!Ids THEN "resumed" ELSE "idle")
  BY DEF FinishExchange, InSession, RefreshOK, InFlight, Response, SessionInv, Inv,
         ClientInv, ExchangesOK
<1>2. \A c \in Calls : calls[c].step \notin {"resumed", "retried"}
  BY <1>1 DEF InSession, CallOK
<1>3. /\ UNCHANGED <<tokens, issued, expired>>
      /\ \A v \in Slots : requests'[v].step = "idle"
  <2>1. \A v \in Slots \ {w} : requests[v].step = "idle"
    BY <1>1 DEF InSession, OneTab
  <2>. QED  BY <1>1, <2>1, SessionFacts DEF Server!Receive, Server!Idle
<1>. HIDE DEF w
<1>4. CASE answer = None /\ expired = issued
  <2>1. answer \notin Server!Ids /\ store' = None
    BY <1>1, <1>4, SessionFacts DEF Server!Ids, StoreAfter, Server!Failed
  <2>2. None \notin stale /\ Settle(tab, "idle")
    BY <1>1, <2>1, SessionFacts
  <2>3. NewestHolds'
    BY <1>1, <1>3 DEF InSession, NewestHolds
  <2>. QED  BY <1>1, <1>2, <1>3, <1>4, <2>1, <2>2, <2>3, SettledDuring
<1>5. CASE answer = issued /\ issued \notin stale
  <2>1. issued \in Server!Ids
    <3>1. Server!TypeOK /\ issued # 0
      BY ServerTypes DEF SessionInv, InSession, NewestHolds
    <3>. QED  BY <3>1 DEF Server!TypeOK, Server!Ids
  <2>2. store' = issued /\ issued # None
    BY <1>1, <1>5, <2>1, SessionFacts DEF Server!Ids, StoreAfter, Server!Failed
  <2>3. Settle(tab, "resumed")
    BY <1>1, <1>5, <2>1
  <2>4. NewestHolds'
    BY <1>1, <1>3 DEF InSession, NewestHolds
  <2>. QED  BY <1>1, <1>2, <1>3, <1>5, <2>2, <2>3, <2>4, SettledDuring
<1>. QED  BY <1>1, <1>4, <1>5 DEF Renewing

(* The server exchanges the newest token for the next, which makes the     *)
(* next the newest, or refuses it when all tokens have expired; it never   *)
(* takes it for a replay.                                                  *)
LEMMA ServedDuring ==
  ASSUME SessionInv, InSession, OneTab, NEW w \in Slots, Server!Serve(w),
         UNCHANGED clientVars
  PROVE  InSession'
<1>1. PICK tab \in Tabs : exchanges[tab].step = "sent" /\ exchanges[tab].slot = w
  <2>1. requests[w].step # "idle"
    BY DEF Server!Serve, Server!IssueSession, Server!ReadToken, Server!Rotate,
           Server!RevokeFamily
  <2>. QED  BY <2>1 DEF InSession
<1>2. /\ RefreshOK(tab) /\ Renewing(requests[w])
      /\ \A other \in Tabs : other = tab
  BY <1>1 DEF InSession, RefreshOK, OneTab
<1>3. UNCHANGED <<store, stale, calls, exchanges, signIn, session>>
  BY DEF clientVars
<1>4. /\ requests[w].kind = "refresh" /\ requests[w].token = issued /\ store = issued
      /\ requests[w].answer = None
      /\ \/ requests[w].step = "sent" /\ Server!ReadToken(w)
         \/ requests[w].step = "rotating" /\ Server!Rotate(w)
  BY <1>2, SessionFacts
  DEF Renewing, Server!Serve, Server!IssueSession, Server!ReadToken, Server!Rotate,
      Server!RevokeFamily
<1>5. issued \in DOMAIN tokens /\ tokens[issued].revoked = FALSE
      /\ tokens[issued].family = session /\ issued \in Nat \ {0}
  BY SessionFacts DEF InSession, NewestHolds
<1>6. ASSUME NewestHolds', Renewing(requests[w])',
             \A v \in Slots \ {w} : requests'[v] = requests[v]
      PROVE  InSession'
  <2>1. \A other \in Tabs : RefreshOK(other)'
    BY <1>1, <1>2, <1>3, <1>6 DEF RefreshOK, InFlight
  <2>2. \A c \in Calls : CallOK(c)'
    BY <1>3 DEF InSession, CallOK, InFlight
  <2>3. Renewed' /\ store' # None
    BY <1>1, <1>3, <1>4, <1>5, SessionFacts DEF Renewed
  <2>. QED  BY <1>1, <1>3, <1>6, <2>1, <2>2, <2>3 DEF InSession
<1>7. CASE Server!ReadToken(w) /\ requests[w].step = "sent"
  <2>1. /\ UNCHANGED <<tokens, issued, expired>>
        /\ requests' = [requests EXCEPT
             ![w].step = Server!NextStep("refresh", issued), ![w].family = session]
    BY <1>4, <1>5, <1>7 DEF Server!ReadToken
  <2>2. \/ Server!NextStep("refresh", issued) = "rotating"
        \/ Server!NextStep("refresh", issued) = "answered" /\ expired = issued
    BY <1>5, SessionFacts DEF Server!NextStep, Server!IsExpired
  <2>3. /\ requests'[w].kind = "refresh" /\ requests'[w].token = issued
        /\ requests'[w].answer = None
        /\ requests'[w].step = Server!NextStep("refresh", issued)
        /\ \A v \in Slots \ {w} : requests'[v] = requests[v]
    BY <1>4, <2>1, SessionFacts
  <2>4. Renewing(requests[w])'
    BY <1>3, <1>4, <2>1, <2>2, <2>3 DEF Renewing
  <2>5. NewestHolds'
    BY <1>3, <2>1 DEF InSession, NewestHolds
  <2>. QED  BY <1>6, <2>3, <2>4, <2>5
<1>8. CASE Server!Rotate(w) /\ requests[w].step = "rotating"
  <2>1. /\ tokens' = Server!Exchange(tokens, issued, issued + 1)
        /\ issued' = issued + 1 /\ expired' = expired
        /\ requests' = [requests EXCEPT ![w].step = "answered", ![w].answer = issued + 1]
    BY <1>4, <1>5, <1>8 DEF Server!Rotate, Server!Answer
  <2>2. /\ requests'[w].kind = "refresh" /\ requests'[w].token = issued
        /\ requests'[w].answer = issued'
        /\ requests'[w].step = "answered"
        /\ \A v \in Slots \ {w} : requests'[v] = requests[v]
    BY <1>4, <2>1, SessionFacts
  <2>3. issued' \notin stale
    BY <2>1, SessionFacts
  <2>4. Renewing(requests[w])'
    BY <1>3, <1>4, <2>2, <2>3 DEF Renewing
  <2>5. NewestHolds'
    <3>1. /\ DOMAIN tokens' = DOMAIN tokens \cup {issued + 1}
          /\ tokens'[issued + 1].family = session /\ tokens'[issued + 1].revoked = FALSE
      BY <1>5, <2>1 DEF Server!Exchange, Server!Issue, Server!Revoke
    <3>2. \A t \in 1 .. issued : tokens'[t].family = session
      <4>1. ASSUME NEW t \in 1 .. issued PROVE tokens'[t].family = session
        <5>1. t \in DOMAIN tokens /\ tokens[t].family = session /\ t # issued + 1
          BY <1>5 DEF InSession, NewestHolds
        <5>2. tokens[t] = [family |-> tokens[t].family, revoked |-> tokens[t].revoked,
                           from |-> tokens[t].from]
          BY <5>1, ServerTypes DEF SessionInv, Server!TypeOK, Server!TokenRow
        <5>. QED  BY <2>1, <5>1, <5>2 DEF Server!Exchange, Server!Issue, Server!Revoke
      <4>. QED  BY <4>1
    <3>3. 1 .. issued + 1 = 1 .. issued \cup {issued + 1}
      BY <1>5
    <3>4. issued' # 0 /\ DOMAIN tokens' = 1 .. issued'
      <4>1. DOMAIN tokens = 1 .. issued
        BY DEF InSession, NewestHolds
      <4>2. issued' = issued + 1
        BY <2>1
      <4>. QED  BY <1>5, <3>1, <3>3, <4>1, <4>2
    <3>5. \A t \in 1 .. issued' : tokens'[t].family = session'
      BY <1>3, <2>1, <3>1, <3>2, <3>3
    <3>. QED  BY <2>1, <3>1, <3>4, <3>5 DEF NewestHolds
  <2>. QED  BY <1>6, <2>2, <2>4, <2>5
<1>. QED  BY <1>4, <1>7, <1>8

(* The ninety days of a token pass. *)
LEMMA ExpiredDuring ==
  ASSUME SessionInv, InSession, Server!Expire, UNCHANGED clientVars
  PROVE  InSession'
<1>1. /\ UNCHANGED <<store, stale, calls, exchanges, signIn, session>>
      /\ UNCHANGED <<tokens, issued, requests>> /\ expired # issued
  BY SessionFacts DEF clientVars, Server!Expire
<1>2. \A tab \in Tabs : RefreshOK(tab)'
  BY <1>1 DEF InSession, RefreshOK, InFlight, Renewing
<1>3. \A c \in Calls : CallOK(c)'
  BY <1>1 DEF InSession, CallOK, InFlight
<1>. QED  BY <1>1, <1>2, <1>3 DEF InSession, NewestHolds, Renewed

(* The hour of an access token passes while nothing waits. *)
LEMMA StaleDuring ==
  ASSUME SessionInv, InSession, AccessExpires
  PROVE  InSession'
<1>1. /\ UNCHANGED <<serverVars, store, calls, exchanges, signIn, session>>
      /\ stale' = stale \cup {store} /\ store # None
      /\ \A c \in Calls : calls[c] # NoCall => calls[c] = [step |-> "sent", pair |-> store]
  BY DEF AccessExpires
<1>2. \A c \in Calls : calls[c].step \in {"idle", "sent"}
                       /\ (calls[c].step = "sent" => calls[c].pair = store)
  BY <1>1 DEF NoCall
<1>3. \A tab \in Tabs : ~InFlight(tab)
  BY <1>2 DEF InSession, RefreshOK
<1>4. \A c \in Calls : CallOK(c)'
  BY <1>1, <1>2 DEF CallOK
<1>5. \A tab \in Tabs : RefreshOK(tab)'
  BY <1>1, <1>3 DEF RefreshOK, InFlight
<1>. QED  BY <1>1, <1>4, <1>5 DEF InSession, NewestHolds, Renewed, serverVars

(* Nothing is left over in a session for Discard. *)
LEMMA NothingDiscarded ==
  ASSUME InSession, NEW w \in Slots
  PROVE  ~Discard(w)
BY DEF InSession, Discard, Unawaited, Server!Receive

(* Before the session no refresh, no answer and no token is there to act on. *)
LEMMA IdleBefore ==
  ASSUME NEW slot, NothingYet(slot)
  PROVE  /\ \A tab \in Tabs : ~StartExchange(tab) /\ ~FinishExchange(tab)
         /\ \A w \in Slots \ {slot} : ~Server!Serve(w) /\ requests[w].step # "answered"
         /\ ~AccessExpires
BY DEF NothingYet, InFlight, StartExchange, FinishExchange, AccessExpires, Server!Serve,
       Server!IssueSession, Server!ReadToken, Server!Rotate, Server!RevokeFamily

(* The login under way is served, or its token outlives its ninety days.   *)
LEMMA ServedBefore ==
  ASSUME SessionInv, signIn \in Slots, NothingYet(signIn),
         LoginUnderWay(requests[signIn]), UNCHANGED clientVars,
         Server!Serve(signIn) \/ Server!Expire
  PROVE  NothingYet(signIn)' /\ LoginUnderWay(requests[signIn])'
<1>1. UNCHANGED <<store, stale, calls, exchanges, signIn, session>>
  BY DEF clientVars
<1>2. CASE Server!Expire
  BY <1>1, <1>2 DEF Server!Expire, NothingYet, LoginUnderWay, InFlight
<1>3. CASE Server!Serve(signIn)
  <2>1. Server!IssueSession(signIn) /\ requests[signIn].step = "sent" /\ issued = 0
    BY <1>3 DEF LoginUnderWay, Server!Serve, Server!IssueSession, Server!ReadToken,
                Server!Rotate, Server!RevokeFamily
  <2>2. DOMAIN tokens = {}
    <3>1. DOMAIN tokens \subseteq 1 .. issued
      BY ServerTypes DEF SessionInv, Server!TypeOK
    <3>2. 1 .. issued = {}
      BY <2>1
    <3>. QED  BY <3>1, <3>2
  <2>3. /\ issued' = 1 /\ DOMAIN tokens' = {1}
        /\ tokens'[1].family = 1 /\ tokens'[1].revoked = FALSE
    BY <2>1, <2>2 DEF Server!IssueSession, Server!Issue, Server!Without
  <2>4. /\ requests'[signIn].step = "answered" /\ requests'[signIn].answer = 1
        /\ requests'[signIn].kind = "login"
        /\ \A v \in Slots \ {signIn} : requests'[v] = requests[v]
    BY <2>1, SessionFacts DEF Server!IssueSession, Server!Answer
  <2>. QED  BY <1>1, <2>3, <2>4 DEF NothingYet, LoginUnderWay, InFlight
<1>. QED  BY <1>2, <1>3

(* The login arrives, and the session begins with the token it brings.     *)
LEMMA SessionBegins ==
  ASSUME SessionInv, NothingYet(signIn), LoginUnderWay(requests[signIn]), SignedIn
  PROVE  InSession' /\ session' # None /\ signIn' = None
<1>1. /\ signIn \in Slots /\ requests[signIn].step = "answered"
      /\ requests[signIn].answer = 1
      /\ issued = 1 /\ DOMAIN tokens = {1}
      /\ tokens[1].family = 1 /\ tokens[1].revoked = FALSE
  BY DEF SignedIn, LoginUnderWay, SessionInv, Inv, ClientInv, SignInOK
<1>2. /\ store' = 1 /\ session' = 1 /\ signIn' = None
      /\ UNCHANGED <<stale, calls, exchanges, tokens, issued, expired>>
      /\ \A w \in Slots : requests'[w].step = "idle"
  BY <1>1, SessionFacts DEF SignedIn, Server!Receive, Server!Idle, NothingYet
<1>3. NewestHolds'
  BY <1>1, <1>2 DEF NewestHolds
<1>4. 1 # None /\ 1 \notin stale
  BY SessionFacts DEF NothingYet
<1>5. \A c \in Calls : CallOK(c)'
  <2>1. ASSUME NEW c \in Calls PROVE CallOK(c)'
    <3>1. calls'[c].step \in {"idle", "sent"}
      BY <1>2 DEF NothingYet, NoCall
    <3>2. stale' = {}
      BY <1>2 DEF NothingYet
    <3>. QED  BY <3>1, <3>2 DEF CallOK
  <2>. QED  BY <2>1
<1>6. \A tab \in Tabs : RefreshOK(tab)' /\ exchanges'[tab].step = "none"
  BY <1>2 DEF NothingYet, RefreshOK, InFlight
<1>. QED  BY <1>1, <1>2, <1>3, <1>4, <1>5, <1>6 DEF InSession

(* A login is sent. *)
LEMMA LoginSent ==
  ASSUME SessionInv, NothingYet(None), issued = 0, SignIn
  PROVE  /\ NothingYet(signIn)' /\ LoginUnderWay(requests[signIn])'
         /\ session' = None
<1>1. PICK w \in Slots : Server!Send(w, "login", None) /\ signIn' = w
  BY DEF SignIn
<1>2. UNCHANGED <<store, stale, calls, exchanges, session, issued>>
  BY <1>1 DEF SignIn, Server!Send
<1>3. /\ requests'[w].kind = "login" /\ requests'[w].step = "sent"
      /\ \A v \in Slots \ {w} : requests'[v] = requests[v]
  BY <1>1, SessionFacts DEF Server!Send, Server!Idle
<1>. QED  BY <1>1, <1>2, <1>3, SessionFacts DEF NothingYet, LoginUnderWay, InFlight

-----------------------------------------------------------------------------
(* The device is in order at first, and each step keeps it so.             *)
LEMMA InitSession == Init => FirstSession
BY DEF Init, FirstSession, NothingYet, InFlight, NoExchange, Server!Init, Server!Idle

(* One step at a time. *)
LEMMA NextSession == SessionInv /\ OneTab /\ [Next]_vars => FirstSession'
<1>. SUFFICES ASSUME SessionInv, OneTab, [Next]_vars PROVE FirstSession'
  OBVIOUS
<1>0. FirstSession /\ logins \in Nat /\ losses \in Nat
  BY SessionFacts DEF SessionInv
<1>1. ASSUME NEW c \in Calls,
             \/ SendCall(c) \/ CallAnswered(c) \/ SendRetry(c)
             \/ RetryAnswered(c) \/ CallFails(c)
      PROVE  FirstSession'
  <2>1. UNCHANGED <<serverVars, stale, signIn, session, logins, losses>>
    BY <1>1 DEF SendCall, CallAnswered, SendRetry, RetryAnswered, CallFails
  <2>2. ASSUME NEW slot, NothingYet(slot) PROVE NothingYet(slot)'
    <3>1. /\ store' = None /\ UNCHANGED exchanges
          /\ \A d \in Calls : calls'[d] \in {NoCall, [step |-> "sent", pair |-> None]}
      BY <1>1, <2>2, CallBefore
    <3>. QED  BY <2>1, <2>2, <3>1 DEF NothingYet, InFlight, serverVars
  <2>3. InSession => InSession'
    BY <1>1, CallDuring, WaitDuring
  <2>4. NothingYet(signIn) => NothingYet(signIn)'
    BY <2>1, <2>2 DEF NothingYet
  <2>. QED  BY <1>0, <2>1, <2>2, <2>3, <2>4, PhasesKept
            DEF FirstSession, LoginUnderWay, serverVars
<1>2. ASSUME NEW tab \in Tabs, StartExchange(tab) \/ FinishExchange(tab)
      PROVE  FirstSession'
  <2>1. UNCHANGED <<signIn, session, logins, losses>>
    BY <1>2 DEF StartExchange, FinishExchange
  <2>2. ~NothingYet(None) /\ ~NothingYet(signIn)
    BY <1>2, IdleBefore
  <2>3. InSession => InSession'
    BY <1>2, StartDuring, FinishDuring
  <2>. QED  BY <1>0, <2>1, <2>2, <2>3, PhasesKept DEF FirstSession
<1>3. ASSUME NEW tab \in Tabs, LoseExchange(tab) PROVE FirstSession'
  BY <1>0, <1>3 DEF LoseExchange, FirstSession, Quiet
<1>4. ASSUME SignIn PROVE FirstSession'
  <2>1. SUFFICES ASSUME Quiet' PROVE FirstSession'
    BY DEF FirstSession
  <2>2. logins = 0 /\ losses = 0 /\ logins' = 1
    BY <1>0, <1>4, <2>1 DEF SignIn, Quiet
  <2>3. NothingYet(None) /\ issued = 0
    BY <1>0, <2>2 DEF FirstSession, Quiet
  <2>. QED  BY <1>4, <2>2, <2>3, LoginSent DEF FirstSession
<1>5. ASSUME SignedIn PROVE FirstSession'
  <2>1. SUFFICES ASSUME Quiet' PROVE FirstSession'
    BY DEF FirstSession
  <2>2. UNCHANGED <<logins, losses>> /\ signIn # None
    BY <1>5 DEF SignedIn
  <2>3. NothingYet(signIn) /\ LoginUnderWay(requests[signIn]) /\ logins # 0
    BY <1>0, <2>1, <2>2 DEF FirstSession, Quiet
  <2>. QED  BY <1>5, <2>2, <2>3, SessionBegins DEF FirstSession
<1>6. ASSUME SignOut PROVE FirstSession'
  <2>1. SUFFICES ASSUME Quiet' PROVE FirstSession'
    BY DEF FirstSession
  <2>2. UNCHANGED <<logins, losses, signIn>> /\ session # None /\ session' = None
    BY <1>6 DEF SignOut
  <2>3. signIn = None /\ logins # 0
    BY <1>0, <2>1, <2>2 DEF FirstSession, Quiet, InSession
  <2>. QED  BY <2>2, <2>3 DEF FirstSession
<1>7. ASSUME NEW w \in Slots, Discard(w) PROVE FirstSession'
  <2>1. UNCHANGED <<signIn, session, logins, losses>>
    BY <1>7 DEF Discard, clientVars
  <2>2. ~NothingYet(None) /\ ~NothingYet(signIn) /\ ~InSession
    BY <1>7, IdleBefore, NothingDiscarded, SessionFacts DEF Discard, Unawaited, Server!Receive
  <2>. QED  BY <1>0, <2>1, <2>2, PhasesKept DEF FirstSession
<1>8. ASSUME AccessExpires PROVE FirstSession'
  <2>1. UNCHANGED <<signIn, session, logins, losses>>
    BY <1>8 DEF AccessExpires
  <2>2. ~NothingYet(None) /\ ~NothingYet(signIn)
    BY <1>8, IdleBefore
  <2>3. InSession => InSession'
    BY <1>8, StaleDuring
  <2>. QED  BY <1>0, <2>1, <2>2, <2>3, PhasesKept DEF FirstSession
<1>9. ASSUME ServerStep PROVE FirstSession'
  <2>1. UNCHANGED clientVars /\ UNCHANGED <<signIn, session, logins, losses>>
    BY <1>9 DEF ServerStep, clientVars
  <2>2. ~(NothingYet(None) /\ issued = 0)
    BY <1>9, IdleBefore, SessionFacts DEF ServerStep, Server!Expire
  <2>3. InSession => InSession'
    BY <1>9, <2>1, ServedDuring, ExpiredDuring DEF ServerStep
  <2>4. signIn # None /\ NothingYet(signIn) /\ LoginUnderWay(requests[signIn]) =>
          NothingYet(signIn)' /\ LoginUnderWay(requests[signIn])'
    <3>1. signIn # None => signIn \in Slots
      BY DEF SessionInv, Inv, ClientInv, SignInOK
    <3>. QED  BY <1>9, <2>1, <3>1, IdleBefore, ServedBefore DEF ServerStep
  <2>. QED  BY <1>0, <2>1, <2>2, <2>3, <2>4, PhasesKept DEF FirstSession
<1>10. ASSUME UNCHANGED vars PROVE FirstSession'
  BY <1>0, <1>10
  DEF vars, clientVars, serverVars, FirstSession, Quiet, NothingYet, LoginUnderWay,
      InSession, NewestHolds, Renewed, RefreshOK, Renewing, CallOK, InFlight
<1>. QED
  BY <1>1, <1>2, <1>3, <1>4, <1>5, <1>6, <1>7, <1>8, <1>9, <1>10 DEF Next

(* What the first session of a device with one tab keeps to.               *)
LEMMA FirstSessionIsKept ==
  ASSUME OneTab
  PROVE  Spec => [](SignedInStays /\ (logins <= 1 => OwnTokenNeverReplayed))
<1>1. SessionInv => SignedInStays /\ (logins <= 1 => OwnTokenNeverReplayed)
  <2>. SUFFICES ASSUME SessionInv, Quiet, session # None
                PROVE  /\ Redeemable(session) # {} =>
                            /\ store \in Server!FamilyOf(tokens, session)
                            /\ (\A tab \in Tabs : ~InFlight(tab)) => ~tokens[store].revoked
                       /\ \A w \in Slots : requests[w].step # "revoking"
    BY DEF SignedInStays, OwnTokenNeverReplayed, Quiet
  <2>1. InSession
    BY DEF SessionInv, FirstSession
  <2>2. ASSUME Redeemable(session) # {} PROVE expired # issued
    <3>1. PICK t \in DOMAIN tokens : t > expired
      BY <2>2 DEF Redeemable, Server!FamilyOf
    <3>. QED  BY <2>1, <3>1, SessionFacts DEF InSession, NewestHolds
  <2>3. expired # issued => store \in Server!FamilyOf(tokens, session)
    BY <2>1, SessionFacts DEF InSession, NewestHolds, Server!FamilyOf
  <2>4. expired # issued /\ (\A tab \in Tabs : ~InFlight(tab)) => tokens[store].revoked = FALSE
    BY <2>1 DEF InSession, NewestHolds, Renewed, InFlight
  <2>5. \A w \in Slots : requests[w].step # "revoking"
    BY <2>1 DEF InSession, RefreshOK, Renewing
  <2>. QED  BY <2>2, <2>3, <2>4, <2>5
<1>2. Init => SessionInv
  BY InitInv, InitTypes, InitSession DEF SessionInv
<1>3. SessionInv /\ [Next]_vars => SessionInv'
  BY NextInv, NextTypes, NextSession DEF SessionInv
<1>. QED  BY <1>1, <1>2, <1>3, PTL DEF Spec

(* From the first sign-in of a device with one tab until the sign-out, and *)
(* as long as no response is lost, every pair in the store is one of the   *)
(* session's and the newest one between refreshes (client.ts:              *)
(* refreshInFlight, auth.ts: startSession).  Not after a second sign-in:   *)
(* a refresh of the first session that ends later replaces its pair.       *)
THEOREM FirstSessionHolds ==
  ASSUME OneTab
  PROVE  Spec => []SignedInStays
<1>. QED  BY FirstSessionIsKept, PTL

(* Until a second sign-in, the device never presents a token twice, so     *)
(* that the server has no reason to revoke its family (client.ts:          *)
(* exchangeRefreshToken).  Two tabs may.                                   *)
THEOREM FirstTokensUsedOnce ==
  ASSUME OneTab
  PROVE  Spec => [](logins <= 1 => OwnTokenNeverReplayed)
<1>. QED  BY FirstSessionIsKept, PTL
=============================================================================

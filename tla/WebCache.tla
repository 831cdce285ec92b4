------------------------------ MODULE WebCache ------------------------------
(***************************************************************************)
(* The query cache of the web client: which page reads which query, which  *)
(* call changes and which call invalidates it, and the fetch that a call's *)
(* success may find in flight. Cache entries never touch each other, so    *)
(* the state holds the entry of one query, chosen in Init and watched.     *)
(***************************************************************************)
EXTENDS FiniteSets, Naturals

CONSTANTS
    Users,        \* who signs in at this browser
    None,
    Slots,        \* calls in flight at once
    MaxCalls,     \* bound on the calls of a behaviour
    Followed      \* the queries to follow, one per behaviour

ASSUME CacheAssumption ==
    /\ None \notin Users \cup [tells : BOOLEAN, changes : BOOLEAN]
    /\ MaxCalls \in Nat

VARIABLES
    page,     \* the route on screen
    user,     \* AuthContext's user
    holder,   \* whose tokens the browser keeps
    signing,  \* whose /me a sign-in has asked for and not heard
    watched,  \* the query this behaviour follows
    entry,    \* its cache entry
    fetch,    \* the fetch of it that is in flight
    flight,   \* calls the server has carried out and this tab has no answer to
    excuse,   \* why the entry may be old and not know it
    calls,    \* calls made so far
    over      \* somebody has signed in over another user since the last sign-out

cacheVars ==
    <<page, user, holder, signing, watched, entry, fetch, flight, excuse, calls, over>>

-----------------------------------------------------------------------------
\* The queries each page reads.
BudgetQueries == {"budget", "scopes"}
AccountsQueries == {"accounts", "connections", "scopes", "syncStatus"}
AccountQueries == {"accounts", "accountTransactions", "categoryGroups", "budget"}
CategoriesQueries == {"categoryGroups", "scopes"}
TransactionsQueries == {"transactions", "accounts", "categoryGroups", "budget"}
BannerQueries == {"suggestions", "payeeSuggestions"}
IslandQueries == {"unassigned"}
InsightsQueries == {"insights", "scopes"}
SettingsQueries == {"scopes", "payees", "rules", "categoryGroups"}

QueriesOn ==
    [budget |-> BudgetQueries \cup IslandQueries,
     accounts |-> AccountsQueries,
     account |-> AccountQueries,
     callback |-> {},
     categories |-> CategoriesQueries,
     transactions |-> TransactionsQueries \cup BannerQueries \cup IslandQueries,
     insights |-> InsightsQueries,
     settings |-> SettingsQueries,
     login |-> {}]

Pages == DOMAIN QueriesOn
Queries == UNION {QueriesOn[p] : p \in Pages}

-----------------------------------------------------------------------------
\* What a server handler changes, by the queries that read it, and what the
\* page invalidates when the call succeeds. The key ["transactions"] is a
\* prefix of three queries' keys.
TransactionKeys == {"transactions", "accountTransactions", "unassigned"}
RowChange ==
    TransactionKeys \cup {"accounts", "budget", "insights", "payees",
                          "suggestions", "payeeSuggestions"}
CategoryChange == TransactionKeys \cup {"budget", "insights"}
PeerChange == CategoryChange \cup {"suggestions", "payeeSuggestions"}

Call(changes, tells) == [changes |-> changes, tells |-> tells]

AfterLink == TransactionKeys \cup {"accounts", "budget"}

\* MUTANT of UpdateCall: the accounts' balances are forgotten.
UpdateForgettingBalances == Call(RowChange, TransactionKeys \cup {"budget"})

ImportCall == Call(RowChange, TransactionKeys \cup {"accounts"})
UpdateCall == Call(RowChange, TransactionKeys \cup {"accounts", "budget"})
CreateCall == Call(RowChange, AfterLink)
DeleteCall == Call(RowChange, AfterLink)
ClearedCall == Call({"transactions", "accountTransactions"}, AfterLink)
BulkDeleteCall == Call(RowChange, AfterLink)
BulkCategoryCall == Call(CategoryChange, AfterLink)
UnlinkCall == Call(PeerChange, AfterLink \cup {"suggestions"})
LinkCall == Call(PeerChange, AfterLink \cup {"suggestions"})
CreateLegCall == Call(RowChange, AfterLink \cup {"suggestions"})
BannerCall == Call(PeerChange, AfterLink \cup {"suggestions", "payeeSuggestions"})
PayeeMatchCall == Call(RowChange, AfterLink \cup {"suggestions", "payeeSuggestions"})

AccountChangeCall == Call(RowChange, AfterLink)
BalanceCall == Call(RowChange, {"accounts", "accountTransactions", "budget"})
InlineCategoryCall == Call(CategoryChange, AfterLink)
AccountUnlinkCall == Call(PeerChange, AfterLink \cup {"suggestions"})

CreateAccountCall == Call({"accounts"}, {"accounts"})
UpdateAccountCall ==
    Call({"accounts", "budget", "insights", "payeeSuggestions"}, {"accounts", "budget"})
UnlinkBankCall ==
    Call(RowChange \cup {"connections"},
         TransactionKeys \cup {"accounts", "budget", "connections"})
DeleteAccountCall == Call({"accounts", "payeeSuggestions"}, {"accounts", "budget"})
SyncCall ==
    Call(RowChange \cup {"connections", "syncStatus"},
         TransactionKeys \cup {"accounts", "budget", "connections", "syncStatus"})
CallbackCall ==
    Call(RowChange \cup {"connections", "syncStatus"},
         TransactionKeys \cup {"accounts", "budget", "connections", "syncStatus"})

AssignCall == Call({"budget"}, {"budget"})
FundGoalsCall == Call({"budget"}, {"budget"})
MoveMoneyCall == Call({"budget"}, {"budget"})

GroupCall == Call({"categoryGroups", "budget", "insights"}, {"categoryGroups", "budget"})
CategoryCall == Call({"categoryGroups", "budget", "insights"}, {"categoryGroups", "budget"})
EditCategoryCall == Call({"categoryGroups", "budget", "insights"}, {"categoryGroups", "budget"})
EditGroupCall == Call({"categoryGroups", "budget", "insights"}, {"categoryGroups", "budget"})
DeleteGroupCall ==
    Call({"categoryGroups", "rules"} \cup CategoryChange, {"categoryGroups", "budget"})
DeleteCategoryCall ==
    Call({"categoryGroups", "rules"} \cup CategoryChange,
         TransactionKeys \cup {"categoryGroups", "budget"})
\* The page has put the new order into the cached list itself (CategoryOrder).
OrderCall == Call({"budget"}, {})
ImportCategoriesCall == Call({"categoryGroups", "budget"}, {"categoryGroups", "budget"})

ResetKeys ==
    TransactionKeys \cup {"accounts", "budget", "insights", "connections", "syncStatus"}
ResetCall == Call(RowChange \cup {"connections"}, ResetKeys)
ScopeCall ==
    Call({"scopes"}, {"scopes", "accounts", "categoryGroups", "budget", "insights"})
PayeeCall ==
    Call({"payees", "suggestions", "payeeSuggestions", "insights"} \cup
             {"transactions", "accountTransactions"},
         {"payees"} \cup TransactionKeys)
CreateRuleCall == Call({"rules"}, {"rules"})
DeleteRuleCall == Call({"rules"}, {"rules"})

CallsOn ==
    [budget |-> [assign |-> AssignCall, fund |-> FundGoalsCall, move |-> MoveMoneyCall],
     accounts |-> [create |-> CreateAccountCall, update |-> UpdateAccountCall,
                   unlinkBank |-> UnlinkBankCall, delete |-> DeleteAccountCall,
                   sync |-> SyncCall],
     account |-> [change |-> AccountChangeCall, setBalance |-> BalanceCall,
                  category |-> InlineCategoryCall, unlink |-> AccountUnlinkCall],
     callback |-> [link |-> CallbackCall],
     categories |-> [group |-> GroupCall, category |-> CategoryCall,
                     editCategory |-> EditCategoryCall, editGroup |-> EditGroupCall,
                     deleteGroup |-> DeleteGroupCall, deleteCategory |-> DeleteCategoryCall,
                     order |-> OrderCall, importCategories |-> ImportCategoriesCall],
     transactions |-> [importYnab |-> ImportCall, update |-> UpdateCall,
                       create |-> CreateCall, delete |-> DeleteCall, clear |-> ClearedCall,
                       bulkDelete |-> BulkDeleteCall, bulkCategory |-> BulkCategoryCall,
                       unlink |-> UnlinkCall, link |-> LinkCall, createLeg |-> CreateLegCall,
                       linkSuggested |-> BannerCall, payeeMatch |-> PayeeMatchCall],
     insights |-> <<>>,
     settings |-> [reset |-> ResetCall, scope |-> ScopeCall, payee |-> PayeeCall,
                   createRule |-> CreateRuleCall, deleteRule |-> DeleteRuleCall],
     login |-> <<>>]

CallNames == UNION {DOMAIN CallsOn[p] : p \in Pages}

-----------------------------------------------------------------------------
\* What is cached, or in an answer, is "current" while it is what the store
\* holds of the user it was fetched for.
Empty == [data |-> "none", of |-> None, stale |-> FALSE]
NoFetch == [stage |-> "idle", of |-> None, answer |-> "old", retried |-> FALSE]

WebInit ==
    /\ page = "login" /\ user = None
    /\ holder = None /\ signing = None
    /\ watched \in Followed \cap Queries
    /\ entry = Empty /\ fetch = NoFetch
    /\ flight = [s \in Slots |-> None]
    /\ excuse = {} /\ calls = 0 /\ over = FALSE

\* A signed-in page that reads the watched query is on screen.
MountedOn(p, u) == u # None /\ watched \in QueriesOn[p]
Mounted == MountedOn(page, user)

\* A request carries the stored token.
Asked == [NoFetch EXCEPT !.stage = "asked", !.of = holder]

\* Mounting: fetch what is missing, invalidated or older than staleTime,
\* unless a fetch of it is already under way.
WantsFetch == entry.data = "none" \/ entry.stale

\* The route becomes p with u signed in; only another page mounts anything.
Route(p, u) ==
    /\ page' = p
    /\ fetch' = IF p # page /\ MountedOn(p, u) /\ WantsFetch /\ fetch.stage = "idle"
                THEN Asked ELSE fetch

Navigate(p) ==
    /\ user # None /\ p \notin {page, "login"}
    /\ Route(p, user)
    /\ UNCHANGED <<user, holder, signing, watched, entry, flight, excuse, calls, over>>

\* The router's history, or a link on a public page, leads back to the sign-in
\* page, which does not look whether somebody is signed in.
OpenLogin ==
    /\ user # None /\ page # "login"
    /\ Route("login", user)
    /\ UNCHANGED <<user, holder, signing, watched, entry, flight, excuse, calls, over>>

\* MUTANT of ClearSession: the entries go, the fetches in flight stay.
ClearEntriesOnly ==
    /\ user # None
    /\ user' = None /\ page' = "login" /\ holder' = None
    /\ entry' = Empty /\ excuse' = {} /\ over' = FALSE
    /\ UNCHANGED <<signing, watched, flight, calls, fetch>>

\* MUTANT of Forget: the page that was on screen stays there.
ForgetInPlace ==
    /\ user' = None /\ holder' = None
    /\ entry' = Empty /\ fetch' = NoFetch /\ excuse' = {}
    /\ over' = FALSE
    /\ UNCHANGED page

\* clearSessionState: queryClient.clear drops the entries and silently cancels
\* their fetches. Without a user the router leads to the sign-in page.
Forget ==
    /\ user' = None /\ page' = "login" /\ holder' = None
    /\ entry' = Empty /\ fetch' = NoFetch /\ excuse' = {}
    /\ over' = FALSE

\* On logout, and when the client reports an expired session.
ClearSession ==
    /\ user # None
    /\ Forget
    /\ UNCHANGED <<signing, watched, flight, calls>>

-----------------------------------------------------------------------------
\* The store of u changes: what is cached of it, or on its way here, is now
\* old; without word of it the client has an excuse.
Cached == entry.data # "none" \/ fetch.stage # "idle"

Excused(why) == excuse' = IF Cached THEN excuse \cup {why} ELSE excuse

Outdate(u) ==
    /\ entry' = IF entry.data = "current" /\ entry.of = u
                THEN [entry EXCEPT !.data = "old"] ELSE entry
    /\ fetch' = IF fetch.stage = "answered" /\ fetch.of = u
                THEN [fetch EXCEPT !.answer = "old"] ELSE fetch

\* login has stored u's tokens and loadMe asks for /me; the page may be left
\* meanwhile. A refused password changes nothing.
SignIn(u) ==
    /\ page = "login" /\ signing = None
    /\ signing' = u /\ holder' = u
    /\ over' = (over \/ ~({user, holder} \subseteq {None, u}))
    /\ UNCHANGED <<page, user, watched, entry, fetch, flight, excuse, calls>>

\* Something cached, or on its way, was fetched for somebody else than u.
Foreign(u) ==
    \/ entry.data # "none" /\ entry.of # u
    \/ fetch.stage # "idle" /\ fetch.of # u

\* /me has answered: the user is set and the budget page opened. The cache
\* stays as it is; what it holds of another user is wrong for this one.
UserLoaded ==
    /\ signing # None
    /\ user' = signing /\ signing' = None
    /\ Route("budget", signing)
    /\ IF user \in {None, signing} /\ ~Foreign(signing) THEN UNCHANGED excuse
       ELSE Excused("switched")
    /\ UNCHANGED <<holder, watched, entry, flight, calls, over>>

\* /me has failed: nobody is signed in any more. Only a rejected session takes
\* its tokens and the cache with it.
UserNotLoaded ==
    /\ signing # None /\ signing' = None
    /\ \/ /\ user' = None /\ page' = "login"
          /\ UNCHANGED <<holder, entry, fetch, excuse, over>>
       \/ holder # None /\ Forget
    /\ UNCHANGED <<watched, flight, calls>>

\* The page makes call m and the server carries it out; the answer is on its
\* way in slot s. Calls that do not concern the watched query are left out.
Commit(s, m) ==
    /\ user # None /\ holder # None
    /\ flight[s] = None /\ calls < MaxCalls
    /\ m \in DOMAIN CallsOn[page]
    /\ LET call == CallsOn[page][m] IN
        /\ watched \in call.changes \cup call.tells
        /\ flight' = [flight EXCEPT ![s] = [tells |-> watched \in call.tells,
                                            changes |-> watched \in call.changes]]
        /\ IF watched \in call.changes THEN Outdate(holder) ELSE UNCHANGED <<entry, fetch>>
        /\ IF watched \in call.changes \ call.tells THEN Excused(m) ELSE UNCHANGED excuse
    /\ calls' = calls + 1
    /\ UNCHANGED <<page, user, holder, signing, watched, over>>

\* MUTANT of Invalidate: a fetch in flight is taken for the refetch.
InvalidateJoining ==
    /\ entry' = [entry EXCEPT !.stale = entry.data # "none"]
    /\ fetch' = IF Mounted /\ fetch.stage = "idle" THEN Asked ELSE fetch
    /\ UNCHANGED excuse

\* invalidateQueries: mark the entry stale; if it is mounted and holds data, cancel
\* the fetch in flight and ask again. A first load, or the fetch of a query no
\* longer mounted, is not cancelled, and its answer takes the mark back.
Invalidate ==
    /\ entry' = [entry EXCEPT !.stale = entry.data # "none"]
    /\ fetch' = IF Mounted /\ (entry.data # "none" \/ fetch.stage = "idle")
                THEN Asked ELSE fetch
    /\ excuse' = IF fetch.stage = "idle" \/ (Mounted /\ entry.data # "none")
                 THEN excuse ELSE excuse \cup {"joined"}

Succeed(s) ==
    /\ flight[s] # None
    /\ flight' = [flight EXCEPT ![s] = None]
    /\ IF flight[s].tells THEN Invalidate ELSE UNCHANGED <<entry, fetch, excuse>>
    /\ UNCHANGED <<page, user, holder, signing, watched, calls, over>>

\* The answer never arrives: no page has an onSettled, nothing is invalidated.
Lose(s) ==
    /\ flight[s] # None
    /\ flight' = [flight EXCEPT ![s] = None]
    /\ IF flight[s].changes THEN Excused("lost") ELSE UNCHANGED excuse
    /\ UNCHANGED <<page, user, holder, signing, watched, entry, fetch, calls, over>>

\* Another tab, or the sync scheduler, changes the store of u. Changes of
\* nothing that is held here are left out.
ChangeElsewhere(u) ==
    /\ calls < MaxCalls /\ calls' = calls + 1
    /\ u \in {entry.of, fetch.of}
    /\ Outdate(u)
    /\ Excused("elsewhere")
    /\ UNCHANGED <<page, user, holder, signing, watched, flight, over>>

-----------------------------------------------------------------------------
\* The server answers with the store as it stands; what happened before is in
\* the answer. It answers the user whose token the request carries, if any.
Answer ==
    /\ fetch.stage = "asked" /\ fetch.of # None
    /\ fetch' = [fetch EXCEPT !.stage = "answered", !.answer = "current"]
    /\ excuse' = IF fetch.of = user THEN {} ELSE excuse \cup {"switched"}
    /\ UNCHANGED <<page, user, holder, signing, watched, entry, flight, calls, over>>

Take ==
    /\ fetch.stage = "answered"
    /\ entry' = [data |-> fetch.answer, of |-> fetch.of, stale |-> FALSE]
    /\ fetch' = NoFetch
    /\ UNCHANGED <<page, user, holder, signing, watched, flight, excuse, calls, over>>

\* MUTANT of FetchFails: every failure is retried.
RetryForever ==
    /\ fetch.stage # "idle"
    /\ fetch' = [Asked EXCEPT !.retried = TRUE]
    /\ UNCHANGED <<page, user, holder, signing, watched, entry, flight, excuse, calls, over>>

\* One retry, then the query keeps what it had.
FetchFails ==
    /\ fetch.stage # "idle"
    /\ IF fetch.retried
       THEN fetch' = NoFetch /\ excuse' = excuse \cup {"failed"}
       ELSE fetch' = [Asked EXCEPT !.retried = TRUE] /\ UNCHANGED excuse
    /\ UNCHANGED <<page, user, holder, signing, watched, entry, flight, calls, over>>

\* staleTime has passed since the answer was taken.
Age ==
    /\ entry.data # "none" /\ ~entry.stale
    /\ entry' = [entry EXCEPT !.stale = TRUE]
    /\ UNCHANGED <<page, user, holder, signing, watched, fetch, flight, excuse, calls, over>>

WebNext ==
    \/ \E p \in Pages : Navigate(p)
    \/ OpenLogin
    \/ \E u \in Users : SignIn(u)
    \/ UserLoaded \/ UserNotLoaded
    \/ ClearSession
    \/ \E s \in Slots, m \in CallNames : Commit(s, m)
    \/ \E s \in Slots : Succeed(s) \/ Lose(s)
    \/ \E u \in Users : ChangeElsewhere(u)
    \/ Answer \/ Take \/ FetchFails
    \/ Age

\* Requests end, one way or the other.
WebFairness ==
    /\ WF_cacheVars(Answer \/ Take)
    /\ \A s \in Slots : WF_cacheVars(Succeed(s) \/ Lose(s))

WebSpec == WebInit /\ [][WebNext]_cacheVars /\ WebFairness

-----------------------------------------------------------------------------
\* The ways other than an unannounced call.
Unheard == {"joined", "lost", "elsewhere", "failed", "switched"}

WebTypeOK ==
    /\ page \in Pages /\ {user, holder, signing} \subseteq Users \cup {None}
    /\ watched \in Queries
    /\ entry \in [data : {"none", "current", "old"}, of : Users \cup {None},
                  stale : BOOLEAN]
    /\ fetch \in [stage : {"idle", "asked", "answered"}, of : Users \cup {None},
                  answer : {"current", "old"}, retried : BOOLEAN]
    /\ flight \in [Slots -> {None} \cup [tells : BOOLEAN, changes : BOOLEAN]]
    /\ excuse \subseteq CallNames \cup Unheard
    /\ calls \in 0 .. MaxCalls
    /\ over \in BOOLEAN
    /\ entry.data = "none" <=> entry.of = None
    /\ fetch.stage = "idle" => fetch.of = None
    /\ fetch.stage = "answered" => fetch.of # None
    /\ user = None => page = "login"

\* The entry is not what the store holds of the user who looks at it.
Wrong == entry.data = "old" \/ (entry.data # "none" /\ user # None /\ entry.of # user)

\* Nothing about the watched query is under way.
AtRest == Mounted /\ fetch.stage = "idle" /\ \A s \in Slots : flight[s] = None

\* A page at rest shows what the store holds, whatever calls and fetches
\* overlapped before (staleTime, invalidateQueries and cancelled refetches),
\* unless one of the named ways of not hearing of a write took place.
RestsCurrent == AtRest /\ Wrong => excuse # {}

\* The queries of the entities themselves, as opposed to the ones derived from
\* them (suggestions, insights), and the calls that leave them unannounced.
Announced ==
    [accounts |-> {},
     transactions |-> {"setBalance", "deleteGroup"},
     accountTransactions |-> {"deleteGroup"},
     unassigned |-> {"setBalance", "deleteGroup"},
     budget |-> {"importYnab", "order"},
     categoryGroups |-> {}, scopes |-> {}, connections |-> {}, syncStatus |-> {}]

\* A page at rest shows the user's own successful writes, save the listed
\* ones: onSuccess of every other call invalidates every query it changed.
OwnWritesShown ==
    AtRest /\ Wrong /\ watched \in DOMAIN Announced =>
        excuse \cap Unheard # {}
            \/ excuse \cap Announced[watched] # {}

\* What was fetched for one user is never shown to the next one to sign in,
\* calls and fetches still under way when the first one left included, unless
\* the second signed in over the first (tokens replaced, never ClearSession).
SignOutForgets ==
    Mounted /\ entry.data # "none" /\ entry.of # user => over

\* "Cached responses belong to the account that just left" (AuthContext.tsx): no
\* page shows the signed-in user what was fetched for another one, once the
\* sign-in is over.
NoOtherUsersData ==
    Mounted /\ signing = None /\ entry.data # "none" => entry.of = user

View == INSTANCE CachedView WITH
    watching <- Mounted,
    view <- IF entry.data = "none" THEN "blank" ELSE IF Wrong THEN "old" ELSE "current",
    excused <- excuse # {}

\* The cache keeps the promise of CachedView, its liveness included.
KeepsViewsFresh == View!Spec
=============================================================================

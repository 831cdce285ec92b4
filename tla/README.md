# ZeroBudget in TLA+

A verification project for ZeroBudget, an envelope-budgeting application: a
FastAPI backend (`src/backend/app`) over one SQL database, a web front end
(`src/frontend`) and a client library shared by front ends
(`src/packages/core`). The modules here model the parts whose correctness
depends on sequences of operations, on requests that overlap, on answers that
come late and on what a page shows while the store moves on. TLC checks them on
small instances; TLAPS proves the most important invariants for every value of
the constants.

Contents: [inventory](#the-system), [modules](#the-modules),
[runs](#the-runs), [fairness](#fairness), [proofs](#the-proofs),
[what the checks found](#what-the-checks-found),
[not modelled](#what-is-not-modelled), [plan](#plan).

## The system

All backend handlers are `async` functions that share one event loop. Each
request has its own database session, commits once at its end, and takes no
lock; between the first `SELECT` and the `COMMIT` it awaits, and other requests
run. The only arbiters are the database's unique and foreign-key constraints.

| Component | State | Operations | Interacts with |
|---|---|---|---|
| Transaction ledger (`routers/transactions.py`) | `transactions` with `transfer_peer_id`, split lines, tombstones of deleted bank rows | create, YNAB import, patch, bulk category, transfer, link, unlink, delete, bulk delete | every part below reads or writes it |
| Transfer-match candidates (`services/transfer_candidate_store.py`) | table of unordered pairs | recomputed by a call after each ledger write; deleted by cascade | called from ledger and sync |
| Bank sync (`services/bank_sync.py`) | transactions with `external_transaction_id`, `last_synced_at` | import, revise, opening balance, first sync | run by the scheduler, by hand, and by a new link |
| Sync quota and scheduler (`services/sync_quota.py`, `sync_scheduler.py`) | `sync_runs` | record a run, check quota and cooldown, automatic interval | starts the sync |
| Bank linking (`routers/banking.py`) | auth requests, connections, linked accounts | start, complete, re-authorize, unlink | first sync; deletes accounts with their rows |
| Accounts (`routers/accounts.py`) | accounts and their scope | create, edit, set balance, delete | ledger, scopes |
| Data reset (`services/data_reset.py`) | – | empties ledger and/or assignments | ledger, sync, budget |
| Budget calculation (`services/budget_calc.py`, `routers/budget.py`) | monthly assignments, goals | assign, move money, fund goals; balances and Ready to Assign are derived | reads the ledger |
| Scopes and categories (`routers/scopes.py`, `categories.py`) | scopes, groups, categories | create, move, delete with guards | accounts, ledger |
| Payees and rules (`routers/payees.py`, `payee_rules.py`) | payees, rules | rename, merge, rule, apply | ledger, candidates |
| Refresh tokens (`services/refresh_tokens.py`) | `refresh_tokens`: family, revoked, expiry | login, rotate, logout, prune | API client |
| API client session (`packages/core/src/api/client.ts`, `auth.ts`) | token store, `refreshInFlight` | call, shared refresh, retry, sign-in, sign-out | refresh tokens, over the network |
| Insights (`services/insights_calc.py`) | none of its own | sums over postings of a range | read by the insights page |
| Web query cache and session state (`AuthContext.tsx`, `main.tsx`, every `useQuery` and `onSuccess`) | one cache entry per query, fetches and calls in flight, the signed-in user | fetch, retry, invalidate, navigate, sign in, sign out | between every page and the server |
| Transaction forms (`AddTransactionModal`, `EditTransactionModal`, `SplitLinesEditor`) | the open form, the debounced payee, suggestions | type, pick, split, save, refetch | pickers, ledger |
| Pickers (`CategoryPicker`, `PayeeAutocomplete`) | the open list, the marked row | search, arrow keys, hover, choose | forms |
| Transactions page | filters, loaded rows, selection, the dialog | fetch, filter, select, single and bulk calls | ledger |
| Transfer linking (`TransferSuggestionsBanner`, `LinkTransferModal`) | offered pairs, the sequence of "link all", the dialog | link one, link all, confirm a payee match | candidates, ledger |
| Account page | entry form, balance form, the cell being edited | enter, transfer, set the balance, categorize | ledger |
| Accounts page and bank callback | account list, edit dialog, bank choice, the callback's once-only effect | create, edit, unlink, delete, connect, sync | accounts, linking, quota |
| Budget page | the month shown, row editor, fund and cover dialogs | assign, fund goals, cover | budget calculation |
| Categories page | the ordered tree, drags, dialogs | create, move, order, delete, import | scopes and categories |
| Settings page | reset dialog with countdown, payees, scopes, rules | reset, merge, delete | data reset, payees, scopes |
| YNAB import dialogs (`lib/csv.ts`, two modals) | chosen file, parsed rows, mapping, preview | read, map, send | ledger, categories |
| Insights page | preset, anchor month, figures kept while others load | choose, step, draw | insights |
| Bank HTTP client, application setup, static pages | none of their own | – | – |

What is hard to test here, and what makes each part correct:

* **Ledger.** A transfer is two rows that point at each other; eight handlers,
  the sync and a foreign key each change one or both. Correct: links are always
  mutual, the legs cancel, sit in two accounts and carry no category, whatever
  sequence of operations was run; a split row's lines fit the row they belong to.
* **Candidate table.** A cache maintained by hand after each write. Correct:
  what it stores can still be confirmed, and it misses no matching pair.
* **Sync against user edits.** The bank revises rows the user has linked,
  edited or deleted, and reports deleted rows again. Correct: no row is
  imported twice or revived, and the bank's own amounts are not rewritten.
* **Refresh tokens.** A token works once; overlapping redemptions, logins that
  prune, logouts and expiry interleave at every await. Correct: an ended
  session stays ended, a replay is noticed, other devices go on.
* **Client session.** Several calls hit the same expired access token, responses
  get lost, the user signs out at any moment. Correct: one refresh for all of
  them, no accidental self-revocation, every call ends, signed out is signed out.
* **Quota.** Committed runs are counted before a run that is still going on can
  be seen. Correct: the overshoot is bounded by what overlaps.
* **Query cache.** Each call names by hand which queries it invalidates; fetches,
  retries, page changes and another user's sign-in overlap it. Correct: a page
  that has come to rest shows what the store holds, and signing out forgets.
* **Forms and pickers.** Debounces, suggestions and refetches arrive after the
  user has gone on. Correct: no suggestion replaces what the user picked by hand,
  what was saved is not changed unasked, a category belongs to the account's scope.
* **Pages.** They act on what they last loaded. Correct: the number announced is
  the number deleted, the order dropped is the order stored, a goal is not funded
  beyond what it is for, an entry moves both accounts by what was typed, a reset
  waits as long as promised, imported rows are the rows of the file.
* **Checks made before an await and used after it** in scopes, accounts and
  assignments. They are listed as hazards in `PROJECT.json`.

## The modules

| Module | Models |
|---|---|
| `TransferLedger` | the ledger, its links, candidates, tombstones and the sync's per-transaction work; one committed request per step |
| `TransferLedger_proofs` | in four parts, proved: its invariants; what happens to the bank's rows; split lines; that the stored suggestions are confirmable and complete |
| `MCTransferLedger` | constants of its TLC instances |
| `RefreshTokens` | one user's refresh tokens under overlapping requests; also the abstract server for `ApiSession` |
| `RefreshTokens_proofs` | its invariants and action properties, proved |
| `MCRefreshTokens` | constants of its TLC instances |
| `ApiSession` | one device: tabs, calls, token store, network, composed with `RefreshTokens` by `INSTANCE` |
| `ApiSession_proofs` | that it implements `RefreshTokens`, and what holds of one tab, proved |
| `MCApiSession` | constants of its TLC instances |
| `CachedView` | abstract: what one query's reader sees against what the store holds |
| `WebCache` | the web client's query cache and session, every page and call, refining `CachedView` |
| `WebCache_proofs` | its invariants and the safety of the refinement, proved |
| `MCWebCache` | constants of its TLC instances |
| `SyncQuota` | the daily quota: buttons of several tabs, scheduler, first syncs, restarts |
| `TransactionForm`, `PickerLists` | the forms for adding and editing a transaction; the drop-down lists in them |
| `TransactionsScreen`, `TransferLinking` | the transactions page; the linking of transfers on it |
| `AccountScreen`, `AccountsScreen` | one account's page; the list of accounts with the bank links |
| `BudgetScreen` | the budget page over the server's calculation and two-step writes |
| `CategoriesScreen`, `SettingsScreen` | the pages of those names |
| `ImportDialogs` | CSV reading and the two YNAB import dialogs |
| `InsightsScreen` | the insights page over the server's sums |
| `MCScreens` | composes the twelve screens for TLC |
| `MCTransactionForm` | the forms by themselves, with a history variable for what a comment in the code claims of them |
| `MCScreens_proofs` | that the composition implements each screen, proved |
| `Screens_proofs` | the forms, lists, pickers, linking, account, accounts and settings screens and the sync quota, proved |
| `SumsAndOrder_proofs` | sums over finite sets and sorted lists; the budget, insights and categories screens, proved |
| `ImportDialogs_proofs` | recursion over the places of a line; the reader and the import dialogs, proved |

### TransferLedger

`txns` is a function from the ids in use to rows (account, amount, date, payee,
category, Ready-to-Assign flag, split lines, peer, external id);
`candidates` a set of two-element sets; `tombstones` the deleted external ids;
`accounts` the accounts that exist. Each API handler is one action whose guard
is the conjunction of the handler's checks and whose effect includes its
trailing `sync_candidates_for` call and the foreign keys' cascades:
`CreateTransaction`, `ImportYnabRow`, `UpdateTransaction` (with mirroring onto
the peer), `BulkSetCategory`, `CreateTransfer`, `LinkExisting`, `LinkNewLeg`,
`Unlink`, `DeleteTransactions`, `SetAccountBalance`, `ResetTransactions`,
`UnlinkConnection`. The sync's loop body is `ImportBankTransaction` and
`ReviseBankTransaction` (with `_keep_transfer_peer_consistent`), its first-sync
branch `ImportOpeningBalance`. The order in which a bulk delete visits the kept
peers, which the code takes from an unordered `SELECT`, is chosen freely.

Abstractions: one user (every query filters on `user_id`); no memo, cleared
flag or creation time (no decision reads them); payee names are constants; the
category a rule or the history suggests is any category of the account's scope;
what a fetch returns and which window it has is chosen freely; a YNAB import is
its rows one by one; a request is one step; the scope of an account is a constant
(`accounts.py:139-161`, which changes it, is a hazard of its own).

### RefreshTokens

`tokens` is the table, `issued` the number of tokens ever issued (a token is
its number), `expired` how many of those are past `expires_at` — all have the
same lifetime, so they expire in the order of issue. `requests` gives each of
`Slots` a request under way. A request is sent (`Send`), reads the row of its
token (`ReadToken`: the `SELECT` and the checks after it), and writes what it
decided in a later step (`Rotate`, `RevokeFamily`); a login is one step
(`IssueSession`: its first statement is a write). Then its response leaves
(`Receive`), or it never arrived (`Drop`). This split is where the code awaits.
`Rotate` on a row that a login has deleted meanwhile raises (`Failed`, a 500).
`from` (which token's rotation issued a row) and `ended` (families revoked
while none of their tokens was being rotated) are history variables: no action
reads them.

### ApiSession

`store` is the token store shared by the tabs, `stale` the pairs whose access
token has expired, `calls` the stage of each API call of a page, `exchanges`
each tab's `refreshInFlight`, `signIn` the login under way. A call is sent with
the stored pair, and on a 401 joins or starts its tab's refresh
(`CallAnswered`, `Join`); the refresh re-reads the store (`StartExchange`),
sends, and on its answer updates the store and releases all waiters
(`FinishExchange`, `Settle`), which retry once. `LoseExchange` and `CallFails`
are `fetch` rejecting. `SignOut` clears the store first and may or may not
reach the server. `SignIn` asks for nothing to be signed out: `/login` can be
opened and used over a session. `session` (the family signed in to last),
`logins` and `losses` are history or bounds.

Assumption on time: an access token lives an hour (`config.py`,
`jwt_expire_minutes`), and no call takes that long, so `AccessExpires` happens
only while every call under way has been sent with the stored pair and not been
answered. Without it, a retry may carry an access token that expired a second
time within one call.

### WebCache

Entries of the cache never touch each other, so the state holds the `entry` of
one query, `watched`, chosen in `WebInit` and never changed: what is shown of it
(`data` is `"none"`, `"current"` or `"old"` against the store of the user it was
fetched for), who that user is, and whether it is marked stale. `fetch` is the fetch of it in flight,
`flight` the calls the server has carried out and the tab has no answer to.
`QueriesOn` is the table of `useQuery` calls per page, `CallsOn` the table of
mutations: for each, which queries' answers the server's handler changes
(`changes`, read off the handler) and which keys the page invalidates on success
(`tells`, read off its `onSuccess`). `Commit` is the server's commit, `Succeed`
and `Lose` the answer or its loss; `Navigate`, `OpenLogin`, `SignIn` and
`ClearSession` are the router and `AuthContext`; a sign-in is two steps, the
tokens stored (`SignIn`, `holder` is their owner) and the answer of `/me`
(`UserLoaded`) or its failure (`UserNotLoaded`), which leaves nobody signed in,
and clears the cache only when the session was rejected; `Answer`, `Take`, `FetchFails`
and `Age` are React Query's fetch, its one retry and `staleTime`
(the query client of `main.tsx`). `Invalidate` follows React Query: a mounted query with data
has its fetch cancelled and made again, a first load is joined. One sign-in is
under way at a time, and a refused password, which changes nothing, is no step.

`excuse` is a history variable: the ways in which the client came not to know
that an entry is old – an unannounced call by its name, or `"joined"`, `"lost"`,
`"elsewhere"`, `"failed"`, `"switched"`. No action reads it. Every property of
currency is stated up to it, and `OwnWritesShown` bounds it from the other side:
for the entities' own queries, the only calls that leave it set are the ones in
`Announced`, which is therefore the list of invalidations the pages miss.

### CachedView

One reader, one view (`"blank"`, `"current"`, `"old"`) and one bit that says the
client has an excuse. It promises that the view only changes as a cache may
change it, and that an old view somebody looks at without an excuse is replaced.
`WebCache` implements it with `watching <- Mounted`, `view` from the entry and
`excused <- excuse # {}` (`KeepsViewsFresh == View!Spec`).

### SyncQuota

`used` counts the day's committed runs, `running` the runs going on that began
today or before, `shown` what each tab believes is left, `waiting` who waits for
a run of its own. The button (`PressSync`, `PressRefused`), the scheduler's
`Tick` and a new link's first sync (`LinkRun`) each make a run; `Committed`,
`RunLost` and `Restart` end it, `NewDay` moves the count. A press is checked
against the committed runs and the cooldown (`MayRun`), the scheduler against the
committed runs and its interval, a link against nothing.
`most` (runs that overlapped at once) and `linked` (first syncs, which no quota
governs) are history variables.

### The screens

Each of the twelve modules has the page's `useState`, refs and memoized values
as variables next to the server's rows that the page acts on; each event
handler, effect, timer, answer and failure is an action. What the server does is
an action's effect as the handler in `routers/` has it, atomic except where its
own overlap is the point (`BudgetScreen`: `ServerReads`, `ServerCommits`;
`AccountScreen`: `BalanceRead`, `BalanceAccepted`; `SettingsScreen`:
`ScopeChecked`, `ScopeDeleted`). Other tabs are one action
that changes the rows (`ChangedElsewhere`, `LinkedElsewhere`, ...).

* `TransactionForm`: the form's fields, `touched` and the debounced payee. An
  effect that derives a field is part of every action that changes what it
  depends on (`Show`), as React runs it before the next event. `Suggested` is
  the category the server suggests for account and payee; it may not be of the
  scope the picker offers by the time it arrives.
* `PickerLists`: an open list and the marked index under a list that changes.
* `TransactionsScreen`: `rowState` on the server, `loaded` on the page with the
  peers as they were fetched, the selection, one dialog at a time, calls that act
  on rows as they are by then and close their dialog on success. The selection
  keeps a row that a refetch no longer lists, as the page does.
* `TransferLinking`: the suggestions are any maximal disjoint family of the open
  pairs; `LinkAll` goes through them one request at a time.
* `AccountScreen`: `asked` sums what the user typed, `balances` what the server
  wrote, through sign, direction and the two legs. An adjustment reads the sum in
  one step and commits the difference in another, and `since` counts what was
  booked between the two.
* `AccountsScreen`: account list, edit dialog, bank choice, and the callback
  whose effect runs at most once per code.
* `BudgetScreen`: `Balance`, `Ready`, `Needed` and `FundPlan` are the functions
  of `budget_calc.py`; the page computes what it sends from the month it shows.
  `extra` and `taken` are histories of what the user put on top of goals and took
  away from them (typed negative amounts and moves); no action reads them.
* `CategoriesScreen`: a drag sends one PATCH per moved item, in any order of
  arrival; dialogs act on a tree others change.
* `SettingsScreen`: a clock and a countdown whose timer may fire late; opening the
  dialog draws one frame with the old state (`frame.stale`) before its effects run.
* `ImportDialogs`: `parseCsvLine` character by character, because its property
  is about quoting. The loop's index is the argument of two recursive functions
  (`Quoted`, `Fields`): what is read from that place of the line on. `KeptRows`
  leaves out what `parseYnabCsv` and `parseYnabTransactionCsv` leave out; payees
  and memos are not cut at their lengths. Readers of two files end in any order.
  Group names are taken as unique: of two groups of a name the code looks at the
  first (`resolveCategoryId`) or the last (`buildPreview`).
* `InsightsScreen`: ranges over the year's end, figures of the last range while
  the next is loading; the server's rows with refunds, income, unassigned money and
  legs between accounts of one pool. A categorized row counts for the scope of its
  category's group, whatever its account.

## The runs

| Run | Bounds | Result |
|---|---|---|
| `ledger_links` | 3 rows, 3 accounts in 2 scopes, 1 category, amounts -1..1, no bank | five properties of links and categories hold |
| `ledger_sync` | 3 rows, 2 accounts at 2 banks, 2 external ids (one an opening balance), dates 0 and 3 | import, tombstone and candidate properties hold |
| `ledger_missed_candidate` | 3 accounts, 1 linked | violated, see below |
| `ledger_split_leg` | 3 rows, 3 accounts, splits | violated, see below |
| `tokens_families` | 4 tokens, 3 overlapping requests | five properties hold |
| `tokens_once` | the same | violated, see below |
| `session_one_tab` | 1 tab, 2 calls, 2 requests at the server, 3 tokens, two sign-ins or one with a lost response | five properties hold, liveness and refinement among them |
| `session_sign_out` | the same with one sign-in and no loss | violated, see below |
| `web_cache` | 2 users, all pages, all calls, 7 queries one at a time, 1 call | five properties hold, the refinement with its liveness among them |
| `login_reopened` | 2 users, 2 calls, 1 in flight at once | violated, see below |
| `web_screens` | twelve screens, each by itself, 1 to 3 calls each | fourteen properties hold |
| `form_refetch` | the edit form, a row with three contents, 2 categories, 3 inputs | violated, see below |

Why these bounds are enough for what they are asked:

* A property of links speaks of two rows and one more that can disturb them, so
  three rows. Ids are symmetric (no action compares them) and declared so.
  Amounts `-1, 0, 1` cover the sign, equality and zero tests, the only ones in
  the code. Two scopes and one category separate "in scope" from "not".
* Dates `0` and `3` with a window of 3 days put a pair on the window's edge, where
  an off-by-one shows. No pair lies beyond it: rows that do not match come from
  the rule's conditions on accounts, amounts and payees.
* Two external ids in two accounts give bank-against-bank transfers; one id per
  account is enough for re-import, since an import looks at its own id only.
* Three slots give a rotation against a rotation and a revocation; four tokens
  give two families with a successor each. Slots are symmetric.
* With one tab, two calls, one refresh shared by both and one lost response or a
  second sign-in, each branch of `client.ts` fires. `MaxTokens` and `MaxEvents`
  (sign-ins and losses together) bound how often the environment acts.
  `TokensLeft` keeps a place for each refresh that was started, so no bound ever
  blocks a request the client needs answered.
* In `web_cache` a property relates one query to the calls that change it. One
  call, of a page or from elsewhere, meets any fetch, retry, page change, sign-out
  and sign-in; fetches made by mounting, by an aged entry and by another user play
  the part that a second call's would, and the proofs hold for any number of
  calls. The queries are those of the entities but for two that are told and
  read together with a neighbour (`MCFollowed`); these, and the derived ones
  (suggestions, insights), are refreshed by no further mechanism and are covered
  by the proofs, which assume nothing of `Followed`.
* In `web_screens` the initial state chooses `screen`, and only that screen's
  machine moves: the screens share no variables (what they share is the server,
  and other pages' writes are each screen's "elsewhere" action), so their product
  would add states and no behaviour. Each screen's bounds let two requests
  overlap, a change from elsewhere come in between and a refetch follow. The sync
  quota has two tabs, the scheduler, one link and a limit of one run, the
  smallest at which three runs may overlap past it. The budget has a goal by the
  year and one by a date, over two months, the first of them overspent. Imports
  into the category tree bring up to two rows (`MaxImportRows`). The last field of an
  import file is any string of at most two characters over a quote, a comma, a blank
  and a letter; some quoted fields have another one after them (`MCMiddle`). Together
  these take each of the parser's transitions.

`web_screens` and `form_refetch` switch deadlock checking off: a page whose
user has used up the bound on inputs, with no request open, rests. Every other
run checks it.

What the properties say:

* `PeersMutual`, `LegsCancel`, `LegsApart`: a transfer stays a pair of equal,
  opposite rows of two accounts. `LegsUncategorized` (an action property): whatever a
  step leaves linked has no category and no flag, and no step writes split lines to
  it. A leg may keep lines it had before it was linked: that is the finding of
  `ledger_split_leg`.
* `CategorizedInScope` (an action property): a row's own category is of its account's
  scope, and split lines are in the step that writes them. A PATCH of the account
  alone leaves lines of the former scope, which it excepts. (That a row is not both
  spent and ready to assign, `NotBothAssigned`, is proved only.)
* `ImportedOnceNeverRevived`, `BankRowsLeaveATombstone`, `BankOwnsAmounts`: no
  bank row is there twice or back from the dead, none leaves without trace, and
  no step rewrites the amounts of two linked bank rows.
* `CandidatesConfirmable`, `CandidatesComplete`: the cached pairs are exactly
  usable and miss nothing.
* `RevocationIsFinal`, `ExchangedIsRevoked`, `OnlyExpiredForgotten`,
  `OtherSessionsGoOn`: ended sessions stay ended, replays remain detectable,
  pruning forgets nothing that matters, revocation stays in its family.
* `SignedInStays`, `OwnTokenNeverReplayed`: without losses, a device keeps a
  redeemable token, until a second sign-in, and never presents a token of the
  session twice.
* `CallsFinish` (liveness): no call waits for ever. `ServedByTokens`
  (refinement): the device implements `RefreshTokens`.
* `RestsCurrent`, `OwnWritesShown`, `SignOutForgets`, `KeepsViewsFresh`: a page at
  rest is right for the user who looks at it or excused (`Wrong`: old, or fetched
  for somebody else), a user's own writes show, a sign-out forgets, and
  an old view is replaced (liveness, by refinement of `CachedView`).
* `RunsNearLimit`: runs exceed the daily quota by less than the number that
  overlapped, so runs one at a time keep it.
* `HandChoiceStays`, `SavedCategoryKept`, `CategoryInScope`: late suggestions
  neither replace a hand-picked category nor alter a saved one, nor put one of
  another scope on screen. A refetch that brings the row with other contents seeds
  the form anew and is excepted: what follows from that is the finding of
  `form_refetch`. Split lines keep their categories when the account changes, and a
  saved row may hold a line of another scope; both are excepted (`crossed`).
* `CountsTheCascade`: the bulk delete announces, from the rows as they were fetched,
  as many rows as it deletes, as long as the list shows the selected rows with the
  peers they have. `SequenceStaysOpen`: linking all suggestions invalidates none of
  those to come.
* `EntriesMoveAsTyped`, `OrderIsAsDropped`: what the page sends has the effect the
  user saw, in any overlap. An adjustment of the balance ends at the typed figure plus
  what was booked since the server read its sum (`accounts.py:186-201`).
* `GoalsNotOverfunded`: buttons, dialogs, moves and typed amounts from old sheets
  assign no more than a monthly or yearly goal asks for once, plus what the user put
  on top of it and what was taken out of earlier months, so that it is missing in
  this one. Of a goal by a date the limit is its whole amount, since the server divides
  what is missing anew after each funding (`budget.py:74-75`).
* `RowsAsWritten`, `BarsFillTheirWhole`, `ResetWaits`: files are read back as they
  were written (without blanks around a field), bars add up with refunds in them, the countdown is not shortened, but for a
  click on the one frame drawn before a reopened dialog's effects have run.
* `MarkedRowExists`: Enter in a drop-down list picks the row that is marked, though
  searches and late answers exchange the rows under the mark (an exchange of the
  category list by its form is excepted).
* `ScreensTypeOK`: types, and the bank's one-time code is posted once.

## Fairness

`TransferLedger` and `RefreshTokens` state safety only and assume none.
`ApiSession` is checked for liveness under `FairSpec`: weak fairness of each
slot's server work and of discarding unawaited responses (the server answers
what it received), of each tab's `StartExchange` and `FinishExchange`, and of each
call's steps: a sent one's answer or failure (a `fetch` settles, by success or
rejection) and `SendRetry` (the event loop runs what is ready). The steps of one
slot, tab or call never compete, so each has one condition for all of its steps.
Nothing is assumed of the user, of losses or of expiry.

`WebCache` assumes weak fairness of `Answer` and `Take`, a fetch's two steps (the
server answers it, React Query delivers the answer), and of each slot's `Succeed` or
`Lose` (a call ends, one way or the other). It assumes nothing of the user, of
failures, of the passing of `staleTime` or of anything that would make a fetch
succeed at the end: a fetch that fails twice leaves an excuse. The screens and
`SyncQuota` state safety only and assume none.

## The proofs

All theorems hold for any constants that satisfy the named assumptions:
`LedgerAssumption` (`None`, the code's `NULL`, is no id, amounts are closed under negation, external
ids belong to linked accounts, a request's split list is a value), `TokensAssumption`
(a natural bound, finitely many slots, `None` is no integer) and
`SessionAssumption` (the same of the server's constants, and each call has a tab),
`CacheAssumption` (`None` is neither a user nor a call, a natural bound),
`QuotaAssumption` (natural bounds, the scheduler is no tab), and one for each
screen. Most say that ids, bounds and placeholders (`None`, `Blank`, `NoId`) are
what their names say. These say something of the program:

* `FormAssumption`: the category the server suggests for an account and a payee, and
  that of a saved row, are of the account's scope (what `CategorizedInScope` says of
  the ledger). A saved row's split lines may be in any category.
* `BudgetAssumption`: a goal's amount is not negative (`schemas/category.py` asks for
  a positive one, imported categories have none, `categories.py:370`), what is
  typed in the sheet an integer of cents.
* `InsightsAssumption`: presets are those of `RANGE_PRESETS`; a posting's category,
  its group and their scope exist (foreign keys).
* `CategoriesAssumption`: ids are numbers, groups and categories differ.
* `PickerAssumption`: no text typed means no search; the rows of a list are made of
  its labels (the provers cannot unfold `SelectSeq`, by which the rows are found).
* `ImportAssumption`: a file has a line for each row, the row's fields one after
  another with commas between them, each bare (no comma in it, no quote at its
  beginning) or in quotes with the quotes in it doubled. That is what a program that
  exports CSV writes, in whichever cases it quotes; a line break in a field is left out.

TLC evaluates them in every run.

**`TransferLedger_proofs`**: `TypesHold`, `TransfersArePairs`, `TransfersCancel`,
`TransfersCrossAccounts`, `NeverBothAssigned`. The inductive invariant `IInv` is `Rows` (each row is typed,
in an existing account, and assignable) and `Book` (each leg's peer exists,
points back, has the opposite amount and another account, and neither is
categorized). None of them is inductive alone: that an edit of one leg keeps
the amounts opposite needs the peer to be mutual, that a delete keeps links
mutual needs each row to have one peer, and that a link keeps rows categorized
in scope needs legs to be uncategorized. `Rows` and `Book` are predicates of an
arbitrary table, one lemma per helper shows that it preserves them, one lemma
per handler combines these, and `NextHolds` has one step per action.

Its second part: `ImportedOnce`, `BankOwnsItsAmounts`,
`DeletionsAreRemembered`. `Imports` is inductive next to `IInv`: that an edit or a
revision finds the one peer it has to spare, and that a deletion leaves a
tombstone for each row that follows another, needs mutual peers. The handlers
fall into a few kinds of change to a table: `Calm` (no row goes, no bank id and
no amount changes), `SameExts` (edits and revisions), `Shrinks` (deletions) and
the insertion of an unknown id; one lemma per handler says of which kind it is,
one per kind that it is safe.

Its third part: `TransfersAreNotSpending` and `CategoriesStayInScope`. `IInv` gives
what they say of a row's own category and flag. Split lines are written by POST and
PATCH only, into rows that are not linked and in scope (`LinesWritten`); every other
handler leaves each row unsplit or with the lines it had (`NoNewLines`).

Its fourth part: `SuggestionsConfirmable` and `SuggestionsComplete`.
A pair is confirmable only if neither row is linked, so that a step which
touches, apart from linked rows, only rows whose pairs it derives again
(`KeepsFreeRows`) leaves the others good; the offers are good by the rule. That
no pair is missed is the converse (`NoneComes`: no other row becomes pairable), and
rests on matching having no direction, on no order visiting a row twice, and on
a deletion visiting every survivor that loses its peer. It is proved of
behaviours in which no bank is unlinked, which is the finding below, and for
finitely many row ids (`IsFiniteSet(TxnIds)`, since the kept peers are put in an order).

**`RefreshTokens_proofs`**: `TypesHold`, `RevocationHolds`, `ExchangeHolds`,
`ForgettingHolds`, `OthersHold`. `RevocationIsFinal` is not inductive: a request
that has already read its token will issue a successor. `IInv` adds what such a
request still knows (`RequestOK`): its token, if still stored, is of the family
it read, and that family is not ended. A read can establish this since the row
was not revoked, hence not of an ended family; a revocation preserves it as
`ended` takes a family only when none of it is rotating. `RoomLeft` counts the
requests that may still issue a token and bounds `issued`; it is why `TypeOK`
needs finitely many slots.

**`ApiSession_proofs`**: `SessionUsesServer` (`Spec => ServedByTokens`, for any
number of tabs and calls) and `EndedAtTheServer`. Every step of a device maps to
a step of `RefreshTokens` or to a stutter. This needs `ClientInv`: the stored
token is one that was issued, each tab in flight awaits a slot of its own that
holds a refresh, and the sign-in awaits a slot that holds a login — otherwise a
tab could consume another's answer. The server's own invariant comes from
`RefreshTokens_proofs` by instantiation. `SessionTypesHold` gives the types;
`FirstSessionHolds` and `FirstTokensUsedOnce` prove `SignedInStays` and
`OwnTokenNeverReplayed` for one tab, as long as there has been one sign-in. With two
tabs TLC finds a replay (each tab refreshes with the pair it read), and with two
sign-ins a session that ends although nothing was lost (the second meets what the
first session left under way). The
invariant `FirstSession` is about who holds the newest token: the store, or the one
answer on its way to the tab; no other request of the family is at the server.

**`WebCache_proofs`**: `WebTypesHold`, `PagesRestCurrent`, `OwnWritesAreShown`,
`SignOutIsComplete`, and `CacheImplementsView`, the safety half of
`KeepsViewsFresh`. `RestsCurrent` says nothing of a page that is not at rest, so the inductive invariant is what is owed
until then (`Owed`): a wrong entry (old, or another user's) without an excuse will
be replaced, by the fetch in flight, by the invalidation of a call that is still to
succeed (`Announcing`), or by the fetch that mounting a stale entry makes; and a
wrong answer in flight is overtaken by such an invalidation. `SignOutForgets` needs
that entries and fetches belong to whose tokens are stored, and the users on screen
and still to appear to the same (`Belongs`), through a failed `/me` and the next
attempt too: a `queryClient.clear` that left fetches would break it. The refinement has one lemma
per kind of step of `CachedView`. All of it holds for every query of every page.

**`Screens_proofs`**: for each of eight screens its types and its properties, from
an invariant of its own. None of the properties is inductive.

* Sync quota (`SpentToday`): runs that are still going on will be counted when they
  commit, so committed runs under the quota and today's running ones together stay
  below the limit plus `most`.
* Account (`EntryInv`): a create under way has the body that the form made of an
  amount typed (`EntryMadeOf`), sign and direction included, so that the legs the
  server books come to that amount; and an adjustment's read sum is behind the
  balance by what was booked since (`ReadIsBehind`). Settings (`WaitInv`): a
  countdown that shows zero has had its time by the clock, whenever it was rendered.
* Linking (`LinkInv`): the pairs offered, and those still to come in a sequence, share
  no row, so that none of the links before can take a row away from one to come.
* Forms (`FormInv`): what a field holds, by who set it last (`FieldsOK`), and that an
  edit form nobody touched agrees with the row (`Kept`), also while a refetch or a
  debounced payee is on its way.
* Transactions (`RowsOK`): the legs of a transfer name each other on the server, which
  every call leaves true; where the list shows the peers there are, the announced
  number rests on it.
* Accounts (`AccountsInv`): the code of a callback is either unused or marked as used.
* Pickers (`MarkInv`): the mark is at a row of the list, or there are none, also while a
  payee list is closed and its answers come in; a category list that its form exchanges
  while it is open is excepted until the next search, since the code does not look then.

**`SumsAndOrder_proofs`**: `BudgetTypesHold`, `GoalsAreNotOverfunded`, `InsightsTypesHold`,
`BarsAreFilled`, `CategoriesTypesHold`, `DroppedOrderIsKept`.

It starts with a small theory of `SumFunctionOnSet`: the sum is an integer, grows
with its terms, splits over a partition (`SumOfParts`). The library's induction
theorems take an operator as parameter; here induction over a finite set goes by the
least counterexample among its subsets, as a set and not as an operator
(`SubsetInduction`, from the well-foundedness of `<` on numbers).

* Budget. What may be assigned rests on what a sheet said, and there are old sheets
  everywhere: on the page, in a dialog, in a request the server has read for and not
  yet written. The invariant (`BudgetInv`) says of all of them the same thing
  (`Fits`): what they assign lies between what was taken away and the cap, which is
  the goal's level plus what the user put on top and what was taken from earlier
  months. A step only raises the caps (`Rises`), so that old sheets go on fitting. The property
  had to be restated for that: an earlier form, without `taken`, held for the run's
  constants and TLC refuted it with others.
* Insights. The chosen range is always here, being fetched or refused, so what is
  shown without a fetch under way is the chosen one. The parts of a bar add up since
  groups partition a scope, scopes the rows, and segments left out are zero.
* Categories. A finite set of ids has exactly one list in the order of the server
  (`OrderExists`, `NumberedIsShown`). Between the drop and the last PATCH the server's
  order is neither the old nor the new one; the invariant `DragSent` says item by item
  that its place is on the server or in flight, and that nothing else is in flight. A
  refetch in between changes the page only.

**`ImportDialogs_proofs`**: `RowIsRead`, `RowsAreRead`, `ImportTypesHold`,
`RowsAreAsWritten`. The reader's functions are recursive, which is to say chosen to
satisfy an equation, so that first a function that does has to exist
(`DownRecursion`: as each value needs only those at later places, it is built from
the end of the line), and that the equation looks only at later places has itself to
be proved: a field ends where it begins or later (`QuotedIn`, `BareIn`). Then a quoted
field is read back from each place of its text (`QuotedIsRead`), a bare one up to its
comma and without its blanks (`BareIsRead`), and the fields from each field on
(`RowIsRead`), each by induction from the end (`DownInduction`). Fields are trimmed twice if bare
and once if quoted, which is the same (`TrimTwice`). For the dialogs the invariant is
the property: choosing a file takes the rows away with their source, and a reader
sets both.

**`MCScreens_proofs`**: `EveryScreenByItself` and `ScreensTypesHold`. A step of the
composition is a step or a stutter of each screen, so that it implements the twelve
specifications and has what is proved of them: `ScreensTypeOK` and every other
property of `web_screens`, for every value of the constants.

Model-checked only: `CallsFinish` and the liveness of `KeepsViewsFresh`, since the
prover has neither liveness under fairness nor `ENABLED`.

## What the checks found

| Run | Source | Finding |
|---|---|---|
| `tokens_once` | `backend/app/services/refresh_tokens.py:86` | "A refresh token works exactly once" (line 3) fails for two overlapping rotations: both read the row unrevoked, and the update is by primary key. |
| `session_sign_out` | `packages/core/src/api/client.ts:119` | A refresh under way at sign-out stores its new pair afterwards; the cleared session is back, against `auth.ts:25`. |
| `ledger_missed_candidate` | `backend/app/routers/banking.py:499` | Unlinking a bank deletes rows by cascade; manual peers in the remaining accounts become linkable without their candidates being derived, against `transfer_candidate_store.py:20`. |
| `ledger_split_leg` | `backend/app/routers/transactions.py:712` | A split row can be linked and keeps its categorized lines, which the budget goes on counting, against "Split parents are never transfer legs" (`txn_rows.py:89-91`). |
| `login_reopened` | `frontend/src/auth/AuthContext.tsx:59` | "Cached responses belong to the account that just left" (line 53): signing in as somebody else on `/login` while signed in does not clear them, and the new user's pages show them until refetched. |
| `form_refetch` | `frontend/src/components/EditTransactionModal.tsx:85` | A refetch that renames the edited row forgets that a category was picked, and a suggestion then replaces it, against the comment in lines 69-71. |

Also seen while modelling. The models have these steps, and the properties above name
them as exceptions; no run is spent on them:

* A PATCH of the amount, or of the category, of a split row leaves lines that do not
  add up to it, or a category next to them (`transactions.py:914-940`), against
  `models/transaction_split.py:16` and `ROADMAP.md:260`. A PATCH of its account leaves
  lines of the former scope (`transactions.py:932`), against `ROADMAP.md:262`.
* A YNAB category file with a new group cannot be imported: the group is created
  without the `scope_id` that `models/category.py:21` requires (`categories.py:348`).
* A rotation that has read its token before the family is revoked issues a live
  successor afterwards (`refresh_tokens.py:103`).
* The answer of a refresh overwrites the pair of a second sign-in made meanwhile
  (`client.ts:119`).
* What is booked while an adjustment is between its sum and its commit leaves the
  balance beside the figure that the answer gives (`accounts.py:186-204`).
* A goal by a date that was given this month's share asks for another one in the same
  month (`budget.py:74-75`), next to a button that says "to reach this month's goal"
  (`BudgetPage.tsx:612`).
* The selection of the transaction list keeps a row that a refetch no longer lists, and
  the bulk calls act on it (`TransactionsPage.tsx:702`), against lines 115-116.

`RevocationIsFinal` is therefore stated for families none of whose tokens is
being rotated at the moment of revocation: a rotation that overlaps it is the
race of `tokens_once` again.

`OwnWritesShown` is stated up to the calls listed in `Announced`: setting a
balance and deleting a group leave lists of transactions, and a YNAB import and a
reorder leave the budget, as they were until the next fetch. No text promises
otherwise, so these are named in the module and not reported as findings.

## What is not modelled

* Ledger requests that overlap each other or the sync: `TransferLedger` takes each
  request as one step. The unique constraint on `transfer_peer_id` and the row a
  sync holds across its awaits are listed as hazards.
* Bank linking beyond starting, redirect, callback and unlinking: which accounts
  a re-authorization finds again, and a first sync that fails after its code was
  used. Failure of one connection among several and consent expiry.
* The check that keeps categorized rows in their scope when an account changes its
  scope (the split lines, which it does not look at, are a hazard); and that a scope always remains, which `SettingsScreen` has the steps to break but
  no text promises.
* Budget: off-budget accounts and several scopes at once. Insights: trends,
  baselines and overspending. Payees: renames and matching by name.
* In the pages: renames, memo and date fields, sorting, layout, static pages.
* Read-only endpoints, JSON shapes, password hashing, JWT signing, encryption and
  the HTTP client of the bank provider: no state that a sequence of operations
  could spoil.

`PROJECT.json` lists every component with its status and every hazard with the
property that covers it or the reason why none does.

## Plan

1. `TransferLedger`, `RefreshTokens`, `ApiSession` with proofs – done.
2. `WebCache` refining `CachedView`, `SyncQuota`, with proofs – done.
3. The screens, checked – done.
4. `LedgerRaces`: link, unlink, delete and the sync's revision as read and commit
   phases over the ledger's rows, with the unique constraint on
   `transfer_peer_id`; is `LegsCancel` kept when a sync and a link overlap?
5. `BankLink`: authorization requests, re-authorization and first sync with the
   opening balance; the derived balance equals the bank's after a first sync.
6. `ScopeBook`: accounts and groups that change scope next to requests that
   categorize.
7. Proofs of the screens' invariants, of one tab's session, of the CSV reader and
   of the composition of the screens – done.

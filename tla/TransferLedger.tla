--------------------------- MODULE TransferLedger ---------------------------
(***************************************************************************)
(* The ledger of one ZeroBudget user: the transactions table, the transfer *)
(* links between its rows, the persisted transfer-match candidates and the *)
(* tombstones of deleted bank rows.  One action per API handler that       *)
(* writes them (backend/app/routers/transactions.py, accounts.py,          *)
(* banking.py, reset.py) and one per branch of the bank sync's             *)
(* per-transaction loop (services/bank_sync.py).  Every action is one      *)
(* committed database transaction; requests that overlap are not modelled  *)
(* here.  Memo, cleared and created_at take no part in any decision and    *)
(* are left out; all rows belong to one user, as every query filters on    *)
(* user_id.                                                                *)
(***************************************************************************)
EXTENDS Integers, FiniteSets, SequencesExt

CONSTANTS
  TxnIds,           \* primary keys of the transactions table
  Accounts,         \* accounts.id
  Connections,      \* bank connections, each the set of accounts it links
  Categories,       \* categories.id
  AccountScope,     \* accounts.scope_id
  CategoryScope,    \* scope_id of the category's group
  ExtIds,           \* external transaction ids a bank sync can produce
  OpeningIds,       \* those of the form "{account.id}:opening_balance"
  ImportAccount,    \* the account whose id prefixes the external id
  Payees,           \* payee names
  SyntheticPayees,  \* SYNTHETIC_PAYEES: bookkeeping rows of the application
  Amounts,          \* amount_cents values the instance considers
  Dates,            \* day numbers
  MatchWindow,      \* TRANSFER_MATCH_WINDOW_DAYS
  SplitInputs,      \* the lists of split lines a request may carry
  RtaInputs,        \* the Ready-to-Assign flags a request may carry
  None              \* SQL NULL

ASSUME LedgerAssumption ==
  /\ None \notin TxnIds \cup Categories \cup ExtIds
  /\ Amounts \subseteq Int
  /\ \A x \in Amounts : -x \in Amounts
  /\ Dates \subseteq Int
  /\ MatchWindow \in Nat
  /\ SyntheticPayees \subseteq Payees
  /\ OpeningIds \subseteq ExtIds
  /\ ImportAccount \in [ExtIds -> UNION Connections]
  /\ UNION Connections \subseteq Accounts
  /\ RtaInputs \subseteq BOOLEAN
  /\ <<>> \notin SplitInputs
  /\ None \notin SplitInputs

VARIABLES
  txns,        \* transactions: a function from the ids in use to rows
  candidates,  \* transfer_match_candidates: unordered pairs of ids
  tombstones,  \* deleted_external_transactions
  accounts     \* the accounts that exist

vars == <<txns, candidates, tombstones, accounts>>

Row == [account : Accounts, amount : Amounts, date : Dates, payee : Payees,
        cat : Categories \cup {None}, rta : BOOLEAN,
        split : SplitInputs \cup {<<>>},
        peer : TxnIds \cup {None}, ext : ExtIds \cup {None}]

(* What a client may send: a row without the columns only the server sets. *)
Request == [account : Accounts, amount : Amounts, date : Dates,
            payee : Payees, cat : Categories \cup {None}, rta : RtaInputs,
            split : SplitInputs \cup {<<>>, None}]

-----------------------------------------------------------------------------
(* Reading the tables.                                                     *)

IsImported(row) == row.ext # None
IsLinked(row) == row.peer # None
IsSplit(row) == row.split # <<>>

InScope(account, cat) ==
  cat # None => CategoryScope[cat] = AccountScope[account]

(* The checks create and update share: a row is categorized, flagged Ready *)
(* to Assign, or neither, and its category is of its account's scope.      *)
AssignableInAnyScope(account, cat, rta) == ~(cat # None /\ rta)

Assignable(account, cat, rta) ==
  /\ ~(cat # None /\ rta)
  /\ InScope(account, cat)

LineTotal(lines) == FoldLeft(LAMBDA sum, line : sum + line.amount, 0, lines)

ValidSplit(account, amount, lines) ==
  /\ Len(lines) >= 2
  /\ LineTotal(lines) = amount
  /\ \A i \in DOMAIN lines : InScope(account, lines[i].cat)

DaysApart(d, e) == IF d < e THEN e - d ELSE d - e

IsLinkable(row) ==
  /\ ~IsLinked(row)
  /\ row.amount # 0
  /\ row.payee \notin SyntheticPayees

IsMatch(r, s) ==
  /\ r.account # s.account
  /\ r.amount = -s.amount
  /\ DaysApart(r.date, s.date) <= MatchWindow

(* The pairs that recomputing t's candidates stores: t against every other *)
(* linkable row that has no split lines.  Only the other row is asked for  *)
(* its split lines, as in linkable_transactions_between.                   *)
Offers(table, t) ==
  {u \in DOMAIN table :
     /\ u # t
     /\ IsLinkable(table[t]) /\ IsLinkable(table[u]) /\ ~IsSplit(table[u])
     /\ IsMatch(table[t], table[u])}

SyncedBefore(order, u, t) ==
  \E i, j \in DOMAIN order : i < j /\ order[i] = u /\ order[j] = t

(* sync_candidates_for called on each id of order in turn: the pairs that  *)
(* touch one of them are dropped and derived again, and of two ids in      *)
(* order the later call decides.                                           *)
SyncWithoutClearing(table, pairs, order) ==
  pairs \cup UNION {{{t, u} : u \in Offers(table, t)} : t \in Range(order)}

SyncLastOnly(table, pairs, order) ==
  {p \in pairs : p \cap Range(order) = {}} \cup
  UNION {{{t, u} : u \in Offers(table, t)} : t \in {order[i] : i \in DOMAIN order \cap {Len(order)}}}

SyncCandidates(table, pairs, order) ==
  {p \in pairs : p \cap Range(order) = {}} \cup
  UNION {{{t, u} : u \in {v \in Offers(table, t) :
                            ~SyncedBefore(order, t, v)}} : t \in Range(order)}

-----------------------------------------------------------------------------
(* Writing them.                                                           *)

NewRow(req, ext) ==
  [account |-> req.account, amount |-> req.amount, date |-> req.date,
   payee |-> req.payee, cat |-> req.cat, rta |-> req.rta,
   split |-> req.split, peer |-> None, ext |-> ext]

Plain(account, amount, date, payee) ==
  [account |-> account, amount |-> amount, date |-> date, payee |-> payee,
   cat |-> None, rta |-> FALSE, split |-> <<>>]

WithCategory(req, cat) == [req EXCEPT !.cat = cat]

WithAmount(row, amount) == [row EXCEPT !.amount = amount]

Revised(row, amount, date) == [row EXCEPT !.amount = amount, !.date = date]

Insert(table, t, row) ==
  [i \in DOMAIN table \cup {t} |-> IF i = t THEN row ELSE table[i]]

AsLeg(row, peer) == [row EXCEPT !.peer = peer, !.cat = None, !.rta = FALSE]

Unlinked(row) == [row EXCEPT !.peer = None]

(* DELETE with the two foreign keys that follow it: transfer_peer_id of a  *)
(* surviving row is set to NULL.                                           *)
Delete(table, ids) ==
  [i \in DOMAIN table \ ids |->
     IF table[i].peer \in ids THEN Unlinked(table[i]) ELSE table[i]]

(* ON DELETE CASCADE on both columns of transfer_match_candidates.         *)
NoCascade(pairs, ids) == pairs

CascadeCandidates(pairs, ids) == {p \in pairs : p \cap ids = {}}

LinkKeepingCategories(table, t, u) ==
  [table EXCEPT ![t] = [@ EXCEPT !.peer = u], ![u] = [@ EXCEPT !.peer = t]]

LinkPair(table, t, u) ==
  [table EXCEPT ![t] = AsLeg(@, u), ![u] = AsLeg(@, t)]

UnlinkOneLeg(table, t, u) == [table EXCEPT ![t] = Unlinked(@)]

UnlinkPair(table, t, u) ==
  [table EXCEPT ![t] = Unlinked(@), ![u] = Unlinked(@)]

CanLink(table, t, u) ==
  /\ t # u
  /\ table[t].account # table[u].account
  /\ ~IsLinked(table[t]) /\ ~IsLinked(table[u])
  /\ table[t].amount # 0
  /\ table[t].amount = -table[u].amount

(* What update_transaction refuses to do to a transfer leg: an edit may    *)
(* neither classify nor split it, nor move it into its peer's account, nor *)
(* change an amount that the peer's bank owns.                             *)
LegEditableAnywhere(table, t, req) ==
  IsLinked(table[t]) =>
    /\ req.cat = None /\ ~req.rta /\ req.split = None
    /\ req.amount # table[t].amount => ~IsImported(table[table[t].peer])

LegEditableOverBank(table, t, req) ==
  IsLinked(table[t]) =>
    /\ req.cat = None /\ ~req.rta /\ req.split = None
    /\ req.account # table[table[t].peer].account

LegEditable(table, t, req) ==
  IsLinked(table[t]) =>
    /\ req.cat = None /\ ~req.rta /\ req.split = None
    /\ req.account # table[table[t].peer].account
    /\ req.amount # table[t].amount => ~IsImported(table[table[t].peer])

(* The row as edited; a changed amount is mirrored onto its peer.          *)
EditOneLeg(table, t, row) == [table EXCEPT ![t] = row]

Edit(table, t, row) ==
  [i \in DOMAIN table |->
     IF i = t THEN row
     ELSE IF i = table[t].peer /\ row.amount # table[t].amount
     THEN WithAmount(table[i], -row.amount)
     ELSE table[i]]

(* The columns a PATCH sets; without "splits" the stored lines stay.       *)
Merged(row, req) ==
  [row EXCEPT !.account = req.account, !.amount = req.amount,
              !.date = req.date, !.payee = req.payee,
              !.cat = req.cat, !.rta = req.rta,
              !.split = IF req.split = None THEN @ ELSE req.split]

FlaggedRecategorized(row, cat) == [row EXCEPT !.cat = cat]

Recategorized(row, cat) == [row EXCEPT !.cat = cat, !.rta = @ /\ cat = None]

(* _delete_transactions_cascading: a manually entered peer of a deleted    *)
(* row goes with it, an imported peer the caller did not name is unlinked  *)
(* and stays.                                                              *)
PeersOutside(table, ids) ==
  {table[t].peer : t \in {i \in ids : IsLinked(table[i])}} \ ids

KeptPeers(table, ids) == {u \in PeersOutside(table, ids) : IsImported(table[u])}

AllLegs(table, ids) == ids \cup (PeersOutside(table, ids) \ KeptPeers(table, ids))

UnlinkedExtIds(table, ids) == {table[t].ext : t \in {i \in ids : ~IsLinked(table[i])}} \ {None}

ExtIdsOf(table, ids) == {table[t].ext : t \in ids} \ {None}

-----------------------------------------------------------------------------
(* The handlers.                                                           *)

Init ==
  /\ txns = <<>>
  /\ candidates = {}
  /\ tombstones = {}
  /\ accounts = Accounts

Store(t, row) ==
  LET table == Insert(txns, t, row)
  IN  /\ txns' = table
      /\ candidates' = SyncCandidates(table, candidates, <<t>>)
      /\ UNCHANGED <<tombstones, accounts>>

(* POST /transactions *)
CreateTransaction(t, req) ==
  /\ t \notin DOMAIN txns
  /\ req.account \in accounts
  /\ Assignable(req.account, req.cat, req.rta)
  /\ req.split # None
  /\ req.split # <<>> => /\ req.cat = None /\ ~req.rta
                         /\ ValidSplit(req.account, req.amount, req.split)
  /\ Store(t, NewRow(req, None))

(* One row of POST /transactions/import-ynab: a category of another scope  *)
(* is dropped, not rejected; suggested is what a rule or the history may   *)
(* fill in.                                                                *)
ImportYnabRow(t, req, suggested) ==
  /\ t \notin DOMAIN txns
  /\ req.account \in accounts
  /\ ~req.rta /\ req.split = <<>>
  /\ InScope(req.account, suggested)
  /\ LET given == IF InScope(req.account, req.cat) THEN req.cat ELSE None
         cat == IF given = None THEN suggested ELSE given
     IN  Store(t, NewRow(WithCategory(req, cat), None))

(* PATCH /transactions/{t}.  req.split = None leaves the lines alone, the  *)
(* empty list clears them; for every other column, sending the stored      *)
(* value and sending nothing are the same request.                         *)
UpdateTransaction(t, req) ==
  /\ t \in DOMAIN txns
  /\ req.account \in accounts
  /\ Assignable(req.account, req.cat, req.rta)
  /\ LegEditable(txns, t, req)
  /\ req.split \notin {None, <<>>} =>
       /\ req.cat = None /\ ~req.rta
       /\ ValidSplit(req.account, req.amount, req.split)
  /\ txns' = Edit(txns, t, Merged(txns[t], req))
  /\ candidates' = SyncCandidates(txns', candidates, <<t>>)
  /\ UNCHANGED <<tombstones, accounts>>

(* POST /transactions/bulk-set-category: rows that cannot take the         *)
(* category are skipped.                                                   *)
BulkSetCategory(ids, cat) ==
  /\ txns' = [t \in DOMAIN txns |->
       IF \/ t \notin ids
          \/ IsLinked(txns[t]) \/ IsSplit(txns[t])
          \/ ~InScope(txns[t].account, cat)
       THEN txns[t]
       ELSE Recategorized(txns[t], cat)]
  /\ UNCHANGED <<candidates, tombstones, accounts>>

(* POST /transactions/transfer: both legs, linked to each other.           *)
CreateTransfer(t, u, from, to, amount, date, payee) ==
  /\ {t, u} \cap DOMAIN txns = {} /\ t # u
  /\ from # to /\ {from, to} \subseteq accounts
  /\ amount > 0
  /\ txns' = LinkPair(
       Insert(Insert(txns, t, NewRow(Plain(from, -amount, date, payee), None)),
              u, NewRow(Plain(to, amount, date, payee), None)), t, u)
  /\ UNCHANGED <<candidates, tombstones, accounts>>

Link(table, t, u) ==
  /\ CanLink(table, t, u)
  /\ txns' = LinkPair(table, t, u)
  /\ candidates' = SyncCandidates(txns', candidates, <<t, u>>)
  /\ UNCHANGED <<tombstones, accounts>>

(* POST /transactions/{t}/transfer-link with peer_transaction_id = u. *)
LinkExisting(t, u) ==
  /\ {t, u} \subseteq DOMAIN txns
  /\ Link(txns, t, u)

(* The same with to_account_id: the missing leg u is created. *)
LinkNewLeg(t, u, to) ==
  /\ t \in DOMAIN txns /\ u \notin DOMAIN txns
  /\ to \in accounts
  /\ LET leg == Plain(to, -txns[t].amount, txns[t].date, txns[t].payee)
     IN  Link(Insert(txns, u, NewRow(leg, None)), t, u)

(* DELETE /transactions/{t}/transfer-link *)
Unlink(t) ==
  /\ t \in DOMAIN txns /\ IsLinked(txns[t])
  /\ LET u == txns[t].peer
         table == UnlinkPair(txns, t, u)
     IN  /\ txns' = table
         /\ candidates' = SyncCandidates(table, candidates, <<t, u>>)
         /\ UNCHANGED <<tombstones, accounts>>

(* POST /transactions/bulk-delete, and DELETE /transactions/{t} with one   *)
(* id.  order is the order in which the kept peers are visited.            *)
DeleteTransactions(ids, order) ==
  /\ ids # {} /\ ids \subseteq DOMAIN txns
  /\ order \in SetToSeqs(KeptPeers(txns, ids))
  /\ LET legs == AllLegs(txns, ids)
         table == Delete(txns, legs)
     IN  /\ txns' = table
         /\ tombstones' = tombstones \cup ExtIdsOf(txns, legs)
         /\ candidates' =
              SyncCandidates(table, CascadeCandidates(candidates, legs), order)
         /\ UNCHANGED accounts

(* POST /accounts/{a}/balance: one adjustment row of today's date; its     *)
(* candidates are not derived.                                             *)
SetAccountBalance(t, a, delta, today, payee) ==
  /\ t \notin DOMAIN txns
  /\ a \in accounts
  /\ delta # 0
  /\ payee \in SyntheticPayees
  /\ txns' = Insert(txns, t, NewRow(Plain(a, delta, today, payee), None))
  /\ UNCHANGED <<candidates, tombstones, accounts>>

(* POST /reset with the "transactions" option. *)
ResetTransactions ==
  /\ txns' = <<>>
  /\ candidates' = {}
  /\ tombstones' = {}
  /\ UNCHANGED accounts

(* DELETE /banking/connections/{c}: the accounts and, through them, their  *)
(* rows go by foreign key alone.                                           *)
UnlinkConnection(c) ==
  /\ c \subseteq accounts
  /\ LET gone == {t \in DOMAIN txns : txns[t].account \in c}
     IN  /\ txns' = Delete(txns, gone)
         /\ candidates' = CascadeCandidates(candidates, gone)
  /\ accounts' = accounts \ c
  /\ UNCHANGED tombstones

-----------------------------------------------------------------------------
(* The bank sync, one transaction of a fetched window at a time.           *)

KnownToItsAccount(e) ==
  \E t \in DOMAIN txns : txns[t].ext = e /\ txns[t].account = ImportAccount[e]

Known(e) == \E t \in DOMAIN txns : txns[t].ext = e

(* The bank reports e for the first time, or again after it left the       *)
(* ledger; suggested is the category of a rule or of the payee's history.  *)
ImportBankTransaction(t, e, amount, date, payee, suggested) ==
  /\ t \notin DOMAIN txns
  /\ e \notin OpeningIds /\ ImportAccount[e] \in accounts
  /\ ~Known(e) /\ e \notin tombstones
  /\ InScope(ImportAccount[e], suggested)
  /\ LET plain == Plain(ImportAccount[e], amount, date, payee)
     IN  Store(t, NewRow(WithCategory(plain, suggested), e))

(* The bank reports e with another date or amount: t takes both, and a     *)
(* changed amount is carried to a manual peer or breaks the link to an     *)
(* imported one (_keep_transfer_peer_consistent).                          *)
ReviseBankTransaction(t, amount, date) ==
  /\ t \in DOMAIN txns
  /\ txns[t].ext \in ExtIds \ OpeningIds
  /\ ImportAccount[txns[t].ext] \in accounts
  /\ <<amount, date>> # <<txns[t].amount, txns[t].date>>
  /\ LET peer == txns[t].peer
         revised == Revised(txns[t], amount, date)
         parts == /\ IsLinked(txns[t]) /\ amount # txns[t].amount
                  /\ IsImported(txns[peer])
     IN  \/ /\ ~parts
            /\ txns' = Edit(txns, t, revised)
            /\ candidates' = SyncCandidates(txns', candidates, <<t>>)
         \/ /\ parts
            /\ txns' = Edit(UnlinkPair(txns, t, peer), t, Unlinked(revised))
            /\ candidates' = SyncCandidates(txns', candidates, <<peer, t>>)
  /\ UNCHANGED <<tombstones, accounts>>

(* First sync of a connection: the row that makes the derived balance      *)
(* agree with the bank's.                                                  *)
ImportOpeningBalance(t, e, delta, date, payee) ==
  /\ t \notin DOMAIN txns
  /\ e \in OpeningIds /\ ImportAccount[e] \in accounts
  /\ ~Known(e) /\ e \notin tombstones
  /\ delta # 0
  /\ payee \in SyntheticPayees
  /\ txns' = Insert(txns, t, NewRow(Plain(ImportAccount[e], delta, date, payee), e))
  /\ UNCHANGED <<candidates, tombstones, accounts>>

-----------------------------------------------------------------------------
Next ==
  \/ \E t \in TxnIds, req \in Request :
       \/ CreateTransaction(t, req)
       \/ UpdateTransaction(t, req)
       \/ \E suggested \in Categories \cup {None} : ImportYnabRow(t, req, suggested)
  \/ \E t, u \in TxnIds, from, to \in Accounts, amount \in Amounts,
        date \in Dates, payee \in Payees :
       CreateTransfer(t, u, from, to, amount, date, payee)
  \/ \E t, u \in TxnIds : LinkExisting(t, u)
  \/ \E t, u \in TxnIds, to \in Accounts : LinkNewLeg(t, u, to)
  \/ \E t \in TxnIds : Unlink(t)
  \/ \E ids \in SUBSET TxnIds, cat \in Categories \cup {None} :
       BulkSetCategory(ids, cat)
  \/ \E ids \in SUBSET DOMAIN txns :
       \E order \in SetToSeqs(KeptPeers(txns, ids)) :
         DeleteTransactions(ids, order)
  \/ \E t \in TxnIds, a \in Accounts, delta \in Amounts, date \in Dates,
        payee \in Payees : SetAccountBalance(t, a, delta, date, payee)
  \/ ResetTransactions
  \/ \E c \in Connections : UnlinkConnection(c)
  \/ \E t \in TxnIds, e \in ExtIds, amount \in Amounts, date \in Dates,
        payee \in Payees :
       \/ ImportOpeningBalance(t, e, amount, date, payee)
       \/ \E suggested \in Categories \cup {None} :
            ImportBankTransaction(t, e, amount, date, payee, suggested)
  \/ \E t \in TxnIds, amount \in Amounts, date \in Dates :
       ReviseBankTransaction(t, amount, date)

Spec == Init /\ [][Next]_vars

-----------------------------------------------------------------------------
(* Properties.                                                             *)

(* Every table holds rows of its columns' types, foreign keys included:    *)
(* the schema of backend/app/models.                                       *)
TypeOK ==
  /\ DOMAIN txns \subseteq TxnIds
  /\ txns \in [DOMAIN txns -> Row]
  /\ candidates \subseteq SUBSET DOMAIN txns
  /\ tombstones \subseteq ExtIds
  /\ accounts \subseteq Accounts
  /\ \A t \in DOMAIN txns : txns[t].account \in accounts

Linked(t) == IsLinked(txns[t])

(* A transfer is always a pair: whatever was edited, linked, deleted or    *)
(* synced, a leg's peer exists and points back at it                       *)
(* (models/transaction.py: "each pointing at the other").                  *)
PeersMutual ==
  \A t \in DOMAIN txns : Linked(t) =>
    /\ txns[t].peer \in DOMAIN txns \ {t}
    /\ txns[txns[t].peer].peer = t

(* Two linked rows are equal and opposite at every moment, the bank's      *)
(* revisions and edits of either leg included: the budget math leaves both *)
(* out instead of adding them up.                                          *)
LegsCancel ==
  \A t \in DOMAIN txns : Linked(t) => txns[txns[t].peer].amount = -txns[t].amount

(* The legs of a transfer sit in two different accounts, even after a leg  *)
(* was moved by an edit.                                                   *)
LegsApart ==
  \A t \in DOMAIN txns : Linked(t) => txns[txns[t].peer].account # txns[t].account

(* A transfer leg is not spending and not income: whatever an edit, a bulk *)
(* edit, a link or a bank import leaves linked has no category and no      *)
(* Ready-to-Assign flag, and no step writes split lines to it; the lines   *)
(* a leg may have (LegsUnsplit) are those it had before it was linked.     *)
LegsUncategorized ==
  [][\A t \in DOMAIN txns' : IsLinked(txns'[t]) =>
       /\ txns'[t].cat = None /\ ~txns'[t].rta
       /\ ~IsSplit(txns'[t]) \/ /\ t \in DOMAIN txns
                                /\ txns'[t].split = txns[t].split]_vars

LinesFit(row) == \A i \in DOMAIN row.split : InScope(row.account, row.split[i].cat)

(* Categorized spending stays inside one scope, whichever of account and   *)
(* category changed last: a row's own category is of its account's scope,  *)
(* and split lines are when a step writes them.  Not so the lines a row    *)
(* keeps when a PATCH moves it to another account: the handler looks at    *)
(* lines only when the request brings some.                                *)
CategorizedInScope ==
  [][\A t \in DOMAIN txns' :
       /\ InScope(txns'[t].account, txns'[t].cat)
       /\ \/ t \in DOMAIN txns /\ txns'[t].split = txns[t].split
          \/ LinesFit(txns'[t])]_vars

(* Split parents are never transfer legs (services/txn_rows.py).           *)
LegsUnsplit == \A t \in DOMAIN txns : Linked(t) => ~IsSplit(txns[t])

(* A row is either assigned to a category or flagged Ready to Assign,      *)
(* never both, through single edits, bulk edits and links.                 *)
NotBothAssigned ==
  \A t \in DOMAIN txns : ~(txns[t].cat # None /\ txns[t].rta)

(* An external id is imported at most once, and one the user deleted does  *)
(* not come back with a later sync of the same window.                     *)
ImportedOnceNeverRevived ==
  \A t \in DOMAIN txns : IsImported(txns[t]) =>
    /\ txns[t].ext \notin tombstones
    /\ \A u \in DOMAIN txns : txns[u].ext = txns[t].ext => u = t

(* Confirming a stored suggestion succeeds: each candidate pair still      *)
(* passes every check of the link handler, whatever happened to its rows   *)
(* since it was stored.                                                    *)
CandidatesConfirmable ==
  \A p \in candidates : \E t, u \in DOMAIN txns :
    /\ p = {t, u}
    /\ CanLink(txns, t, u)
    /\ DaysApart(txns[t].date, txns[u].date) <= MatchWindow

(* The candidate table misses nothing: any two unsplit, linkable rows that *)
(* match are stored, whichever of them was written last.                   *)
CandidatesComplete ==
  \A t, u \in DOMAIN txns :
    /\ t # u
    /\ IsLinkable(txns[t]) /\ IsLinkable(txns[u])
    /\ ~IsSplit(txns[t]) /\ ~IsSplit(txns[u])
    /\ IsMatch(txns[t], txns[u])
    => {t, u} \in candidates

(* No step rewrites the amounts of two linked bank rows at once: the bank  *)
(* owns each of them, and mirroring one onto the other would falsify the   *)
(* other account's balance.                                                *)
BankOwnsAmounts ==
  [][\A t \in DOMAIN txns \cap DOMAIN txns' :
       /\ IsImported(txns[t]) /\ Linked(t) /\ IsImported(txns[txns[t].peer])
       /\ txns[t].peer \in DOMAIN txns'
       => \/ txns'[t].amount = txns[t].amount
          \/ txns'[txns[t].peer].amount = txns[txns[t].peer].amount]_vars

(* A bank row leaves the ledger of an account that stays only with a       *)
(* tombstone (a reset, which empties the ledger, apart): otherwise the     *)
(* next sync would bring it back against the user's will.                  *)
BankRowsLeaveATombstone ==
  [][DOMAIN txns' # {} =>
       \A t \in DOMAIN txns \ DOMAIN txns' :
         IsImported(txns[t]) =>
           txns[t].ext \in tombstones' \/ txns[t].account \notin accounts']_vars
=============================================================================

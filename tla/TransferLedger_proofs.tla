----------------------- MODULE TransferLedger_proofs -----------------------
(***************************************************************************)
(* Proofs about TransferLedger.  The tables are handled through two        *)
(* predicates on an arbitrary transactions table: Rows, what holds of each *)
(* row by itself, and Book, what ties a transfer leg to its peer.  One     *)
(* lemma per helper says that it preserves them; the proof of the          *)
(* invariant then has one step per handler.                                *)
(***************************************************************************)
EXTENDS TransferLedger, FiniteSetTheorems, TLAPS

Rows(table, accs) ==
  /\ DOMAIN table \subseteq TxnIds
  /\ table = [t \in DOMAIN table |-> table[t]]
  /\ \A t \in DOMAIN table :
       /\ table[t] \in Row
       /\ table[t].account \in accs
       /\ Assignable(table[t].account, table[t].cat, table[t].rta)

LegOK(table, t) ==
  IsLinked(table[t]) =>
    /\ table[t].peer \in DOMAIN table \ {t}
    /\ table[table[t].peer].peer = t
    /\ table[table[t].peer].amount = -table[t].amount
    /\ table[table[t].peer].account # table[t].account
    /\ table[t].cat = None /\ table[t].rta = FALSE

Book(table) == \A t \in DOMAIN table : LegOK(table, t)

Pairs(table, pairs) == pairs \subseteq SUBSET DOMAIN table

IInv ==
  /\ Rows(txns, accounts)
  /\ Book(txns)
  /\ Pairs(txns, candidates)
  /\ tombstones \subseteq ExtIds
  /\ accounts \subseteq Accounts

-----------------------------------------------------------------------------
(* The helpers on rows.                                                    *)

LEMMA NewRowTyped ==
  ASSUME NEW req, NEW ext \in ExtIds \cup {None},
         req.account \in Accounts, req.amount \in Amounts,
         req.date \in Dates, req.payee \in Payees,
         req.cat \in Categories \cup {None}, req.rta \in BOOLEAN,
         req.split \in SplitInputs \cup {<<>>}
  PROVE  /\ NewRow(req, ext) \in Row
         /\ NewRow(req, ext).account = req.account
         /\ NewRow(req, ext).cat = req.cat
         /\ NewRow(req, ext).rta = req.rta
         /\ NewRow(req, ext).amount = req.amount
         /\ NewRow(req, ext).peer = None
BY DEF NewRow, Row

(* A row as it is written without a category: it may be stored, or linked. *)
PlainRow(row, account, amount) ==
  /\ row \in Row
  /\ row.account = account /\ row.amount = amount
  /\ row.cat = None /\ row.rta = FALSE /\ row.peer = None
  /\ Assignable(row.account, row.cat, row.rta)

(* A plain row, as the handlers build one, has the columns of Row. *)
LEMMA PlainRowTyped ==
  ASSUME NEW account \in Accounts, NEW amount \in Amounts, NEW date \in Dates,
         NEW payee \in Payees, NEW ext \in ExtIds \cup {None}
  PROVE  PlainRow(NewRow(Plain(account, amount, date, payee), ext), account, amount)
BY DEF NewRow, Plain, Row, PlainRow, Assignable, InScope

(* The columns a row keeps and takes when its link changes.                *)
LEMMA UnlinkedTyped ==
  ASSUME NEW row \in Row
  PROVE  /\ Unlinked(row) \in Row
         /\ Unlinked(row).peer = None
         /\ Unlinked(row).account = row.account
         /\ Unlinked(row).amount = row.amount
         /\ Unlinked(row).cat = row.cat /\ Unlinked(row).rta = row.rta
BY DEF Row, Unlinked

(* Turning a row into a leg keeps it a row and clears what a leg may not carry. *)
LEMMA AsLegTyped ==
  ASSUME NEW row \in Row, NEW p \in TxnIds
  PROVE  /\ AsLeg(row, p) \in Row
         /\ AsLeg(row, p).peer = p
         /\ AsLeg(row, p).account = row.account
         /\ AsLeg(row, p).amount = row.amount
         /\ AsLeg(row, p).cat = None /\ AsLeg(row, p).rta = FALSE
BY DEF Row, AsLeg

(* An inserted row that is not linked leaves every pair as it was.         *)
LEMMA InsertKeeps ==
  ASSUME NEW table, NEW accs, NEW t \in TxnIds, NEW row \in Row,
         Rows(table, accs), row.account \in accs,
         Assignable(row.account, row.cat, row.rta)
  PROVE  /\ Rows(Insert(table, t, row), accs)
         /\ DOMAIN Insert(table, t, row) = DOMAIN table \cup {t}
         /\ t \notin DOMAIN table /\ row.peer = None /\ Book(table)
              => Book(Insert(table, t, row))
<1>1. Rows(Insert(table, t, row), accs)
  BY DEF Rows, Insert
<1>2. ASSUME t \notin DOMAIN table, row.peer = None, Book(table),
             NEW i \in DOMAIN Insert(table, t, row)
      PROVE  LegOK(Insert(table, t, row), i)
  BY <1>2 DEF Book, LegOK, IsLinked, Insert
<1>. QED  BY <1>1, <1>2 DEF Book, Insert

(* Inserting an unlinked, valid row keeps the invariant of the table. *)
LEMMA InsertPlainKeeps ==
  ASSUME NEW table, NEW accs, NEW t \in TxnIds, t \notin DOMAIN table,
         NEW row, NEW account \in accs, NEW amount,
         PlainRow(row, account, amount), Rows(table, accs), Book(table)
  PROVE  /\ Rows(Insert(table, t, row), accs)
         /\ Book(Insert(table, t, row))
         /\ DOMAIN Insert(table, t, row) = DOMAIN table \cup {t}
<1>1. /\ row \in Row /\ row.account \in accs /\ row.peer = None
      /\ Assignable(row.account, row.cat, row.rta)
  BY DEF PlainRow
<1>. QED  BY <1>1, InsertKeeps

(* A deletion unlinks the survivors of the rows it takes.                  *)
LEMMA DeleteKeeps ==
  ASSUME NEW table, NEW accs, NEW ids, Rows(table, accs), Book(table)
  PROVE  /\ Rows(Delete(table, ids), accs)
         /\ Book(Delete(table, ids))
         /\ DOMAIN Delete(table, ids) = DOMAIN table \ ids
<1>1. Rows(Delete(table, ids), accs)
  BY UnlinkedTyped DEF Rows, Delete
<1>2. ASSUME NEW i \in DOMAIN Delete(table, ids)
      PROVE  LegOK(Delete(table, ids), i)
  <2>1. ~IsLinked(table[i]) \/ table[i].peer \in ids
        => Delete(table, ids)[i].peer = None
    BY LedgerAssumption, UnlinkedTyped DEF Rows, Delete, IsLinked
  <2>2. CASE IsLinked(table[i]) /\ table[i].peer \notin ids
    <3>1. LET u == table[i].peer
          IN  /\ u \in DOMAIN Delete(table, ids) \ {i}
              /\ Delete(table, ids)[i] = table[i]
              /\ Delete(table, ids)[u] = table[u]
      BY <1>2, <2>2 DEF Book, LegOK, Delete
    <3>. QED  BY <1>2, <2>2, <3>1 DEF Book, LegOK, Delete
  <2>. QED  BY <2>1, <2>2 DEF LegOK, IsLinked
<1>. QED  BY <1>1, <1>2 DEF Book, Delete

(* What link_transfer's checks guarantee is what a pair needs.             *)
LEMMA LinkKeeps ==
  ASSUME NEW table, NEW accs, NEW t \in DOMAIN table, NEW u \in DOMAIN table,
         Rows(table, accs), Book(table), CanLink(table, t, u)
  PROVE  /\ Rows(LinkPair(table, t, u), accs)
         /\ Book(LinkPair(table, t, u))
         /\ DOMAIN LinkPair(table, t, u) = DOMAIN table
<1>. DEFINE new == LinkPair(table, t, u)
<1>1. /\ DOMAIN new = DOMAIN table
      /\ t # u
      /\ new[t] = AsLeg(table[t], u) /\ new[u] = AsLeg(table[u], t)
      /\ \A i \in DOMAIN table \ {t, u} : new[i] = table[i]
  BY DEF Rows, LinkPair, CanLink
<1>2. new = [i \in DOMAIN new |-> new[i]]
  BY DEF Rows, LinkPair
<1>. HIDE DEF new
<1>3. /\ table[t] \in Row /\ table[u] \in Row
      /\ t \in TxnIds /\ u \in TxnIds
      /\ table[t].amount \in Int /\ table[u].amount \in Int
  BY LedgerAssumption DEF Rows, Row
<1>4. /\ new[t] \in Row /\ new[t].account = table[t].account
      /\ new[t].amount = table[t].amount /\ new[t].peer = u
      /\ new[t].cat = None /\ new[t].rta = FALSE
      /\ new[u] \in Row /\ new[u].account = table[u].account
      /\ new[u].amount = table[u].amount /\ new[u].peer = t
      /\ new[u].cat = None /\ new[u].rta = FALSE
  <2>1. LET leg == AsLeg(table[t], u)
        IN  /\ leg \in Row /\ leg.account = table[t].account
            /\ leg.amount = table[t].amount /\ leg.peer = u
            /\ leg.cat = None /\ leg.rta = FALSE
    BY <1>3, AsLegTyped
  <2>2. LET leg == AsLeg(table[u], t)
        IN  /\ leg \in Row /\ leg.account = table[u].account
            /\ leg.amount = table[u].amount /\ leg.peer = t
            /\ leg.cat = None /\ leg.rta = FALSE
    BY <1>3, AsLegTyped
  <2>. QED  BY <1>1, <2>1, <2>2
<1>5. ASSUME NEW i \in DOMAIN table \ {t, u}
      PROVE  LegOK(new, i)
  <2>1. table[i].peer \notin {t, u}
    BY <1>5, LedgerAssumption DEF Book, LegOK, CanLink, IsLinked, Rows
  <2>. QED  BY <1>1, <1>5, <2>1 DEF Book, LegOK, IsLinked
<1>6. LegOK(new, t) /\ LegOK(new, u)
  BY <1>1, <1>3, <1>4 DEF LegOK, CanLink
<1>7. Rows(new, accs)
  <2>1. \A a : Assignable(a, None, FALSE)
    BY DEF Assignable, InScope
  <2>2. \A i \in {t, u} : Assignable(new[i].account, new[i].cat, new[i].rta)
    BY <1>4, <2>1
  <2>. QED  BY <1>1, <1>2, <1>4, <2>2 DEF Rows
<1>. QED  BY <1>1, <1>5, <1>6, <1>7 DEF Book, new

(* Taking a pair apart keeps the invariant: no other row pointed at either. *)
LEMMA UnlinkKeeps ==
  ASSUME NEW table, NEW accs, NEW t \in DOMAIN table, IsLinked(table[t]),
         Rows(table, accs), Book(table)
  PROVE  /\ Rows(UnlinkPair(table, t, table[t].peer), accs)
         /\ Book(UnlinkPair(table, t, table[t].peer))
         /\ DOMAIN UnlinkPair(table, t, table[t].peer) = DOMAIN table
<1>. DEFINE u == table[t].peer
            new == UnlinkPair(table, t, u)
<1>1. u \in DOMAIN table /\ t # u /\ table[u].peer = t
  BY DEF Book, LegOK
<1>2. /\ DOMAIN new = DOMAIN table
      /\ new = [i \in DOMAIN new |-> new[i]]
      /\ new[t] = Unlinked(table[t]) /\ new[u] = Unlinked(table[u])
      /\ \A i \in DOMAIN table \ {t, u} : new[i] = table[i]
  BY <1>1 DEF Rows, UnlinkPair
<1>. HIDE DEF new
<1>3. \A i \in {t, u} :
        /\ new[i] \in Row /\ new[i].peer = None
        /\ new[i].account = table[i].account
        /\ new[i].cat = table[i].cat /\ new[i].rta = table[i].rta
  BY <1>1, <1>2, UnlinkedTyped DEF Rows
<1>4. Rows(new, accs)
  BY <1>2, <1>3 DEF Rows
<1>5. ASSUME NEW i \in DOMAIN table \ {t, u}
      PROVE  LegOK(new, i)
  <2>1. IsLinked(table[i]) => table[i].peer \notin {t, u}
    BY <1>1, <1>5 DEF Book, LegOK
  <2>. QED  BY <1>2, <1>5, <2>1 DEF Book, LegOK, IsLinked
<1>6. LegOK(new, t) /\ LegOK(new, u)
  BY <1>3 DEF LegOK, IsLinked
<1>. QED  BY <1>1, <1>2, <1>4, <1>5, <1>6 DEF Book, new

(* A mirrored amount leaves every other column alone. *)
LEMMA WithAmountTyped ==
  ASSUME NEW row \in Row, NEW amount \in Amounts
  PROVE  /\ WithAmount(row, amount) \in Row
         /\ WithAmount(row, amount).amount = amount
         /\ WithAmount(row, amount).account = row.account
         /\ WithAmount(row, amount).peer = row.peer
         /\ WithAmount(row, amount).cat = row.cat
         /\ WithAmount(row, amount).rta = row.rta
BY DEF Row, WithAmount

(* What an edited row must look like for its pair to stay one.             *)
FitsPeer(table, row) ==
  IsLinked(row) => /\ row.cat = None /\ row.rta = FALSE
                   /\ row.account # table[row.peer].account

(* An edit that leaves the link alone and classifies no leg keeps the pair *)
(* equal and opposite, since a changed amount is mirrored.                 *)
LEMMA EditKeeps ==
  ASSUME NEW table, NEW accs, NEW t \in DOMAIN table, NEW row \in Row,
         Rows(table, accs), Book(table),
         row.account \in accs, Assignable(row.account, row.cat, row.rta),
         row.peer = table[t].peer,
         FitsPeer(table, row)
  PROVE  /\ Rows(Edit(table, t, row), accs)
         /\ Book(Edit(table, t, row))
         /\ DOMAIN Edit(table, t, row) = DOMAIN table
<1>. USE DEF FitsPeer
<1>. DEFINE new == Edit(table, t, row)
            u == row.peer
<1>1. /\ DOMAIN new = DOMAIN table
      /\ t # u => new[t] = row
      /\ \A i \in DOMAIN table \ {t, u} : new[i] = table[i]
      /\ u \in DOMAIN table /\ u # t =>
           new[u] = IF row.amount # table[t].amount
                    THEN WithAmount(table[u], -row.amount) ELSE table[u]
  BY DEF Edit
<1>2. new = [i \in DOMAIN new |-> new[i]]
  BY DEF Edit
<1>3. new[t] = row
  BY DEF Edit
<1>. HIDE DEF new
<1>4. /\ table[t] \in Row
      /\ row.amount \in Amounts /\ -row.amount \in Amounts
      /\ row.amount \in Int /\ table[t].amount \in Int
  BY LedgerAssumption DEF Rows, Row
<1>5. CASE ~IsLinked(row)
  <2>1. u = None /\ u \notin DOMAIN table
    BY <1>5, LedgerAssumption DEF IsLinked, Rows
  <2>2. \A i \in DOMAIN table \ {t} : new[i] = table[i]
    BY <1>1, <2>1
  <2>3. Rows(new, accs)
    BY <1>1, <1>2, <1>3, <2>2 DEF Rows
  <2>4. ASSUME NEW i \in DOMAIN table
        PROVE  LegOK(new, i)
    <3>1. CASE i = t
      BY <1>3, <1>5, <3>1 DEF LegOK
    <3>2. CASE i # t
      <4>1. ~IsLinked(table[t])
        BY <1>5 DEF IsLinked
      <4>2. IsLinked(table[i]) => table[i].peer # t
        BY <2>4, <3>2, <4>1, LedgerAssumption DEF Book, LegOK, IsLinked, Rows
      <4>. QED  BY <1>1, <2>2, <2>4, <3>2, <4>2 DEF Book, LegOK, IsLinked
    <3>. QED  BY <3>1, <3>2
  <2>. QED  BY <1>1, <2>3, <2>4 DEF Book, new
<1>6. CASE IsLinked(row)
  <2>1. /\ u \in DOMAIN table /\ u # t /\ table[u].peer = t
        /\ table[u].amount = -table[t].amount
        /\ table[u].cat = None /\ table[u].rta = FALSE
        /\ table[u] \in Row
        /\ table[u].account \in accs
        /\ Assignable(table[u].account, table[u].cat, table[u].rta)
        /\ row.account # table[u].account
    <3>1. IsLinked(table[t])
      BY <1>6 DEF IsLinked
    <3>2. u \in DOMAIN table /\ u # t /\ table[u].peer = t
      BY <3>1 DEF Book, LegOK
    <3>3. IsLinked(table[u])
      BY <3>2, LedgerAssumption DEF IsLinked, Rows
    <3>. QED  BY <1>6, <3>1, <3>2, <3>3 DEF Book, LegOK, Rows
  <2>2. /\ new[u] \in Row /\ new[u].peer = t
        /\ new[u].amount = -row.amount
        /\ new[u].account = table[u].account
        /\ new[u].cat = table[u].cat /\ new[u].rta = table[u].rta
    <3>1. LET leg == WithAmount(table[u], -row.amount)
          IN  /\ leg \in Row /\ leg.peer = t /\ leg.amount = -row.amount
              /\ leg.account = table[u].account
              /\ leg.cat = table[u].cat /\ leg.rta = table[u].rta
      BY <1>4, <2>1, WithAmountTyped
    <3>2. CASE row.amount # table[t].amount
      BY <1>1, <2>1, <3>1, <3>2
    <3>3. CASE row.amount = table[t].amount
      BY <1>1, <2>1, <3>3
    <3>. QED  BY <3>2, <3>3
  <2>3. Rows(new, accs)
    BY <1>1, <1>2, <1>3, <2>1, <2>2 DEF Rows
  <2>4. LegOK(new, t) /\ LegOK(new, u)
    BY <1>1, <1>3, <1>4, <1>6, <2>1, <2>2 DEF LegOK
  <2>5. ASSUME NEW i \in DOMAIN table \ {t, u}
        PROVE  LegOK(new, i)
    <3>1. IsLinked(table[i]) => table[i].peer \notin {t, u}
      BY <2>1, <2>5 DEF Book, LegOK
    <3>. QED  BY <1>1, <2>5, <3>1 DEF Book, LegOK, IsLinked
  <2>. QED  BY <1>1, <2>1, <2>3, <2>4, <2>5 DEF Book, new
<1>. QED  BY <1>5, <1>6

(* Candidates only ever name rows of the table they were derived from.     *)
LEMMA SyncTyped ==
  ASSUME NEW table, NEW pairs, NEW order,
         Pairs(table, pairs), Range(order) \subseteq DOMAIN table
  PROVE  Pairs(table, SyncCandidates(table, pairs, order))
BY DEF Pairs, SyncCandidates, Offers

(* Pairs over a table are pairs over a larger one. *)
LEMMA PairsGrow ==
  ASSUME NEW table, NEW new, NEW pairs,
         Pairs(table, pairs), DOMAIN table \subseteq DOMAIN new
  PROVE  Pairs(new, pairs)
BY DEF Pairs

(* The cascade leaves only pairs of rows that are still there. *)
LEMMA CascadeTyped ==
  ASSUME NEW table, NEW new, NEW pairs, NEW ids,
         Pairs(table, pairs), DOMAIN new = DOMAIN table \ ids
  PROVE  Pairs(new, CascadeCandidates(pairs, ids))
BY DEF Pairs, CascadeCandidates

(* The ids of the orders that the handlers pass to SyncCandidates. *)
LEMMA RangeOfPair == \A t, u : Range(<<t>>) = {t} /\ Range(<<t, u>>) = {t, u}
BY DEF Range

-----------------------------------------------------------------------------
(* One lemma per handler: it keeps the invariant.                          *)

LEMMA StoreStep ==
  ASSUME IInv, NEW t \in TxnIds, NEW row \in Row, t \notin DOMAIN txns,
         row.peer = None, row.account \in accounts,
         Assignable(row.account, row.cat, row.rta), Store(t, row)
  PROVE  IInv'
<1>1. /\ Rows(txns', accounts') /\ Book(txns')
      /\ DOMAIN txns' = DOMAIN txns \cup {t}
  BY InsertKeeps DEF IInv, Store
<1>2. Pairs(txns', candidates')
  BY <1>1, PairsGrow, SyncTyped, RangeOfPair DEF IInv, Store
<1>. QED  BY <1>1, <1>2 DEF IInv, Store

(* POST /transactions keeps the invariant. *)
LEMMA CreateStep ==
  ASSUME IInv, NEW t \in TxnIds, NEW req \in Request, CreateTransaction(t, req)
  PROVE  IInv'
<1>. DEFINE row == NewRow(req, None)
<1>1. /\ row \in Row /\ row.account = req.account /\ row.cat = req.cat
      /\ row.rta = req.rta /\ row.peer = None
  BY NewRowTyped, LedgerAssumption DEF CreateTransaction, Request
<1>. HIDE DEF row
<1>. QED  BY <1>1, StoreStep DEF CreateTransaction, row

(* Requests and the rows the sync drafts have the same columns.            *)
Draft == [account : Accounts, amount : Amounts, date : Dates, payee : Payees,
          cat : Categories \cup {None}, rta : BOOLEAN,
          split : SplitInputs \cup {<<>>, None}]

(* What an import builds before the category is settled is a request. *)
LEMMA DraftTyped ==
  /\ Request \subseteq Draft
  /\ \A account \in Accounts, amount \in Amounts, date \in Dates, payee \in Payees :
       Plain(account, amount, date, payee) \in Draft
BY LedgerAssumption DEF Request, Draft, Plain

(* Settling the category leaves every other column alone. *)
LEMMA WithCategoryFields ==
  ASSUME NEW req \in Draft, NEW cat \in Categories \cup {None},
         NEW new, new = WithCategory(req, cat)
  PROVE  /\ new.account = req.account /\ new.amount = req.amount
         /\ new.date = req.date /\ new.payee = req.payee
         /\ new.cat = cat /\ new.rta = req.rta /\ new.split = req.split
BY DEF Draft, WithCategory

(* An imported YNAB row, its category dropped or suggested, keeps it. *)
LEMMA ImportYnabStep ==
  ASSUME IInv, NEW t \in TxnIds, NEW req \in Request,
         NEW suggested \in Categories \cup {None},
         ImportYnabRow(t, req, suggested)
  PROVE  IInv'
<1>1. PICK cat \in Categories \cup {None} :
        InScope(req.account, cat) /\ Store(t, NewRow(WithCategory(req, cat), None))
  BY DEF ImportYnabRow, Request, InScope
<1>. DEFINE new == WithCategory(req, cat)
            row == NewRow(new, None)
<1>2. /\ req.account \in Accounts /\ req.amount \in Amounts
      /\ req.date \in Dates /\ req.payee \in Payees
      /\ req.rta \in BOOLEAN /\ ~req.rta /\ req.split = <<>>
      /\ t \notin DOMAIN txns /\ req.account \in accounts
  BY LedgerAssumption DEF ImportYnabRow, Request
<1>3. /\ new.account = req.account /\ new.amount = req.amount
      /\ new.date = req.date /\ new.payee = req.payee
      /\ new.cat = cat /\ new.rta = req.rta /\ new.split = req.split
  BY WithCategoryFields, DraftTyped
<1>. HIDE DEF new
<1>4. /\ row \in Row /\ row.account = req.account /\ row.cat = cat
      /\ row.rta = req.rta /\ row.peer = None
  BY <1>2, <1>3, NewRowTyped
<1>. HIDE DEF row
<1>5. Assignable(row.account, row.cat, row.rta)
  BY <1>1, <1>2, <1>4 DEF Assignable
<1>. QED  BY <1>1, <1>2, <1>4, <1>5, StoreStep DEF row, new

(* The row a PATCH merges has the columns of Row and the stored links. *)
LEMMA MergedTyped ==
  ASSUME NEW row \in Row, NEW req \in Request
  PROVE  /\ Merged(row, req) \in Row
         /\ Merged(row, req).account = req.account
         /\ Merged(row, req).cat = req.cat /\ Merged(row, req).rta = req.rta
         /\ Merged(row, req).peer = row.peer
BY LedgerAssumption DEF Row, Request, Merged

(* PATCH keeps it: the guards on a leg are exactly what the mirroring needs. *)
LEMMA UpdateStep ==
  ASSUME IInv, NEW t \in TxnIds, NEW req \in Request, UpdateTransaction(t, req)
  PROVE  IInv'
<1>. DEFINE row == Merged(txns[t], req)
<1>1. t \in DOMAIN txns /\ txns[t] \in Row
  BY DEF UpdateTransaction, IInv, Rows
<1>2. /\ row \in Row /\ row.account = req.account /\ row.cat = req.cat
      /\ row.rta = req.rta /\ row.peer = txns[t].peer
  BY <1>1, MergedTyped
<1>. HIDE DEF row
<1>3. FitsPeer(txns, row)
  BY <1>2 DEF FitsPeer, UpdateTransaction, LegEditable, IsLinked, Request
<1>4. row.account \in accounts /\ Assignable(row.account, row.cat, row.rta)
  BY <1>2 DEF UpdateTransaction
<1>5. /\ Rows(txns', accounts') /\ Book(txns') /\ DOMAIN txns' = DOMAIN txns
  <2>1. txns' = Edit(txns, t, row) /\ accounts' = accounts
    BY DEF UpdateTransaction, row
  <2>2. Rows(txns, accounts) /\ Book(txns)
    BY DEF IInv
  <2>3. /\ Rows(Edit(txns, t, row), accounts) /\ Book(Edit(txns, t, row))
        /\ DOMAIN Edit(txns, t, row) = DOMAIN txns
    BY <1>1, <1>2, <1>3, <1>4, <2>2, EditKeeps
  <2>. QED  BY <2>1, <2>3
<1>6. Pairs(txns', candidates')
  BY <1>1, <1>5, PairsGrow, SyncTyped, RangeOfPair DEF IInv, UpdateTransaction
<1>. QED  BY <1>5, <1>6 DEF IInv, UpdateTransaction

(* A bulk edit changes category and flag only, and never leaves both. *)
LEMMA RecategorizedTyped ==
  ASSUME NEW row \in Row, NEW cat \in Categories \cup {None}
  PROVE  /\ Recategorized(row, cat) \in Row
         /\ Recategorized(row, cat).account = row.account
         /\ Recategorized(row, cat).peer = row.peer
         /\ Recategorized(row, cat).cat = cat
         /\ Recategorized(row, cat).rta = (row.rta /\ cat = None)
BY DEF Row, Recategorized

(* A bulk edit keeps it: legs are skipped, other rows are checked. *)
LEMMA BulkStep ==
  ASSUME IInv, NEW ids, NEW cat \in Categories \cup {None},
         BulkSetCategory(ids, cat)
  PROVE  IInv'
<1>. DEFINE Takes(t) == ~(\/ t \notin ids
                          \/ IsLinked(txns[t]) \/ IsSplit(txns[t])
                          \/ ~InScope(txns[t].account, cat))
<1>1. /\ DOMAIN txns' = DOMAIN txns
      /\ txns' = [t \in DOMAIN txns' |-> txns'[t]]
      /\ \A t \in DOMAIN txns :
           txns'[t] = IF Takes(t) THEN Recategorized(txns[t], cat) ELSE txns[t]
  BY DEF BulkSetCategory
<1>2. ASSUME NEW t \in DOMAIN txns, Takes(t)
      PROVE  /\ txns'[t] \in Row
             /\ txns'[t].account = txns[t].account
             /\ txns'[t].peer = None
             /\ Assignable(txns'[t].account, txns'[t].cat, txns'[t].rta)
  <2>1. txns[t] \in Row /\ txns[t].peer = None /\ InScope(txns[t].account, cat)
    BY <1>2 DEF IInv, Rows, IsLinked
  <2>2. LET row == Recategorized(txns[t], cat)
        IN  /\ row \in Row /\ row.account = txns[t].account
            /\ row.peer = None
            /\ row.cat = cat /\ row.rta = (txns[t].rta /\ cat = None)
    BY <2>1, RecategorizedTyped
  <2>3. txns'[t] = Recategorized(txns[t], cat)
    BY <1>1, <1>2
  <2>. QED  BY <2>1, <2>2, <2>3 DEF Assignable
<1>3. \A t \in DOMAIN txns : ~Takes(t) => txns'[t] = txns[t]
  BY <1>1
<1>4. \A t \in DOMAIN txns : IsLinked(txns[t]) => ~Takes(t)
  OBVIOUS
<1>. HIDE DEF Takes
<1>5. Rows(txns', accounts')
  BY <1>1, <1>2, <1>3 DEF IInv, Rows, BulkSetCategory
<1>6. ASSUME NEW t \in DOMAIN txns
      PROVE  LegOK(txns', t)
  <2>1. CASE Takes(t)
    BY <1>2, <2>1 DEF LegOK, IsLinked
  <2>2. CASE ~Takes(t) /\ IsLinked(txns[t])
    <3>1. /\ txns[t].peer \in DOMAIN txns
          /\ IsLinked(txns[txns[t].peer])
      BY <2>2, LedgerAssumption DEF IInv, Book, LegOK, IsLinked, Rows
    <3>. QED  BY <1>1, <1>3, <1>4, <2>2, <3>1 DEF IInv, Book, LegOK
  <2>3. CASE ~Takes(t) /\ ~IsLinked(txns[t])
    BY <1>3, <2>3 DEF LegOK
  <2>. QED  BY <2>1, <2>2, <2>3
<1>. QED  BY <1>1, <1>5, <1>6 DEF IInv, Book, Pairs, BulkSetCategory

(* Creating both legs keeps it: two inserts, then one link. *)
LEMMA CreateTransferStep ==
  ASSUME IInv, NEW t \in TxnIds, NEW u \in TxnIds, NEW from \in Accounts,
         NEW to \in Accounts, NEW amount \in Amounts, NEW date \in Dates,
         NEW payee \in Payees,
         CreateTransfer(t, u, from, to, amount, date, payee)
  PROVE  IInv'
<1>. DEFINE minus == -amount
            out == NewRow(Plain(from, minus, date, payee), None)
            in == NewRow(Plain(to, amount, date, payee), None)
            one == Insert(txns, t, out)
            two == Insert(one, u, in)
<1>1. /\ minus \in Amounts /\ minus = -amount /\ minus # 0
      /\ amount > 0 /\ amount \in Int
      /\ t # u /\ t \notin DOMAIN txns /\ u \notin DOMAIN txns
      /\ from # to /\ from \in accounts /\ to \in accounts
  BY LedgerAssumption DEF CreateTransfer
<1>. HIDE DEF minus
<1>2. PlainRow(out, from, minus) /\ PlainRow(in, to, amount)
  BY <1>1, PlainRowTyped
<1>. HIDE DEF out, in
<1>3. /\ Rows(one, accounts) /\ Book(one) /\ DOMAIN one = DOMAIN txns \cup {t}
      /\ one[t] = out
  <2>1. one[t] = out
    BY DEF Insert
  <2>. QED  BY <1>1, <1>2, <2>1, InsertPlainKeeps DEF IInv
<1>. HIDE DEF one
<1>4. /\ Rows(two, accounts) /\ Book(two) /\ DOMAIN two = DOMAIN one \cup {u}
  <2>1. u \notin DOMAIN one /\ to \in accounts /\ PlainRow(in, to, amount)
    BY <1>1, <1>2, <1>3
  <2>2. Rows(one, accounts) /\ Book(one)
    BY <1>3
  <2>. QED  BY <2>1, <2>2, InsertPlainKeeps
<1>5. two[t] = out /\ two[u] = in
  BY <1>1, <1>3 DEF Insert
<1>6. CanLink(two, t, u)
  BY <1>1, <1>2, <1>5 DEF CanLink, IsLinked, PlainRow
<1>7. txns' = LinkPair(two, t, u) /\ candidates' = candidates
      /\ tombstones' = tombstones /\ accounts' = accounts
  BY DEF CreateTransfer, two, one, out, in, minus
<1>. HIDE DEF two
<1>8. /\ Rows(txns', accounts') /\ Book(txns')
      /\ DOMAIN txns' = DOMAIN txns \cup {t, u}
  <2>1. /\ Rows(LinkPair(two, t, u), accounts) /\ Book(LinkPair(two, t, u))
        /\ DOMAIN LinkPair(two, t, u) = DOMAIN two
    BY <1>3, <1>4, <1>6, LinkKeeps
  <2>. QED  BY <1>3, <1>4, <1>7, <2>1
<1>. QED  BY <1>7, <1>8, PairsGrow DEF IInv

(* Linking two linkable rows keeps it. *)
LEMMA LinkStep ==
  ASSUME IInv, NEW table, NEW t \in DOMAIN table, NEW u \in DOMAIN table,
         Rows(table, accounts), Book(table),
         DOMAIN txns \subseteq DOMAIN table, Link(table, t, u)
  PROVE  IInv'
<1>1. /\ Rows(txns', accounts') /\ Book(txns')
      /\ DOMAIN txns' = DOMAIN table
  BY LinkKeeps DEF Link
<1>2. Pairs(txns', candidates')
  BY <1>1, PairsGrow, SyncTyped, RangeOfPair DEF IInv, Link
<1>. QED  BY <1>1, <1>2 DEF IInv, Link

(* Linking a row to a leg created for it keeps it. *)
LEMMA LinkNewLegStep ==
  ASSUME IInv, NEW t \in TxnIds, NEW u \in TxnIds, NEW to \in Accounts,
         LinkNewLeg(t, u, to)
  PROVE  IInv'
<1>. DEFINE minus == -txns[t].amount
            leg == NewRow(Plain(to, minus, txns[t].date, txns[t].payee), None)
            table == Insert(txns, u, leg)
<1>1. /\ t \in DOMAIN txns /\ u \notin DOMAIN txns /\ to \in accounts
      /\ minus \in Amounts /\ txns[t].date \in Dates
      /\ txns[t].payee \in Payees
  BY LedgerAssumption DEF LinkNewLeg, IInv, Rows, Row
<1>2. Link(table, t, u)
  BY DEF LinkNewLeg
<1>. HIDE DEF minus
<1>3. PlainRow(leg, to, minus)
  BY <1>1, PlainRowTyped
<1>. HIDE DEF leg
<1>4. /\ Rows(table, accounts) /\ Book(table)
      /\ DOMAIN table = DOMAIN txns \cup {u}
  BY <1>1, <1>3, InsertPlainKeeps DEF IInv
<1>. HIDE DEF table
<1>. QED  BY <1>1, <1>2, <1>4, LinkStep

(* Unlinking keeps it. *)
LEMMA UnlinkStep ==
  ASSUME IInv, NEW t \in TxnIds, Unlink(t)
  PROVE  IInv'
<1>1. /\ t \in DOMAIN txns /\ IsLinked(txns[t])
      /\ txns[t].peer \in DOMAIN txns
  BY DEF Unlink, IInv, Book, LegOK
<1>2. /\ Rows(txns', accounts') /\ Book(txns') /\ DOMAIN txns' = DOMAIN txns
  BY <1>1, UnlinkKeeps DEF Unlink, IInv
<1>3. Pairs(txns', candidates')
  BY <1>1, <1>2, PairsGrow, SyncTyped, RangeOfPair DEF IInv, Unlink
<1>. QED  BY <1>2, <1>3 DEF IInv, Unlink

(* Deleting keeps it: whoever pointed at a deleted row no longer does. *)
LEMMA DeleteStep ==
  ASSUME IInv, NEW ids, NEW order, DeleteTransactions(ids, order)
  PROVE  IInv'
<1>. DEFINE legs == AllLegs(txns, ids)
            kept == KeptPeers(txns, ids)
<1>1. kept \subseteq DOMAIN txns \ legs
  BY DEF DeleteTransactions, IInv, Book, LegOK, AllLegs, KeptPeers, PeersOutside
<1>2. Range(order) \subseteq kept
  BY DEF DeleteTransactions, SetToSeqs, Range
<1>3. legs \subseteq DOMAIN txns
  BY DEF DeleteTransactions, IInv, Book, LegOK, AllLegs, KeptPeers, PeersOutside
<1>4. /\ txns' = Delete(txns, legs) /\ accounts' = accounts
      /\ tombstones' = tombstones \cup ExtIdsOf(txns, legs)
      /\ candidates' =
           SyncCandidates(txns', CascadeCandidates(candidates, legs), order)
  BY DEF DeleteTransactions
<1>5. ExtIdsOf(txns, legs) \subseteq ExtIds
  BY <1>3 DEF ExtIdsOf, IInv, Rows, Row
<1>. HIDE DEF legs, kept
<1>6. /\ Rows(txns', accounts') /\ Book(txns')
      /\ DOMAIN txns' = DOMAIN txns \ legs
  BY <1>4, DeleteKeeps DEF IInv
<1>7. Pairs(txns', candidates')
  <2>1. Pairs(txns', CascadeCandidates(candidates, legs))
    BY <1>6, CascadeTyped DEF IInv
  <2>2. Range(order) \subseteq DOMAIN txns'
    BY <1>1, <1>2, <1>6
  <2>. QED  BY <1>4, <2>1, <2>2, SyncTyped
<1>. QED  BY <1>4, <1>5, <1>6, <1>7 DEF IInv

(* A balance adjustment keeps it. *)
LEMMA SetAccountBalanceStep ==
  ASSUME IInv, NEW t \in TxnIds, NEW a \in Accounts, NEW delta \in Amounts,
         NEW date \in Dates, NEW payee \in Payees,
         SetAccountBalance(t, a, delta, date, payee)
  PROVE  IInv'
<1>. DEFINE row == NewRow(Plain(a, delta, date, payee), None)
<1>1. PlainRow(row, a, delta)
  BY PlainRowTyped
<1>2. /\ txns' = Insert(txns, t, row) /\ t \notin DOMAIN txns /\ a \in accounts
      /\ UNCHANGED <<candidates, tombstones, accounts>>
  BY DEF SetAccountBalance
<1>. HIDE DEF row
<1>3. /\ Rows(txns', accounts) /\ Book(txns')
      /\ DOMAIN txns' = DOMAIN txns \cup {t}
  BY <1>1, <1>2, InsertPlainKeeps DEF IInv
<1>. QED  BY <1>2, <1>3, PairsGrow DEF IInv

(* A reset keeps it, trivially: nothing is left. *)
LEMMA ResetStep ==
  ASSUME IInv, ResetTransactions
  PROVE  IInv'
BY DEF ResetTransactions, IInv, Rows, Book, Pairs

(* Unlinking a bank keeps it by the two foreign keys. *)
LEMMA UnlinkConnectionStep ==
  ASSUME IInv, NEW c, UnlinkConnection(c)
  PROVE  IInv'
<1>. DEFINE gone == {t \in DOMAIN txns : txns[t].account \in c}
<1>1. /\ txns' = Delete(txns, gone) /\ tombstones' = tombstones
      /\ candidates' = CascadeCandidates(candidates, gone)
      /\ accounts' = accounts \ c
  BY DEF UnlinkConnection
<1>2. /\ Rows(txns', accounts) /\ Book(txns')
      /\ DOMAIN txns' = DOMAIN txns \ gone
  BY <1>1, DeleteKeeps DEF IInv
<1>3. \A t \in DOMAIN txns' : txns'[t].account = txns[t].account
  BY <1>1, <1>2, UnlinkedTyped DEF Delete, IInv, Rows
<1>4. Rows(txns', accounts')
  BY <1>1, <1>2, <1>3 DEF Rows
<1>5. Pairs(txns', candidates')
  BY <1>1, <1>2, CascadeTyped DEF IInv
<1>. QED  BY <1>1, <1>2, <1>4, <1>5 DEF IInv

(* A new bank row keeps it. *)
LEMMA ImportBankStep ==
  ASSUME IInv, NEW t \in TxnIds, NEW e \in ExtIds, NEW amount \in Amounts,
         NEW date \in Dates, NEW payee \in Payees,
         NEW suggested \in Categories \cup {None},
         ImportBankTransaction(t, e, amount, date, payee, suggested)
  PROVE  IInv'
<1>. DEFINE account == ImportAccount[e]
            plain == Plain(account, amount, date, payee)
            new == WithCategory(plain, suggested)
            row == NewRow(new, e)
<1>1. /\ account \in accounts /\ account \in Accounts
      /\ t \notin DOMAIN txns /\ InScope(account, suggested)
      /\ Store(t, row)
  BY DEF ImportBankTransaction, IInv
<1>2. /\ plain \in Draft
      /\ plain.account = account /\ plain.amount = amount
      /\ plain.date = date /\ plain.payee = payee
      /\ plain.rta = FALSE /\ plain.split = <<>>
  <2>1. plain \in Draft
    BY <1>1, DraftTyped
  <2>. QED  BY <2>1 DEF Plain
<1>. HIDE DEF account, plain
<1>3. /\ new.account = plain.account /\ new.amount = plain.amount
      /\ new.date = plain.date /\ new.payee = plain.payee
      /\ new.cat = suggested /\ new.rta = plain.rta /\ new.split = plain.split
  BY <1>2, WithCategoryFields
<1>. HIDE DEF new
<1>4. /\ row \in Row /\ row.account = account /\ row.cat = suggested
      /\ row.rta = FALSE /\ row.peer = None
  BY <1>1, <1>2, <1>3, NewRowTyped
<1>. HIDE DEF row
<1>5. Assignable(row.account, row.cat, row.rta)
  BY <1>1, <1>4 DEF Assignable
<1>. QED  BY <1>1, <1>4, <1>5, StoreStep

(* A revision changes amount and date only. *)
LEMMA RevisedTyped ==
  ASSUME NEW row \in Row, NEW amount \in Amounts, NEW date \in Dates,
         NEW new, new = Revised(row, amount, date)
  PROVE  /\ new \in Row /\ new.account = row.account
         /\ new.peer = row.peer
         /\ new.cat = row.cat /\ new.rta = row.rta
BY DEF Row, Revised

(* A bank revision keeps it: the peer follows, or the pair is taken apart. *)
LEMMA ReviseStep ==
  ASSUME IInv, NEW t \in TxnIds, NEW amount \in Amounts, NEW date \in Dates,
         ReviseBankTransaction(t, amount, date)
  PROVE  IInv'
<1>. DEFINE peer == txns[t].peer
            revised == Revised(txns[t], amount, date)
<1>1. /\ t \in DOMAIN txns /\ txns[t] \in Row
      /\ Rows(txns, accounts) /\ Book(txns)
      /\ txns[t].account \in accounts
      /\ Assignable(txns[t].account, txns[t].cat, txns[t].rta)
  BY DEF ReviseBankTransaction, IInv, Rows
<1>2. /\ revised \in Row /\ revised.account = txns[t].account
      /\ revised.peer = peer
      /\ revised.cat = txns[t].cat /\ revised.rta = txns[t].rta
  BY <1>1, RevisedTyped
<1>3. tombstones' = tombstones /\ accounts' = accounts
  BY DEF ReviseBankTransaction
<1>4. CASE /\ txns' = Edit(txns, t, revised)
           /\ candidates' = SyncCandidates(txns', candidates, <<t>>)
  <2>. HIDE DEF revised
  <2>1. FitsPeer(txns, revised)
    BY <1>1, <1>2 DEF FitsPeer, Book, LegOK, IsLinked
  <2>2. revised.account \in accounts
        /\ Assignable(revised.account, revised.cat, revised.rta)
    BY <1>1, <1>2
  <2>3. /\ Rows(txns', accounts) /\ Book(txns') /\ DOMAIN txns' = DOMAIN txns
    BY <1>1, <1>2, <1>4, <2>1, <2>2, EditKeeps
  <2>4. Pairs(txns', candidates')
    BY <1>1, <1>4, <2>3, PairsGrow, SyncTyped, RangeOfPair DEF IInv
  <2>. QED  BY <1>3, <2>3, <2>4 DEF IInv
<1>5. CASE /\ IsLinked(txns[t])
           /\ txns' = Edit(UnlinkPair(txns, t, peer), t, Unlinked(revised))
           /\ candidates' = SyncCandidates(txns', candidates, <<peer, t>>)
  <2>. DEFINE table == UnlinkPair(txns, t, peer)
              row == Unlinked(revised)
  <2>1. /\ Rows(table, accounts) /\ Book(table) /\ DOMAIN table = DOMAIN txns
    BY <1>1, <1>5, UnlinkKeeps
  <2>2. peer \in DOMAIN txns /\ peer # t
    BY <1>1, <1>5 DEF Book, LegOK
  <2>3. table[t].peer = None
    <3>1. table[t] = Unlinked(txns[t])
      BY <1>1, <2>2 DEF UnlinkPair, Rows
    <3>. QED  BY <1>1, <3>1, UnlinkedTyped
  <2>4. /\ row \in Row /\ row.account = revised.account
        /\ row.peer = None /\ row.cat = revised.cat /\ row.rta = revised.rta
    BY <1>2, UnlinkedTyped
  <2>. HIDE DEF table, revised, row
  <2>5. row.account \in accounts /\ Assignable(row.account, row.cat, row.rta)
    BY <1>1, <1>2, <2>4
  <2>6. FitsPeer(table, row) /\ row.peer = table[t].peer
    BY <2>3, <2>4 DEF FitsPeer, IsLinked
  <2>7. /\ Rows(Edit(table, t, row), accounts) /\ Book(Edit(table, t, row))
        /\ DOMAIN Edit(table, t, row) = DOMAIN table
    BY <1>1, <2>1, <2>4, <2>5, <2>6, EditKeeps
  <2>8. txns' = Edit(table, t, row)
    BY <1>5 DEF table, row
  <2>9. Pairs(txns', candidates')
    BY <1>1, <1>5, <2>1, <2>2, <2>7, <2>8, PairsGrow, SyncTyped, RangeOfPair DEF IInv
  <2>. QED  BY <1>3, <2>1, <2>7, <2>8, <2>9 DEF IInv
<1>. QED  BY <1>4, <1>5 DEF ReviseBankTransaction

(* The opening balance keeps it. *)
LEMMA ImportOpeningStep ==
  ASSUME IInv, NEW t \in TxnIds, NEW e \in ExtIds, NEW delta \in Amounts,
         NEW date \in Dates, NEW payee \in Payees,
         ImportOpeningBalance(t, e, delta, date, payee)
  PROVE  IInv'
<1>. DEFINE account == ImportAccount[e]
            row == NewRow(Plain(account, delta, date, payee), e)
<1>1. /\ txns' = Insert(txns, t, row) /\ t \notin DOMAIN txns
      /\ account \in accounts /\ account \in Accounts
      /\ UNCHANGED <<candidates, tombstones, accounts>>
  BY DEF ImportOpeningBalance, IInv
<1>. HIDE DEF account
<1>2. PlainRow(row, account, delta)
  BY <1>1, PlainRowTyped
<1>. HIDE DEF row
<1>3. /\ Rows(txns', accounts) /\ Book(txns')
      /\ DOMAIN txns' = DOMAIN txns \cup {t}
  BY <1>1, <1>2, InsertPlainKeeps DEF IInv
<1>. QED  BY <1>1, <1>3, PairsGrow DEF IInv

-----------------------------------------------------------------------------
(* The invariant, and what it says of the ledger.                          *)

LEMMA InitHolds == Init => IInv
BY DEF Init, IInv, Rows, Book, Pairs

(* A step that changes nothing keeps it. *)
LEMMA StutterHolds == IInv /\ UNCHANGED vars => IInv'
BY DEF IInv, vars

(* Every step keeps it, by the lemma of the step's handler. *)
LEMMA NextHolds == ASSUME IInv, Next PROVE IInv'
<1>1. ASSUME NEW t \in TxnIds, NEW req \in Request, CreateTransaction(t, req)
      PROVE  IInv'
  BY <1>1, CreateStep
<1>2. ASSUME NEW t \in TxnIds, NEW req \in Request, UpdateTransaction(t, req)
      PROVE  IInv'
  BY <1>2, UpdateStep
<1>3. ASSUME NEW t \in TxnIds, NEW req \in Request,
             NEW suggested \in Categories \cup {None},
             ImportYnabRow(t, req, suggested)
      PROVE  IInv'
  BY <1>3, ImportYnabStep
<1>4. ASSUME NEW t \in TxnIds, NEW u \in TxnIds, NEW from \in Accounts,
             NEW to \in Accounts, NEW amount \in Amounts, NEW date \in Dates,
             NEW payee \in Payees,
             CreateTransfer(t, u, from, to, amount, date, payee)
      PROVE  IInv'
  BY <1>4, CreateTransferStep
<1>5. ASSUME NEW t \in TxnIds, NEW u \in TxnIds, LinkExisting(t, u)
      PROVE  IInv'
  BY <1>5, LinkStep DEF LinkExisting, IInv
<1>6. ASSUME NEW t \in TxnIds, NEW u \in TxnIds, NEW to \in Accounts,
             LinkNewLeg(t, u, to)
      PROVE  IInv'
  BY <1>6, LinkNewLegStep
<1>7. ASSUME NEW t \in TxnIds, Unlink(t)
      PROVE  IInv'
  BY <1>7, UnlinkStep
<1>8. ASSUME NEW ids, NEW cat \in Categories \cup {None}, BulkSetCategory(ids, cat)
      PROVE  IInv'
  BY <1>8, BulkStep
<1>9. ASSUME NEW ids, NEW order, DeleteTransactions(ids, order)
      PROVE  IInv'
  BY <1>9, DeleteStep
<1>10. ASSUME NEW t \in TxnIds, NEW a \in Accounts, NEW delta \in Amounts,
              NEW date \in Dates, NEW payee \in Payees,
              SetAccountBalance(t, a, delta, date, payee)
       PROVE  IInv'
  BY <1>10, SetAccountBalanceStep
<1>11. CASE ResetTransactions
  BY <1>11, ResetStep
<1>12. ASSUME NEW c, UnlinkConnection(c)
       PROVE  IInv'
  BY <1>12, UnlinkConnectionStep
<1>13. ASSUME NEW t \in TxnIds, NEW e \in ExtIds, NEW amount \in Amounts,
              NEW date \in Dates, NEW payee \in Payees,
              ImportOpeningBalance(t, e, amount, date, payee)
       PROVE  IInv'
  BY <1>13, ImportOpeningStep
<1>14. ASSUME NEW t \in TxnIds, NEW e \in ExtIds, NEW amount \in Amounts,
              NEW date \in Dates, NEW payee \in Payees,
              NEW suggested \in Categories \cup {None},
              ImportBankTransaction(t, e, amount, date, payee, suggested)
       PROVE  IInv'
  BY <1>14, ImportBankStep
<1>15. ASSUME NEW t \in TxnIds, NEW amount \in Amounts, NEW date \in Dates,
              ReviseBankTransaction(t, amount, date)
       PROVE  IInv'
  BY <1>15, ReviseStep
<1>. QED
  BY <1>1, <1>2, <1>3, <1>4, <1>5, <1>6, <1>7, <1>8, <1>9, <1>10, <1>11,
     <1>12, <1>13, <1>14, <1>15 DEF Next

(* The invariant holds of every state the handlers and syncs can reach:
   the transfer links of the ledger are sound whatever order they run in. *)
THEOREM Inductive == Spec => []IInv
<1>1. IInv /\ [Next]_vars => IInv'
  BY NextHolds, StutterHolds
<1>. QED  BY InitHolds, <1>1, PTL DEF Spec

(* The tables keep the types and the foreign keys of the schema, whatever  *)
(* handlers and syncs run.                                                 *)
THEOREM TypesHold == Spec => []TypeOK
<1>1. IInv => TypeOK
  BY DEF IInv, Rows, Pairs, TypeOK
<1>. QED  BY Inductive, <1>1, PTL

(* The legs of every transfer point at each other.                         *)
THEOREM TransfersArePairs == Spec => []PeersMutual
<1>1. IInv => PeersMutual
  BY DEF IInv, Book, LegOK, PeersMutual, Linked
<1>. QED  BY Inductive, <1>1, PTL

(* ... are equal and opposite ...                                          *)
THEOREM TransfersCancel == Spec => []LegsCancel
<1>1. IInv => LegsCancel
  BY DEF IInv, Book, LegOK, LegsCancel, Linked
<1>. QED  BY Inductive, <1>1, PTL

(* ... sit in two accounts ...                                             *)
THEOREM TransfersCrossAccounts == Spec => []LegsApart
<1>1. IInv => LegsApart
  BY DEF IInv, Book, LegOK, LegsApart, Linked
<1>. QED  BY Inductive, <1>1, PTL

(* No row is both categorized and Ready to Assign.                         *)
THEOREM NeverBothAssigned == Spec => []NotBothAssigned
<1>1. IInv => NotBothAssigned
  BY DEF IInv, Rows, Assignable, NotBothAssigned
<1>. QED  BY Inductive, <1>1, PTL

-----------------------------------------------------------------------------
(***************************************************************************)
(* Proofs about the bank's rows in TransferLedger: none is imported twice  *)
(* or revived, none leaves without a tombstone, and no step rewrites the   *)
(* amounts of both legs of a transfer between two of them.                 *)
(***************************************************************************)

(* The columns that say what a row is, apart from its link and its use.    *)
SameColumns(r, s) ==
  /\ s.account = r.account /\ s.amount = r.amount /\ s.date = r.date
  /\ s.payee = r.payee /\ s.ext = r.ext /\ s.split = r.split

(* Links and categories come and go without touching them.                 *)
LEMMA LinksKeepColumns ==
  ASSUME NEW row \in Row, NEW p, NEW cat
  PROVE  /\ SameColumns(row, Unlinked(row))
         /\ SameColumns(row, AsLeg(row, p))
         /\ SameColumns(row, Recategorized(row, cat))
         /\ Recategorized(row, cat).peer = row.peer
BY DEF Row, SameColumns, Unlinked, AsLeg, Recategorized

(* Edits and revisions leave the bank's id of a row alone.                 *)
LEMMA EditsKeepExt ==
  ASSUME NEW row \in Row
  PROVE  /\ \A amount : WithAmount(row, amount).ext = row.ext
         /\ \A req \in Request : Merged(row, req).ext = row.ext
         /\ \A amount, date : Revised(row, amount, date).ext = row.ext
         /\ \A amount, date : Revised(row, amount, date).amount = amount
         /\ \A req \in Request : Merged(row, req).amount = req.amount
BY DEF Row, WithAmount, Merged, Revised

(* A new row has the bank's id it is given.                                *)
LEMMA NewRowExt == \A req, ext : NewRow(req, ext).ext = ext
BY DEF NewRow

(* What the helpers on tables do to the other rows.                        *)
LEMMA InsertRows ==
  ASSUME NEW table, NEW t, NEW row
  PROVE  /\ DOMAIN Insert(table, t, row) = DOMAIN table \cup {t}
         /\ Insert(table, t, row)[t] = row
         /\ \A i \in DOMAIN table \ {t} : Insert(table, t, row)[i] = table[i]
BY DEF Insert

(* Linking touches the two rows alone, and no column of theirs.            *)
LEMMA LinkRows ==
  ASSUME NEW table, NEW accs, Rows(table, accs),
         NEW t \in DOMAIN table, NEW u \in DOMAIN table, t # u
  PROVE  /\ DOMAIN LinkPair(table, t, u) = DOMAIN table
         /\ \A i \in DOMAIN table : SameColumns(table[i], LinkPair(table, t, u)[i])
         /\ \A i \in DOMAIN table \ {t, u} : LinkPair(table, t, u)[i] = table[i]
<1>. DEFINE new == LinkPair(table, t, u)
<1>1. /\ DOMAIN new = DOMAIN table
      /\ new[t] = AsLeg(table[t], u) /\ new[u] = AsLeg(table[u], t)
      /\ \A i \in DOMAIN table \ {t, u} : new[i] = table[i]
  BY DEF Rows, LinkPair
<1>. HIDE DEF new
<1>2. \A i \in DOMAIN table : table[i] \in Row
  BY DEF Rows
<1>3. SameColumns(table[t], new[t]) /\ SameColumns(table[u], new[u])
  BY <1>1, <1>2, LinksKeepColumns
<1>4. \A i \in DOMAIN table \ {t, u} : SameColumns(table[i], new[i])
  BY <1>1 DEF SameColumns
<1>. QED  BY <1>1, <1>3, <1>4 DEF new

(* So does unlinking.                                                      *)
LEMMA UnlinkRows ==
  ASSUME NEW table, NEW accs, Rows(table, accs),
         NEW t \in DOMAIN table, NEW u \in DOMAIN table, t # u
  PROVE  /\ DOMAIN UnlinkPair(table, t, u) = DOMAIN table
         /\ \A i \in DOMAIN table : SameColumns(table[i], UnlinkPair(table, t, u)[i])
         /\ \A i \in DOMAIN table \ {t, u} : UnlinkPair(table, t, u)[i] = table[i]
         /\ UnlinkPair(table, t, u)[t].peer = None
<1>. DEFINE new == UnlinkPair(table, t, u)
<1>1. /\ DOMAIN new = DOMAIN table
      /\ new[t] = Unlinked(table[t]) /\ new[u] = Unlinked(table[u])
      /\ \A i \in DOMAIN table \ {t, u} : new[i] = table[i]
  BY DEF Rows, UnlinkPair
<1>. HIDE DEF new
<1>2. \A i \in DOMAIN table : table[i] \in Row
  BY DEF Rows
<1>3. SameColumns(table[t], new[t]) /\ SameColumns(table[u], new[u])
  BY <1>1, <1>2, LinksKeepColumns
<1>4. \A i \in DOMAIN table \ {t, u} : SameColumns(table[i], new[i])
  BY <1>1 DEF SameColumns
<1>5. new[t].peer = None
  BY <1>1, <1>2, UnlinkedTyped
<1>. QED  BY <1>1, <1>3, <1>4, <1>5 DEF new

(* A deletion takes its rows and touches only those that pointed at one.   *)
LEMMA DeleteRows ==
  ASSUME NEW table, NEW accs, Rows(table, accs), NEW ids
  PROVE  /\ DOMAIN Delete(table, ids) = DOMAIN table \ ids
         /\ \A i \in DOMAIN table \ ids : SameColumns(table[i], Delete(table, ids)[i])
         /\ \A i \in DOMAIN table \ ids :
              table[i].peer \notin ids => Delete(table, ids)[i] = table[i]
<1>. DEFINE new == Delete(table, ids)
<1>1. /\ DOMAIN new = DOMAIN table \ ids
      /\ \A i \in DOMAIN table \ ids :
           new[i] = IF table[i].peer \in ids THEN Unlinked(table[i]) ELSE table[i]
  BY DEF Delete
<1>. HIDE DEF new
<1>2. ASSUME NEW i \in DOMAIN table \ ids
      PROVE  SameColumns(table[i], new[i])
  <2>1. CASE table[i].peer \in ids
    <3>1. table[i] \in Row
      BY DEF Rows
    <3>. QED  BY <1>1, <2>1, <3>1, LinksKeepColumns
  <2>2. CASE table[i].peer \notin ids
    BY <1>1, <2>2 DEF SameColumns
  <2>. QED  BY <2>1, <2>2
<1>. QED  BY <1>1, <1>2 DEF new

(* An edit touches its row and, when the amount changes, the peer.         *)
LEMMA EditRows ==
  ASSUME NEW table, NEW accs, Rows(table, accs), NEW t \in DOMAIN table, NEW row,
         row.ext = table[t].ext
  PROVE  /\ DOMAIN Edit(table, t, row) = DOMAIN table
         /\ Edit(table, t, row)[t] = row
         /\ \A i \in DOMAIN table : Edit(table, t, row)[i].ext = table[i].ext
         /\ \A i \in DOMAIN table \ {t} :
              i # table[t].peer \/ row.amount = table[t].amount
                => Edit(table, t, row)[i] = table[i]
<1>. DEFINE new == Edit(table, t, row)
<1>1. /\ DOMAIN new = DOMAIN table
      /\ new[t] = row
      /\ \A i \in DOMAIN table \ {t} :
           new[i] = IF i = table[t].peer /\ row.amount # table[t].amount
                    THEN WithAmount(table[i], -row.amount) ELSE table[i]
  BY DEF Edit
<1>. HIDE DEF new
<1>2. \A i \in DOMAIN table : table[i] \in Row
  BY DEF Rows
<1>3. ASSUME NEW i \in DOMAIN table \ {t}
      PROVE  new[i].ext = table[i].ext
  <2>1. CASE i = table[t].peer /\ row.amount # table[t].amount
    BY <1>1, <1>2, <2>1, EditsKeepExt
  <2>2. CASE ~(i = table[t].peer /\ row.amount # table[t].amount)
    BY <1>1, <2>2
  <2>. QED  BY <2>1, <2>2
<1>. QED  BY <1>1, <1>3 DEF new

-----------------------------------------------------------------------------
(* What the user does by hand to rows and links, edits and deletions apart:*)
(* no row goes, no bank id and no amount changes, new rows are not the     *)
(* bank's.                                                                 *)
Calm(table, new) ==
  /\ DOMAIN table \subseteq DOMAIN new
  /\ \A i \in DOMAIN table : new[i].ext = table[i].ext /\ new[i].amount = table[i].amount
  /\ \A i \in DOMAIN new \ DOMAIN table : new[i].ext = None

(* A new row that is not the bank's is calm.                               *)
LEMMA CalmInsert ==
  ASSUME NEW table, NEW t, t \notin DOMAIN table, NEW row, row.ext = None
  PROVE  Calm(table, Insert(table, t, row))
<1>. DEFINE new == Insert(table, t, row)
<1>1. /\ DOMAIN new = DOMAIN table \cup {t} /\ new[t] = row
      /\ \A i \in DOMAIN table \ {t} : new[i] = table[i]
  BY DEF Insert
<1>. HIDE DEF new
<1>2. Calm(table, new)
  BY <1>1 DEF Calm
<1>. QED  BY <1>2 DEF new

(* Calm changes in a row are calm.                                         *)
LEMMA CalmChain ==
  ASSUME NEW a, NEW b, NEW c, Calm(a, b), Calm(b, c)
  PROVE  Calm(a, c)
BY DEF Calm

(* What keeps every column is calm.                                        *)
LEMMA CalmColumns ==
  ASSUME NEW table, NEW new, DOMAIN new = DOMAIN table,
         \A i \in DOMAIN table : SameColumns(table[i], new[i])
  PROVE  Calm(table, new)
BY DEF Calm, SameColumns

(* So linking is calm.                                                     *)
LEMMA CalmLink ==
  ASSUME NEW table, NEW accs, Rows(table, accs),
         NEW t \in DOMAIN table, NEW u \in DOMAIN table, t # u
  PROVE  Calm(table, LinkPair(table, t, u))
BY LinkRows, CalmColumns

(* The handlers that store a row of the user's are calm.                   *)
LEMMA CalmStored ==
  ASSUME NEW t, NEW req, t \notin DOMAIN txns, Store(t, NewRow(req, None))
  PROVE  Calm(txns, txns') /\ UNCHANGED tombstones
<1>1. txns' = Insert(txns, t, NewRow(req, None)) /\ UNCHANGED tombstones
  BY DEF Store
<1>2. NewRow(req, None).ext = None
  BY NewRowExt
<1>. QED  BY <1>1, <1>2, CalmInsert

(* A bulk edit is calm: categories and flags are no columns of the bank.   *)
LEMMA CalmBulk ==
  ASSUME IInv, NEW ids, NEW cat, BulkSetCategory(ids, cat)
  PROVE  Calm(txns, txns') /\ UNCHANGED tombstones
<1>1. DOMAIN txns' = DOMAIN txns
  BY DEF BulkSetCategory
<1>2. ASSUME NEW i \in DOMAIN txns
      PROVE  SameColumns(txns[i], txns'[i])
  <2>1. txns'[i] \in {txns[i], Recategorized(txns[i], cat)}
    BY DEF BulkSetCategory
  <2>2. txns[i] \in Row
    BY DEF IInv, Rows
  <2>3. SameColumns(txns[i], txns[i])
    BY DEF SameColumns
  <2>. QED  BY <2>1, <2>2, <2>3, LinksKeepColumns
<1>. QED  BY <1>1, <1>2, CalmColumns DEF BulkSetCategory

(* A new transfer is calm: two rows of the user's, then a link.            *)
LEMMA CalmTransfer ==
  ASSUME IInv, NEW t \in TxnIds, NEW u \in TxnIds, NEW from \in Accounts,
         NEW to \in Accounts, NEW amount \in Amounts, NEW date \in Dates,
         NEW payee \in Payees,
         CreateTransfer(t, u, from, to, amount, date, payee)
  PROVE  Calm(txns, txns') /\ UNCHANGED tombstones
<1>. DEFINE minus == -amount
            out == NewRow(Plain(from, minus, date, payee), None)
            in == NewRow(Plain(to, amount, date, payee), None)
            one == Insert(txns, t, out)
            two == Insert(one, u, in)
<1>1. /\ minus \in Amounts /\ t # u /\ t \notin DOMAIN txns /\ u \notin DOMAIN txns
      /\ from \in accounts /\ to \in accounts
  BY LedgerAssumption DEF CreateTransfer
<1>2. txns' = LinkPair(two, t, u) /\ UNCHANGED tombstones
  BY DEF CreateTransfer
<1>. HIDE DEF minus
<1>3. /\ PlainRow(out, from, minus) /\ PlainRow(in, to, amount)
      /\ out.ext = None /\ in.ext = None
  BY <1>1, PlainRowTyped, NewRowExt
<1>. HIDE DEF out, in
<1>4. /\ Rows(one, accounts) /\ Book(one) /\ DOMAIN one = DOMAIN txns \cup {t}
      /\ Calm(txns, one)
  BY <1>1, <1>3, InsertPlainKeeps, CalmInsert DEF IInv
<1>. HIDE DEF one
<1>5. /\ Rows(two, accounts) /\ DOMAIN two = DOMAIN one \cup {u} /\ Calm(one, two)
  <2>1. u \notin DOMAIN one /\ to \in accounts /\ PlainRow(in, to, amount)
    BY <1>1, <1>3, <1>4
  <2>2. Rows(two, accounts) /\ DOMAIN two = DOMAIN one \cup {u}
    <3>1. Rows(one, accounts) /\ Book(one)
      BY <1>4
    <3>. QED  BY <2>1, <3>1, InsertPlainKeeps
  <2>3. Calm(one, two)
    BY <1>3, <2>1, CalmInsert
  <2>. QED  BY <2>2, <2>3
<1>. HIDE DEF two
<1>6. Calm(two, txns')
  BY <1>1, <1>2, <1>4, <1>5, CalmLink
<1>. QED  BY <1>2, <1>4, <1>5, <1>6, CalmChain

(* Linking to a leg created for it is calm.                                *)
LEMMA CalmNewLeg ==
  ASSUME IInv, NEW t \in TxnIds, NEW u \in TxnIds, NEW to \in Accounts,
         LinkNewLeg(t, u, to)
  PROVE  Calm(txns, txns') /\ UNCHANGED tombstones
<1>. DEFINE minus == -txns[t].amount
            leg == NewRow(Plain(to, minus, txns[t].date, txns[t].payee), None)
            table == Insert(txns, u, leg)
<1>1. /\ t \in DOMAIN txns /\ u \notin DOMAIN txns /\ to \in accounts
      /\ minus \in Amounts /\ txns[t].date \in Dates /\ txns[t].payee \in Payees
  BY LedgerAssumption DEF LinkNewLeg, IInv, Rows, Row
<1>2. txns' = LinkPair(table, t, u) /\ UNCHANGED tombstones
  BY DEF LinkNewLeg, Link
<1>. HIDE DEF minus
<1>3. PlainRow(leg, to, minus) /\ leg.ext = None
  BY <1>1, PlainRowTyped, NewRowExt
<1>. HIDE DEF leg
<1>4. /\ Rows(table, accounts) /\ DOMAIN table = DOMAIN txns \cup {u}
      /\ Calm(txns, table)
  BY <1>1, <1>3, InsertPlainKeeps, CalmInsert DEF IInv
<1>. HIDE DEF table
<1>5. Calm(table, txns')
  BY <1>1, <1>2, <1>4, CalmLink
<1>. QED  BY <1>2, <1>4, <1>5, CalmChain

(* All of them together, and the step that changes nothing.                *)
LEMMA CalmHandlers ==
  ASSUME IInv,
         \/ \E t \in TxnIds, req \in Request : CreateTransaction(t, req)
         \/ \E t \in TxnIds, req \in Request, suggested \in Categories \cup {None} :
              ImportYnabRow(t, req, suggested)
         \/ \E t, u \in TxnIds, from, to \in Accounts, amount \in Amounts,
               date \in Dates, payee \in Payees :
              CreateTransfer(t, u, from, to, amount, date, payee)
         \/ \E t, u \in TxnIds : LinkExisting(t, u)
         \/ \E t, u \in TxnIds, to \in Accounts : LinkNewLeg(t, u, to)
         \/ \E t \in TxnIds : Unlink(t)
         \/ \E ids \in SUBSET TxnIds, cat \in Categories \cup {None} : BulkSetCategory(ids, cat)
         \/ \E t \in TxnIds, a \in Accounts, delta \in Amounts, date \in Dates,
               payee \in Payees : SetAccountBalance(t, a, delta, date, payee)
         \/ UNCHANGED vars
  PROVE  Calm(txns, txns') /\ UNCHANGED tombstones
<1>1. ASSUME NEW t, NEW req, CreateTransaction(t, req)
      PROVE  Calm(txns, txns') /\ UNCHANGED tombstones
  BY <1>1, CalmStored DEF CreateTransaction
<1>2. ASSUME NEW t, NEW req, NEW suggested, ImportYnabRow(t, req, suggested)
      PROVE  Calm(txns, txns') /\ UNCHANGED tombstones
  BY <1>2, CalmStored DEF ImportYnabRow
<1>3. ASSUME NEW t, NEW u, LinkExisting(t, u)
      PROVE  Calm(txns, txns') /\ UNCHANGED tombstones
  BY <1>3, CalmLink DEF LinkExisting, Link, CanLink, IInv
<1>4. ASSUME NEW t, Unlink(t)
      PROVE  Calm(txns, txns') /\ UNCHANGED tombstones
  <2>1. t \in DOMAIN txns /\ txns[t].peer \in DOMAIN txns /\ txns[t].peer # t
    BY <1>4 DEF Unlink, IInv, Book, LegOK
  <2>2. txns' = UnlinkPair(txns, t, txns[t].peer) /\ UNCHANGED tombstones
    BY <1>4 DEF Unlink
  <2>. QED  BY <2>1, <2>2, UnlinkRows, CalmColumns DEF IInv
<1>5. ASSUME NEW t, NEW a, NEW delta, NEW date, NEW payee,
             SetAccountBalance(t, a, delta, date, payee)
      PROVE  Calm(txns, txns') /\ UNCHANGED tombstones
  BY <1>5, NewRowExt, CalmInsert DEF SetAccountBalance
<1>6. CASE UNCHANGED vars
  BY <1>6 DEF vars, Calm
<1>. QED  BY <1>1, <1>2, <1>3, <1>4, <1>5, <1>6, CalmTransfer, CalmNewLeg, CalmBulk

-----------------------------------------------------------------------------
(* Edits and revisions.                                                    *)

(* At most one of two linked bank rows takes a new amount.                 *)
OneLegKeeps(table, new) ==
  \A i \in DOMAIN table \cap DOMAIN new :
    /\ IsImported(table[i]) /\ IsLinked(table[i]) /\ IsImported(table[table[i].peer])
    /\ table[i].peer \in DOMAIN new
    => \/ new[i].amount = table[i].amount
       \/ new[table[i].peer].amount = table[table[i].peer].amount

(* An edit that keeps the amount, or one of a row whose peer is not the    *)
(* bank's, rewrites at most one bank leg.                                  *)
LEMMA EditKeepsOneLeg ==
  ASSUME NEW table, NEW accs, Rows(table, accs), Book(table),
         NEW t \in DOMAIN table, NEW row, row.ext = table[t].ext,
         \/ row.amount = table[t].amount
         \/ ~(IsLinked(table[t]) /\ IsImported(table[table[t].peer]))
  PROVE  OneLegKeeps(table, Edit(table, t, row))
<1>. DEFINE new == Edit(table, t, row)
<1>1. /\ new[t] = row
      /\ \A i \in DOMAIN table \ {t} :
           i # table[t].peer \/ row.amount = table[t].amount => new[i] = table[i]
  BY EditRows
<1>. HIDE DEF new
<1>2. ASSUME NEW i \in DOMAIN table,
             IsImported(table[i]), IsLinked(table[i]), IsImported(table[table[i].peer])
      PROVE  new[i].amount = table[i].amount
  <2>1. CASE row.amount = table[t].amount
    BY <1>1, <2>1
  <2>2. CASE ~(IsLinked(table[t]) /\ IsImported(table[table[t].peer]))
    <3>1. i # t
      BY <1>2, <2>2
    <3>2. i # table[t].peer
      <4>1. SUFFICES ASSUME i = table[t].peer PROVE FALSE
        OBVIOUS
      <4>2. IsLinked(table[t])
        BY <4>1, LedgerAssumption DEF IsLinked, Rows
      <4>. QED  BY <1>2, <2>2, <4>1, <4>2
    <3>. QED  BY <1>1, <3>1, <3>2
  <2>. QED  BY <2>1, <2>2
<1>3. OneLegKeeps(table, new)
  BY <1>2 DEF OneLegKeeps
<1>. QED  BY <1>3 DEF new

(* The bank's ids stay where they are.                                     *)
SameExts(table, new) ==
  DOMAIN new = DOMAIN table /\ \A i \in DOMAIN table : new[i].ext = table[i].ext

(* PATCH: LegEditable refuses a new amount next to a bank peer.            *)
LEMMA UpdateRows ==
  ASSUME IInv, NEW t, NEW req \in Request, UpdateTransaction(t, req)
  PROVE  SameExts(txns, txns') /\ OneLegKeeps(txns, txns') /\ UNCHANGED tombstones
<1>. DEFINE row == Merged(txns[t], req)
<1>1. t \in DOMAIN txns /\ txns' = Edit(txns, t, row) /\ UNCHANGED tombstones
  BY DEF UpdateTransaction
<1>2. txns[t] \in Row
  BY <1>1 DEF IInv, Rows
<1>3. row.ext = txns[t].ext /\ row.amount = req.amount
  BY <1>2, EditsKeepExt
<1>. HIDE DEF row
<1>4. SameExts(txns, txns')
  BY <1>1, <1>3, EditRows DEF IInv, SameExts
<1>5. OneLegKeeps(txns, txns')
  <2>1. \/ row.amount = txns[t].amount
        \/ ~(IsLinked(txns[t]) /\ IsImported(txns[txns[t].peer]))
    BY <1>3 DEF UpdateTransaction, LegEditable
  <2>. QED  BY <1>1, <1>3, <2>1, EditKeepsOneLeg DEF IInv
<1>. QED  BY <1>1, <1>4, <1>5

(* A revision next to a bank peer takes the pair apart first.              *)
LEMMA ReviseRows ==
  ASSUME IInv, NEW t, NEW amount, NEW date, ReviseBankTransaction(t, amount, date)
  PROVE  SameExts(txns, txns') /\ OneLegKeeps(txns, txns') /\ UNCHANGED tombstones
<1>. DEFINE peer == txns[t].peer
            revised == Revised(txns[t], amount, date)
<1>1. t \in DOMAIN txns /\ UNCHANGED tombstones /\ txns[t] \in Row
  BY DEF ReviseBankTransaction, IInv, Rows
<1>2. revised.ext = txns[t].ext /\ revised.amount = amount
  BY <1>1, EditsKeepExt
<1>3. CASE /\ ~(IsLinked(txns[t]) /\ amount # txns[t].amount /\ IsImported(txns[peer]))
           /\ txns' = Edit(txns, t, revised)
  <2>. HIDE DEF revised
  <2>1. SameExts(txns, txns')
    BY <1>1, <1>2, <1>3, EditRows DEF IInv, SameExts
  <2>2. OneLegKeeps(txns, txns')
    BY <1>1, <1>2, <1>3, EditKeepsOneLeg DEF IInv
  <2>. QED  BY <1>1, <2>1, <2>2
<1>4. CASE /\ IsLinked(txns[t])
           /\ txns' = Edit(UnlinkPair(txns, t, peer), t, Unlinked(revised))
  <2>. DEFINE table == UnlinkPair(txns, t, peer)
              row == Unlinked(revised)
  <2>1. peer \in DOMAIN txns /\ peer # t
    BY <1>1, <1>4 DEF IInv, Book, LegOK
  <2>2. /\ DOMAIN table = DOMAIN txns
        /\ \A i \in DOMAIN txns : SameColumns(txns[i], table[i])
        /\ table[t].peer = None
    BY <1>1, <2>1, UnlinkRows DEF IInv
  <2>3. Rows(table, accounts)
    BY <1>1, <1>4, UnlinkKeeps DEF IInv
  <2>4. row.ext = txns[t].ext
    BY <1>1, <1>2 DEF Row, Revised, Unlinked
  <2>5. txns' = Edit(table, t, row)
    BY <1>4
  <2>. HIDE DEF table, row, revised, peer
  <2>6. row.ext = table[t].ext
    BY <1>1, <2>2, <2>4 DEF SameColumns
  <2>7. /\ DOMAIN txns' = DOMAIN table
        /\ \A i \in DOMAIN table : txns'[i].ext = table[i].ext
        /\ \A i \in DOMAIN table \ {t} : i # None => txns'[i] = table[i]
    BY <1>1, <2>2, <2>3, <2>5, <2>6, EditRows
  <2>8. SameExts(txns, txns')
    BY <2>2, <2>7 DEF SameExts, SameColumns
  <2>9. \A i \in DOMAIN txns \ {t} : txns'[i].amount = txns[i].amount
    BY <2>2, <2>7, LedgerAssumption DEF SameColumns, IInv, Rows
  <2>10. OneLegKeeps(txns, txns')
    BY <2>2, <2>7, <2>9 DEF OneLegKeeps, IInv, Book, LegOK
  <2>. QED  BY <1>1, <2>8, <2>10
<1>. QED  BY <1>3, <1>4 DEF ReviseBankTransaction

-----------------------------------------------------------------------------
(* Deletions: rows go, the rest keeps its columns.                         *)
Shrinks(table, new) ==
  /\ DOMAIN new \subseteq DOMAIN table
  /\ \A i \in DOMAIN new : SameColumns(table[i], new[i])

(* A deletion shrinks the table.                                           *)
LEMMA DeleteShrinks ==
  ASSUME NEW table, NEW accs, Rows(table, accs), NEW ids
  PROVE  Shrinks(table, Delete(table, ids))
<1>. DEFINE new == Delete(table, ids)
<1>1. /\ DOMAIN new = DOMAIN table \ ids
      /\ \A i \in DOMAIN table \ ids : SameColumns(table[i], new[i])
  BY DeleteRows
<1>. HIDE DEF new
<1>2. Shrinks(table, new)
  BY <1>1 DEF Shrinks
<1>. QED  BY <1>2 DEF new

(* No amount changes when a table shrinks ...                              *)
LEMMA ShrinkKeepsOneLeg ==
  ASSUME NEW table, NEW new, Shrinks(table, new)
  PROVE  OneLegKeeps(table, new)
BY DEF Shrinks, OneLegKeeps, SameColumns

(* ... in a calm step ...                                                  *)
LEMMA CalmKeepsOneLeg ==
  ASSUME NEW table, NEW new, Calm(table, new)
  PROVE  OneLegKeeps(table, new)
BY DEF Calm, OneLegKeeps

(* ... or when a row is inserted.                                          *)
LEMMA InsertKeepsOneLeg ==
  ASSUME NEW table, NEW t, t \notin DOMAIN table, NEW row
  PROVE  OneLegKeeps(table, Insert(table, t, row))
BY DEF Insert, OneLegKeeps

-----------------------------------------------------------------------------
(* ImportedOnceNeverRevived, said of a table and its tombstones.           *)
Imports(table, tombs) ==
  \A t \in DOMAIN table : IsImported(table[t]) =>
    /\ table[t].ext \notin tombs
    /\ \A u \in DOMAIN table : table[u].ext = table[t].ext => u = t

(* It outlives rows that are not the bank's ...                            *)
LEMMA CalmKeepsImports ==
  ASSUME NEW table, NEW new, NEW tombs, Calm(table, new), Imports(table, tombs)
  PROVE  Imports(new, tombs)
<1>1. ASSUME NEW t \in DOMAIN new, IsImported(new[t])
      PROVE  t \in DOMAIN table /\ new[t].ext = table[t].ext /\ IsImported(table[t])
  BY <1>1 DEF Calm, IsImported
<1>. QED  BY <1>1 DEF Imports, IsImported

(* ... and deletions, when the tombstones they leave are those of the rows *)
(* that went ...                                                           *)
LEMMA FewerKeepImports ==
  ASSUME NEW table, NEW new, NEW tombs, NEW more, Imports(table, tombs),
         DOMAIN new \subseteq DOMAIN table,
         \A i \in DOMAIN new : new[i].ext = table[i].ext,
         \A x \in more \ tombs : \E i \in DOMAIN table \ DOMAIN new : table[i].ext = x
  PROVE  Imports(new, more)
<1>1. ASSUME NEW t \in DOMAIN new, IsImported(new[t])
      PROVE  new[t].ext \notin more
  <2>1. IsImported(table[t]) /\ t \in DOMAIN table
    BY <1>1 DEF IsImported
  <2>2. /\ table[t].ext \notin tombs
        /\ \A u \in DOMAIN table : table[u].ext = table[t].ext => u = t
    BY <2>1 DEF Imports
  <2>. QED  BY <2>2
<1>2. ASSUME NEW t \in DOMAIN new, IsImported(new[t]),
             NEW u \in DOMAIN new, new[u].ext = new[t].ext
      PROVE  u = t
  BY <1>2 DEF Imports, IsImported
<1>. QED  BY <1>1, <1>2 DEF Imports

(* ... and an import of an id the ledger does not know.                    *)
LEMMA ImportKeepsImports ==
  ASSUME NEW table, NEW tombs, NEW t, NEW row, NEW e, row.ext = e,
         Imports(table, tombs), t \notin DOMAIN table, e \notin tombs,
         \A i \in DOMAIN table : table[i].ext # e
  PROVE  Imports(Insert(table, t, row), tombs)
<1>. DEFINE new == Insert(table, t, row)
<1>1. /\ DOMAIN new = DOMAIN table \cup {t} /\ new[t] = row
      /\ \A i \in DOMAIN table : new[i] = table[i]
  BY DEF Insert
<1>. HIDE DEF new
<1>2. Imports(new, tombs)
  BY <1>1 DEF Imports, IsImported
<1>. QED  BY <1>2 DEF new

(* Rows leave with a tombstone, with their account, or all at once.        *)
LeaveMarked ==
  DOMAIN txns' # {} =>
    \A t \in DOMAIN txns \ DOMAIN txns' :
      IsImported(txns[t]) =>
        txns[t].ext \in tombstones' \/ txns[t].account \notin accounts'

(* What every step does to the bank's rows.                                *)
BankSafe ==
  Imports(txns', tombstones') /\ OneLegKeeps(txns, txns') /\ LeaveMarked

(* A calm step is safe ...                                                 *)
LEMMA CalmSafe ==
  ASSUME Imports(txns, tombstones), Calm(txns, txns'), UNCHANGED tombstones
  PROVE  BankSafe
<1>1. Imports(txns', tombstones') /\ OneLegKeeps(txns, txns')
  BY CalmKeepsImports, CalmKeepsOneLeg
<1>2. LeaveMarked
  BY DEF Calm, LeaveMarked
<1>. QED  BY <1>1, <1>2 DEF BankSafe

(* ... and so is one that leaves every bank id in place ...                *)
LEMMA SameExtsSafe ==
  ASSUME Imports(txns, tombstones), SameExts(txns, txns'),
         OneLegKeeps(txns, txns'), UNCHANGED tombstones
  PROVE  BankSafe
<1>1. Imports(txns', tombstones')
  BY FewerKeepImports DEF SameExts
<1>2. LeaveMarked
  BY DEF SameExts, LeaveMarked
<1>. QED  BY <1>1, <1>2 DEF BankSafe

(* ... and an import of an id that is neither known nor deleted.           *)
LEMMA ImportSafe ==
  ASSUME Imports(txns, tombstones), NEW t, t \notin DOMAIN txns, NEW row, NEW e,
         row.ext = e, ~Known(e), e \notin tombstones,
         txns' = Insert(txns, t, row), UNCHANGED tombstones
  PROVE  BankSafe
<1>1. \A i \in DOMAIN txns : txns[i].ext # e
  BY DEF Known
<1>2. Imports(txns', tombstones')
  BY <1>1, ImportKeepsImports
<1>3. OneLegKeeps(txns, txns')
  BY InsertKeepsOneLeg
<1>4. LeaveMarked
  BY DEF Insert, LeaveMarked
<1>. QED  BY <1>2, <1>3, <1>4 DEF BankSafe

(* DELETE /transactions and its bulk form: the tombstones are exactly the  *)
(* bank ids of the rows that go, peers that follow included.               *)
LEMMA DeleteSafe ==
  ASSUME IInv, Imports(txns, tombstones), NEW ids, NEW order,
         DeleteTransactions(ids, order)
  PROVE  BankSafe
<1>. DEFINE legs == AllLegs(txns, ids)
<1>1. legs \subseteq DOMAIN txns
  BY DEF DeleteTransactions, IInv, Book, LegOK, AllLegs, KeptPeers, PeersOutside
<1>2. /\ txns' = Delete(txns, legs)
      /\ tombstones' = tombstones \cup ExtIdsOf(txns, legs)
  BY DEF DeleteTransactions
<1>. HIDE DEF legs
<1>3. /\ DOMAIN txns' = DOMAIN txns \ legs
      /\ \A i \in DOMAIN txns' : SameColumns(txns[i], txns'[i])
  BY <1>2, DeleteRows DEF IInv
<1>4. Imports(txns', tombstones')
  <2>1. \A x \in tombstones' \ tombstones :
          \E i \in DOMAIN txns \ DOMAIN txns' : txns[i].ext = x
    BY <1>1, <1>2, <1>3 DEF ExtIdsOf
  <2>2. \A i \in DOMAIN txns' : txns'[i].ext = txns[i].ext
    BY <1>3 DEF SameColumns
  <2>. QED  BY <1>3, <2>1, <2>2, FewerKeepImports
<1>5. OneLegKeeps(txns, txns')
  BY <1>3, ShrinkKeepsOneLeg DEF Shrinks
<1>6. LeaveMarked
  BY <1>1, <1>2, <1>3 DEF LeaveMarked, ExtIdsOf, IsImported
<1>. QED  BY <1>4, <1>5, <1>6 DEF BankSafe

(* Unlinking a bank leaves no tombstone: the rows go with their accounts.  *)
LEMMA UnlinkConnectionSafe ==
  ASSUME IInv, Imports(txns, tombstones), NEW c, UnlinkConnection(c)
  PROVE  BankSafe
<1>. DEFINE gone == {t \in DOMAIN txns : txns[t].account \in c}
<1>1. /\ txns' = Delete(txns, gone) /\ tombstones' = tombstones
      /\ accounts' = accounts \ c
  BY DEF UnlinkConnection
<1>2. gone \subseteq DOMAIN txns /\ \A t \in gone : txns[t].account \in c
  OBVIOUS
<1>. HIDE DEF gone
<1>3. /\ DOMAIN txns' = DOMAIN txns \ gone
      /\ \A i \in DOMAIN txns' : SameColumns(txns[i], txns'[i])
  BY <1>1, DeleteRows DEF IInv
<1>4. Imports(txns', tombstones')
  <2>1. \A i \in DOMAIN txns' : txns'[i].ext = txns[i].ext
    BY <1>3 DEF SameColumns
  <2>. QED  BY <1>1, <1>3, <2>1, FewerKeepImports
<1>5. OneLegKeeps(txns, txns')
  BY <1>3, ShrinkKeepsOneLeg DEF Shrinks
<1>6. LeaveMarked
  BY <1>1, <1>2, <1>3 DEF LeaveMarked
<1>. QED  BY <1>4, <1>5, <1>6 DEF BankSafe

(* A reset empties the ledger and its tombstones together.                 *)
LEMMA ResetSafe ==
  ASSUME ResetTransactions
  PROVE  BankSafe
BY DEF ResetTransactions, BankSafe, Imports, OneLegKeeps, LeaveMarked

(* The steps that touch the bank's rows, the calm ones apart.              *)
LEMMA StepSafe ==
  ASSUME IInv, Imports(txns, tombstones), [Next]_vars
  PROVE  BankSafe
<1>1. ASSUME NEW t, NEW req \in Request, UpdateTransaction(t, req)
      PROVE  BankSafe
  BY <1>1, UpdateRows, SameExtsSafe
<1>2. ASSUME NEW t, NEW amount, NEW date, ReviseBankTransaction(t, amount, date)
      PROVE  BankSafe
  BY <1>2, ReviseRows, SameExtsSafe
<1>3. ASSUME NEW t, NEW e, NEW amount, NEW date, NEW payee, NEW suggested,
             ImportBankTransaction(t, e, amount, date, payee, suggested)
      PROVE  BankSafe
  BY <1>3, ImportSafe, NewRowExt DEF ImportBankTransaction, Store
<1>4. ASSUME NEW t, NEW e, NEW delta, NEW date, NEW payee,
             ImportOpeningBalance(t, e, delta, date, payee)
      PROVE  BankSafe
  BY <1>4, ImportSafe, NewRowExt DEF ImportOpeningBalance
<1>5. ASSUME Calm(txns, txns') /\ UNCHANGED tombstones
      PROVE  BankSafe
  BY <1>5, CalmSafe
<1>6. CASE Next
  BY <1>6, <1>1, <1>2, <1>3, <1>4, <1>5, CalmHandlers, DeleteSafe,
     UnlinkConnectionSafe, ResetSafe DEF Next
<1>7. CASE UNCHANGED vars
  BY <1>7, <1>5, CalmHandlers
<1>. QED  BY <1>6, <1>7

-----------------------------------------------------------------------------
(* The invariant all three theorems rest on.                               *)
LEMMA BankHolds == Spec => [](IInv /\ Imports(txns, tombstones))
<1>1. Init => Imports(txns, tombstones)
  BY DEF Init, Imports
<1>2. IInv /\ Imports(txns, tombstones) /\ [Next]_vars => Imports(txns, tombstones)'
  BY StepSafe DEF BankSafe
<1>. QED  BY Inductive, <1>1, <1>2, PTL DEF Spec

(* The bank's rows are imported once and never come back after a deletion. *)
THEOREM ImportedOnce == Spec => []ImportedOnceNeverRevived
<1>1. Imports(txns, tombstones) => ImportedOnceNeverRevived
  BY DEF Imports, ImportedOnceNeverRevived
<1>. QED  BY BankHolds, <1>1, PTL

(* No step rewrites the amounts of both legs of a transfer between two     *)
(* accounts of banks: an edit is refused, a revision by one of the banks   *)
(* takes the pair apart.                                                   *)
THEOREM BankOwnsItsAmounts == Spec => BankOwnsAmounts
<1>1. ASSUME IInv, Imports(txns, tombstones), [Next]_vars
      PROVE  \A t \in DOMAIN txns \cap DOMAIN txns' :
               /\ IsImported(txns[t]) /\ Linked(t) /\ IsImported(txns[txns[t].peer])
               /\ txns[t].peer \in DOMAIN txns'
               => \/ txns'[t].amount = txns[t].amount
                  \/ txns'[txns[t].peer].amount = txns[txns[t].peer].amount
  BY <1>1, StepSafe DEF BankSafe, OneLegKeeps, Linked
<1>. QED  BY BankHolds, <1>1, PTL DEF Spec, BankOwnsAmounts

(* A row of the bank leaves with a tombstone, with its account, or in the  *)
(* reset that empties the ledger.                                          *)
THEOREM DeletionsAreRemembered == Spec => BankRowsLeaveATombstone
<1>1. ASSUME IInv, Imports(txns, tombstones), [Next]_vars
      PROVE  DOMAIN txns' # {} =>
               \A t \in DOMAIN txns \ DOMAIN txns' :
                 IsImported(txns[t]) =>
                   txns[t].ext \in tombstones' \/ txns[t].account \notin accounts'
  BY <1>1, StepSafe DEF BankSafe, LeaveMarked
<1>. QED  BY BankHolds, <1>1, PTL DEF Spec, BankRowsLeaveATombstone

-----------------------------------------------------------------------------
(***************************************************************************)
(* Proofs about the split lines of TransferLedger: only POST and PATCH     *)
(* write any, into rows that are not linked, and in scope.                 *)
(***************************************************************************)

(* Every row is unsplit or has the lines it had.                           *)
NoNewLines(table, new) ==
  \A i \in DOMAIN new :
    ~IsSplit(new[i]) \/ (i \in DOMAIN table /\ new[i].split = table[i].split)

(* What a step may do to split lines.                                      *)
LinesWritten(table, new) ==
  \A i \in DOMAIN new :
    \/ ~IsSplit(new[i])
    \/ i \in DOMAIN table /\ new[i].split = table[i].split
    \/ ~IsLinked(new[i]) /\ LinesFit(new[i])

(* The columns that keep their lines apart from those SameColumns has.     *)
LEMMA EditsKeepLines ==
  ASSUME NEW row \in Row
  PROVE  /\ \A amount : WithAmount(row, amount).split = row.split
         /\ \A amount, date : Revised(row, amount, date).split = row.split
         /\ \A req \in Request :
              Merged(row, req).split = IF req.split = None THEN row.split ELSE req.split
BY DEF Row, WithAmount, Revised, Merged

(* A row without lines is inserted ...                                     *)
LEMMA InsertLines ==
  ASSUME NEW table, NEW t, NEW row, row.split = <<>>
  PROVE  NoNewLines(table, Insert(table, t, row))
<1>. DEFINE new == Insert(table, t, row)
<1>1. /\ DOMAIN new = DOMAIN table \cup {t} /\ new[t] = row
      /\ \A i \in DOMAIN table \ {t} : new[i] = table[i]
  BY DEF Insert
<1>. HIDE DEF new
<1>2. NoNewLines(table, new)
  BY <1>1 DEF NoNewLines, IsSplit
<1>. QED  BY <1>2 DEF new

(* ... the columns stay as they are, or rows go ...                        *)
LEMMA ColumnsLines ==
  ASSUME NEW table, NEW new, Shrinks(table, new)
  PROVE  NoNewLines(table, new)
BY DEF Shrinks, SameColumns, NoNewLines

(* ... and one such change comes after the other.                          *)
LEMMA LinesChain ==
  ASSUME NEW a, NEW b, NEW c, NoNewLines(a, b), NoNewLines(b, c)
  PROVE  NoNewLines(a, c)
BY DEF NoNewLines, IsSplit

(* So linking writes no lines.                                             *)
LEMMA LinkLines ==
  ASSUME NEW table, NEW accs, Rows(table, accs),
         NEW t \in DOMAIN table, NEW u \in DOMAIN table, t # u
  PROVE  NoNewLines(table, LinkPair(table, t, u))
BY LinkRows, ColumnsLines DEF Shrinks

(* Rows made without a request have no lines.                              *)
LEMMA PlainLines ==
  \A account, amount, date, payee, ext :
    NewRow(Plain(account, amount, date, payee), ext).split = <<>>
BY DEF NewRow, Plain

(* An edit touches the lines of its own row alone.                         *)
LEMMA EditLines ==
  ASSUME NEW table, NEW accs, Rows(table, accs), NEW t \in DOMAIN table, NEW row
  PROVE  /\ DOMAIN Edit(table, t, row) = DOMAIN table
         /\ Edit(table, t, row)[t] = row
         /\ \A i \in DOMAIN table \ {t} : Edit(table, t, row)[i].split = table[i].split
<1>. DEFINE new == Edit(table, t, row)
<1>1. /\ DOMAIN new = DOMAIN table
      /\ new[t] = row
      /\ \A i \in DOMAIN table \ {t} :
           new[i] \in {table[i], WithAmount(table[i], -row.amount)}
  BY DEF Edit
<1>. HIDE DEF new
<1>2. \A i \in DOMAIN table : table[i] \in Row
  BY DEF Rows
<1>3. \A i \in DOMAIN table \ {t} : new[i].split = table[i].split
  BY <1>1, <1>2, EditsKeepLines
<1>. QED  BY <1>1, <1>3 DEF new

(* POST validates the lines of a row that is not linked yet.               *)
LEMMA CreateLines ==
  ASSUME NEW t, NEW req, CreateTransaction(t, req)
  PROVE  LinesWritten(txns, txns')
<1>. DEFINE row == NewRow(req, None)
<1>1. /\ row.account = req.account /\ row.split = req.split /\ row.peer = None
      /\ txns' = Insert(txns, t, row)
  BY DEF NewRow, CreateTransaction, Store
<1>2. req.split # <<>> => \A i \in DOMAIN req.split : InScope(req.account, req.split[i].cat)
  BY DEF CreateTransaction, ValidSplit
<1>. HIDE DEF row
<1>3. /\ DOMAIN txns' = DOMAIN txns \cup {t} /\ txns'[t] = row
      /\ \A i \in DOMAIN txns \ {t} : txns'[i] = txns[i]
  BY <1>1 DEF Insert
<1>. QED  BY <1>1, <1>2, <1>3 DEF LinesWritten, LinesFit, IsSplit, IsLinked

(* PATCH validates the lines it writes, and writes none to a leg.          *)
LEMMA UpdateLines ==
  ASSUME IInv, NEW t, NEW req \in Request, UpdateTransaction(t, req)
  PROVE  LinesWritten(txns, txns')
<1>. DEFINE row == Merged(txns[t], req)
<1>1. t \in DOMAIN txns /\ txns' = Edit(txns, t, row) /\ txns[t] \in Row
  BY DEF UpdateTransaction, IInv, Rows
<1>2. /\ row.account = req.account /\ row.peer = txns[t].peer
      /\ row.split = IF req.split = None THEN txns[t].split ELSE req.split
  BY <1>1, MergedTyped, EditsKeepLines
<1>3. req.split # None => ~IsLinked(txns[t])
  BY DEF UpdateTransaction, LegEditable
<1>4. req.split \notin {None, <<>>} =>
        \A i \in DOMAIN req.split : InScope(req.account, req.split[i].cat)
  BY DEF UpdateTransaction, ValidSplit
<1>. HIDE DEF row
<1>5. /\ DOMAIN txns' = DOMAIN txns /\ txns'[t] = row
      /\ \A i \in DOMAIN txns \ {t} : txns'[i].split = txns[i].split
  BY <1>1, EditLines DEF IInv
<1>. QED  BY <1>1, <1>2, <1>3, <1>4, <1>5 DEF LinesWritten, LinesFit, IsSplit, IsLinked

(* A revision keeps them, also one that takes a pair apart.                *)
LEMMA ReviseLines ==
  ASSUME IInv, NEW t, NEW amount, NEW date, ReviseBankTransaction(t, amount, date)
  PROVE  NoNewLines(txns, txns')
<1>. DEFINE peer == txns[t].peer
            revised == Revised(txns[t], amount, date)
<1>1. t \in DOMAIN txns /\ txns[t] \in Row
  BY DEF ReviseBankTransaction, IInv, Rows
<1>2. revised.split = txns[t].split
  BY <1>1, EditsKeepLines
<1>3. CASE txns' = Edit(txns, t, revised)
  <2>. HIDE DEF revised
  <2>. QED  BY <1>1, <1>2, <1>3, EditLines DEF IInv, NoNewLines
<1>4. CASE /\ IsLinked(txns[t])
           /\ txns' = Edit(UnlinkPair(txns, t, peer), t, Unlinked(revised))
  <2>. DEFINE table == UnlinkPair(txns, t, peer)
              row == Unlinked(revised)
  <2>1. peer \in DOMAIN txns /\ peer # t
    BY <1>1, <1>4 DEF IInv, Book, LegOK
  <2>2. /\ DOMAIN table = DOMAIN txns
        /\ \A i \in DOMAIN txns : table[i].split = txns[i].split
    BY <1>1, <2>1, UnlinkRows DEF IInv, SameColumns
  <2>3. Rows(table, accounts)
    BY <1>1, <1>4, UnlinkKeeps DEF IInv
  <2>4. row.split = txns[t].split
    BY <1>1, <1>2 DEF Row, Revised, Unlinked
  <2>5. txns' = Edit(table, t, row)
    BY <1>4
  <2>. HIDE DEF table, row
  <2>6. /\ DOMAIN txns' = DOMAIN table /\ txns'[t] = row
        /\ \A i \in DOMAIN table \ {t} : txns'[i].split = table[i].split
    BY <1>1, <2>2, <2>3, <2>5, EditLines
  <2>. QED  BY <1>1, <2>2, <2>4, <2>6 DEF NoNewLines
<1>. QED  BY <1>3, <1>4 DEF ReviseBankTransaction

(* A new transfer: two rows without lines, then a link.                    *)
LEMMA TransferLines ==
  ASSUME IInv, NEW t \in TxnIds, NEW u \in TxnIds, NEW from \in Accounts,
         NEW to \in Accounts, NEW amount \in Amounts, NEW date \in Dates,
         NEW payee \in Payees,
         CreateTransfer(t, u, from, to, amount, date, payee)
  PROVE  NoNewLines(txns, txns')
<1>. DEFINE minus == -amount
            out == NewRow(Plain(from, minus, date, payee), None)
            in == NewRow(Plain(to, amount, date, payee), None)
            one == Insert(txns, t, out)
            two == Insert(one, u, in)
<1>1. /\ minus \in Amounts /\ t # u /\ t \notin DOMAIN txns /\ u \notin DOMAIN txns
      /\ from \in accounts /\ to \in accounts
  BY LedgerAssumption DEF CreateTransfer
<1>2. txns' = LinkPair(two, t, u)
  BY DEF CreateTransfer
<1>. HIDE DEF minus
<1>3. /\ PlainRow(out, from, minus) /\ PlainRow(in, to, amount)
      /\ out.split = <<>> /\ in.split = <<>>
  BY <1>1, PlainRowTyped, PlainLines
<1>. HIDE DEF out, in
<1>4. /\ Rows(one, accounts) /\ Book(one) /\ DOMAIN one = DOMAIN txns \cup {t}
      /\ NoNewLines(txns, one)
  BY <1>1, <1>3, InsertPlainKeeps, InsertLines DEF IInv
<1>. HIDE DEF one
<1>5. Rows(two, accounts) /\ DOMAIN two = DOMAIN one \cup {u} /\ NoNewLines(one, two)
  <2>1. u \notin DOMAIN one /\ to \in accounts /\ PlainRow(in, to, amount)
    BY <1>1, <1>3, <1>4
  <2>2. Rows(two, accounts) /\ DOMAIN two = DOMAIN one \cup {u}
    <3>1. Rows(one, accounts) /\ Book(one)
      BY <1>4
    <3>. QED  BY <2>1, <3>1, InsertPlainKeeps
  <2>3. NoNewLines(one, two)
    BY <1>3, InsertLines
  <2>. QED  BY <2>2, <2>3
<1>. HIDE DEF two
<1>6. NoNewLines(two, txns')
  BY <1>1, <1>2, <1>4, <1>5, LinkLines
<1>. QED  BY <1>4, <1>5, <1>6, LinesChain

(* A leg created for a row has no lines either; the row keeps its own.     *)
LEMMA NewLegLines ==
  ASSUME IInv, NEW t \in TxnIds, NEW u \in TxnIds, NEW to \in Accounts,
         LinkNewLeg(t, u, to)
  PROVE  NoNewLines(txns, txns')
<1>. DEFINE minus == -txns[t].amount
            leg == NewRow(Plain(to, minus, txns[t].date, txns[t].payee), None)
            table == Insert(txns, u, leg)
<1>1. /\ t \in DOMAIN txns /\ u \notin DOMAIN txns /\ to \in accounts
      /\ minus \in Amounts /\ txns[t].date \in Dates /\ txns[t].payee \in Payees
  BY LedgerAssumption DEF LinkNewLeg, IInv, Rows, Row
<1>2. txns' = LinkPair(table, t, u)
  BY DEF LinkNewLeg, Link
<1>. HIDE DEF minus
<1>3. PlainRow(leg, to, minus) /\ leg.split = <<>>
  BY <1>1, PlainRowTyped, PlainLines
<1>. HIDE DEF leg
<1>4. /\ Rows(table, accounts) /\ DOMAIN table = DOMAIN txns \cup {u}
      /\ NoNewLines(txns, table)
  BY <1>1, <1>3, InsertPlainKeeps, InsertLines DEF IInv
<1>. HIDE DEF table
<1>5. NoNewLines(table, txns')
  BY <1>1, <1>2, <1>4, LinkLines
<1>. QED  BY <1>4, <1>5, LinesChain

(* A bulk edit takes categories, not lines.                                *)
LEMMA BulkLines ==
  ASSUME IInv, NEW ids, NEW cat, BulkSetCategory(ids, cat)
  PROVE  NoNewLines(txns, txns')
<1>1. DOMAIN txns' = DOMAIN txns
  BY DEF BulkSetCategory
<1>2. ASSUME NEW i \in DOMAIN txns
      PROVE  SameColumns(txns[i], txns'[i])
  <2>1. txns'[i] \in {txns[i], Recategorized(txns[i], cat)}
    BY DEF BulkSetCategory
  <2>2. txns[i] \in Row
    BY DEF IInv, Rows
  <2>3. SameColumns(txns[i], txns[i])
    BY DEF SameColumns
  <2>. QED  BY <2>1, <2>2, <2>3, LinksKeepColumns
<1>. QED  BY <1>1, <1>2, ColumnsLines DEF Shrinks

(* Every step writes lines the two handlers' way, or none.                 *)
LEMMA StepLines ==
  ASSUME IInv, [Next]_vars
  PROVE  LinesWritten(txns, txns')
<1>1. ASSUME NoNewLines(txns, txns')
      PROVE  LinesWritten(txns, txns')
  BY <1>1 DEF NoNewLines, LinesWritten
<1>2. ASSUME NEW t, NEW req, NEW suggested, ImportYnabRow(t, req, suggested)
      PROVE  LinesWritten(txns, txns')
  <2>1. PICK cat : txns' = Insert(txns, t, NewRow(WithCategory(req, cat), None))
    BY <1>2 DEF ImportYnabRow, Store
  <2>2. NewRow(WithCategory(req, cat), None).split = req.split
    BY DEF NewRow, WithCategory
  <2>3. req.split = <<>>
    BY <1>2 DEF ImportYnabRow
  <2>. QED  BY <1>1, <2>1, <2>2, <2>3, InsertLines
<1>3. ASSUME NEW t, NEW e, NEW amount, NEW date, NEW payee, NEW suggested,
             ImportBankTransaction(t, e, amount, date, payee, suggested)
      PROVE  LinesWritten(txns, txns')
  <2>1. txns' = Insert(txns, t,
          NewRow(WithCategory(Plain(ImportAccount[e], amount, date, payee), suggested), e))
    BY <1>3 DEF ImportBankTransaction, Store
  <2>2. NewRow(WithCategory(Plain(ImportAccount[e], amount, date, payee), suggested), e).split = <<>>
    BY DEF NewRow, WithCategory, Plain
  <2>. QED  BY <1>1, <2>1, <2>2, InsertLines
<1>4. ASSUME NEW t, NEW e, NEW delta, NEW date, NEW payee,
             ImportOpeningBalance(t, e, delta, date, payee)
      PROVE  LinesWritten(txns, txns')
  BY <1>1, <1>4, PlainLines, InsertLines DEF ImportOpeningBalance
<1>5. ASSUME NEW t, NEW a, NEW delta, NEW date, NEW payee,
             SetAccountBalance(t, a, delta, date, payee)
      PROVE  LinesWritten(txns, txns')
  BY <1>1, <1>5, PlainLines, InsertLines DEF SetAccountBalance
<1>6. ASSUME NEW t, NEW u, LinkExisting(t, u)
      PROVE  LinesWritten(txns, txns')
  BY <1>1, <1>6, LinkLines DEF LinkExisting, Link, CanLink, IInv
<1>7. ASSUME NEW t, Unlink(t)
      PROVE  LinesWritten(txns, txns')
  <2>1. t \in DOMAIN txns /\ txns[t].peer \in DOMAIN txns /\ txns[t].peer # t
    BY <1>7 DEF Unlink, IInv, Book, LegOK
  <2>2. txns' = UnlinkPair(txns, t, txns[t].peer)
    BY <1>7 DEF Unlink
  <2>. QED  BY <1>1, <2>1, <2>2, UnlinkRows, ColumnsLines DEF IInv, Shrinks
<1>8. ASSUME NEW ids, txns' = Delete(txns, ids)
      PROVE  LinesWritten(txns, txns')
  BY <1>1, <1>8, DeleteShrinks, ColumnsLines DEF IInv
<1>9. ASSUME NEW ids, NEW order, DeleteTransactions(ids, order)
      PROVE  LinesWritten(txns, txns')
  BY <1>8, <1>9 DEF DeleteTransactions
<1>10. ASSUME NEW c, UnlinkConnection(c)
       PROVE  LinesWritten(txns, txns')
  BY <1>8, <1>10 DEF UnlinkConnection
<1>11. CASE ResetTransactions
  BY <1>11 DEF ResetTransactions, LinesWritten
<1>12. CASE UNCHANGED vars
  BY <1>12 DEF vars, LinesWritten
<1>. QED
  BY <1>1, <1>2, <1>3, <1>4, <1>5, <1>6, <1>7, <1>9, <1>10, <1>11, <1>12, CreateLines,
     UpdateLines, ReviseLines, TransferLines, NewLegLines, BulkLines DEF Next

(* Whatever a step leaves linked has no category, no Ready-to-Assign flag  *)
(* and no split line that the step wrote.                                  *)
THEOREM TransfersAreNotSpending == Spec => LegsUncategorized
<1>1. ASSUME IInv, IInv', [Next]_vars
      PROVE  \A t \in DOMAIN txns' : IsLinked(txns'[t]) =>
               /\ txns'[t].cat = None /\ ~txns'[t].rta
               /\ ~IsSplit(txns'[t]) \/ /\ t \in DOMAIN txns
                                        /\ txns'[t].split = txns[t].split
  BY <1>1, StepLines DEF LinesWritten, IInv, Book, LegOK
<1>. QED  BY Inductive, <1>1, PTL DEF Spec, LegsUncategorized

(* A row's category is always of its account's scope, and so are split     *)
(* lines in the step that writes them.                                     *)
THEOREM CategoriesStayInScope == Spec => CategorizedInScope
<1>1. ASSUME IInv', IInv, [Next]_vars
      PROVE  \A t \in DOMAIN txns' :
               /\ InScope(txns'[t].account, txns'[t].cat)
               /\ \/ t \in DOMAIN txns /\ txns'[t].split = txns[t].split
                  \/ LinesFit(txns'[t])
  <2>1. \A t \in DOMAIN txns' : InScope(txns'[t].account, txns'[t].cat)
    BY <1>1 DEF IInv, Rows, Assignable
  <2>2. \A t \in DOMAIN txns' : ~IsSplit(txns'[t]) => LinesFit(txns'[t])
    BY DEF IsSplit, LinesFit
  <2>. QED  BY <1>1, <2>1, <2>2, StepLines DEF LinesWritten
<1>. QED  BY Inductive, <1>1, PTL DEF Spec, CategorizedInScope

-----------------------------------------------------------------------------
(***************************************************************************)
(* Proof that every stored transfer suggestion of TransferLedger can be    *)
(* confirmed: whatever happened to its two rows since it was stored, the   *)
(* link handler would accept them.                                         *)
(***************************************************************************)

(* CandidatesConfirmable, said of a table and a set of pairs.              *)
Confirmable(table, p) ==
  \E t, u \in DOMAIN table :
    /\ p = {t, u}
    /\ CanLink(table, t, u)
    /\ DaysApart(table[t].date, table[u].date) <= MatchWindow

Fresh(table, pairs) == \A p \in pairs : Confirmable(table, p)

(* The columns that decide whether two rows may be linked.                 *)
SameTerms(r, s) ==
  /\ s.account = r.account /\ s.amount = r.amount /\ s.date = r.date
  /\ s.peer = r.peer

(* The rows a step leaves alone: all that are not linked and not in ids.   *)
(* A linked row needs no care, as it is in no pair.                        *)
KeepsFreeRows(table, new, ids) ==
  \A i \in DOMAIN table \ ids :
    ~IsLinked(table[i]) => i \in DOMAIN new /\ SameTerms(table[i], new[i])

(* A pair whose rows are left alone stays confirmable ...                  *)
LEMMA PairKept ==
  ASSUME NEW table, NEW new, NEW ids, NEW p, Confirmable(table, p),
         KeepsFreeRows(table, new, ids), p \cap ids = {}
  PROVE  Confirmable(new, p)
<1>1. PICK t \in DOMAIN table, u \in DOMAIN table :
        /\ p = {t, u} /\ CanLink(table, t, u)
        /\ DaysApart(table[t].date, table[u].date) <= MatchWindow
  BY DEF Confirmable
<1>2. /\ t \in DOMAIN new /\ SameTerms(table[t], new[t])
      /\ u \in DOMAIN new /\ SameTerms(table[u], new[u])
  BY <1>1 DEF KeepsFreeRows, CanLink
<1>3. CanLink(new, t, u)
  BY <1>1, <1>2 DEF CanLink, SameTerms, IsLinked
<1>. QED  BY <1>1, <1>2, <1>3 DEF Confirmable, SameTerms

(* ... and what is derived again is, as an offer passes every check.       *)
LEMMA OffersFresh ==
  ASSUME NEW table, NEW t \in DOMAIN table, NEW u \in Offers(table, t)
  PROVE  Confirmable(table, {t, u})
BY DEF Offers, Confirmable, CanLink, IsLinkable, IsMatch

(* Deriving the pairs of the rows a step touched leaves only good ones.    *)
LEMMA SyncFresh ==
  ASSUME NEW table, NEW new, NEW pairs, NEW order, Fresh(table, pairs),
         KeepsFreeRows(table, new, Range(order)), Range(order) \subseteq DOMAIN new
  PROVE  Fresh(new, SyncCandidates(new, pairs, order))
<1>1. ASSUME NEW p \in pairs, p \cap Range(order) = {}
      PROVE  Confirmable(new, p)
  BY <1>1, PairKept DEF Fresh
<1>2. ASSUME NEW t \in Range(order), NEW u \in Offers(new, t)
      PROVE  Confirmable(new, {t, u})
  BY OffersFresh
<1>. QED  BY <1>1, <1>2 DEF Fresh, SyncCandidates

(* Nothing to derive when no free row was touched.                         *)
LEMMA SameFresh ==
  ASSUME NEW table, NEW new, NEW pairs, Fresh(table, pairs),
         KeepsFreeRows(table, new, {})
  PROVE  Fresh(new, pairs)
BY PairKept DEF Fresh

(* The cascade drops the pairs of the rows that went.                      *)
LEMMA CascadeFresh ==
  ASSUME NEW table, NEW new, NEW pairs, NEW ids, Fresh(table, pairs),
         KeepsFreeRows(table, new, ids)
  PROVE  Fresh(new, CascadeCandidates(pairs, ids))
BY PairKept DEF Fresh, CascadeCandidates

-----------------------------------------------------------------------------
(* What the helpers on tables leave alone.                                 *)
LEMMA UntouchedRows ==
  ASSUME NEW table, NEW new, NEW ids,
         \A i \in DOMAIN table \ ids : i \in DOMAIN new /\ new[i] = table[i]
  PROVE  KeepsFreeRows(table, new, ids)
BY DEF KeepsFreeRows, SameTerms

(* An insert touches no other row.                                         *)
LEMMA InsertUntouched ==
  ASSUME NEW table, NEW t, t \notin DOMAIN table, NEW row
  PROVE  KeepsFreeRows(table, Insert(table, t, row), {})
<1>. DEFINE new == Insert(table, t, row)
<1>1. \A i \in DOMAIN table : i \in DOMAIN new /\ new[i] = table[i]
  BY DEF Insert
<1>. HIDE DEF new
<1>2. KeepsFreeRows(table, new, {})
  BY <1>1, UntouchedRows
<1>. QED  BY <1>2 DEF new

(* A deletion touches only linked survivors.                               *)
LEMMA DeleteUntouched ==
  ASSUME NEW table, NEW accs, Rows(table, accs), NEW ids, ids \subseteq DOMAIN table
  PROVE  KeepsFreeRows(table, Delete(table, ids), ids)
<1>. DEFINE new == Delete(table, ids)
<1>1. /\ DOMAIN new = DOMAIN table \ ids
      /\ \A i \in DOMAIN table \ ids : table[i].peer \notin ids => new[i] = table[i]
  BY DeleteRows
<1>. HIDE DEF new
<1>2. None \notin ids
  BY LedgerAssumption DEF Rows
<1>3. KeepsFreeRows(table, new, ids)
  BY <1>1, <1>2 DEF KeepsFreeRows, SameTerms, IsLinked
<1>. QED  BY <1>3 DEF new

(* An edit touches, besides its row, only the peer, which is linked.       *)
LEMMA EditUntouched ==
  ASSUME NEW table, NEW accs, Rows(table, accs), Book(table),
         NEW t \in DOMAIN table, NEW row, row.ext = table[t].ext
  PROVE  KeepsFreeRows(table, Edit(table, t, row), {t})
<1>. DEFINE new == Edit(table, t, row)
<1>1. /\ DOMAIN new = DOMAIN table
      /\ \A i \in DOMAIN table \ {t} : i # table[t].peer => new[i] = table[i]
  BY EditRows
<1>. HIDE DEF new
<1>2. ASSUME NEW i \in DOMAIN table \ {t}, ~IsLinked(table[i])
      PROVE  i # table[t].peer
  <2>1. SUFFICES ASSUME i = table[t].peer PROVE FALSE
    OBVIOUS
  <2>2. IsLinked(table[t])
    BY <2>1, LedgerAssumption DEF IsLinked, Rows
  <2>3. table[i].peer = t
    BY <2>1, <2>2 DEF Book, LegOK
  <2>. QED  BY <1>2, <2>3, LedgerAssumption DEF IsLinked, Rows
<1>3. KeepsFreeRows(table, new, {t})
  BY <1>1, <1>2 DEF KeepsFreeRows, SameTerms
<1>. QED  BY <1>3 DEF new

-----------------------------------------------------------------------------
(* One lemma per handler: the suggestions stay confirmable.                *)
LEMMA StoreFresh ==
  ASSUME Fresh(txns, candidates), NEW t, t \notin DOMAIN txns, NEW row, Store(t, row)
  PROVE  Fresh(txns', candidates')
<1>1. /\ txns' = Insert(txns, t, row)
      /\ candidates' = SyncCandidates(txns', candidates, <<t>>)
  BY DEF Store
<1>2. t \in DOMAIN txns' /\ \A i \in DOMAIN txns : i \in DOMAIN txns' /\ txns'[i] = txns[i]
  BY <1>1 DEF Insert
<1>3. KeepsFreeRows(txns, txns', {t})
  BY <1>2, UntouchedRows
<1>. QED  BY <1>1, <1>2, <1>3, RangeOfPair, SyncFresh

(* PATCH derives the pairs of the edited row.                              *)
LEMMA UpdateFresh ==
  ASSUME IInv, Fresh(txns, candidates), NEW t, NEW req \in Request,
         UpdateTransaction(t, req)
  PROVE  Fresh(txns', candidates')
<1>. DEFINE row == Merged(txns[t], req)
<1>1. /\ t \in DOMAIN txns /\ txns' = Edit(txns, t, row)
      /\ candidates' = SyncCandidates(txns', candidates, <<t>>)
  BY DEF UpdateTransaction
<1>2. row.ext = txns[t].ext
  BY <1>1, EditsKeepExt DEF IInv, Rows
<1>. HIDE DEF row
<1>3. KeepsFreeRows(txns, txns', {t}) /\ t \in DOMAIN txns'
  BY <1>1, <1>2, EditUntouched, EditRows DEF IInv
<1>. QED  BY <1>1, <1>3, RangeOfPair, SyncFresh

(* A bulk edit changes nothing a link depends on.                          *)
LEMMA BulkFresh ==
  ASSUME IInv, Fresh(txns, candidates), NEW ids, NEW cat, BulkSetCategory(ids, cat)
  PROVE  Fresh(txns', candidates')
<1>1. DOMAIN txns' = DOMAIN txns /\ candidates' = candidates
  BY DEF BulkSetCategory
<1>2. ASSUME NEW i \in DOMAIN txns
      PROVE  SameTerms(txns[i], txns'[i])
  <2>1. txns'[i] \in {txns[i], Recategorized(txns[i], cat)}
    BY DEF BulkSetCategory
  <2>2. txns[i] \in Row
    BY DEF IInv, Rows
  <2>3. SameTerms(txns[i], Recategorized(txns[i], cat)) /\ SameTerms(txns[i], txns[i])
    BY <2>2, LinksKeepColumns DEF SameTerms, SameColumns
  <2>. QED  BY <2>1, <2>3
<1>3. KeepsFreeRows(txns, txns', {})
  BY <1>1, <1>2 DEF KeepsFreeRows
<1>. QED  BY <1>1, <1>3, SameFresh

(* Linking two rows, one of which may just have been created.              *)
LEMMA LinkFresh ==
  ASSUME NEW table, NEW accs, Rows(table, accs), Fresh(table, candidates),
         NEW t \in DOMAIN table, NEW u \in DOMAIN table, Link(table, t, u)
  PROVE  Fresh(txns', candidates')
<1>1. /\ txns' = LinkPair(table, t, u) /\ t # u
      /\ candidates' = SyncCandidates(txns', candidates, <<t, u>>)
  BY DEF Link, CanLink
<1>2. /\ DOMAIN txns' = DOMAIN table
      /\ \A i \in DOMAIN table \ {t, u} : txns'[i] = table[i]
  BY <1>1, LinkRows
<1>3. KeepsFreeRows(table, txns', {t, u})
  BY <1>2, UntouchedRows
<1>. QED  BY <1>1, <1>2, <1>3, RangeOfPair, SyncFresh

(* Linking to a new leg: an insert, then a link.                           *)
LEMMA LinkNewLegFresh ==
  ASSUME IInv, Fresh(txns, candidates), NEW t \in TxnIds, NEW u \in TxnIds,
         NEW to \in Accounts, LinkNewLeg(t, u, to)
  PROVE  Fresh(txns', candidates')
<1>. DEFINE minus == -txns[t].amount
            leg == NewRow(Plain(to, minus, txns[t].date, txns[t].payee), None)
            table == Insert(txns, u, leg)
<1>1. /\ t \in DOMAIN txns /\ u \notin DOMAIN txns /\ to \in accounts
      /\ minus \in Amounts /\ txns[t].date \in Dates /\ txns[t].payee \in Payees
  BY LedgerAssumption DEF LinkNewLeg, IInv, Rows, Row
<1>2. Link(table, t, u)
  BY DEF LinkNewLeg
<1>. HIDE DEF minus
<1>3. PlainRow(leg, to, minus)
  BY <1>1, PlainRowTyped
<1>. HIDE DEF leg
<1>4. /\ Rows(table, accounts) /\ DOMAIN table = DOMAIN txns \cup {u}
      /\ KeepsFreeRows(txns, table, {})
  BY <1>1, <1>3, InsertPlainKeeps, InsertUntouched DEF IInv
<1>. HIDE DEF table
<1>5. Fresh(table, candidates)
  BY <1>4, SameFresh
<1>. QED  BY <1>1, <1>2, <1>4, <1>5, LinkFresh

(* Both legs of a new transfer are new rows.                               *)
LEMMA CreateTransferFresh ==
  ASSUME IInv, Fresh(txns, candidates), NEW t \in TxnIds, NEW u \in TxnIds,
         NEW from \in Accounts, NEW to \in Accounts, NEW amount \in Amounts,
         NEW date \in Dates, NEW payee \in Payees,
         CreateTransfer(t, u, from, to, amount, date, payee)
  PROVE  Fresh(txns', candidates')
<1>. DEFINE out == NewRow(Plain(from, -amount, date, payee), None)
            in == NewRow(Plain(to, amount, date, payee), None)
            two == Insert(Insert(txns, t, out), u, in)
<1>1. /\ txns' = LinkPair(two, t, u) /\ candidates' = candidates
      /\ t \notin DOMAIN txns /\ u \notin DOMAIN txns
  BY DEF CreateTransfer
<1>. HIDE DEF out, in
<1>2. /\ DOMAIN two = DOMAIN txns \cup {t, u}
      /\ \A i \in DOMAIN txns : two[i] = txns[i]
  BY <1>1 DEF Insert
<1>. HIDE DEF two
<1>3. \A i \in DOMAIN txns : i \in DOMAIN txns' /\ txns'[i] = txns[i]
  BY <1>1, <1>2 DEF LinkPair
<1>. QED  BY <1>1, <1>3, UntouchedRows, SameFresh

(* Unlinking derives the pairs of both rows.                               *)
LEMMA UnlinkFresh ==
  ASSUME IInv, Fresh(txns, candidates), NEW t, Unlink(t)
  PROVE  Fresh(txns', candidates')
<1>. DEFINE u == txns[t].peer
<1>1. t \in DOMAIN txns /\ u \in DOMAIN txns /\ u # t
  BY DEF Unlink, IInv, Book, LegOK
<1>2. /\ txns' = UnlinkPair(txns, t, u)
      /\ candidates' = SyncCandidates(txns', candidates, <<t, u>>)
  BY DEF Unlink
<1>. HIDE DEF u
<1>3. /\ DOMAIN txns' = DOMAIN txns
      /\ \A i \in DOMAIN txns \ {t, u} : txns'[i] = txns[i]
  BY <1>1, <1>2, UnlinkRows DEF IInv
<1>4. KeepsFreeRows(txns, txns', {t, u})
  BY <1>3, UntouchedRows
<1>. QED  BY <1>1, <1>2, <1>3, <1>4, RangeOfPair, SyncFresh

(* Deleting: the cascade first, then the kept peers.                       *)
LEMMA DeleteFresh ==
  ASSUME IInv, Fresh(txns, candidates), NEW ids, NEW order,
         DeleteTransactions(ids, order)
  PROVE  Fresh(txns', candidates')
<1>. DEFINE legs == AllLegs(txns, ids)
            kept == KeptPeers(txns, ids)
            left == CascadeCandidates(candidates, legs)
<1>1. kept \subseteq DOMAIN txns \ legs /\ legs \subseteq DOMAIN txns
  BY DEF DeleteTransactions, IInv, Book, LegOK, AllLegs, KeptPeers, PeersOutside
<1>2. Range(order) \subseteq kept
  BY DEF DeleteTransactions, SetToSeqs, Range
<1>3. /\ txns' = Delete(txns, legs)
      /\ candidates' = SyncCandidates(txns', left, order)
  BY DEF DeleteTransactions
<1>. HIDE DEF legs, kept
<1>4. KeepsFreeRows(txns, txns', legs) /\ DOMAIN txns' = DOMAIN txns \ legs
  BY <1>1, <1>3, DeleteUntouched, DeleteRows DEF IInv
<1>5. Fresh(txns', left)
  BY <1>4, CascadeFresh
<1>. HIDE DEF left
<1>6. KeepsFreeRows(txns', txns', Range(order))
  BY UntouchedRows
<1>. QED  BY <1>1, <1>2, <1>3, <1>4, <1>5, <1>6, SyncFresh

(* Unlinking a bank: the cascade alone leaves no bad pair.                 *)
LEMMA UnlinkConnectionFresh ==
  ASSUME IInv, Fresh(txns, candidates), NEW c, UnlinkConnection(c)
  PROVE  Fresh(txns', candidates')
<1>. DEFINE gone == {t \in DOMAIN txns : txns[t].account \in c}
<1>1. /\ txns' = Delete(txns, gone) /\ gone \subseteq DOMAIN txns
      /\ candidates' = CascadeCandidates(candidates, gone)
  BY DEF UnlinkConnection
<1>. HIDE DEF gone
<1>2. KeepsFreeRows(txns, txns', gone)
  BY <1>1, DeleteUntouched DEF IInv
<1>. QED  BY <1>1, <1>2, CascadeFresh

(* Rows of the application itself derive no pairs and disturb none.        *)
LEMMA QuietInsertFresh ==
  ASSUME Fresh(txns, candidates), NEW t, t \notin DOMAIN txns, NEW row,
         txns' = Insert(txns, t, row), candidates' = candidates
  PROVE  Fresh(txns', candidates')
BY InsertUntouched, SameFresh

(* A revision derives the pairs of the row, and of the peer it parts from. *)
LEMMA ReviseFresh ==
  ASSUME IInv, Fresh(txns, candidates), NEW t, NEW amount, NEW date,
         ReviseBankTransaction(t, amount, date)
  PROVE  Fresh(txns', candidates')
<1>. DEFINE peer == txns[t].peer
            revised == Revised(txns[t], amount, date)
<1>1. t \in DOMAIN txns /\ txns[t] \in Row
  BY DEF ReviseBankTransaction, IInv, Rows
<1>2. revised.ext = txns[t].ext
  BY <1>1, EditsKeepExt
<1>3. CASE /\ txns' = Edit(txns, t, revised)
           /\ candidates' = SyncCandidates(txns', candidates, <<t>>)
  <2>. HIDE DEF revised
  <2>1. KeepsFreeRows(txns, txns', {t}) /\ t \in DOMAIN txns'
    BY <1>1, <1>2, <1>3, EditUntouched, EditRows DEF IInv
  <2>. QED  BY <1>3, <2>1, RangeOfPair, SyncFresh
<1>4. CASE /\ IsLinked(txns[t])
           /\ txns' = Edit(UnlinkPair(txns, t, peer), t, Unlinked(revised))
           /\ candidates' = SyncCandidates(txns', candidates, <<peer, t>>)
  <2>. DEFINE table == UnlinkPair(txns, t, peer)
              row == Unlinked(revised)
  <2>1. peer \in DOMAIN txns /\ peer # t
    BY <1>1, <1>4 DEF IInv, Book, LegOK
  <2>2. /\ DOMAIN table = DOMAIN txns
        /\ \A i \in DOMAIN txns \ {t, peer} : table[i] = txns[i]
        /\ \A i \in DOMAIN txns : SameColumns(txns[i], table[i])
    BY <1>1, <2>1, UnlinkRows DEF IInv
  <2>3. Rows(table, accounts) /\ Book(table)
    BY <1>1, <1>4, UnlinkKeeps DEF IInv
  <2>4. row.ext = txns[t].ext
    BY <1>1, <1>2 DEF Row, Revised, Unlinked
  <2>5. txns' = Edit(table, t, row)
    BY <1>4
  <2>. HIDE DEF table, row, revised, peer
  <2>6. row.ext = table[t].ext
    BY <1>1, <2>2, <2>4 DEF SameColumns
  <2>7. KeepsFreeRows(table, txns', {t}) /\ DOMAIN txns' = DOMAIN table
    BY <1>1, <2>2, <2>3, <2>5, <2>6, EditUntouched, EditRows
  <2>8. KeepsFreeRows(txns, txns', {peer, t})
    BY <2>2, <2>7 DEF KeepsFreeRows
  <2>. QED  BY <1>1, <1>4, <2>1, <2>2, <2>7, <2>8, RangeOfPair, SyncFresh
<1>. QED  BY <1>3, <1>4 DEF ReviseBankTransaction

(* Every step, by the lemma of the step's handler.                         *)
LEMMA StepFresh ==
  ASSUME IInv, Fresh(txns, candidates), [Next]_vars
  PROVE  Fresh(txns', candidates')
<1>. DEFINE Goal == Fresh(txns', candidates')
<1>1. ASSUME NEW t, NEW req, CreateTransaction(t, req)
      PROVE  Goal
  BY <1>1, StoreFresh DEF CreateTransaction
<1>2. ASSUME NEW t, NEW req, NEW suggested, ImportYnabRow(t, req, suggested)
      PROVE  Goal
  BY <1>2, StoreFresh DEF ImportYnabRow
<1>3. ASSUME NEW t, NEW u, LinkExisting(t, u)
      PROVE  Goal
  BY <1>3, LinkFresh DEF LinkExisting, IInv
<1>4. ASSUME NEW t, NEW a, NEW delta, NEW date, NEW payee,
             SetAccountBalance(t, a, delta, date, payee)
      PROVE  Goal
  BY <1>4, QuietInsertFresh DEF SetAccountBalance
<1>5. ASSUME NEW t, NEW e, NEW amount, NEW date, NEW payee, NEW suggested,
             ImportBankTransaction(t, e, amount, date, payee, suggested)
      PROVE  Goal
  BY <1>5, StoreFresh DEF ImportBankTransaction
<1>6. ASSUME NEW t, NEW e, NEW delta, NEW date, NEW payee,
             ImportOpeningBalance(t, e, delta, date, payee)
      PROVE  Goal
  BY <1>6, QuietInsertFresh DEF ImportOpeningBalance
<1>7. ASSUME ResetTransactions
      PROVE  Goal
  BY <1>7 DEF ResetTransactions, Fresh
<1>8. CASE UNCHANGED vars
  BY <1>8 DEF vars, Fresh, Confirmable, CanLink
<1>9. CASE Next
  BY <1>9, <1>1, <1>2, <1>3, <1>4, <1>5, <1>6, <1>7, UpdateFresh, BulkFresh,
     CreateTransferFresh, LinkNewLegFresh, UnlinkFresh, DeleteFresh,
     UnlinkConnectionFresh, ReviseFresh DEF Next
<1>. QED  BY <1>8, <1>9

(* A stored suggestion can be confirmed at any later moment: no edit,      *)
(* deletion, link, revision or import leaves one behind that the link      *)
(* handler would refuse.                                                   *)
THEOREM SuggestionsConfirmable == Spec => []CandidatesConfirmable
<1>1. Init => Fresh(txns, candidates)
  BY DEF Init, Fresh
<1>2. IInv /\ Fresh(txns, candidates) /\ [Next]_vars => Fresh(txns, candidates)'
  BY StepFresh
<1>3. Fresh(txns, candidates) => CandidatesConfirmable
  BY DEF Fresh, Confirmable, CandidatesConfirmable
<1>. QED  BY Inductive, <1>1, <1>2, <1>3, PTL DEF Spec

-----------------------------------------------------------------------------
(* That no matching pair is missed, as long as no bank is unlinked.        *)
Pairable(row) == IsLinkable(row) /\ ~IsSplit(row)

Complete(table, pairs) ==
  \A t, u \in DOMAIN table :
    t # u /\ Pairable(table[t]) /\ Pairable(table[u]) /\ IsMatch(table[t], table[u])
      => {t, u} \in pairs

(* Apart from the rows of ids, a step makes no row pairable that was not,  *)
(* and changes no term of one that was.                                    *)
NoneComes(table, new, ids) ==
  \A i \in DOMAIN new \ ids :
    Pairable(new[i]) =>
      /\ i \in DOMAIN table /\ Pairable(table[i])
      /\ new[i].account = table[i].account /\ new[i].amount = table[i].amount
      /\ new[i].date = table[i].date

(* Matching has no direction.                                              *)
LEMMA MatchBothWays ==
  ASSUME NEW r \in Row, NEW s \in Row, IsMatch(r, s)
  PROVE  IsMatch(s, r)
<1>1. /\ r.amount \in Int /\ s.amount \in Int /\ r.date \in Int /\ s.date \in Int
  BY LedgerAssumption DEF Row
<1>2. DaysApart(s.date, r.date) = DaysApart(r.date, s.date)
  BY <1>1 DEF DaysApart
<1>. QED  BY <1>1, <1>2 DEF IsMatch

(* Deriving the pairs of the rows in order makes up for what happened to   *)
(* them.                                                                   *)
LEMMA SyncComplete ==
  ASSUME NEW table, NEW new, NEW accs, Rows(new, accs), NEW pairs, NEW order,
         DOMAIN order \subseteq Int,
         \A i, j \in DOMAIN order : order[i] = order[j] => i = j,
         Complete(table, pairs), NoneComes(table, new, Range(order))
  PROVE  Complete(new, SyncCandidates(new, pairs, order))
<1>. DEFINE stored == SyncCandidates(new, pairs, order)
<1>1. SUFFICES ASSUME NEW t \in DOMAIN new, NEW u \in DOMAIN new, t # u,
                      Pairable(new[t]), Pairable(new[u]), IsMatch(new[t], new[u])
               PROVE  {t, u} \in stored
  BY DEF Complete
<1>2. u \in Offers(new, t) /\ t \in Offers(new, u)
  <2>1. IsMatch(new[u], new[t])
    BY <1>1, MatchBothWays DEF Rows
  <2>. QED  BY <1>1, <2>1 DEF Offers, Pairable
<1>3. \A v \in Range(order) : \A w \in Offers(new, v) :
        ~SyncedBefore(order, v, w) => {v, w} \in stored
  BY DEF SyncCandidates
<1>4. CASE t \notin Range(order) /\ u \notin Range(order)
  <2>1. {t, u} \in pairs
    BY <1>1, <1>4 DEF NoneComes, Complete, IsMatch
  <2>2. {t, u} \cap Range(order) = {}
    BY <1>4
  <2>. QED  BY <2>1, <2>2 DEF SyncCandidates
<1>5. CASE t \in Range(order) /\ ~SyncedBefore(order, t, u)
  BY <1>2, <1>3, <1>5
<1>6. CASE u \in Range(order) /\ ~SyncedBefore(order, u, t)
  <2>1. {u, t} \in stored
    BY <1>2, <1>3, <1>6
  <2>2. {u, t} = {t, u}
    OBVIOUS
  <2>. QED  BY <2>1, <2>2
<1>7. ~SyncedBefore(order, t, u) \/ ~SyncedBefore(order, u, t)
  BY DEF SyncedBefore
<1>8. /\ u \notin Range(order) => ~SyncedBefore(order, t, u)
      /\ t \notin Range(order) => ~SyncedBefore(order, u, t)
  BY DEF SyncedBefore, Range
<1>. QED  BY <1>4, <1>5, <1>6, <1>7, <1>8

(* Nothing to derive when no row became pairable.                          *)
LEMMA SameComplete ==
  ASSUME NEW table, NEW new, NEW pairs, Complete(table, pairs), NoneComes(table, new, {})
  PROVE  Complete(new, pairs)
BY DEF Complete, NoneComes, IsMatch

(* The orders the handlers pass visit no row twice.                        *)
LEMMA OneInOrder ==
  ASSUME NEW t
  PROVE  /\ DOMAIN <<t>> \subseteq Int
         /\ \A i, j \in DOMAIN <<t>> : <<t>>[i] = <<t>>[j] => i = j
OBVIOUS

(* The same of two rows.                                                   *)
LEMMA TwoInOrder ==
  ASSUME NEW t, NEW u, t # u
  PROVE  /\ DOMAIN <<t, u>> \subseteq Int
         /\ \A i, j \in DOMAIN <<t, u>> : <<t, u>>[i] = <<t, u>>[j] => i = j
OBVIOUS

(* Untouched rows bring no new pair.                                       *)
LEMMA UntouchedComplete ==
  ASSUME NEW table, NEW new, NEW ids,
         \A i \in DOMAIN new \ ids : i \in DOMAIN table /\ new[i] = table[i]
  PROVE  NoneComes(table, new, ids)
BY DEF NoneComes

-----------------------------------------------------------------------------
(* One lemma per handler: it misses no pair.                               *)
LEMMA StoreComplete ==
  ASSUME IInv', Complete(txns, candidates), NEW t, t \notin DOMAIN txns, NEW row,
         Store(t, row)
  PROVE  Complete(txns', candidates')
<1>1. /\ txns' = Insert(txns, t, row)
      /\ candidates' = SyncCandidates(txns', candidates, <<t>>)
  BY DEF Store
<1>2. \A i \in DOMAIN txns' \ {t} : i \in DOMAIN txns /\ txns'[i] = txns[i]
  BY <1>1 DEF Insert
<1>3. NoneComes(txns, txns', {t})
  BY <1>2, UntouchedComplete
<1>4. Rows(txns', accounts')
  BY DEF IInv
<1>. QED  BY <1>1, <1>3, <1>4, RangeOfPair, OneInOrder, SyncComplete

(* An edited leg's peer stays a leg, so it is not pairable.                *)
LEMMA EditComes ==
  ASSUME NEW table, NEW accs, Rows(table, accs), Book(table),
         NEW t \in DOMAIN table, NEW row, row.ext = table[t].ext
  PROVE  NoneComes(table, Edit(table, t, row), {t})
<1>. DEFINE new == Edit(table, t, row)
<1>1. /\ DOMAIN new = DOMAIN table
      /\ \A i \in DOMAIN table \ {t} : i # table[t].peer => new[i] = table[i]
  BY EditRows
<1>2. \A i \in DOMAIN table \ {t} : new[i] \in {table[i], WithAmount(table[i], -row.amount)}
  BY DEF Edit
<1>. HIDE DEF new
<1>3. ASSUME NEW i \in DOMAIN table \ {t}, i = table[t].peer
      PROVE  ~Pairable(new[i])
  <2>1. table[i] \in Row /\ table[t] \in Row /\ i # None
    BY LedgerAssumption DEF Rows
  <2>2. table[i].peer = t /\ t # None
    BY <1>3, <2>1, LedgerAssumption DEF Book, LegOK, IsLinked, Rows
  <2>3. WithAmount(table[i], -row.amount).peer = t
    BY <2>1, <2>2 DEF WithAmount, Row
  <2>4. new[i].peer = t
    BY <1>2, <2>2, <2>3
  <2>. QED  BY <2>2, <2>4 DEF Pairable, IsLinkable, IsLinked
<1>4. NoneComes(table, new, {t})
  BY <1>1, <1>3 DEF NoneComes
<1>. QED  BY <1>4 DEF new

(* PATCH misses none.                                                      *)
LEMMA UpdateComplete ==
  ASSUME IInv, IInv', Complete(txns, candidates), NEW t, NEW req \in Request,
         UpdateTransaction(t, req)
  PROVE  Complete(txns', candidates')
<1>. DEFINE row == Merged(txns[t], req)
<1>1. /\ t \in DOMAIN txns /\ txns' = Edit(txns, t, row)
      /\ candidates' = SyncCandidates(txns', candidates, <<t>>)
  BY DEF UpdateTransaction
<1>2. row.ext = txns[t].ext
  BY <1>1, EditsKeepExt DEF IInv, Rows
<1>. HIDE DEF row
<1>3. NoneComes(txns, txns', {t})
  BY <1>1, <1>2, EditComes DEF IInv
<1>4. Rows(txns', accounts')
  BY DEF IInv
<1>. QED  BY <1>1, <1>3, <1>4, RangeOfPair, OneInOrder, SyncComplete

(* A bulk edit makes no row pairable.                                      *)
LEMMA BulkComplete ==
  ASSUME IInv, Complete(txns, candidates), NEW ids, NEW cat, BulkSetCategory(ids, cat)
  PROVE  Complete(txns', candidates')
<1>1. DOMAIN txns' = DOMAIN txns /\ candidates' = candidates
  BY DEF BulkSetCategory
<1>2. ASSUME NEW i \in DOMAIN txns
      PROVE  /\ Pairable(txns'[i]) => Pairable(txns[i])
             /\ SameColumns(txns[i], txns'[i])
  <2>1. txns'[i] \in {txns[i], Recategorized(txns[i], cat)}
    BY DEF BulkSetCategory
  <2>2. txns[i] \in Row
    BY DEF IInv, Rows
  <2>3. /\ Pairable(Recategorized(txns[i], cat)) => Pairable(txns[i])
        /\ SameColumns(txns[i], Recategorized(txns[i], cat))
    BY <2>2 DEF Pairable, IsLinkable, IsLinked, IsSplit, Row, Recategorized, SameColumns
  <2>4. SameColumns(txns[i], txns[i])
    BY DEF SameColumns
  <2>. QED  BY <2>1, <2>3, <2>4
<1>3. NoneComes(txns, txns', {})
  BY <1>1, <1>2 DEF NoneComes, SameColumns
<1>. QED  BY <1>1, <1>3, SameComplete

(* Linking derives both rows.                                              *)
LEMMA LinkComplete ==
  ASSUME IInv', NEW table, NEW accs, Rows(table, accs),
         Complete(table, candidates),
         NEW t \in DOMAIN table, NEW u \in DOMAIN table, Link(table, t, u)
  PROVE  Complete(txns', candidates')
<1>1. /\ txns' = LinkPair(table, t, u) /\ t # u
      /\ candidates' = SyncCandidates(txns', candidates, <<t, u>>)
  BY DEF Link, CanLink
<1>2. /\ DOMAIN txns' = DOMAIN table
      /\ \A i \in DOMAIN table \ {t, u} : txns'[i] = table[i]
  BY <1>1, LinkRows
<1>3. NoneComes(table, txns', {t, u})
  BY <1>2, UntouchedComplete
<1>4. Rows(txns', accounts')
  BY DEF IInv
<1>. QED  BY <1>1, <1>3, <1>4, RangeOfPair, TwoInOrder, SyncComplete

(* So does linking to a new leg.                                           *)
LEMMA LinkNewLegComplete ==
  ASSUME IInv, IInv', Complete(txns, candidates), NEW t \in TxnIds, NEW u \in TxnIds,
         NEW to \in Accounts, LinkNewLeg(t, u, to)
  PROVE  Complete(txns', candidates')
<1>. DEFINE leg == NewRow(Plain(to, -txns[t].amount, txns[t].date, txns[t].payee), None)
            table == Insert(txns, u, leg)
<1>1. /\ t \in DOMAIN txns /\ u \notin DOMAIN txns /\ t # u
      /\ txns' = LinkPair(table, t, u)
      /\ candidates' = SyncCandidates(txns', candidates, <<t, u>>)
  BY DEF LinkNewLeg, Link, CanLink
<1>. HIDE DEF leg
<1>2. /\ DOMAIN txns' = DOMAIN txns \cup {u}
      /\ \A i \in DOMAIN txns \ {t, u} : txns'[i] = txns[i]
  BY <1>1 DEF LinkPair, Insert
<1>3. NoneComes(txns, txns', {t, u})
  BY <1>2, UntouchedComplete
<1>4. Rows(txns', accounts')
  BY DEF IInv
<1>. QED  BY <1>1, <1>3, <1>4, RangeOfPair, TwoInOrder, SyncComplete

(* Rows that are linked from the start, and the application's own, pair    *)
(* with nothing.                                                           *)
LEMMA QuietComplete ==
  ASSUME Complete(txns, candidates), candidates' = candidates,
         \A i \in DOMAIN txns' :
           ~Pairable(txns'[i]) \/ (i \in DOMAIN txns /\ txns'[i] = txns[i])
  PROVE  Complete(txns', candidates')
<1>1. NoneComes(txns, txns', {})
  BY DEF NoneComes
<1>. QED  BY <1>1, SameComplete

(* A new transfer is linked from the start.                                *)
LEMMA CreateTransferComplete ==
  ASSUME IInv, Complete(txns, candidates), NEW t \in TxnIds, NEW u \in TxnIds,
         NEW from, NEW to, NEW amount, NEW date, NEW payee,
         CreateTransfer(t, u, from, to, amount, date, payee)
  PROVE  Complete(txns', candidates')
<1>. DEFINE out == NewRow(Plain(from, -amount, date, payee), None)
            in == NewRow(Plain(to, amount, date, payee), None)
            two == Insert(Insert(txns, t, out), u, in)
<1>1. /\ txns' = LinkPair(two, t, u) /\ candidates' = candidates
      /\ t \notin DOMAIN txns /\ u \notin DOMAIN txns /\ t # u
  BY DEF CreateTransfer
<1>2. /\ DOMAIN two = DOMAIN txns \cup {t, u} /\ two[t] = out /\ two[u] = in
      /\ \A i \in DOMAIN txns : two[i] = txns[i]
  BY <1>1 DEF Insert
<1>3. AsLeg(out, u).peer = u /\ AsLeg(in, t).peer = t
  BY DEF NewRow, AsLeg
<1>. HIDE DEF out, in, two
<1>4. /\ DOMAIN txns' = DOMAIN txns \cup {t, u}
      /\ txns'[t] = AsLeg(out, u) /\ txns'[u] = AsLeg(in, t)
      /\ \A i \in DOMAIN txns : txns'[i] = txns[i]
  BY <1>1, <1>2 DEF LinkPair
<1>5. ~Pairable(txns'[t]) /\ ~Pairable(txns'[u])
  BY <1>3, <1>4, LedgerAssumption DEF Pairable, IsLinkable, IsLinked
<1>. QED  BY <1>1, <1>4, <1>5, QuietComplete

(* Balance adjustments and opening balances are bookkeeping.               *)
LEMMA BookkeepingComplete ==
  ASSUME Complete(txns, candidates), candidates' = candidates,
         NEW t, t \notin DOMAIN txns, NEW account, NEW delta, NEW date,
         NEW payee \in SyntheticPayees, NEW ext,
         txns' = Insert(txns, t, NewRow(Plain(account, delta, date, payee), ext))
  PROVE  Complete(txns', candidates')
<1>. DEFINE row == NewRow(Plain(account, delta, date, payee), ext)
<1>1. ~Pairable(row)
  BY DEF Pairable, IsLinkable, NewRow, Plain
<1>2. txns' = Insert(txns, t, row)
  OBVIOUS
<1>. HIDE DEF row
<1>3. /\ DOMAIN txns' = DOMAIN txns \cup {t} /\ txns'[t] = row
      /\ \A i \in DOMAIN txns : txns'[i] = txns[i]
  BY <1>2 DEF Insert
<1>. QED  BY <1>1, <1>3, QuietComplete

(* Unlinking makes two rows pairable and derives both.                     *)
LEMMA UnlinkComplete ==
  ASSUME IInv, IInv', Complete(txns, candidates), NEW t, Unlink(t)
  PROVE  Complete(txns', candidates')
<1>. DEFINE u == txns[t].peer
<1>1. t \in DOMAIN txns /\ u \in DOMAIN txns /\ u # t
  BY DEF Unlink, IInv, Book, LegOK
<1>2. /\ txns' = UnlinkPair(txns, t, u)
      /\ candidates' = SyncCandidates(txns', candidates, <<t, u>>)
  BY DEF Unlink
<1>. HIDE DEF u
<1>3. /\ DOMAIN txns' = DOMAIN txns
      /\ \A i \in DOMAIN txns \ {t, u} : txns'[i] = txns[i]
  BY <1>1, <1>2, UnlinkRows DEF IInv
<1>4. NoneComes(txns, txns', {t, u})
  BY <1>3, UntouchedComplete
<1>5. Rows(txns', accounts')
  BY DEF IInv
<1>. QED  BY <1>1, <1>2, <1>4, <1>5, RangeOfPair, TwoInOrder, SyncComplete

(* An order of a finite set visits each of its members once.               *)
LEMMA OrderVisitsAll ==
  ASSUME NEW S, IsFiniteSet(S), NEW order \in SetToSeqs(S)
  PROVE  /\ Range(order) = S /\ DOMAIN order \subseteq Int
         /\ \A i, j \in DOMAIN order : order[i] = order[j] => i = j
<1>. DEFINE D == 1..Cardinality(S)
<1>1. Cardinality(S) \in Nat
  BY FS_CardinalityType
<1>2. order \in [D -> S] /\ \A i, j \in D : i # j => order[i] # order[j]
  BY DEF SetToSeqs
<1>3. IsFiniteSet(D) /\ Cardinality(D) = Cardinality(S) /\ D \subseteq Int
  BY <1>1, FS_Interval
<1>. HIDE DEF D
<1>4. Range(order) \subseteq S
  BY <1>2 DEF Range
<1>5. order \in Surjection(D, Range(order))
  BY <1>2 DEF Surjection, Range
<1>6. order \in Injection(D, Range(order))
  BY <1>2, <1>5 DEF Surjection, Injection, IsInjective
<1>7. Cardinality(Range(order)) = Cardinality(S)
  BY <1>3, <1>5, <1>6, FS_Surjection
<1>8. Range(order) = S
  BY <1>4, <1>7, FS_Subset
<1>. QED  BY <1>2, <1>3, <1>8

(* A survivor of a deletion that loses its peer is visited.                *)
LEMMA DeleteComplete ==
  ASSUME IsFiniteSet(TxnIds), IInv, IInv', Complete(txns, candidates),
         NEW ids, NEW order, DeleteTransactions(ids, order)
  PROVE  Complete(txns', candidates')
<1>. DEFINE legs == AllLegs(txns, ids)
            kept == KeptPeers(txns, ids)
            left == CascadeCandidates(candidates, legs)
            table == Delete(txns, legs)
<1>1. kept \subseteq DOMAIN txns /\ DOMAIN txns \subseteq TxnIds
  BY DEF DeleteTransactions, IInv, Book, LegOK, KeptPeers, PeersOutside, Rows
<1>2. /\ Range(order) = kept /\ DOMAIN order \subseteq Int
      /\ \A i, j \in DOMAIN order : order[i] = order[j] => i = j
  <2>1. IsFiniteSet(kept)
    BY <1>1, FS_Subset
  <2>2. order \in SetToSeqs(kept)
    BY DEF DeleteTransactions
  <2>. HIDE DEF kept
  <2>. QED  BY <2>1, <2>2, OrderVisitsAll
<1>3. txns' = table /\ candidates' = SyncCandidates(txns', left, order)
  BY DEF DeleteTransactions
<1>4. ASSUME NEW i \in DOMAIN txns \ legs, txns[i].peer \in legs
      PROVE  i \in kept
  <2>1. /\ legs = ids \cup (PeersOutside(txns, ids) \ kept)
        /\ ids \subseteq DOMAIN txns /\ i \notin ids
    BY <1>4 DEF AllLegs, DeleteTransactions
  <2>2. PICK j \in legs : j = txns[i].peer
    BY <1>4
  <2>3. j \in DOMAIN txns /\ txns[j].peer = i /\ IsLinked(txns[j])
    <3>1. j \in DOMAIN txns
      BY <2>1, <2>2 DEF PeersOutside, IInv, Book, LegOK
    <3>2. IsLinked(txns[i])
      BY <2>2, <3>1, LedgerAssumption DEF IsLinked, IInv, Rows
    <3>3. txns[j].peer = i
      BY <2>2, <3>2 DEF IInv, Book, LegOK
    <3>4. i # None
      BY LedgerAssumption DEF IInv, Rows
    <3>. QED  BY <3>1, <3>3, <3>4 DEF IsLinked
  <2>4. j \in ids
    <3>1. SUFFICES ASSUME j \in PeersOutside(txns, ids) PROVE FALSE
      BY <2>1
    <3>2. PICK k \in ids : IsLinked(txns[k]) /\ txns[k].peer = j
      BY <3>1 DEF PeersOutside
    <3>3. txns[j].peer = k
      BY <2>1, <3>2 DEF IInv, Book, LegOK
    <3>. QED  BY <2>1, <2>3, <3>2, <3>3
  <2>5. i \in PeersOutside(txns, ids)
    BY <2>1, <2>3, <2>4 DEF PeersOutside
  <2>. QED  BY <1>4, <2>1, <2>5
<1>. HIDE DEF legs, kept
<1>5. /\ DOMAIN table = DOMAIN txns \ legs
      /\ \A i \in DOMAIN txns \ legs : txns[i].peer \notin legs => table[i] = txns[i]
  BY DeleteRows DEF IInv
<1>. HIDE DEF table
<1>6. \A i \in DOMAIN txns' \ kept : i \in DOMAIN txns /\ txns'[i] = txns[i]
  BY <1>3, <1>4, <1>5
<1>7. NoneComes(txns, txns', kept)
  BY <1>6, UntouchedComplete
<1>8. Rows(txns', accounts')
  BY DEF IInv
<1>9. Complete(txns', SyncCandidates(txns', candidates, order))
  BY <1>2, <1>7, <1>8, SyncComplete
<1>10. ASSUME NEW t \in DOMAIN txns', NEW u \in DOMAIN txns',
              {t, u} \in SyncCandidates(txns', candidates, order)
       PROVE  {t, u} \in SyncCandidates(txns', left, order)
  BY <1>3, <1>5, <1>10 DEF SyncCandidates, CascadeCandidates
<1>. QED  BY <1>3, <1>9, <1>10 DEF Complete

(* A revision that parts a pair derives both rows.                         *)
LEMMA ReviseComplete ==
  ASSUME IInv, IInv', Complete(txns, candidates), NEW t, NEW amount, NEW date,
         ReviseBankTransaction(t, amount, date)
  PROVE  Complete(txns', candidates')
<1>. DEFINE peer == txns[t].peer
            revised == Revised(txns[t], amount, date)
<1>1. t \in DOMAIN txns /\ txns[t] \in Row
  BY DEF ReviseBankTransaction, IInv, Rows
<1>2. revised.ext = txns[t].ext
  BY <1>1, EditsKeepExt
<1>3. Rows(txns', accounts')
  BY DEF IInv
<1>4. CASE /\ txns' = Edit(txns, t, revised)
           /\ candidates' = SyncCandidates(txns', candidates, <<t>>)
  <2>. HIDE DEF revised
  <2>1. NoneComes(txns, txns', {t})
    BY <1>1, <1>2, <1>4, EditComes DEF IInv
  <2>. QED  BY <1>3, <1>4, <2>1, RangeOfPair, OneInOrder, SyncComplete
<1>5. CASE /\ IsLinked(txns[t])
           /\ txns' = Edit(UnlinkPair(txns, t, peer), t, Unlinked(revised))
           /\ candidates' = SyncCandidates(txns', candidates, <<peer, t>>)
  <2>. DEFINE table == UnlinkPair(txns, t, peer)
              row == Unlinked(revised)
  <2>1. peer \in DOMAIN txns /\ peer # t
    BY <1>1, <1>5 DEF IInv, Book, LegOK
  <2>2. /\ DOMAIN table = DOMAIN txns
        /\ \A i \in DOMAIN txns \ {t, peer} : table[i] = txns[i]
        /\ \A i \in DOMAIN txns : SameColumns(txns[i], table[i])
    BY <1>1, <2>1, UnlinkRows DEF IInv
  <2>3. Rows(table, accounts) /\ Book(table)
    BY <1>1, <1>5, UnlinkKeeps DEF IInv
  <2>4. row.ext = txns[t].ext
    BY <1>1, <1>2 DEF Row, Revised, Unlinked
  <2>5. txns' = Edit(table, t, row)
    BY <1>5
  <2>. HIDE DEF table, row, revised, peer
  <2>6. row.ext = table[t].ext
    BY <1>1, <2>2, <2>4 DEF SameColumns
  <2>7. NoneComes(table, txns', {t}) /\ DOMAIN txns' = DOMAIN table
    BY <1>1, <2>2, <2>3, <2>5, <2>6, EditComes, EditRows
  <2>8. NoneComes(txns, txns', {peer, t})
    BY <2>2, <2>7 DEF NoneComes
  <2>. QED  BY <1>3, <1>5, <2>1, <2>8, RangeOfPair, TwoInOrder, SyncComplete
<1>. QED  BY <1>4, <1>5 DEF ReviseBankTransaction

(* Every step but the unlinking of a bank.                                 *)
LEMMA StepComplete ==
  ASSUME IsFiniteSet(TxnIds), IInv, IInv', Complete(txns, candidates), [Next]_vars,
         \/ \A c \in Connections : ~UnlinkConnection(c)
         \/ UNCHANGED vars
  PROVE  Complete(txns', candidates')
<1>. DEFINE Goal == Complete(txns', candidates')
<1>1. ASSUME NEW t, NEW req, CreateTransaction(t, req)
      PROVE  Goal
  BY <1>1, StoreComplete DEF CreateTransaction
<1>2. ASSUME NEW t, NEW req, NEW suggested, ImportYnabRow(t, req, suggested)
      PROVE  Goal
  BY <1>2, StoreComplete DEF ImportYnabRow
<1>3. ASSUME NEW t, NEW u, LinkExisting(t, u)
      PROVE  Goal
  BY <1>3, LinkComplete DEF LinkExisting, IInv
<1>4. ASSUME NEW t, NEW a, NEW delta, NEW date, NEW payee,
             SetAccountBalance(t, a, delta, date, payee)
      PROVE  Goal
  BY <1>4, BookkeepingComplete DEF SetAccountBalance
<1>5. ASSUME NEW t, NEW e, NEW amount, NEW date, NEW payee, NEW suggested,
             ImportBankTransaction(t, e, amount, date, payee, suggested)
      PROVE  Goal
  BY <1>5, StoreComplete DEF ImportBankTransaction
<1>6. ASSUME NEW t, NEW e, NEW delta, NEW date, NEW payee,
             ImportOpeningBalance(t, e, delta, date, payee)
      PROVE  Goal
  BY <1>6, BookkeepingComplete DEF ImportOpeningBalance
<1>7. ASSUME ResetTransactions
      PROVE  Goal
  BY <1>7 DEF ResetTransactions, Complete
<1>8. CASE UNCHANGED vars
  BY <1>8 DEF vars, Complete
<1>9. CASE Next /\ \A c \in Connections : ~UnlinkConnection(c)
  BY <1>9, <1>1, <1>2, <1>3, <1>4, <1>5, <1>6, <1>7, UpdateComplete, BulkComplete,
     CreateTransferComplete, LinkNewLegComplete, UnlinkComplete, DeleteComplete,
     ReviseComplete DEF Next
<1>. QED  BY <1>8, <1>9

(* As long as no bank is unlinked, no matching pair is missed: unlinking,  *)
(* which removes rows by foreign keys alone, is the only handler that      *)
(* leaves a pair out.                                                      *)
THEOREM SuggestionsComplete ==
  ASSUME IsFiniteSet(TxnIds)
  PROVE  Spec /\ [][\A c \in Connections : ~UnlinkConnection(c)]_vars
           => []CandidatesComplete
<1>1. Init => Complete(txns, candidates)
  BY DEF Init, Complete
<1>2. /\ IInv /\ IInv' /\ Complete(txns, candidates) /\ [Next]_vars
      /\ [\A c \in Connections : ~UnlinkConnection(c)]_vars
      => Complete(txns, candidates)'
  BY StepComplete
<1>3. Complete(txns, candidates) => CandidatesComplete
  BY DEF Complete, Pairable, CandidatesComplete
<1>. QED  BY Inductive, <1>1, <1>2, <1>3, PTL DEF Spec
=============================================================================

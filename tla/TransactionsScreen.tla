------------------------- MODULE TransactionsScreen -------------------------
(***************************************************************************)
(* TransactionsPage: the filtered list and its fetches, the selection, the *)
(* dialogs over it and the calls they make. The list is what the server    *)
(* had at the last fetch; the calls act on the rows as they are by then.   *)
(***************************************************************************)
EXTENDS Naturals, FiniteSets

CONSTANTS
    RowIds,
    Traits,     \* row |-> [account, month, text]: what the filters look at
    FilterSets, \* filters the user sets up: [account, month, category, text, review]
    All,        \* no restriction by a filter
    Gone, NoRow,
    MaxChanges  \* bound on the calls and on the changes made elsewhere

RowStates ==
    [category : {"unassigned", "groceries", "transfer"}, cleared : BOOLEAN,
     peer : RowIds \cup {NoRow}]

Filters ==
    [account : {All} \cup {Traits[r].account : r \in RowIds},
     month : {All} \cup {Traits[r].month : r \in RowIds},
     text : {All} \cup {Traits[r].text : r \in RowIds},
     category : {All, "unassigned", "groceries", "transfer"},
     review : BOOLEAN]

ASSUME ListAssumption ==
    /\ IsFiniteSet(RowIds) /\ NoRow \notin RowIds /\ Gone \notin RowStates
    /\ FilterSets \subseteq Filters /\ MaxChanges \in Nat

VARIABLES
    rowState,   \* the server's rows: [category, cleared, peer], or gone
    filter,     \* the controls
    applied,    \* the filter of the list: its text follows 300 ms later
    loaded,     \* the rows of the list |-> what they held when they were fetched
    selected, selecting,
    dialog,     \* the dialog on screen and the row it is about
    underway,   \* calls the page waits for
    changes

listVars == <<rowState, filter, applied, loaded, selected, selecting,
              dialog, underway, changes>>

-----------------------------------------------------------------------------
Live == {r \in RowIds : rowState[r] # Gone}

Listed == DOMAIN loaded
Fetched(rows) == [r \in rows |-> rowState[r]]

NoDialog == [name |-> "none", row |-> NoRow]
Dialog(name, r) == [name |-> name, row |-> r]

\* The query parameters: a blank date, text or category leaves the filter open.
Passes(r, f) ==
    /\ f.account \in {All, Traits[r].account}
    /\ f.month \in {All, Traits[r].month}
    /\ f.text \in {All, Traits[r].text}
    /\ f.category \in {All, rowState[r].category}
    /\ f.review => ~rowState[r].cleared

Listing == {r \in Live : Passes(r, applied)}

\* The first filter: this month's rows without a category.
DefaultFilter(f) == f.category = "unassigned" /\ f.account = All /\ f.text = All /\ ~f.review

Fresh == [category |-> "unassigned", cleared |-> FALSE, peer |-> NoRow]

ListInit ==
    /\ rowState \in [RowIds -> {Fresh, Gone}]
    /\ filter \in {f \in FilterSets : DefaultFilter(f)}
    /\ applied = filter
    /\ loaded = Fetched({})
    /\ selected = {} /\ selecting = FALSE
    /\ dialog = NoDialog /\ underway = {} /\ changes = 0

-----------------------------------------------------------------------------
\* The list's query key and the effect that resets the selection depend on the
\* same values, the search text as debounced.
Refilter(f) ==
    /\ applied' = f /\ loaded' = Fetched({})
    /\ selected' = {}

SetFilter(f) ==
    /\ f # filter /\ f.text = filter.text
    /\ filter' = f
    /\ Refilter([f EXCEPT !.text = applied.text])
    /\ UNCHANGED <<rowState, selecting, dialog, underway, changes>>

TypeSearch(f) ==
    /\ f.text # filter.text /\ f = [filter EXCEPT !.text = f.text]
    /\ filter' = f
    /\ UNCHANGED <<rowState, applied, loaded, selected, selecting, dialog,
                   underway, changes>>

DebounceSearch ==
    /\ applied # filter
    /\ Refilter(filter)
    /\ UNCHANGED <<rowState, filter, selecting, dialog, underway, changes>>

\* UnassignedTransactionsIsland's link, followed from this page: the effect on
\* the URL parameter opens the dates and asks for the uncategorized rows.
ReviewUnassigned ==
    LET f == [filter EXCEPT !.category = "unassigned", !.month = All] IN
    /\ f # filter
    /\ filter' = f
    /\ Refilter([f EXCEPT !.text = applied.text])
    /\ UNCHANGED <<rowState, selecting, dialog, underway, changes>>

\* The list's query answers: a first load with a page, a refetch with what is
\* left of the pages loaded before and what has come in between, every row as it
\* is now.
Fetch(rows) ==
    /\ rows \subseteq Listing /\ (rows = {} => Listing = {})
    /\ Listed \cap Listing \subseteq rows
    /\ loaded' = Fetched(rows)
    /\ UNCHANGED <<rowState, filter, applied, selected, selecting, dialog, underway, changes>>

\* The next page; the rows before it stay as they were fetched.
LoadMore ==
    /\ Listed # {} /\ Listing \ Listed # {}
    /\ loaded' = [r \in Listed \cup Listing |-> IF r \in Listed THEN loaded[r] ELSE rowState[r]]
    /\ UNCHANGED <<rowState, filter, applied, selected, selecting, dialog, underway, changes>>

-----------------------------------------------------------------------------
NoOverlay == dialog = NoDialog

ToggleSelected(r) ==
    /\ NoOverlay /\ r \in Listed
    /\ selected' = IF r \in selected THEN selected \ {r} ELSE selected \cup {r}
    /\ UNCHANGED <<rowState, filter, applied, loaded, selecting, dialog, underway, changes>>

AllLoadedSelected == Listed # {} /\ Listed \subseteq selected

ToggleSelectAllLoaded ==
    /\ NoOverlay /\ Listed # {}
    /\ selected' = IF AllLoadedSelected THEN {} ELSE Listed
    /\ UNCHANGED <<rowState, filter, applied, loaded, selecting, dialog, underway, changes>>

ToggleSelecting ==
    /\ NoOverlay
    /\ selecting' = ~selecting /\ selected' = {}
    /\ UNCHANGED <<rowState, filter, applied, loaded, dialog, underway, changes>>

ClearSelection ==
    /\ NoOverlay /\ selected # {}
    /\ selected' = {}
    /\ UNCHANGED <<rowState, filter, applied, loaded, selecting, dialog, underway, changes>>

\* On a small screen a tap opens a row or, in selection mode, selects it.
Tap(r) ==
    /\ NoOverlay /\ r \in Listed /\ ~selecting
    /\ dialog' = Dialog("edit", r)
    /\ UNCHANGED <<rowState, filter, applied, loaded, selected, selecting,
                   underway, changes>>

\* The action bar of the selection, and the buttons at the top.
OpenBulk(name) ==
    /\ NoOverlay /\ selected # {} /\ name \in {"bulkDelete", "bulkCategory"}
    /\ dialog' = Dialog(name, NoRow)
    /\ UNCHANGED <<rowState, filter, applied, loaded, selected, selecting,
                   underway, changes>>

OpenTop(name) ==
    /\ NoOverlay /\ name \in {"add", "import"}
    /\ dialog' = Dialog(name, NoRow)
    /\ UNCHANGED <<rowState, filter, applied, loaded, selected, selecting,
                   underway, changes>>

\* Every dialog closes on its backdrop, also while it waits.
CloseDialog ==
    /\ ~NoOverlay
    /\ dialog' = NoDialog
    /\ UNCHANGED <<rowState, filter, applied, loaded, selected, selecting,
                   underway, changes>>

\* "Transfer : <account>" in the edit form.
HandOverToLink ==
    /\ dialog.name = "edit" /\ dialog.row \in Listed
    /\ dialog' = Dialog("link", dialog.row)
    /\ UNCHANGED <<rowState, filter, applied, loaded, selected, selecting,
                   underway, changes>>

-----------------------------------------------------------------------------
\* The calls: what is sent is fixed when the button is pressed.
Request(op, ids) == [op |-> op, ids |-> ids]

Send(op, ids) ==
    /\ changes < MaxChanges /\ changes' = changes + 1
    /\ underway' = underway \cup {Request(op, ids)}
    /\ UNCHANGED <<rowState, filter, applied, loaded, selected, selecting, dialog>>

\* The dialogs' buttons are disabled until their call is answered.
SendOnce(op, ids) == (\A c \in underway : c.op # op) /\ Send(op, ids)

Offered == dialog.row \in Listed

SendEdit ==
    /\ dialog.name = "edit" /\ Offered
    /\ \E op \in {"update", "unlink", "delete"} : SendOnce(op, {dialog.row})

SendLink == dialog.name = "link" /\ Offered /\ SendOnce("link", {dialog.row})

\* The buttons of a row do not wait; the mark asked for is the other one than shown.
SendRow(r) ==
    /\ NoOverlay /\ r \in Listed
    /\ \E op \in {IF loaded[r].cleared THEN "unclear" ELSE "clear", "delete"} : Send(op, {r})

\* The confirmed bulk calls take the selection, listed or not.
ConfirmBulk == dialog.name \in {"bulkDelete", "bulkCategory"} /\ SendOnce(dialog.name, selected)

SendNew == dialog.name \in {"add", "import"} /\ SendOnce(dialog.name, {})

-----------------------------------------------------------------------------
\* Deleting a leg deletes its peer.
Cascade(ids) == {r \in Live : r \in ids \/ rowState[r].peer \in ids}

Deleted(ids) == [r \in RowIds |-> IF r \in Cascade(ids) THEN Gone ELSE rowState[r]]

Unlinked(ids) ==
    [r \in RowIds |-> IF r \in Cascade(ids) /\ rowState[r].peer # NoRow
                      THEN [rowState[r] EXCEPT !.peer = NoRow, !.category = "unassigned"]
                      ELSE rowState[r]]

\* Transfer legs keep out of a change of category.
Categorized(ids, category) ==
    [r \in RowIds |-> IF r \in Live \cap ids /\ rowState[r].peer = NoRow
                      THEN [rowState[r] EXCEPT !.category = category] ELSE rowState[r]]

Marked(ids, cleared) ==
    [r \in RowIds |-> IF r \in Live \cap ids
                      THEN [rowState[r] EXCEPT !.cleared = cleared] ELSE rowState[r]]

Linked(r, s) ==
    [rowState EXCEPT ![r] = [@ EXCEPT !.peer = s, !.category = "transfer"],
                     ![s] = [@ EXCEPT !.peer = r, !.category = "transfer"]]

Linkable(r, s) ==
    r # s /\ {r, s} \subseteq Live /\ rowState[r].peer = NoRow /\ rowState[s].peer = NoRow

New == [category |-> "unassigned", cleared |-> TRUE, peer |-> NoRow]

\* The server's part of a call.
Outcomes(c) ==
    CASE c.op \in {"delete", "bulkDelete"} -> {Deleted(c.ids)}
      [] c.op \in {"update", "bulkCategory"} ->
            {Categorized(c.ids, k) : k \in {"unassigned", "groceries"}}
      [] c.op \in {"clear", "unclear"} -> {Marked(c.ids, c.op = "clear")}
      [] c.op = "unlink" -> {Unlinked(c.ids)}
      [] c.op = "link" ->
            {Linked(p[1], p[2]) : p \in {q \in c.ids \X RowIds : Linkable(q[1], q[2])}}
      [] OTHER -> {[rowState EXCEPT ![r] = New] : r \in RowIds \ Live}

\* The dialogs a success closes, whoever opened them meanwhile; the delete of a
\* row closes nothing, its form goes when the list comes back without the row.
Closes(op) ==
    CASE op \in {"update", "unlink"} -> {"edit"}
      [] op \in {"delete", "clear", "unclear"} -> {}
      [] OTHER -> {op}

Succeeds(c) ==
    /\ c \in underway /\ underway' = underway \ {c}
    /\ rowState' \in Outcomes(c)
    /\ dialog' = IF dialog.name \in Closes(c.op) THEN NoDialog ELSE dialog
    /\ selected' = IF c.op \in {"bulkDelete", "bulkCategory"} THEN {} ELSE selected
    /\ UNCHANGED <<filter, applied, loaded, selecting, changes>>

\* An error is shown in the dialog, if it has a place for one.
Fails(c) ==
    /\ c \in underway /\ underway' = underway \ {c}
    /\ UNCHANGED <<rowState, filter, applied, loaded, selected, selecting, dialog, changes>>

\* A sync, another page or another tab.
ChangedElsewhere ==
    /\ changes < MaxChanges /\ changes' = changes + 1
    /\ \E r \in Live, op \in {"delete", "update", "link", "unlink"} :
        rowState' \in Outcomes(Request(op, {r}))
    /\ UNCHANGED <<filter, applied, loaded, selected, selecting, dialog, underway>>

ListNext ==
    \/ \E f \in FilterSets : SetFilter(f) \/ TypeSearch(f)
    \/ DebounceSearch \/ ReviewUnassigned
    \/ \E rows \in SUBSET RowIds : Fetch(rows)
    \/ LoadMore
    \/ \E r \in RowIds : ToggleSelected(r) \/ Tap(r) \/ SendRow(r)
    \/ ToggleSelectAllLoaded \/ ToggleSelecting \/ ClearSelection
    \/ \E name \in {"bulkDelete", "bulkCategory"} : OpenBulk(name)
    \/ \E name \in {"add", "import"} : OpenTop(name)
    \/ CloseDialog \/ HandOverToLink
    \/ SendEdit \/ SendLink \/ ConfirmBulk \/ SendNew
    \/ \E c \in underway : Succeeds(c) \/ Fails(c)
    \/ ChangedElsewhere

ListSpec == ListInit /\ [][ListNext]_listVars

-----------------------------------------------------------------------------
ListTypeOK ==
    /\ \A r \in Live : rowState[r] \in RowStates
    /\ {filter, applied} \subseteq Filters
    /\ {Listed, selected} \subseteq SUBSET RowIds
    /\ \A r \in Listed : loaded[r] \in RowStates
    /\ selecting \in BOOLEAN /\ changes \in 0 .. MaxChanges
    /\ dialog.row \in RowIds \cup {NoRow}
    /\ \A c \in underway : c.ids \subseteq RowIds

\* MUTANT of ExtraPeers: a pair selected whole is counted twice.
ExtraPeersAlways(ids) == {r \in ids : loaded[r].peer # NoRow}

\* The listed legs whose other leg is not among them, as the list shows them.
ExtraPeers(ids) == {r \in ids : loaded[r].peer \notin ids \cup {NoRow}}

\* The number of rows the confirmation of a bulk delete announces: of what is
\* selected, it knows the rows that are listed.
Announced ==
    LET ids == selected \cap Listed IN Cardinality(ids) + Cardinality(ExtraPeers(ids))

\* The list shows the selected rows with the peers they have.
ShownAsTheyAre ==
    \A r \in selected : r \in Live \cap Listed /\ loaded[r].peer = rowState[r].peer

\* The number the confirmation announces, counted from what was fetched, is the
\* number of rows the server's cascade will delete, peers outside the list
\* included, unless a selected row has left the list or been linked, unlinked or
\* deleted since it was fetched.
CountsTheCascade == ShownAsTheyAre => Announced = Cardinality(Cascade(selected))
=============================================================================

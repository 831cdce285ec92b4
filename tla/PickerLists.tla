---------------------------- MODULE PickerLists ----------------------------
(***************************************************************************)
(* The two drop-down lists of the transaction forms: CategoryPicker, which *)
(* searches a list that may change under it, and PayeeAutocomplete, whose  *)
(* list is the answer to a debounced query. Both mark one row and pick it  *)
(* on Enter, so a list that changes under the mark is what can go wrong.   *)
(***************************************************************************)
EXTENDS Integers, Sequences, SequencesExt

CONSTANTS
    NoText,      \* an empty search
    Searches,    \* what is typed: texts to search for, payeeAnswers' names among them
    Matching,    \* search |-> the labels that contain it
    Lists,       \* what the caller may pass: [categories, suggested, transfers]
    PayeeLists   \* search |-> the lists the server may answer with

VARIABLES
    picker,      \* [kind, open, search, index, moved]
    list,        \* what the caller of CategoryPicker passes
    payeeAnswers,      \* search |-> the cached answer, empty before it arrives
    searched,    \* PayeeAutocomplete's debounced text
    value        \* what is chosen or typed

pickerVars == <<picker, list, payeeAnswers, searched, value>>

-----------------------------------------------------------------------------
Unassigned == "unassigned"
ReadyOption == "readyToAssignOption"

Found(labels, search) ==
    SelectSeq(labels, LAMBDA l : search = NoText \/ l \in Matching[search])

\* partitionSuggested: the suggested categories in rank order, then the others
\* in theirs; an id that is not among the categories is dropped.
Suggestions(l) == SelectSeq(l.suggested, LAMBDA c : c \in ToSet(l.categories))
Others(l) == SelectSeq(l.categories, LAMBDA c : c \notin ToSet(Suggestions(l)))

\* CategoryPicker's rows that can be picked, headers left out.
OptionRows(l, search) ==
    Found(<<Unassigned, ReadyOption>>, search)
        \o Found(Suggestions(l), search) \o Found(Others(l), search)
        \o Found(l.transfers, search)

\* PayeeAutocomplete's rows: the server has searched, the client shows all.
PayeeRows == IF searched = NoText THEN <<>> ELSE payeeAnswers[searched]

Rows == IF picker.kind = "category" THEN OptionRows(list, picker.search) ELSE PayeeRows

\* A picker's rows are made of the labels it was given, and the payees the
\* server answers with can be searched for themselves.
Labels(l) ==
    {Unassigned, ReadyOption} \cup ToSet(l.categories) \cup ToSet(l.suggested) \cup ToSet(l.transfers)
ASSUME PickerAssumption ==
    /\ NoText \notin Searches
    /\ \A l \in Lists, search \in Searches \cup {NoText} : OptionRows(l, search) \in Seq(Labels(l))
    /\ \A s \in Searches : \A rows \in PayeeLists[s] : rows \in Seq(Searches)

PickerInit ==
    /\ \E kind \in {"category", "payee"} :
        picker = [kind |-> kind, open |-> FALSE, search |-> NoText, index |-> 0, moved |-> FALSE]
    /\ list \in Lists
    /\ payeeAnswers = [s \in Searches |-> <<>>] /\ searched = NoText
    /\ value = NoText

-----------------------------------------------------------------------------
\* The effect on [open] starts over with an empty search and the first row.
OpenCategories ==
    /\ picker.kind = "category" /\ ~picker.open
    /\ picker' = [picker EXCEPT !.open = TRUE, !.search = NoText, !.index = 0, !.moved = FALSE]
    /\ UNCHANGED <<list, payeeAnswers, searched, value>>

\* The button again, Escape or a press outside.
CloseList ==
    /\ picker.open
    /\ picker' = [picker EXCEPT !.open = FALSE]
    /\ UNCHANGED <<list, payeeAnswers, searched, value>>

SearchCategories(search) ==
    /\ picker.kind = "category" /\ picker.open /\ search # picker.search
    /\ picker' = [picker EXCEPT !.search = search, !.index = 0, !.moved = FALSE]
    /\ UNCHANGED <<list, payeeAnswers, searched, value>>

\* A refetch or a suggestion's answer re-renders the picker with another list.
ListChanges(l) ==
    /\ l # list /\ list' = l
    /\ picker' = [picker EXCEPT !.moved = picker.open]
    /\ UNCHANGED <<payeeAnswers, searched, value>>

\* Arrow keys: Math.min and Math.max, which leave -1 for a list without rows;
\* PayeeAutocomplete ignores keys then.
ArrowDown ==
    /\ picker.open /\ (picker.kind = "payee" => Rows # <<>>)
    /\ LET below == picker.index + 1 IN
        picker' = [picker EXCEPT !.index = IF below < Len(Rows) THEN below ELSE Len(Rows) - 1]
    /\ UNCHANGED <<list, payeeAnswers, searched, value>>

ArrowUp ==
    /\ picker.open /\ (picker.kind = "payee" => Rows # <<>>)
    /\ picker' = [picker EXCEPT !.index = IF @ > 0 THEN @ - 1 ELSE 0]
    /\ UNCHANGED <<list, payeeAnswers, searched, value>>

Hover(i) ==
    /\ picker.open /\ i \in DOMAIN Rows
    /\ picker' = [picker EXCEPT !.index = i - 1]
    /\ UNCHANGED <<list, payeeAnswers, searched, value>>

Choose(i) ==
    /\ picker.open /\ i \in DOMAIN Rows
    /\ value' = Rows[i]
    /\ picker' = [picker EXCEPT !.open = FALSE]
    /\ UNCHANGED <<list, payeeAnswers, searched>>

Click(i) == Choose(i)

\* Enter takes the marked row, if there is one; in PayeeAutocomplete it takes
\* the first row of a list for less than what has been typed by now, too.
Enter == Choose(picker.index + 1)

-----------------------------------------------------------------------------
TypePayee(text) ==
    /\ picker.kind = "payee" /\ text # value
    /\ value' = text
    /\ picker' = [picker EXCEPT !.open = TRUE]
    /\ UNCHANGED <<list, payeeAnswers, searched>>

FocusPayee ==
    /\ picker.kind = "payee" /\ ~picker.open
    /\ picker' = [picker EXCEPT !.open = TRUE]
    /\ UNCHANGED <<list, payeeAnswers, searched, value>>

\* MUTANT of Remarked: the mark stays where it was.
MarkStays(rows) == picker

\* The effect on the number of suggestions.
Remarked(rows) ==
    IF Len(rows) # Len(PayeeRows) THEN [picker EXCEPT !.index = 0] ELSE picker

DebouncePayee ==
    /\ picker.kind = "payee" /\ searched # value
    /\ searched' = value
    /\ picker' = Remarked(IF value = NoText THEN <<>> ELSE payeeAnswers[value])
    /\ UNCHANGED <<list, payeeAnswers, value>>

PayeesArrive(rows) ==
    /\ picker.kind = "payee" /\ searched # NoText
    /\ rows \in PayeeLists[searched]
    /\ payeeAnswers' = [payeeAnswers EXCEPT ![searched] = rows]
    /\ picker' = Remarked(rows)
    /\ UNCHANGED <<list, searched, value>>

PickerNext ==
    \/ OpenCategories \/ CloseList
    \/ \E search \in Searches \cup {NoText} : SearchCategories(search)
    \/ \E l \in Lists : ListChanges(l)
    \/ ArrowDown \/ ArrowUp \/ Enter
    \/ \E i \in DOMAIN Rows : Hover(i) \/ Click(i)
    \/ \E text \in Searches \cup {NoText} : TypePayee(text)
    \/ FocusPayee \/ DebouncePayee
    \/ \E rows \in UNION {PayeeLists[s] : s \in Searches} : PayeesArrive(rows)

PickerSpec == PickerInit /\ [][PickerNext]_pickerVars

-----------------------------------------------------------------------------
PickerTypeOK ==
    /\ picker.kind \in {"category", "payee"}
    /\ {picker.open, picker.moved} \subseteq BOOLEAN
    /\ {picker.search, searched} \subseteq Searches \cup {NoText}
    /\ picker.index \in Int /\ picker.index >= -1
    /\ list \in Lists
    /\ \A s \in Searches : payeeAnswers[s] \in PayeeLists[s] \cup {<<>>}

\* While a list with rows is open, the marked row exists, so Enter picks what is
\* marked: over every order of keys, searches, debounces and late answers, unless
\* the caller has changed CategoryPicker's list since its last search.
MarkedRowExists ==
    picker.open /\ ~picker.moved /\ Rows # <<>> => picker.index + 1 \in DOMAIN Rows
=============================================================================

-------------------------- MODULE TransactionForm --------------------------
(***************************************************************************)
(* The two transaction forms of the web client, AddTransactionModal and    *)
(* EditTransactionModal, with their split lines: what the user types and   *)
(* picks races the debounced payee, the answers to the suggestion query,   *)
(* the save in flight and, for an edit, the refetch of the edited row.     *)
(***************************************************************************)
EXTENDS Integers, Sequences, SequencesExt

CONSTANTS
    Blank,      \* an empty field
    CategoriesOf,    \* account |-> the categories of its scope, which no other has
    FirstAccount,
    Texts,      \* what is typed as a payee
    Top,        \* account |-> (text |-> the server's first suggestion, or Blank)
    SavedRows,  \* the states of the edited row: [payee, category, lines, transfer]
    Amounts,    \* the integers typed as amounts
    MaxInputs   \* bound on the user's inputs while a form is open

AllCategories == UNION {CategoriesOf[a] : a \in DOMAIN CategoriesOf}

\* A suggestion is a category of the account's scope, and so is the category the
\* edited row was saved with. A saved split has two lines at least; they may hold
\* categories of another scope, for the account of a row and the scope of an
\* account change without a look at the lines.
ASSUME FormAssumption ==
    /\ FirstAccount \in DOMAIN CategoriesOf /\ MaxInputs \in Nat
    /\ \A a \in DOMAIN CategoriesOf, text \in Texts :
        Top[a][text] \in CategoriesOf[a] \cup {Blank}
    /\ \A row \in SavedRows :
        /\ row.payee \in Texts \cup {Blank} /\ row.amount \in Amounts \cup {Blank}
        /\ row.category \in CategoriesOf[FirstAccount] \cup {Blank}
        /\ row.lines \in Seq([category : AllCategories \cup {Blank}, amount : Amounts \cup {Blank}])
        /\ Len(row.lines) # 1

VARIABLES
    form,       \* the fields on screen
    debounced,  \* the payee as useDebouncedValue returns it
    answered,   \* the (account, text) keys whose suggestions are cached
    saved,      \* the edited row as last fetched
    saving,     \* the create or update request is under way
    inputs

formVars == <<form, debounced, answered, saved, saving, inputs>>

-----------------------------------------------------------------------------
ReadyToAssign == "readyToAssign"
NoLines == <<>>                  \* not splitting

\* What the fields stand for when they are sent: Ready to Assign is a flag of
\* the whole transaction, and Number() of it is not a category.
CategoryPayload(value) ==
    [category |-> IF value \in {Blank, ReadyToAssign} THEN Blank ELSE value,
     readyToAssign |-> value = ReadyToAssign]

SelectValue(row) == IF row.readyToAssign THEN ReadyToAssign ELSE row.category

Parses(text) == text # Blank

Remaining(total, lines) == total - FoldLeft(LAMBDA sum, l : sum + l.amount, 0, lines)

SplitComplete(total, lines) == Len(lines) >= 2 /\ Remaining(total, lines) = 0

BlankLine == [category |-> Blank, amount |-> Blank]

\* The options CategoryPicker lists: the special ones, the categories and, in
\* the edit form only, the accounts a transfer can go to.
PickerRows(f) ==
    {Blank, ReadyToAssign} \cup CategoriesOf[f.account]

LineRows(f) == PickerRows(f) \ {ReadyToAssign}

-----------------------------------------------------------------------------
Suggested(f, text) ==
    IF <<f.account, text>> \in answered THEN Top[f.account][text] ELSE Blank

\* The query is asked once there is a payee, in an edit one that differs from
\* the saved payee.
AddEnabled(f, text) == f.open /\ f.kind = "add" /\ text # Blank
EditEnabled(f, text) ==
    f.open /\ f.kind = "edit" /\ ~saved.transfer /\ text \notin {Blank, saved.payee}

\* The fields the suggestion-tracking effect depends on; without an answer its
\* array is a new one on every render.
SameDependencies(f, g, text, row) ==
    /\ f.touched = g.touched /\ text = debounced /\ f.account = g.account
    /\ row.payee = saved.payee
    /\ <<g.account, text>> \in answered

\* MUTANT of Tracks: a suggestion replaces what the user has picked.
TracksAlways(f, text, row) == f.kind = "edit" => text # row.payee

\* MUTANT of Tracks: the payee the row was saved with is asked about as well.
TracksSavedPayee(f, text, row) == ~f.touched

\* The effects' guards: a category picked by hand, or the payee saved with it.
Tracks(f, text, row) ==
    /\ ~f.touched
    /\ f.kind = "edit" => text # row.payee

\* A render with fields f: the effect puts the first suggestion into the field.
Rendered(f, text, row) ==
    IF Tracks(f, text, row) /\ ~SameDependencies(form, f, text, row)
    THEN [f EXCEPT !.category = Suggested(f, text)] ELSE f

Show(f) == form' = Rendered(f, debounced, saved)

\* The controls a form offers; only the backdrop does not wait for the save.
AddControls ==
    IF saving THEN {"backdrop"}
    ELSE {"backdrop", "account", "payee", "amount", "submit"}
            \cup IF form.lines = NoLines THEN {"split", "picker"} ELSE {"lines"}

EditControls ==
    IF saving THEN {"backdrop"}
    ELSE {"backdrop", "payee", "amount", "submit"}
            \cup IF saved.transfer THEN {}
                 ELSE IF form.lines = NoLines THEN {"split", "picker", "transferTargets"}
                 ELSE {"lines"}

Controls ==
    IF ~form.open THEN {} ELSE IF form.kind = "add" THEN AddControls ELSE EditControls

Uses(control) ==
    /\ control \in Controls
    /\ inputs < MaxInputs /\ inputs' = inputs + 1

-----------------------------------------------------------------------------
Cleared(kind) ==
    [open |-> FALSE, kind |-> kind, account |-> FirstAccount, payee |-> Blank,
     category |-> Blank, touched |-> FALSE, amount |-> Blank, lines |-> NoLines,
     typed |-> FALSE, renamed |-> FALSE, crossed |-> FALSE]

FormInit ==
    /\ \E kind \in {"add", "edit"} : form = Cleared(kind)
    /\ debounced = Blank /\ answered = {}
    /\ saved \in SavedRows
    /\ saving = FALSE /\ inputs = 0

\* The reset effect of the add form, which runs only when it opens.
OpenAdd ==
    /\ ~form.open /\ form.kind = "add"
    /\ Show([Cleared("add") EXCEPT !.open = TRUE])
    /\ inputs' = 0
    /\ UNCHANGED <<debounced, answered, saved, saving>>

Seeded(row, f) ==
    [f EXCEPT !.payee = row.payee, !.category = SelectValue(row), !.touched = FALSE,
              !.amount = row.amount, !.lines = row.lines,
              !.crossed = \E i \in DOMAIN row.lines : row.lines[i].category \notin PickerRows(f)]

\* The edit form is mounted with the row; the debounce starts from its payee.
OpenEdit ==
    /\ ~form.open /\ form.kind = "edit"
    /\ form' = Seeded(saved, [Cleared("edit") EXCEPT !.open = TRUE])
    /\ debounced' = saved.payee
    /\ inputs' = 0
    /\ UNCHANGED <<answered, saved, saving>>

\* A refetch delivers the row with other contents: the seeding effect runs
\* again, then the tracking effect with the payee as debounced before.
Refetched(row) ==
    /\ form.kind = "edit" /\ row # saved /\ inputs < MaxInputs
    /\ saved' = row
    /\ form' = IF form.open
               THEN Rendered([Seeded(row, form) EXCEPT !.renamed = @ \/ row.payee # saved.payee],
                             debounced, row)
               ELSE form
    /\ inputs' = inputs + 1
    /\ UNCHANGED <<debounced, answered, saving>>

-----------------------------------------------------------------------------
Type(text) ==
    /\ Uses("payee")
    /\ Show([form EXCEPT !.payee = text, !.typed = TRUE])
    /\ UNCHANGED <<debounced, answered, saved, saving>>

\* 300 ms without typing.
Debounce ==
    /\ debounced # form.payee
    /\ debounced' = form.payee
    /\ form' = IF form.open THEN Rendered(form, form.payee, saved) ELSE form
    /\ UNCHANGED <<answered, saved, saving, inputs>>

SuggestionsArrive(account, text) ==
    /\ <<account, text>> \notin answered
    /\ \/ AddEnabled(form, text) \/ EditEnabled(form, text)
    /\ form.account = account /\ debounced = text
    /\ answered' = answered \cup {<<account, text>>}
    /\ form' = IF Tracks(form, text, saved)
               THEN [form EXCEPT !.category = Top[account][text]] ELSE form
    /\ UNCHANGED <<debounced, saved, saving, inputs>>

\* The picker; choosing a transfer target hands over to another dialog.
Pick(value) ==
    /\ Uses("picker")
    /\ value \in PickerRows(form)
    /\ Show([form EXCEPT !.category = value, !.touched = TRUE])
    /\ UNCHANGED <<debounced, answered, saved, saving>>

PickTransferTarget ==
    /\ Uses("transferTargets")
    /\ form' = Cleared("edit")
    /\ UNCHANGED <<debounced, answered, saved, saving>>

\* MUTANT of ChooseAccount: the category of the other account's scope stays.
ChooseAccountOnly(account) ==
    /\ Uses("account") /\ account # form.account
    /\ Show([form EXCEPT !.account = account, !.crossed = @ \/ form.lines # NoLines])
    /\ UNCHANGED <<debounced, answered, saved, saving>>

\* Another account: the category is reset, the split lines are not.
ChooseAccount(account) ==
    /\ Uses("account") /\ account # form.account
    /\ Show([form EXCEPT !.account = account, !.category = Blank, !.touched = FALSE,
                         !.crossed = @ \/ form.lines # NoLines])
    /\ UNCHANGED <<debounced, answered, saved, saving>>

TypeAmount(amount) ==
    /\ Uses("amount") /\ amount # form.amount
    /\ Show([form EXCEPT !.amount = amount])
    /\ UNCHANGED <<debounced, answered, saved, saving>>

-----------------------------------------------------------------------------
\* The first line starts with what was picked so far.
StartSplitting ==
    /\ Uses("split")
    /\ Show([form EXCEPT !.lines =
                <<[category |-> form.category, amount |-> form.amount], BlankLine>>])
    /\ UNCHANGED <<debounced, answered, saved, saving>>

\* Fewer than two lines end the split; the line left over carries its category
\* and amount back to the plain fields.
LinesChange(lines) ==
    Show(IF Len(lines) >= 2 THEN [form EXCEPT !.lines = lines]
         ELSE [form EXCEPT !.lines = NoLines, !.touched = TRUE,
                           !.category = lines[1].category,
                           !.amount = IF Parses(lines[1].amount) THEN lines[1].amount ELSE @])

UpdateLine(i, line) ==
    /\ Uses("lines") /\ i \in DOMAIN form.lines /\ line # form.lines[i]
    /\ line.category \in LineRows(form) \cup {form.lines[i].category}
    /\ LinesChange([form.lines EXCEPT ![i] = line])
    /\ UNCHANGED <<debounced, answered, saved, saving>>

RemoveLine(i) ==
    /\ Uses("lines") /\ i \in DOMAIN form.lines
    /\ LinesChange(RemoveAt(form.lines, i))
    /\ UNCHANGED <<debounced, answered, saved, saving>>

AddLine ==
    /\ Uses("lines")
    /\ LinesChange(Append(form.lines, BlankLine))
    /\ UNCHANGED <<debounced, answered, saved, saving>>

-----------------------------------------------------------------------------
\* What onSubmit lets through, and what it then sends.
LinesParse(lines) == \A i \in DOMAIN lines : Parses(lines[i].amount)

CanSubmit ==
    /\ "submit" \in Controls /\ Parses(form.amount)
    /\ form.lines # NoLines =>
        LinesParse(form.lines) /\ SplitComplete(form.amount, form.lines)

Payload ==
    IF form.lines = NoLines
    THEN [amount |-> form.amount, category |-> CategoryPayload(form.category).category,
          readyToAssign |-> CategoryPayload(form.category).readyToAssign, lines |-> NoLines]
    ELSE [amount |-> form.amount, category |-> Blank, readyToAssign |-> FALSE,
          lines |-> [i \in DOMAIN form.lines |->
                       [category |-> CategoryPayload(form.lines[i].category).category,
                        amount |-> form.lines[i].amount]]]

Submit ==
    /\ CanSubmit
    /\ saving' = TRUE
    /\ UNCHANGED <<form, debounced, answered, saved, inputs>>

\* The page's onSuccess closes whichever form is open by then.
SaveSucceeds ==
    /\ saving /\ saving' = FALSE
    /\ form' = [form EXCEPT !.open = FALSE]
    /\ UNCHANGED <<debounced, answered, saved, inputs>>

SaveFails ==
    /\ saving /\ saving' = FALSE
    /\ UNCHANGED <<form, debounced, answered, saved, inputs>>

CloseForm ==
    /\ "backdrop" \in Controls
    /\ form' = [form EXCEPT !.open = FALSE]
    /\ UNCHANGED <<debounced, answered, saved, saving, inputs>>

FormNext ==
    \/ OpenAdd \/ OpenEdit \/ CloseForm
    \/ \E row \in SavedRows : Refetched(row)
    \/ \E text \in Texts : Type(text)
    \/ Debounce
    \/ \E account \in DOMAIN CategoriesOf :
        ChooseAccount(account) \/ \E text \in Texts : SuggestionsArrive(account, text)
    \/ \E value \in PickerRows(form) : Pick(value)
    \/ PickTransferTarget
    \/ \E amount \in Amounts : TypeAmount(amount)
    \/ StartSplitting \/ AddLine
    \/ \E i \in DOMAIN form.lines :
        \/ RemoveLine(i)
        \/ \E value \in LineRows(form), amount \in Amounts :
            \/ UpdateLine(i, [form.lines[i] EXCEPT !.category = value])
            \/ UpdateLine(i, [form.lines[i] EXCEPT !.amount = amount])
    \/ Submit \/ SaveSucceeds \/ SaveFails

FormSpec == FormInit /\ [][FormNext]_formVars

-----------------------------------------------------------------------------
FieldValues == AllCategories \cup {Blank, ReadyToAssign}
SplitLine == [category : FieldValues, amount : Amounts \cup {Blank}]

FormTypeOK ==
    /\ form.kind \in {"add", "edit"}
    /\ {form.open, form.touched, form.typed, form.renamed, form.crossed, saving} \subseteq BOOLEAN
    /\ form.account \in DOMAIN CategoriesOf
    /\ {form.payee, debounced} \subseteq Texts \cup {Blank}
    /\ form.category \in FieldValues /\ form.amount \in Amounts \cup {Blank}
    /\ form.lines \in Seq(SplitLine) /\ Len(form.lines) # 1
    /\ answered \subseteq (DOMAIN CategoriesOf) \X Texts
    /\ saved \in SavedRows /\ inputs \in 0 .. MaxInputs

\* The user's own hand on the plain field.
ByHand ==
    \/ \E choice \in PickerRows(form) : Pick(choice)
    \/ \E i \in DOMAIN form.lines : RemoveLine(i)

\* A category picked by hand gives way to another choice of the user, to the
\* choice of another account, which clears the field, and to a refetch that brings
\* the row with other contents and seeds the form anew; no suggestion, debounce
\* or other render replaces it.
HandChoiceStays ==
    [][form.open /\ form'.open /\ form.touched /\ form'.category # form.category
       => \/ ByHand
          \/ \E account \in DOMAIN CategoriesOf : ChooseAccount(account)
          \/ \E row \in SavedRows : Refetched(row)]_formVars

\* Every category on screen is one of the chosen account's scope, also when the
\* account changes between a suggestion's request and its answer, unless the
\* split lines crossed scopes: the account was changed under them, or the row
\* came with a line of another scope.
CategoryInScope ==
    form.open /\ ~form.crossed =>
        {form.category} \cup {form.lines[i].category : i \in DOMAIN form.lines}
            \subseteq PickerRows(form)

\* "Leaves the saved category alone until the payee is actually edited": as long
\* as the user has typed no payee and picked nothing, and no refetch has renamed
\* the row, the edit form would save the category the row has.
SavedCategoryKept ==
    form.open /\ form.kind = "edit" /\ ~form.typed /\ ~form.touched /\ ~form.renamed
        => form.category = SelectValue(saved)
=============================================================================

--------------------------- MODULE AccountScreen ---------------------------
(***************************************************************************)
(* AccountDetailPage: the entry form of one account, which becomes a       *)
(* transfer when another account is picked as its category, the balance    *)
(* form and the category cell edited in the row.                           *)
(***************************************************************************)
EXTENDS Integers

CONSTANTS
    EntryAmounts,   \* what the amount field parses to
    Unparsed,       \* an amount field that does not parse
    EntryChoices,   \* the options: Plain, some categories, Transfer
    Plain, Transfer,
    AccountRows,    \* the rows of the account's table
    NoSubject,
    MaxEntries      \* bound on the calls

ASSUME AccountAssumption ==
    /\ EntryAmounts \subseteq Int /\ Unparsed \notin Int /\ MaxEntries \in Nat
    /\ Plain \in EntryChoices  \* every form offers it

VARIABLES
    entry,        \* the entry form: [choice, touched, amount]
    entryCall,    \* the create in flight: its body, or nothing
    balanceForm,  \* [open, amount]
    balanceCall,  \* the adjustment in flight, or nothing: [target, read, since],
                  \* the typed figure, the sum the server has read for it and
                  \* what others have booked since (a history variable)
    cell,         \* the row whose category cell is a select
    cellCalls,    \* the category changes in flight, several at once
    balances,     \* [own, peer]: this account's balance and the other's
    asked,        \* what the accepted calls asked for, likewise (a history variable)
    entries

accountVars == <<entry, entryCall, balanceForm, balanceCall, cell, cellCalls,
                 balances, asked, entries>>

-----------------------------------------------------------------------------
BlankEntry == [choice |-> Plain, touched |-> FALSE, amount |-> Unparsed]

AccountInit ==
    /\ entry = BlankEntry /\ entryCall = NoSubject
    /\ balanceForm = [open |-> FALSE, amount |-> Unparsed] /\ balanceCall = NoSubject
    /\ cell = NoSubject /\ cellCalls = {}
    /\ balances = [own |-> 0, peer |-> 0] /\ asked = balances
    /\ entries = 0

Counted == entries < MaxEntries /\ entries' = entries + 1

\* The fields stay live while an entry is being saved.
TypeEntryAmount(amount) ==
    /\ amount # entry.amount
    /\ entry' = [entry EXCEPT !.amount = amount]
    /\ UNCHANGED <<entryCall, balanceForm, balanceCall, cell, cellCalls, balances, asked, entries>>

PickEntryChoice(choice) ==
    /\ choice # entry.choice
    /\ entry' = [entry EXCEPT !.choice = choice, !.touched = TRUE]
    /\ UNCHANGED <<entryCall, balanceForm, balanceCall, cell, cellCalls, balances, asked, entries>>

\* The tracking effect, for a payee with a first suggestion or without any.
TrackSuggestion(choice) ==
    /\ ~entry.touched /\ choice \in EntryChoices \ {Transfer} /\ choice # entry.choice
    /\ entry' = [entry EXCEPT !.choice = choice]
    /\ UNCHANGED <<entryCall, balanceForm, balanceCall, cell, cellCalls, balances, asked, entries>>

-----------------------------------------------------------------------------
\* MUTANT of TransferBody: the direction is not read off the sign.
TransferBodyOneWay(cents) ==
    [kind |-> "transfer", from |-> "own", to |-> "peer",
     cents |-> IF cents < 0 THEN -cents ELSE cents]

\* The sign says which way the money moves relative to this account.
TransferBody(cents) ==
    IF cents < 0 THEN [kind |-> "transfer", from |-> "own", to |-> "peer", cents |-> -cents]
    ELSE [kind |-> "transfer", from |-> "peer", to |-> "own", cents |-> cents]

EntryBody ==
    IF entry.choice = Transfer THEN TransferBody(entry.amount)
    ELSE [kind |-> "plain", from |-> "own", to |-> "own", cents |-> entry.amount]

SubmitEntry ==
    /\ entryCall = NoSubject /\ entry.amount # Unparsed
    /\ entry.choice = Transfer => entry.amount # 0
    /\ Counted
    /\ entryCall' = [body |-> EntryBody, amount |-> entry.amount]
    /\ UNCHANGED <<entry, balanceForm, balanceCall, cell, cellCalls, balances, asked>>

\* The sum an adjustment has read does not follow what is booked after it.
BookedMeanwhile(amount) ==
    balanceCall' = IF balanceCall # NoSubject /\ balanceCall.read # NoSubject
                   THEN [balanceCall EXCEPT !.since = @ + amount] ELSE balanceCall

\* The server books the entry, two legs for a transfer; the page's resetForm
\* clears whatever the form holds by then.
EntryAccepted ==
    /\ entryCall # NoSubject /\ entryCall' = NoSubject
    /\ LET b == entryCall.body
           typed == entryCall.amount IN
        /\ balances' = IF b.kind = "plain" THEN [balances EXCEPT !.own = @ + b.cents]
                       ELSE [balances EXCEPT ![b.from] = @ - b.cents, ![b.to] = @ + b.cents]
        /\ asked' = [own |-> asked.own + typed,
                     peer |-> IF b.kind = "plain" THEN asked.peer ELSE asked.peer - typed]
        /\ BookedMeanwhile(typed)
    /\ entry' = BlankEntry
    /\ UNCHANGED <<balanceForm, cell, cellCalls, entries>>

\* A row another tab or the bank's sync books: an entry, or the difference of an
\* adjustment of its own.
BookElsewhere(amount) ==
    /\ amount # 0 /\ Counted
    /\ balances' = [balances EXCEPT !.own = @ + amount]
    /\ asked' = [asked EXCEPT !.own = @ + amount]
    /\ BookedMeanwhile(amount)
    /\ UNCHANGED <<entry, entryCall, balanceForm, cell, cellCalls>>

\* A refused transfer has a message, a refused transaction has none.
EntryRefused ==
    /\ entryCall # NoSubject /\ entryCall' = NoSubject
    /\ UNCHANGED <<entry, balanceForm, balanceCall, cell, cellCalls, balances, asked, entries>>

-----------------------------------------------------------------------------
\* "Edit balance" starts from the balance on screen; Cancel stays live while
\* the call is in flight.
OpenBalance ==
    /\ ~balanceForm.open
    /\ balanceForm' = [open |-> TRUE, amount |-> balances.own]
    /\ UNCHANGED <<entry, entryCall, balanceCall, cell, cellCalls, balances, asked, entries>>

TypeBalance(amount) ==
    /\ balanceForm.open /\ amount # balanceForm.amount
    /\ balanceForm' = [balanceForm EXCEPT !.amount = amount]
    /\ UNCHANGED <<entry, entryCall, balanceCall, cell, cellCalls, balances, asked, entries>>

CancelBalance ==
    /\ balanceForm.open
    /\ balanceForm' = [balanceForm EXCEPT !.open = FALSE]
    /\ UNCHANGED <<entry, entryCall, balanceCall, cell, cellCalls, balances, asked, entries>>

SubmitBalance ==
    /\ balanceForm.open /\ balanceForm.amount # Unparsed /\ balanceCall = NoSubject
    /\ Counted
    /\ balanceCall' = [target |-> balanceForm.amount, read |-> NoSubject, since |-> 0]
    /\ UNCHANGED <<entry, entryCall, balanceForm, cell, cellCalls, balances, asked>>

\* The server sums the account's rows and waits: for the payee, for the commit.
BalanceRead ==
    /\ balanceCall # NoSubject /\ balanceCall.read = NoSubject
    /\ balanceCall' = [balanceCall EXCEPT !.read = balances.own]
    /\ UNCHANGED <<entry, entryCall, balanceForm, cell, cellCalls, balances, asked, entries>>

\* It commits a row of the difference to the sum it has read, and the page closes
\* the form. What was asked is the typed figure and what came in since.
BalanceAccepted ==
    /\ balanceCall # NoSubject /\ balanceCall.read # NoSubject /\ balanceCall' = NoSubject
    /\ balances' = [balances EXCEPT !.own = @ + (balanceCall.target - balanceCall.read)]
    /\ asked' = [asked EXCEPT !.own = balanceCall.target + balanceCall.since]
    /\ balanceForm' = [balanceForm EXCEPT !.open = FALSE]
    /\ UNCHANGED <<entry, entryCall, cell, cellCalls, entries>>

\* Before the read or after it, a call that fails books nothing.
BalanceRefused ==
    /\ balanceCall # NoSubject /\ balanceCall' = NoSubject
    /\ UNCHANGED <<entry, entryCall, balanceForm, cell, cellCalls, balances, asked, entries>>

-----------------------------------------------------------------------------
EditCell(r) ==
    /\ cell # r /\ cell' = r
    /\ UNCHANGED <<entry, entryCall, balanceForm, balanceCall, cellCalls, balances, asked, entries>>

\* Blur and Escape; picking a transfer target closes the cell as well and hands
\* over to the link dialog.
LeaveCell ==
    /\ cell # NoSubject /\ cell' = NoSubject
    /\ UNCHANGED <<entry, entryCall, balanceForm, balanceCall, cellCalls, balances, asked, entries>>

\* The select stays open until the answer, so a second choice may follow.
PickCell ==
    /\ cell # NoSubject /\ Counted
    /\ cellCalls' = cellCalls \cup {cell}
    /\ UNCHANGED <<entry, entryCall, balanceForm, balanceCall, cell, balances, asked>>

\* A success closes the cell that is open by then.
CellAnswered(r) ==
    /\ r \in cellCalls /\ cellCalls' = cellCalls \ {r}
    /\ cell' \in {cell, NoSubject}
    /\ UNCHANGED <<entry, entryCall, balanceForm, balanceCall, balances, asked, entries>>

AccountNext ==
    \/ \E amount \in EntryAmounts \cup {Unparsed} : TypeEntryAmount(amount) \/ TypeBalance(amount)
    \/ \E amount \in EntryAmounts : BookElsewhere(amount)
    \/ \E choice \in EntryChoices : PickEntryChoice(choice) \/ TrackSuggestion(choice)
    \/ SubmitEntry \/ EntryAccepted \/ EntryRefused
    \/ OpenBalance \/ CancelBalance \/ SubmitBalance \/ BalanceRead \/ BalanceAccepted \/ BalanceRefused
    \/ \E r \in AccountRows : EditCell(r) \/ CellAnswered(r)
    \/ LeaveCell \/ PickCell

AccountSpec == AccountInit /\ [][AccountNext]_accountVars

-----------------------------------------------------------------------------
AccountTypeOK ==
    /\ entry.choice \in EntryChoices /\ entry.touched \in BOOLEAN
    /\ entry.amount \in EntryAmounts \cup {Unparsed}
    /\ entryCall = NoSubject \/ entryCall.body.cents \in Int
    /\ balanceForm.open \in BOOLEAN
    /\ balanceCall = NoSubject \/ {balanceCall.target, balanceCall.since} \subseteq Int
    /\ cell \in AccountRows \cup {NoSubject} /\ cellCalls \subseteq AccountRows
    /\ {balances.own, balances.peer} \subseteq Int
    /\ entries \in 0 .. MaxEntries

\* The books agree with what was typed, in any overlap of entries, adjustments
\* and other tabs: through the entry form's sign, the from/to body and the
\* server's two legs, an entry moves this account by the typed amount and the
\* other one against it; an adjustment, whose difference is taken from a sum read
\* earlier, ends at the typed figure plus what was booked since that read, so no
\* row is lost to it and none is counted twice.
EntriesMoveAsTyped == balances = asked
=============================================================================

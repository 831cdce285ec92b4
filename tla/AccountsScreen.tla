--------------------------- MODULE AccountsScreen ---------------------------
(***************************************************************************)
(* AccountsPage and BankingCallbackPage: the account list with its edit    *)
(* dialog, the link to a bank, and the page the bank sends the user back   *)
(* to. Other tabs edit and delete accounts meanwhile.                      *)
(***************************************************************************)
EXTENDS Naturals, FiniteSets

CONSTANTS
    AccountIds,
    Edits,         \* what the dialog edits, at once: name, scope, type and closed
    ClosedEdits,   \* those of them with the account closed
    Banks,         \* country |-> the banks to choose from
    Absent, NoPick,
    MaxAccountCalls

ASSUME AccountsAssumption == MaxAccountCalls \in Nat

VARIABLES
    accounts,      \* the server's accounts: [edit, linked], or absent
    accountList,   \* the list as last fetched
    editing,       \* the account of the edit dialog
    draft,         \* the dialog's fields
    editCall,        \* the update in flight: [id, edit]
    newName,       \* the create form has a name
    rowCalls,      \* calls in flight from the form ("create") and the rows' buttons
    showClosed,
    linking,       \* the bank picker: [open, country, bank], and the redirect
    redirecting,
    callback,      \* the callback page: its phase, the effects it ran, its POSTs
    crashed,       \* the edit dialog was rendered without its account
    accountCalls

accountsVars == <<accounts, accountList, editing, draft, editCall, newName, rowCalls,
                  showClosed, linking, redirecting, callback, crashed, accountCalls>>

listVarsUnchanged == UNCHANGED <<newName, rowCalls, showClosed, linking, redirecting, callback>>
editUnchanged == UNCHANGED <<editing, draft, editCall, crashed>>

-----------------------------------------------------------------------------
Exists(list) == {a \in AccountIds : list[a] # Absent}

NoLink == [open |-> FALSE, country |-> NoPick, bank |-> NoPick]

AccountsInit ==
    /\ \E e \in Edits \ ClosedEdits, here \in SUBSET AccountIds : \E s \in here :
        accounts = [a \in AccountIds |-> IF a \in here THEN [edit |-> e, linked |-> a = s] ELSE Absent]
    /\ accountList = [a \in AccountIds |-> Absent]
    /\ editing = NoPick /\ draft = NoPick /\ editCall = NoPick
    /\ newName = FALSE /\ rowCalls = {} /\ showClosed = FALSE
    /\ linking = NoLink /\ redirecting = FALSE
    /\ callback = [phase |-> "none", effects |-> 0, posts |-> 0]
    /\ crashed = FALSE /\ accountCalls = 0

Counting == accountCalls < MaxAccountCalls /\ accountCalls' = accountCalls + 1

\* The refetched list: the dialog's effect takes the account over where it
\* differs from the one before, and an account that is gone ends the page.
ListArrives ==
    /\ ~crashed /\ accountList # accounts
    /\ accountList' = accounts
    /\ crashed' = (editing # NoPick /\ editing \notin Exists(accounts))
    /\ draft' = IF editing \in Exists(accounts) /\ accounts[editing] # accountList[editing]
                THEN accounts[editing].edit ELSE draft
    /\ UNCHANGED <<accounts, editing, editCall, accountCalls>> /\ listVarsUnchanged

-----------------------------------------------------------------------------
\* The closed accounts are listed on request only.
RowsShown == {a \in Exists(accountList) : accountList[a].edit \in ClosedEdits => showClosed}

ToggleShowClosed ==
    /\ \E a \in Exists(accountList) : accountList[a].edit \in ClosedEdits
    /\ showClosed' = ~showClosed
    /\ UNCHANGED <<accounts, accountList, newName, rowCalls, linking, redirecting, callback, accountCalls>>
    /\ editUnchanged

OpenAccount(a) ==
    /\ ~crashed /\ editing = NoPick /\ a \in RowsShown
    /\ editing' = a /\ draft' = accountList[a].edit
    /\ UNCHANGED <<accounts, accountList, editCall, crashed, accountCalls>> /\ listVarsUnchanged

EditAccount(e) ==
    /\ editing # NoPick /\ editCall = NoPick /\ ~crashed /\ draft # e
    /\ draft' = e
    /\ UNCHANGED <<accounts, accountList, editing, editCall, crashed, accountCalls>> /\ listVarsUnchanged

\* The backdrop closes the dialog while it waits, too.
CloseAccount ==
    /\ editing # NoPick /\ ~crashed
    /\ editing' = NoPick /\ draft' = NoPick
    /\ UNCHANGED <<accounts, accountList, editCall, crashed, accountCalls>> /\ listVarsUnchanged

SaveAccount ==
    /\ editing # NoPick /\ editCall = NoPick /\ ~crashed /\ Counting
    /\ editCall' = [id |-> editing, edit |-> draft]
    /\ UNCHANGED <<accounts, accountList, editing, draft, crashed>> /\ listVarsUnchanged

\* The success closes the dialog that is open by then.
AccountSaved ==
    /\ editCall # NoPick /\ editCall.id \in Exists(accounts)
    /\ accounts' = [accounts EXCEPT ![editCall.id].edit = editCall.edit]
    /\ editCall' = NoPick /\ editing' = NoPick /\ draft' = NoPick
    /\ UNCHANGED <<accountList, crashed, accountCalls>> /\ listVarsUnchanged

AccountNotSaved ==
    /\ editCall # NoPick /\ editCall' = NoPick
    /\ UNCHANGED <<accounts, accountList, editing, draft, crashed, accountCalls>> /\ listVarsUnchanged

-----------------------------------------------------------------------------
TypeAccountName ==
    /\ newName' = ~newName
    /\ UNCHANGED <<accounts, accountList, rowCalls, showClosed, linking, redirecting, callback, accountCalls>>
    /\ editUnchanged

SendAccountCall(c) ==
    /\ c \notin rowCalls /\ ~crashed /\ Counting
    /\ rowCalls' = rowCalls \cup {c}
    /\ UNCHANGED <<accounts, accountList, newName, showClosed, linking, redirecting, callback>>
    /\ editUnchanged

CreateAccount == newName /\ SendAccountCall("create")

\* The row's button: "Disconnect" on a linked account, "Delete" on others.
RemoveAccount(a) == editing = NoPick /\ a \in RowsShown /\ SendAccountCall(a)

\* A disconnect takes every account of the bank; a manual account with rows is
\* refused.
Removed(a) ==
    [b \in AccountIds |-> IF accounts[b] = Absent \/ b = a \/ (accounts[a].linked /\ accounts[b].linked)
                          THEN Absent ELSE accounts[b]]

Created(a) == [accounts EXCEPT ![a] = [edit |-> CHOOSE e \in Edits \ ClosedEdits : TRUE, linked |-> FALSE]]

AccountCallSucceeds(c) ==
    /\ c \in rowCalls /\ rowCalls' = rowCalls \ {c}
    /\ IF c = "create"
       THEN /\ newName' = FALSE
            /\ \E a \in AccountIds \ Exists(accounts) : accounts' = Created(a)
       ELSE /\ c \in Exists(accounts) /\ accounts' = Removed(c)
            /\ UNCHANGED newName
    /\ UNCHANGED <<accountList, showClosed, linking, redirecting, callback, accountCalls>>
    /\ editUnchanged

AccountCallFails(c) ==
    /\ c \in rowCalls /\ rowCalls' = rowCalls \ {c}
    /\ UNCHANGED <<accounts, accountList, newName, showClosed, linking, redirecting, callback, accountCalls>>
    /\ editUnchanged

\* Another tab.
AccountsChangeElsewhere ==
    /\ Counting
    /\ \E a \in Exists(accounts) :
        \/ accounts' = Removed(a)
        \/ \E e \in Edits : accounts' = [accounts EXCEPT ![a].edit = e]
    /\ UNCHANGED accountList /\ editUnchanged /\ listVarsUnchanged

-----------------------------------------------------------------------------
LinkingStep ==
    /\ ~crashed
    /\ UNCHANGED <<accounts, accountList, newName, rowCalls, showClosed, accountCalls>>
    /\ editUnchanged

TogglePicker ==
    /\ linking' = [linking EXCEPT !.open = ~@]
    /\ LinkingStep /\ UNCHANGED <<redirecting, callback>>

\* A country drops the bank chosen in another one.
ChooseCountry(c) ==
    /\ linking.open /\ linking' = [linking EXCEPT !.country = c, !.bank = NoPick]
    /\ LinkingStep /\ UNCHANGED <<redirecting, callback>>

ChooseBank(b) ==
    /\ linking.open /\ linking.country # NoPick /\ b \in Banks[linking.country]
    /\ linking' = [linking EXCEPT !.bank = b]
    /\ LinkingStep /\ UNCHANGED <<redirecting, callback>>

\* "Continue to bank", and a banner's "Reconnect" to an existing link's bank.
StartConnect ==
    /\ ~redirecting /\ redirecting' = TRUE
    /\ \/ linking.open /\ linking.bank # NoPick
       \/ \E a \in Exists(accountList) : accountList[a].linked
    /\ LinkingStep /\ UNCHANGED <<linking, callback>>

ConnectRefused ==
    /\ redirecting /\ redirecting' = FALSE
    /\ LinkingStep /\ UNCHANGED <<linking, callback>>

\* The bank sends the browser to the callback page: the accounts page is gone.
Redirected ==
    /\ redirecting /\ callback.phase = "none" /\ ~crashed
    /\ redirecting' = FALSE /\ linking' = NoLink
    /\ callback' = [callback EXCEPT !.phase = "working"]
    /\ UNCHANGED <<accounts, accountList, newName, rowCalls, showClosed, accountCalls>>
    /\ editUnchanged

\* MUTANT of StartedAlready: the ref is made anew when the effects are.
StartedAnew == FALSE

\* startedRef, which outlives a remount of the effects.
StartedAlready == callback.effects > 0

\* StrictMode runs the effect twice. A redirect without its parameters fails at
\* once; the other one posts the code, which the provider takes once.
CallbackEffect(complete) ==
    /\ callback.phase # "none" /\ callback.effects < 2
    /\ callback' =
        IF StartedAlready THEN [callback EXCEPT !.effects = @ + 1]
        ELSE IF complete THEN [callback EXCEPT !.effects = @ + 1, !.posts = @ + 1]
        ELSE [callback EXCEPT !.effects = @ + 1, !.phase = "failed"]
    /\ LinkingStep /\ UNCHANGED <<linking, redirecting>>

CallbackAnswered(phase) ==
    /\ callback.posts > 0 /\ callback.phase = "working"
    /\ callback' = [callback EXCEPT !.phase = phase]
    /\ LinkingStep /\ UNCHANGED <<linking, redirecting>>

AccountsNext ==
    \/ ListArrives \/ ToggleShowClosed \/ CloseAccount
    \/ \E a \in AccountIds : OpenAccount(a) \/ RemoveAccount(a)
    \/ \E e \in Edits : EditAccount(e)
    \/ SaveAccount \/ AccountSaved \/ AccountNotSaved
    \/ TypeAccountName \/ CreateAccount
    \/ \E c \in AccountIds \cup {"create"} : AccountCallSucceeds(c) \/ AccountCallFails(c)
    \/ AccountsChangeElsewhere \/ TogglePicker
    \/ \E c \in DOMAIN Banks : ChooseCountry(c) \/ \E b \in Banks[c] : ChooseBank(b)
    \/ StartConnect \/ ConnectRefused \/ Redirected
    \/ \E complete \in BOOLEAN : CallbackEffect(complete)
    \/ \E phase \in {"done", "failed"} : CallbackAnswered(phase)

AccountsSpec == AccountsInit /\ [][AccountsNext]_accountsVars

-----------------------------------------------------------------------------
AccountsTypeOK ==
    /\ \A a \in AccountIds, list \in {accounts, accountList} :
        list[a] # Absent => list[a].edit \in Edits /\ list[a].linked \in BOOLEAN
    /\ editing \in AccountIds \cup {NoPick} /\ draft \in Edits \cup {NoPick}
    /\ rowCalls \subseteq AccountIds \cup {"create"}
    /\ {newName, showClosed, redirecting, crashed} \subseteq BOOLEAN
    /\ callback.posts \in {0, 1}    \* the provider takes a code once
    /\ linking.bank = NoPick \/ linking.bank \in Banks[linking.country]
    /\ accountCalls \in 0 .. MaxAccountCalls
=============================================================================

------------------------------ MODULE MCScreens ------------------------------
(***************************************************************************)
(* TLC instances of the web screens. The initial state picks a screen and   *)
(* only its machine moves; the others stay in one of their initial states, *)
(* so that one run explores each screen by itself.                         *)
(***************************************************************************)
EXTENDS TransactionForm, PickerLists, TransactionsScreen, TransferLinking,
        AccountScreen, SyncQuota, AccountsScreen, BudgetScreen,
        CategoriesScreen, SettingsScreen, ImportDialogs, InsightsScreen, TLC

CONSTANTS Screens, a1, a2, c1, c2, c3, t1, t2, x1, p1, p2, r1, r2, all,
          m1, m2, m3, m4, e1, e2, b1, b2

VARIABLE screen

-----------------------------------------------------------------------------
\* The transaction forms: two accounts of two scopes, two payees, and a saved
\* row of each kind, a split with a line of the other scope among them.
MCCategoriesOf == (a1 :> {c1}) @@ (a2 :> {c3})
MCTop == (a1 :> ((t1 :> c1) @@ (t2 :> Blank))) @@ (a2 :> ((t1 :> c3) @@ (t2 :> Blank)))
SavedRow(p, c, ready, ls, transfer) ==
    [payee |-> p, category |-> c, readyToAssign |-> ready, amount |-> 2, lines |-> ls, transfer |-> transfer]
MCSavedRows ==
    {SavedRow(t1, c1, FALSE, <<>>, FALSE), SavedRow(t2, Blank, TRUE, <<>>, FALSE),
     SavedRow(t1, Blank, FALSE, <<>>, TRUE),
     SavedRow(t1, Blank, FALSE, <<[category |-> c1, amount |-> 1], [category |-> Blank, amount |-> 1]>>, FALSE),
     SavedRow(t2, Blank, FALSE, <<[category |-> c3, amount |-> 1], [category |-> c1, amount |-> 1]>>, FALSE)}

\* The pickers: a search that finds some rows and one that finds none.
MCMatching == (t1 :> {c1, c2, x1}) @@ (t2 :> {})
MCLists ==
    {[categories |-> <<c1, c2, c3>>, suggested |-> <<>>, transfers |-> <<x1>>],
     [categories |-> <<c1, c2, c3>>, suggested |-> <<c3>>, transfers |-> <<x1>>],
     [categories |-> <<c1>>, suggested |-> <<c3>>, transfers |-> <<>>]}
MCPayeeLists == (t1 :> {<<t1, t2>>, <<t2>>}) @@ (t2 :> {<<t2>>, <<>>})

\* The transaction list: two rows that may be the legs of one transfer.
MCTraits ==
    (r1 :> [account |-> "x", month |-> "now", text |-> "shop"])
        @@ (r2 :> [account |-> "y", month |-> "now", text |-> "other"])
FilterOf(category, text, review) ==
    [account |-> all, month |-> "now", category |-> category, text |-> text, review |-> review]
MCFilterSets ==
    {FilterOf("unassigned", all, FALSE), FilterOf(all, all, TRUE), FilterOf("unassigned", "shop", FALSE)}

\* Linking: candidates that share rows.
MCMatches == {<<m1, m2>>, <<m1, m3>>, <<m3, m4>>}

MCEntryAmounts == {-1, 0, 2}

\* The budget: a goal by a year that overspends in the first month, of two that can
\* make up for it, and a goal by a date.
MCGoals ==
    (c1 :> [kind |-> "yearly", amount |-> 18, target |-> 0])
        @@ (c3 :> [kind |-> "target_date", amount |-> 4, target |-> 2])
MCActivity == <<(c1 :> -3) @@ (c3 :> 0), (c1 :> 0) @@ (c3 :> 0)>>
MCCatOrder == <<c1, c3>>
MCIncome == <<4, 1>>

MCBanks == [c \in {"fi", "de"} |-> IF c = "fi" THEN {b1} ELSE {b2}]

\* The files: an account, a group and a category of at most two characters, quoted
\* when it has a quote or a comma or begins with a blank, the last of its line or
\* with a field after it; a file without accounts and one that has a row twice.
MCFields == UNION {[1 .. n -> {"q", "c", "s", "a"}] : n \in 0 .. 2}
Doubled(field) == FlattenSeq([k \in DOMAIN field |-> IF field[k] = "q" THEN <<"q", "q">> ELSE <<field[k]>>])
Written(field) ==
    IF (field # <<>> /\ field[1] = "s") \/ \E k \in DOMAIN field : field[k] \in {"q", "c"}
    THEN <<"q">> \o Doubled(field) \o <<"q">>
    ELSE field
MCLine(field) == <<"a", "c", "g", "c">> \o Written(field)
MCRow(field) == << <<"a">>, <<"g">>, field >>
MCMiddle(field) ==
    [lines |-> << <<"a", "c">> \o Written(field) \o <<"c", "g">> >>, rows |-> << << <<"a">>, field, <<"g">> >> >>]
MCFiles ==
    {[lines |-> <<MCLine(field)>>, rows |-> <<MCRow(field)>>] : field \in MCFields}
        \cup {MCMiddle(field) : field \in {<<"q">>, <<"c">>, <<"q", "c">>}}
        \cup {[lines |-> << <<"c", "a">> >>, rows |-> << << <<>>, <<"a">> >> >>],
              [lines |-> <<MCLine(<<"a">>), MCLine(<<"a">>)>>, rows |-> <<MCRow(<<"a">>), MCRow(<<"a">>)>>]}
MCLayout ==
    [k \in {"transactions", "categories"} |->
        [group |-> 2, category |-> 3, needed |-> IF k = "transactions" THEN {1} ELSE {2, 3}]]
MCAccountScopes == [x \in {a1} |-> "personal"]
MCGroups == [g \in {<<"g">>} |-> [scope |-> "personal", categories |-> {<<"a">>}]]
MCAccountOf == [n \in {<<"a">>} |-> a1]

\* Insights: a range across the new year, equal postings, a refund, an income,
\* unassigned money that leaves and (8) money that only changes accounts.
Posting(i, month_, s, c, amount) ==
    [id |-> i, month |-> month_, scope |-> s, category |-> c, amount |-> amount, incoming |-> i # 8]
MCNow == <<2026, 1>>
MCPostings ==
    {Posting(1, <<2025, 12>>, "personal", "food", -3), Posting(2, <<2025, 12>>, "personal", "food", -3),
     Posting(3, <<2026, 1>>, "personal", "food", 5), Posting(4, <<2026, 1>>, "family", "rent", -2),
     Posting(5, <<2025, 11>>, "family", "trips", -1), Posting(6, <<2026, 2>>, "personal", "none", 7),
     Posting(7, <<2026, 1>>, "personal", "none", -4), Posting(8, <<2026, 1>>, "family", "none", 4)}
MCGroupOf == ("food" :> "daily") @@ ("rent" :> "fixed") @@ ("trips" :> "fun")
MCScopeOfGroup == [g \in {"daily", "fixed", "fun"} |-> IF g = "fun" THEN "family" ELSE "personal"]

-----------------------------------------------------------------------------
\* The initial states of a screen that does not move are no cases of their own.
Still ==
    /\ screen # "form" => form.kind = "add"
    /\ form.kind = "add" => saved = CHOOSE row \in SavedRows : TRUE
    /\ screen # "picker" => picker.kind = "category" /\ list = CHOOSE l \in Lists : TRUE
    /\ screen # "list" => rowState = [r \in RowIds |-> Gone] /\ filter.text = All
    /\ screen # "accounts" => Exists(accounts) = {a1}
    /\ groupScope[1] = CHOOSE s \in GroupScopes : TRUE

MCInit ==
    /\ screen \in Screens
    /\ FormInit
    /\ PickerInit
    /\ ListInit
    /\ LinkInit
    /\ AccountInit
    /\ QuotaInit
    /\ AccountsInit
    /\ BudgetInit
    /\ CategoriesInit
    /\ SettingsInit
    /\ ImportInit
    /\ InsightsInit
    /\ Still

MCNext ==
    /\ UNCHANGED screen
    /\ IF screen = "form" THEN FormNext ELSE UNCHANGED formVars
    /\ IF screen = "picker" THEN PickerNext ELSE UNCHANGED pickerVars
    /\ IF screen = "list" THEN ListNext ELSE UNCHANGED listVars
    /\ IF screen = "linking" THEN LinkingNext ELSE UNCHANGED linkVars
    /\ IF screen = "account" THEN AccountNext ELSE UNCHANGED accountVars
    /\ IF screen = "quota" THEN QuotaNext ELSE UNCHANGED quotaVars
    /\ IF screen = "accounts" THEN AccountsNext ELSE UNCHANGED accountsVars
    /\ IF screen = "budget" THEN BudgetNext ELSE UNCHANGED budgetVars
    /\ IF screen = "categories" THEN CategoriesNext ELSE UNCHANGED categoriesVars
    /\ IF screen = "settings" THEN SettingsNext ELSE UNCHANGED settingsVars
    /\ IF screen = "import" THEN ImportNext ELSE UNCHANGED importVars
    /\ IF screen = "insights" THEN InsightsNext ELSE UNCHANGED insightsVars

MCSpec == MCInit /\ [][MCNext]_<<screen, formVars, pickerVars, listVars, linkVars,
    accountVars, quotaVars, accountsVars, budgetVars, categoriesVars, settingsVars,
    importVars, insightsVars>>

\* Every screen's variables have their types (the type invariants of the modules).
ScreensTypeOK ==
    /\ screen = "form" => FormTypeOK
    /\ screen = "picker" => PickerTypeOK
    /\ screen = "list" => ListTypeOK
    /\ screen = "linking" => LinkingTypeOK
    /\ screen = "account" => AccountTypeOK
    /\ screen = "quota" => QuotaTypeOK
    /\ screen = "accounts" => AccountsTypeOK
    /\ screen = "budget" => BudgetTypeOK
    /\ screen = "categories" => CategoriesTypeOK
    /\ screen = "settings" => SettingsTypeOK
    /\ screen = "import" => ImportTypeOK
    /\ screen = "insights" => InsightsTypeOK
=============================================================================

---------------------------- MODULE BudgetScreen ----------------------------
(***************************************************************************)
(* BudgetPage over one scope: assigning to a category, funding the goals   *)
(* and covering an overspent category, with the server's calculation       *)
(* behind them. What the page sends is computed from the month as it was   *)
(* last fetched; the server reads and writes the assignments in two steps. *)
(***************************************************************************)
EXTENDS Integers, Sequences, FiniteSets, Functions

CONSTANTS
    Cats,
    CatOrder,      \* the categories in the order of the page
    LastMonth,     \* the months are 1 .. LastMonth
    Goals,         \* category |-> [kind, amount, target]
    Activity,      \* month |-> category |-> its rows' sum
    Income,        \* month |-> the rows that feed Ready to Assign
    TypedAmounts, Blanked,
    NoCat, NoData,
    MaxPresses     \* bound on the calls

\* A goal's amount is positive where the user sets it (schemas/category.py) and
\* zero in a category that was imported; an amount typed or moved is any number
\* of cents.
ASSUME BudgetAssumption ==
    /\ LastMonth \in Nat \ {0} /\ MaxPresses \in Nat
    /\ IsFiniteSet(Cats) /\ NoCat \notin Cats
    /\ CatOrder \in Seq(Cats) /\ \A c \in Cats : \E j \in DOMAIN CatOrder : CatOrder[j] = c
    /\ \A c \in Cats : Goals[c].amount \in Nat /\ Goals[c].target \in Int
    /\ Activity \in [1 .. LastMonth -> [Cats -> Int]] /\ Income \in [1 .. LastMonth -> Int]
    /\ TypedAmounts \subseteq Int /\ Blanked \notin Int

VARIABLES
    assigned,      \* the server's assignments: month |-> category |-> cents
    month,         \* the month on screen
    shownBudget,   \* month |-> the assignments as last fetched
    rowEdit,       \* the assignment being typed: [cat, amount]
    funding,       \* the fund-goals dialog is open
    overspentOpen, \* the list of overspent categories is open
    cover,         \* the cover dialog over it: [cat, from, amount]
    calls,         \* calls in flight
    extra,         \* what was put on top of the goals: month |-> category |-> cents
    taken,         \* what was taken out of them, likewise
    presses

budgetVars == <<assigned, month, shownBudget, rowEdit, funding, overspentOpen,
                cover, calls, extra, taken, presses>>

-----------------------------------------------------------------------------
BudgetMonths == 1 .. LastMonth
Larger(x, y) == IF x > y THEN x ELSE y
NonNegative(x) == Larger(x, 0)

AssignedIn(a, ms) == SumFunction([m \in ms |-> SumFunction(a[m])])
IncomeIn(ms) == SumFunctionOnSet(Income, ms)

\* compute_category_balances: every earlier month rolls forward.
Balance(a, m, c) == SumFunction([k \in 1 .. m |-> a[k][c] + Activity[k][c]])

\* compute_ready_to_assign: later months count where they overdraw their income.
Ready(a, m) ==
    IncomeIn(1 .. m) - AssignedIn(a, 1 .. m)
        - NonNegative(AssignedIn(a, m + 1 .. LastMonth) - IncomeIn(m + 1 .. LastMonth))

\* MUTANT of Needed: what the month has already does not count.
NeededAgain(a, m, c) == Larger(Goals[c].amount, NonNegative(-Balance(a, m, c)))

\* _needed_this_month.
Needed(a, m, c) ==
    LET g == Goals[c]
        gap(total) == NonNegative(total - Balance(a, m, c)) IN
    CASE g.kind = "monthly" ->
            Larger(NonNegative(g.amount - a[m][c]), NonNegative(-Balance(a, m, c)))
      [] g.kind = "yearly" -> gap(g.amount \div 12)
      [] OTHER -> IF g.target < m THEN 0 ELSE gap(g.amount) \div (g.target - m + 1)

\* monthlyGoalCents; a target's is what it needs, which the page asks first.
MonthlyGoal(c) ==
    CASE Goals[c].kind = "monthly" -> Goals[c].amount
      [] Goals[c].kind = "yearly" -> (Goals[c].amount + 6) \div 12
      [] OTHER -> 0

\* compute_fund_goals_plan: in the page's order until the pool is empty.
FundedBefore(a, m, i) ==
    SumFunction([j \in 1 .. i - 1 |-> Needed(a, m, CatOrder[j])])
FundPlan(a, m) ==
    [c \in Cats |->
        LET i == CHOOSE j \in DOMAIN CatOrder : CatOrder[j] = c
            left == NonNegative(NonNegative(Ready(a, m)) - FundedBefore(a, m, i))
            need == Needed(a, m, c) IN
        IF need < left THEN need ELSE left]

\* What a month's goal can ask for, its spending to cover included: a monthly goal
\* its amount, a yearly one a twelfth. A goal by a date is asked for a share of
\* what is missing, divided anew after every funding: its month has no end but
\* the whole amount.
Level(m, c) ==
    LET g == Goals[c]
        spent == SumFunction([k \in 1 .. m |-> -Activity[k][c]]) IN
    CASE g.kind = "monthly" -> Larger(g.amount, spent)
      [] g.kind = "yearly" -> NonNegative(g.amount \div 12 + spent)
      [] OTHER -> NonNegative(g.amount + spent)

-----------------------------------------------------------------------------
NoRowEdit == [cat |-> NoCat, amount |-> Blanked]
NoCover == [cat |-> NoCat, from |-> NoCat, amount |-> Blanked]
NoWrites == [c \in {} |-> 0]

BudgetInit ==
    /\ assigned = [m \in BudgetMonths |-> [c \in Cats |-> 0]]
    /\ month = 1
    /\ shownBudget = [m \in BudgetMonths |-> NoData]
    /\ rowEdit = NoRowEdit /\ funding = FALSE /\ overspentOpen = FALSE /\ cover = NoCover
    /\ calls = {} /\ presses = 0
    /\ extra = assigned /\ taken = assigned

Shown == shownBudget[month]
OnPage == ~funding /\ ~overspentOpen

\* A fetch; the cover dialog's effect depends on an object made anew by every
\* rendering of the page and clears the dialog.
BudgetArrives ==
    /\ Shown # assigned
    /\ shownBudget' = [shownBudget EXCEPT ![month] = assigned]
    /\ cover' = [cover EXCEPT !.from = NoCat, !.amount = Blanked]
    /\ UNCHANGED <<assigned, month, rowEdit, funding, overspentOpen, calls, extra, taken, presses>>

\* The stepper and "Today"; a typed assignment goes with its row.
StepMonth(m) ==
    /\ OnPage /\ m \in {month - 1, month + 1, 1} \ {month}
    /\ month' = m /\ rowEdit' = NoRowEdit
    /\ UNCHANGED <<assigned, shownBudget, funding, overspentOpen, cover, calls, extra, taken, presses>>

-----------------------------------------------------------------------------
SendBudgetCall(op, cat, from, amount) ==
    /\ presses < MaxPresses /\ presses' = presses + 1
    /\ calls' = calls \cup {[id |-> presses, op |-> op, month |-> month, cat |-> cat,
                             from |-> from, amount |-> amount, read |-> FALSE, writes |-> NoWrites]}

\* The histories: what the user asked for beyond a goal, and took away.
PutsOnTop(m, c, cents) == extra' = [extra EXCEPT ![m][c] = @ + NonNegative(cents)]
TakesAway(m, c, cents) == taken' = [taken EXCEPT ![m][c] = @ + NonNegative(cents)]

\* The row's button: up to what the month needs, else one more monthly goal.
PressNeed(c) ==
    /\ OnPage /\ Shown # NoData
    /\ LET need == Needed(Shown, month, c)
           more == IF need > 0 THEN 0 ELSE MonthlyGoal(c) IN
        /\ need + more > 0
        /\ SendBudgetCall("assign", c, NoCat, Shown[month][c] + need + more)
        /\ PutsOnTop(month, c, more)
    /\ UNCHANGED <<assigned, month, shownBudget, rowEdit, funding, overspentOpen, cover, taken>>

EditRow(c) ==
    /\ OnPage /\ Shown # NoData /\ rowEdit.cat # c
    /\ rowEdit' = [cat |-> c, amount |-> Blanked]
    /\ UNCHANGED <<assigned, month, shownBudget, funding, overspentOpen, cover, calls, extra, taken, presses>>

TypeRow(amount) ==
    /\ rowEdit.cat # NoCat /\ rowEdit' = [rowEdit EXCEPT !.amount = amount]
    /\ UNCHANGED <<assigned, month, shownBudget, funding, overspentOpen, cover, calls, extra, taken, presses>>

\* Enter and blur send an amount that parses and changes something; Escape and a
\* commit without such an amount just end the editing.
CommitRow ==
    /\ rowEdit.cat # NoCat /\ rowEdit' = NoRowEdit
    /\ IF rowEdit.amount \notin {Blanked, Shown[month][rowEdit.cat]}
       THEN /\ SendBudgetCall("assign", rowEdit.cat, NoCat, rowEdit.amount)
            /\ PutsOnTop(month, rowEdit.cat, rowEdit.amount - Level(month, rowEdit.cat))
            /\ TakesAway(month, rowEdit.cat, -rowEdit.amount)
       ELSE UNCHANGED <<calls, extra, taken, presses>>
    /\ UNCHANGED <<assigned, month, shownBudget, funding, overspentOpen, cover>>

-----------------------------------------------------------------------------
Dialogs(f, o, c) == funding' = f /\ overspentOpen' = o /\ cover' = c

PageUnchanged == UNCHANGED <<assigned, month, shownBudget, rowEdit>>

OpenFund ==
    /\ OnPage /\ Shown # NoData /\ \E c \in Cats : Needed(Shown, month, c) > 0
    /\ Dialogs(TRUE, FALSE, NoCover)
    /\ PageUnchanged /\ UNCHANGED <<calls, extra, taken, presses>>

\* The preview is the server's plan as of now; the call only names the scope.
ConfirmFund ==
    /\ funding /\ ~\E k \in calls : k.op = "fund"
    /\ \E c \in Cats : Needed(assigned, month, c) > 0
    /\ SendBudgetCall("fund", NoCat, NoCat, 0)
    /\ PageUnchanged /\ UNCHANGED <<funding, overspentOpen, cover, extra, taken>>

CloseDialogs ==
    /\ ~OnPage /\ Dialogs(FALSE, FALSE, NoCover)
    /\ PageUnchanged /\ UNCHANGED <<calls, extra, taken, presses>>

OpenOverspent ==
    /\ OnPage /\ Shown # NoData /\ \E c \in Cats : Balance(Shown, month, c) < 0
    /\ Dialogs(FALSE, TRUE, NoCover)
    /\ PageUnchanged /\ UNCHANGED <<calls, extra, taken, presses>>

OpenCover(c) ==
    /\ overspentOpen /\ cover.cat = NoCat /\ Balance(Shown, month, c) < 0
    /\ Dialogs(FALSE, TRUE, [NoCover EXCEPT !.cat = c])
    /\ PageUnchanged /\ UNCHANGED <<calls, extra, taken, presses>>

\* A source suggests the shortfall or what it has, the smaller.
SelectSource(s) ==
    /\ cover.cat # NoCat /\ s # cover.cat /\ Balance(Shown, month, s) > 0
    /\ ~\E k \in calls : k.op = "move"
    /\ LET short == -Balance(Shown, month, cover.cat)
           has == Balance(Shown, month, s) IN
        cover' = [cover EXCEPT !.from = s, !.amount = IF short < has THEN short ELSE has]
    /\ PageUnchanged /\ UNCHANGED <<funding, overspentOpen, calls, extra, taken, presses>>

TypeCover(amount) ==
    /\ cover.from # NoCat /\ cover' = [cover EXCEPT !.amount = amount]
    /\ PageUnchanged /\ UNCHANGED <<funding, overspentOpen, calls, extra, taken, presses>>

\* The page renders anew while it waits, which clears the dialog's fields.
ConfirmCover ==
    /\ cover.from # NoCat /\ cover.amount # Blanked /\ ~\E k \in calls : k.op = "move"
    /\ cover.amount > 0
    /\ SendBudgetCall("move", cover.cat, cover.from, cover.amount)
    /\ cover' = [cover EXCEPT !.from = NoCat, !.amount = Blanked]
    /\ PageUnchanged /\ UNCHANGED <<funding, overspentOpen, extra, taken>>

-----------------------------------------------------------------------------
\* What a request is going to write, from the assignments as it reads them.
Writes(k) ==
    LET a == assigned
        m == k.month IN
    CASE k.op = "assign" -> [c \in {k.cat} |-> k.amount]
      [] k.op = "fund" ->
            [c \in {d \in Cats : FundPlan(a, m)[d] > 0} |-> a[m][c] + FundPlan(a, m)[c]]
      [] OTHER -> [c \in {k.cat, k.from} |->
                    IF c = k.cat THEN a[m][c] + k.amount ELSE a[m][c] - k.amount]

ServerReads(k) ==
    /\ k \in calls /\ ~k.read
    /\ k.op = "move" => k.amount <= Balance(assigned, k.month, k.from)
    /\ calls' = (calls \ {k}) \cup {[k EXCEPT !.read = TRUE, !.writes = Writes(k)]}
    /\ IF k.op = "move"
       THEN PutsOnTop(k.month, k.cat, k.amount) /\ TakesAway(k.month, k.from, k.amount)
       ELSE UNCHANGED <<extra, taken>>
    /\ UNCHANGED <<assigned, month, shownBudget, rowEdit, funding, overspentOpen, cover, presses>>

\* The success closes the dialog of its kind, whoever opened it.
ServerCommits(k) ==
    /\ k \in calls /\ k.read /\ calls' = calls \ {k}
    /\ assigned' = [assigned EXCEPT ![k.month] =
                        [c \in Cats |-> IF c \in DOMAIN k.writes THEN k.writes[c] ELSE @[c]]]
    /\ Dialogs(funding /\ k.op # "fund", overspentOpen, IF k.op = "move" THEN NoCover ELSE cover)
    /\ UNCHANGED <<month, shownBudget, rowEdit, extra, taken, presses>>

ServerRefuses(k) ==
    /\ k \in calls /\ ~k.read /\ calls' = calls \ {k}
    /\ PageUnchanged /\ UNCHANGED <<funding, overspentOpen, cover, extra, taken, presses>>

BudgetNext ==
    \/ BudgetArrives
    \/ \E m \in BudgetMonths : StepMonth(m)
    \/ \E c \in Cats : PressNeed(c) \/ EditRow(c) \/ OpenCover(c) \/ SelectSource(c)
    \/ \E amount \in TypedAmounts : TypeRow(amount) \/ TypeCover(amount)
    \/ CommitRow \/ OpenFund \/ ConfirmFund \/ CloseDialogs \/ OpenOverspent \/ ConfirmCover
    \/ \E k \in calls : ServerReads(k) \/ ServerCommits(k) \/ ServerRefuses(k)

BudgetSpec == BudgetInit /\ [][BudgetNext]_budgetVars

-----------------------------------------------------------------------------
BudgetTypeOK ==
    /\ assigned \in [BudgetMonths -> [Cats -> Int]]
    /\ month \in BudgetMonths
    /\ \A m \in BudgetMonths : shownBudget[m] # NoData => shownBudget[m][m] \in [Cats -> Int]
    /\ rowEdit.cat \in Cats \cup {NoCat}
    /\ {cover.cat, cover.from} \subseteq Cats \cup {NoCat}
    /\ {funding, overspentOpen} \subseteq BOOLEAN
    /\ \A k \in calls : k.month \in BudgetMonths /\ DOMAIN k.writes \subseteq Cats
    /\ {extra, taken} \subseteq [BudgetMonths -> [Cats -> Nat]]
    /\ presses \in 0 .. MaxPresses

\* No goal is funded beyond what it is for: the row's button pressed again before
\* the refetch, the same goal funded from the dialog, a late answer or requests
\* that overlap on the server assign no more than a monthly or yearly goal asks for
\* once, and in a goal by a date no more than its whole amount; plus what the user
\* moved or assigned on top of it, and took out of earlier months so that it is
\* missing now.
Limit(m, c) == Level(m, c) + extra[m][c] + SumFunction([k \in 1 .. m - 1 |-> taken[k][c]])
GoalsNotOverfunded == \A m \in BudgetMonths, c \in Cats : assigned[m][c] <= Limit(m, c)
=============================================================================

--------------------------- MODULE InsightsScreen ---------------------------
(***************************************************************************)
(* The Insights page: a preset and an anchor month name a range, the       *)
(* figures of a range are fetched under its own key, and the bars divide   *)
(* what the server added up. The overspending section is left out.         *)
(***************************************************************************)
EXTENDS Integers, FiniteSets, FiniteSetsExt, Functions

CONSTANTS
    Presets,        \* the presets offered
    CurrentMonth,   \* <<year, month>> when the page opens
    Postings,       \* [id, month, scope, category, amount, incoming]: the server's rows;
                    \* the scope is the account's, incoming unless the account is off
                    \* budget or the row a leg between accounts of one pool
    Scopes,
    ScopeOfGroup,   \* group |-> its scope
    GroupOf,        \* category |-> its group
    Uncategorized,  \* the category of an unassigned posting
    NoRange,        \* nothing to show
    MaxTurns        \* bound on the user's changes of the range

YearMonths == Int \X (1 .. 12)

\* The presets are RANGE_PRESETS; categories, groups and scopes that are named
\* exist (foreign keys).
ASSUME InsightsAssumption ==
    /\ "1M" \in Presets /\ Presets \subseteq {"1M", "3M", "6M", "YTD", "1Y"}
    /\ CurrentMonth \in YearMonths /\ MaxTurns \in Nat
    /\ IsFiniteSet(Postings) /\ IsFiniteSet(Scopes) /\ IsFiniteSet(DOMAIN ScopeOfGroup)
    /\ ScopeOfGroup \in [DOMAIN ScopeOfGroup -> Scopes]
    /\ GroupOf \in [DOMAIN GroupOf -> DOMAIN ScopeOfGroup]
    /\ \A p \in Postings :
        /\ p.month \in YearMonths /\ p.scope \in Scopes /\ p.amount \in Int
        /\ p.category \in DOMAIN GroupOf \cup {Uncategorized}

VARIABLES
    preset, anchor, \* what the user chose
    rangesHere,       \* keys whose figures are cached
    asking,         \* keys being fetched
    refused,        \* keys whose fetch failed
    lastShown,      \* the range of the figures shown last
    turns

insightsVars == <<preset, anchor, rangesHere, asking, refused, lastShown, turns>>

-----------------------------------------------------------------------------
\* new Date(y, m - 1 + delta, 1) carries into the year.
shiftMonth(month, delta) ==
    LET index == 12 * month[1] + month[2] - 1 + delta IN
    <<index \div 12, (index % 12) + 1>>

monthsInPreset(p, month) ==
    IF p = "YTD" THEN month[2]
    ELSE CASE p = "1M" -> 1 [] p = "3M" -> 3 [] p = "6M" -> 6 [] p = "1Y" -> 12

resolveRange(p, month) == <<shiftMonth(month, -(monthsInPreset(p, month) - 1)), month>>

Chosen == resolveRange(preset, anchor)

-----------------------------------------------------------------------------
\* What the server adds up for a range.
Index(month) == 12 * month[1] + month[2] - 1
MonthCount(range) == Index(range[2]) - Index(range[1]) + 1
InRange(range) == {p \in Postings : Index(p.month) \in Index(range[1]) .. Index(range[2])}
Sums(rows) == SumFunction([p \in rows |-> p.amount])

\* _is_income, without the legs flow_by_month passes over.
IsIncome(p) == p.category = Uncategorized /\ p.amount > 0 /\ p.incoming

\* MUTANT of Outflow: refunds are netted into what was spent.
NetOutflow(rows) == -Sums({p \in rows : p.category # Uncategorized})

\* Spending is gross: a refund is shown beside it, never taken off, and
\* unassigned money that leaves is no spending.
Outflow(rows) == -Sums({p \in rows : p.category # Uncategorized /\ p.amount < 0})
IncomeOf(rows) == Sums({p \in rows : IsIncome(p)})

\* _scope_id_of: a categorized posting is its group's scope's, whatever the account.
ScopeIdOf(p) == IF p.category = Uncategorized THEN p.scope ELSE ScopeOfGroup[GroupOf[p.category]]

InScope(range, s) == {p \in InRange(range) : ScopeIdOf(p) = s}
InGroup(range, s, g) ==
    {p \in InScope(range, s) : p.category # Uncategorized /\ GroupOf[p.category] = g}
InMonth(range, s, i) == {p \in InScope(range, s) : Index(p.month) = i}

GroupsIn(s) == {g \in DOMAIN ScopeOfGroup : ScopeOfGroup[g] = s}

\* A bar with parts has one for each that was spent on.
Segments(total, spent) ==
    [x \in {y \in DOMAIN spent : total > 0 /\ spent[y] > 0} |-> spent[x]]

\* ScopeSplitBar: the scopes as parts of the whole.
SplitSegments(range) ==
    Segments(Outflow(InRange(range)), [s \in Scopes |-> Outflow(InScope(range, s))])

\* ScopeSpendingCard: the groups as parts of the scope.
GroupSegments(range, s) ==
    Segments(Outflow(InScope(range, s)), [g \in GroupsIn(s) |-> Outflow(InGroup(range, s, g))])

\* MonthlyFlowChart: two bars a month on one axis for every scope, drawn when
\* there is more than one month.
FlowBars(range, s) ==
    IF MonthCount(range) <= 1 THEN {}
    ELSE UNION {{IncomeOf(InMonth(range, s, i)), Outflow(InMonth(range, s, i))} :
                i \in Index(range[1]) .. Index(range[2])}
AxisMax(range) == Max({1} \cup UNION {FlowBars(range, s) : s \in Scopes})

-----------------------------------------------------------------------------
\* keepPreviousData: while the chosen range is being fetched the page goes on
\* showing the figures it showed last. An error shows none.
ShownRange ==
    IF Chosen \in rangesHere THEN Chosen
    ELSE IF Chosen \in refused THEN NoRange
    ELSE lastShown

InsightsInit ==
    /\ preset = "1M" /\ anchor = CurrentMonth
    /\ rangesHere = {} /\ asking = {resolveRange("1M", CurrentMonth)} /\ refused = {}
    /\ lastShown = NoRange /\ turns = 0

\* A key without cached figures is fetched.
Turned(p, month) ==
    LET range == resolveRange(p, month) IN
    /\ turns < MaxTurns /\ turns' = turns + 1
    /\ preset' = p /\ anchor' = month
    /\ asking' = IF range \in rangesHere THEN asking ELSE asking \cup {range}
    /\ refused' = refused \ {range}
    /\ lastShown' = IF range \in rangesHere THEN range ELSE lastShown
    /\ UNCHANGED rangesHere

PickPreset(p) == p # preset /\ Turned(p, anchor)

Step(delta) == Turned(preset, shiftMonth(anchor, delta))

FiguresArrive(range) ==
    /\ range \in asking /\ asking' = asking \ {range}
    /\ rangesHere' = rangesHere \cup {range}
    /\ lastShown' = IF range = Chosen THEN range ELSE lastShown
    /\ UNCHANGED <<preset, anchor, refused, turns>>

FiguresFail(range) ==
    /\ range \in asking /\ asking' = asking \ {range}
    /\ refused' = refused \cup {range}
    /\ UNCHANGED <<preset, anchor, rangesHere, lastShown, turns>>

InsightsNext ==
    \/ \E p \in Presets : PickPreset(p)
    \/ \E delta \in {-1, 1} : Step(delta)
    \/ \E range \in asking : FiguresArrive(range) \/ FiguresFail(range)

InsightsSpec == InsightsInit /\ [][InsightsNext]_insightsVars

-----------------------------------------------------------------------------
InsightsTypeOK ==
    /\ preset \in Presets /\ anchor \in YearMonths
    /\ rangesHere \cup asking \cup refused \subseteq YearMonths \X YearMonths
    /\ asking \cap rangesHere = {} /\ asking \cap refused = {} /\ refused \cap rangesHere = {}
    /\ lastShown \in rangesHere \cup {NoRange} /\ turns \in 0 .. MaxTurns

\* Once nothing is being fetched and nothing failed, the figures on the page are
\* for as many months as the preset says, the anchor month the last of them, and
\* the parts of every bar fill its whole, whatever refunds there are.
BarsFillTheirWhole ==
    ShownRange # NoRange =>
        /\ Chosen \notin asking =>
            /\ MonthCount(ShownRange) = monthsInPreset(preset, anchor)
            /\ ShownRange[2] = anchor
        /\ \A s \in Scopes :
            /\ SumFunction(GroupSegments(ShownRange, s)) = Outflow(InScope(ShownRange, s))
            /\ \A bar \in FlowBars(ShownRange, s) : bar \in 0 .. AxisMax(ShownRange)
        /\ SumFunction(SplitSegments(ShownRange)) = Outflow(InRange(ShownRange))
=============================================================================

--------------------------- MODULE SettingsScreen ---------------------------
(***************************************************************************)
(* SettingsPage: the reset dialog with its countdown, scopes, payees and   *)
(* the rules that categorize by payee.                                     *)
(***************************************************************************)
EXTENDS Integers, Sequences, FiniteSetsExt

CONSTANTS
    ConfirmDelay,     \* CONFIRM_DELAY_SECONDS
    ResetOptions,
    PayeeIds,
    RowScopes,        \* the scopes a user may have
    UsedScopes,       \* those with accounts or groups
    NoPayee,
    MaxClock,         \* bound on the seconds
    MaxSettingsCalls  \* bound on the calls

ASSUME SettingsAssumption ==
    ConfirmDelay \in Nat /\ MaxClock \in Nat /\ MaxSettingsCalls \in Nat

VARIABLES
    clock,          \* the wall clock, in seconds
    resetDialog,    \* [open, openedAt, left, chosen]: the dialog's state
    frame,          \* [stale, left, chosen]: what is still on screen of its last time
    resetCall,      \* the options of the reset in flight
    wiped,          \* the options that resets have carried out
    payees,         \* the server's payees
    payeeList,      \* as last fetched
    merging,        \* [source, target] of the merge dialog
    mergeCall,      \* the merge in flight, or nothing
    scopes, scopeList,
    scopeCalls,     \* the deletes in flight: [scope, checked]
    rules,          \* the server's rules: their sort_order, in the order of creation
    ruleList,
    ruleCalls,      \* creates in flight: the sort_order each carries
    settingsCalls

settingsVars == <<clock, resetDialog, frame, resetCall, wiped, payees, payeeList, merging, mergeCall,
                  scopes, scopeList, scopeCalls, rules, ruleList, ruleCalls, settingsCalls>>

resetVars == <<resetDialog, frame, resetCall, wiped>>
payeeVars == <<payees, payeeList, merging, mergeCall>>
scopeVars == <<scopes, scopeList, scopeCalls>>
ruleVars == <<rules, ruleList, ruleCalls>>

-----------------------------------------------------------------------------
NoFrame == [stale |-> FALSE, left |-> ConfirmDelay, chosen |-> {}]
NotMerging == [source |-> NoPayee, target |-> NoPayee]

SettingsInit ==
    /\ clock = 0
    /\ resetDialog = [open |-> FALSE, openedAt |-> 0, left |-> ConfirmDelay, chosen |-> {}]
    /\ frame = NoFrame /\ resetCall = {} /\ wiped = {}
    /\ payees = PayeeIds /\ payeeList = PayeeIds /\ merging = NotMerging /\ mergeCall = NotMerging
    /\ scopes = RowScopes /\ scopeList = RowScopes /\ scopeCalls = {}
    /\ rules = <<>> /\ ruleList = <<>> /\ ruleCalls = {}
    /\ settingsCalls = 0

CountSettings == settingsCalls < MaxSettingsCalls /\ settingsCalls' = settingsCalls + 1
ResetOnly == UNCHANGED <<payeeVars, scopeVars, ruleVars>>
PayeesOnly == UNCHANGED <<clock, resetVars, scopeVars, ruleVars>>
ScopesOnly == UNCHANGED <<clock, resetVars, payeeVars, ruleVars>>
RulesOnly == UNCHANGED <<clock, resetVars, payeeVars, scopeVars>>

\* Any of the page's queries answers.
SettingsArrive ==
    /\ <<payeeList, scopeList, ruleList>> # <<payees, scopes, rules>>
    /\ payeeList' = payees /\ scopeList' = scopes /\ ruleList' = rules
    /\ UNCHANGED <<clock, resetVars, payees, merging, mergeCall, scopes, scopeCalls,
                   rules, ruleCalls, settingsCalls>>

-----------------------------------------------------------------------------
Second == clock < MaxClock /\ clock' = clock + 1 /\ ResetOnly /\ UNCHANGED <<resetVars, settingsCalls>>

\* MUTANT of Opened: the countdown of the dialog's last time goes on.
OpenedAgain == [resetDialog EXCEPT !.open = TRUE, !.openedAt = clock, !.chosen = {}]

\* Opening restarts the countdown and clears the choice, both in effects: the
\* dialog is drawn once with the values of its last time.
Opened == [open |-> TRUE, openedAt |-> clock, left |-> ConfirmDelay, chosen |-> {}]

OpenReset ==
    /\ ~resetDialog.open /\ resetDialog' = Opened
    /\ frame' = [stale |-> TRUE, left |-> resetDialog.left, chosen |-> resetDialog.chosen]
    /\ ResetOnly /\ UNCHANGED <<clock, resetCall, wiped, settingsCalls>>

Redraw ==
    /\ frame.stale /\ frame' = NoFrame
    /\ ResetOnly /\ UNCHANGED <<clock, resetDialog, resetCall, wiped, settingsCalls>>

\* The timer fires late in a background tab: it looks at the clock, it does not
\* count its own ticks.
TimerFires ==
    /\ resetDialog.open /\ resetDialog.left > 0
    /\ resetDialog' = [resetDialog EXCEPT !.left =
                        IF clock - resetDialog.openedAt >= ConfirmDelay THEN 0
                        ELSE ConfirmDelay - (clock - resetDialog.openedAt)]
    /\ frame' = NoFrame
    /\ ResetOnly /\ UNCHANGED <<clock, resetCall, wiped, settingsCalls>>

ToggleOption(o) ==
    /\ resetDialog.open /\ resetCall = {}
    /\ resetDialog' = [resetDialog EXCEPT !.chosen = IF o \in @ THEN @ \ {o} ELSE @ \cup {o}]
    /\ ResetOnly /\ UNCHANGED <<clock, frame, resetCall, wiped, settingsCalls>>

\* Every way out of the dialog waits for the call, the backdrop too.
CloseReset ==
    /\ resetDialog.open /\ resetCall = {}
    /\ resetDialog' = [resetDialog EXCEPT !.open = FALSE] /\ frame' = NoFrame
    /\ ResetOnly /\ UNCHANGED <<clock, resetCall, wiped, settingsCalls>>

\* The button is the one on screen.
ConfirmReset ==
    LET seen == IF frame.stale THEN frame ELSE resetDialog IN
    /\ resetDialog.open /\ seen.left = 0 /\ seen.chosen # {} /\ resetCall = {}
    /\ CountSettings
    /\ resetCall' = seen.chosen
    /\ ResetOnly /\ UNCHANGED <<clock, resetDialog, frame, wiped>>

ResetAnswered(accepted) ==
    /\ resetCall # {} /\ resetCall' = {}
    /\ wiped' = IF accepted THEN wiped \cup resetCall ELSE wiped
    /\ resetDialog' = [resetDialog EXCEPT !.open = ~accepted] /\ frame' = NoFrame
    /\ ResetOnly /\ UNCHANGED <<clock, settingsCalls>>

-----------------------------------------------------------------------------
\* The dialog keeps its target from the last time, listed or not.
OpenMerge(p) ==
    /\ merging.source = NoPayee /\ p \in payeeList
    /\ merging' = [merging EXCEPT !.source = p]
    /\ PayeesOnly /\ UNCHANGED <<payees, payeeList, mergeCall, settingsCalls>>

PickTarget(p) ==
    /\ merging.source # NoPayee /\ p \in payeeList \ {merging.source, merging.target}
    /\ merging' = [merging EXCEPT !.target = p]
    /\ PayeesOnly /\ UNCHANGED <<payees, payeeList, mergeCall, settingsCalls>>

CloseMerge ==
    /\ merging.source # NoPayee /\ merging' = [merging EXCEPT !.source = NoPayee]
    /\ PayeesOnly /\ UNCHANGED <<payees, payeeList, mergeCall, settingsCalls>>

ConfirmMerge ==
    /\ merging.source # NoPayee /\ merging.target # NoPayee /\ mergeCall = NotMerging
    /\ CountSettings /\ mergeCall' = merging
    /\ PayeesOnly /\ UNCHANGED <<payees, payeeList, merging>>

\* The server refuses a payee merged into itself and payees that are gone.
MergeAnswered ==
    /\ mergeCall # NotMerging /\ mergeCall' = NotMerging
    /\ LET fits == mergeCall.source # mergeCall.target
                    /\ {mergeCall.source, mergeCall.target} \subseteq payees IN
        /\ payees' = IF fits THEN payees \ {mergeCall.source} ELSE payees
        /\ merging' = IF fits THEN [merging EXCEPT !.source = NoPayee] ELSE merging
    /\ PayeesOnly /\ UNCHANGED <<payeeList, settingsCalls>>

-----------------------------------------------------------------------------
\* A delete needs another scope on the list, and none in flight from this page.
DeleteScope(s) ==
    /\ s \in scopeList /\ Cardinality(scopeList) > 1 /\ scopeCalls = {}
    /\ CountSettings /\ scopeCalls' = {[scope |-> s, checked |-> FALSE]}
    /\ ScopesOnly /\ UNCHANGED <<scopes, scopeList>>

\* Another tab asks for the same.
DeleteScopeElsewhere(s) ==
    /\ s \in scopes /\ ~\E c \in scopeCalls : c.scope = s
    /\ CountSettings /\ scopeCalls' = scopeCalls \cup {[scope |-> s, checked |-> FALSE]}
    /\ ScopesOnly /\ UNCHANGED <<scopes, scopeList>>

\* The server counts the scopes and looks for what uses this one, then deletes
\* it: requests that overlap may both find another scope left.
ScopeChecked(c) ==
    /\ c \in scopeCalls /\ ~c.checked
    /\ IF c.scope \in scopes \ UsedScopes /\ Cardinality(scopes) > 1
       THEN scopeCalls' = (scopeCalls \ {c}) \cup {[c EXCEPT !.checked = TRUE]}
       ELSE scopeCalls' = scopeCalls \ {c}
    /\ ScopesOnly /\ UNCHANGED <<scopes, scopeList, settingsCalls>>

ScopeDeleted(c) ==
    /\ c \in scopeCalls /\ c.checked /\ scopeCalls' = scopeCalls \ {c}
    /\ scopes' = scopes \ {c.scope}
    /\ ScopesOnly /\ UNCHANGED <<scopeList, settingsCalls>>

CreateScope(s) ==
    /\ s \notin scopes /\ CountSettings /\ scopes' = scopes \cup {s}
    /\ ScopesOnly /\ UNCHANGED <<scopeList, scopeCalls>>

-----------------------------------------------------------------------------
\* A rule is created with the length of the list as its sort_order.
CreateRule ==
    /\ ruleCalls = {} /\ CountSettings
    /\ ruleCalls' = {Len(ruleList)}
    /\ RulesOnly /\ UNCHANGED <<rules, ruleList>>

RuleCreated ==
    /\ ruleCalls # {} /\ ruleCalls' = {}
    /\ \E order \in ruleCalls : rules' = Append(rules, order)
    /\ RulesOnly /\ UNCHANGED <<ruleList, settingsCalls>>

RuleRefused ==
    /\ ruleCalls # {} /\ ruleCalls' = {}
    /\ RulesOnly /\ UNCHANGED <<rules, ruleList, settingsCalls>>

DeleteRule(i) ==
    /\ i \in DOMAIN rules /\ CountSettings
    /\ rules' = SubSeq(rules, 1, i - 1) \o SubSeq(rules, i + 1, Len(rules))
    /\ RulesOnly /\ UNCHANGED <<ruleList, ruleCalls>>

SettingsNext ==
    \/ SettingsArrive
    \/ Second \/ OpenReset \/ Redraw \/ TimerFires \/ CloseReset \/ ConfirmReset
    \/ \E o \in ResetOptions : ToggleOption(o)
    \/ \E accepted \in BOOLEAN : ResetAnswered(accepted)
    \/ \E p \in PayeeIds : OpenMerge(p) \/ PickTarget(p)
    \/ CloseMerge \/ ConfirmMerge \/ MergeAnswered
    \/ \E s \in RowScopes : DeleteScope(s) \/ DeleteScopeElsewhere(s) \/ CreateScope(s)
    \/ \E c \in scopeCalls : ScopeChecked(c) \/ ScopeDeleted(c)
    \/ CreateRule \/ RuleCreated \/ RuleRefused
    \/ \E i \in DOMAIN rules : DeleteRule(i)

SettingsSpec == SettingsInit /\ [][SettingsNext]_settingsVars

-----------------------------------------------------------------------------
SettingsTypeOK ==
    /\ clock \in 0 .. MaxClock
    /\ resetDialog \in [open : BOOLEAN, openedAt : 0 .. MaxClock, left : 0 .. ConfirmDelay,
                        chosen : SUBSET ResetOptions]
    /\ frame \in [stale : BOOLEAN, left : 0 .. ConfirmDelay, chosen : SUBSET ResetOptions]
    /\ resetCall \subseteq ResetOptions /\ wiped \subseteq ResetOptions
    /\ {payees, payeeList} \subseteq SUBSET PayeeIds
    /\ {merging.source, merging.target} \subseteq PayeeIds \cup {NoPayee}
    /\ {scopes, scopeList} \subseteq SUBSET RowScopes /\ UsedScopes \cap RowScopes \subseteq scopes
    /\ rules \in Seq(Nat) /\ settingsCalls \in 0 .. MaxSettingsCalls

\* "so a throttled background tab can't make the wait shorter or longer than
\* promised": a reset is sent ConfirmDelay seconds after its dialog opened at the
\* earliest, however often it was opened before and whenever the timer fires; but
\* for a click that hits the one frame drawn before the effects' new state.
ResetWaits ==
    [][resetCall = {} /\ resetCall' # {} =>
        /\ resetDialog.open
        /\ frame.stale \/ clock - resetDialog.openedAt >= ConfirmDelay]_settingsVars
=============================================================================

----------------------------- MODULE SyncQuota -----------------------------
(***************************************************************************)
(* The daily sync quota: the "Sync now" button of BankLinkCard in several  *)
(* tabs, the automatic scheduler and the first sync of a new link all make *)
(* runs, and each looks at the committed runs before it commits its own.   *)
(***************************************************************************)
EXTENDS Integers, FiniteSets

CONSTANTS
    Tabs,         \* tabs with the accounts page
    Scheduler,    \* the scheduler's single task
    NoActor,
    MaxPerDay,    \* settings.sync_max_per_day
    MaxOverlap,   \* bound on the runs going on at once
    MaxLinks      \* bound on the bank links of a day

ASSUME QuotaAssumption ==
    /\ Scheduler \notin Tabs /\ NoActor \notin Tabs \cup {Scheduler}
    /\ MaxPerDay \in Nat /\ MaxOverlap \in Nat /\ MaxLinks \in Nat

VARIABLES
    used,      \* committed runs started today
    linked,    \* those of them that a link made
    running,   \* the runs before their commit: [today, before], by day of start
    most,      \* the most runs of today that have gone on at once
    cooling,   \* the last committed run started less than SYNC_COOLDOWN ago
    due,       \* the scheduler's interval has passed since the last committed run
    shown,     \* tab |-> the remaining runs it shows; -1 before the first answer
    waiting    \* who waits for a run of its own: tabs' buttons, the scheduler

quotaVars == <<used, linked, running, most, cooling, due, shown, waiting>>

-----------------------------------------------------------------------------
Actors == Tabs \cup {Scheduler}

RunsLeft == IF used < MaxPerDay THEN MaxPerDay - used ELSE 0

Going == running.today + running.before

QuotaInit ==
    /\ used = 0 /\ linked = 0
    /\ running = [today |-> 0, before |-> 0] /\ most = 0
    /\ cooling = FALSE /\ due = TRUE
    /\ shown = [t \in Tabs |-> -1] /\ waiting = {}

StatusArrives(t) ==
    /\ shown' = [shown EXCEPT ![t] = RunsLeft]
    /\ UNCHANGED <<used, linked, running, most, cooling, due, waiting>>

\* The button needs a status that leaves runs, and waits for its own run.
ButtonLive(t) == shown[t] > 0 /\ t \notin waiting

\* Leaving the page and coming back makes a new button, which waits for nothing.
Remount(t) ==
    /\ t \in waiting /\ waiting' = waiting \ {t}
    /\ UNCHANGED <<used, linked, running, most, cooling, due, shown>>

\* A run goes out to the banks; its row is flushed, not committed.
Start(a) ==
    /\ Going < MaxOverlap
    /\ running' = [running EXCEPT !.today = @ + 1]
    /\ most' = IF running'.today > most THEN running'.today ELSE most
    /\ waiting' = waiting \cup {a}

\* MUTANT of MayRun: the quota is left to the button, which may be stale.
MayRunByButton == ~cooling

\* sync_now's checks, against committed runs only.
MayRun == RunsLeft > 0 /\ ~cooling

PressSync(t) ==
    /\ ButtonLive(t) /\ MayRun
    /\ Start(t)
    /\ UNCHANGED <<used, linked, cooling, due, shown>>

\* A refusal refetches the status.
PressRefused(t) ==
    /\ ButtonLive(t) /\ ~MayRun
    /\ shown' = [shown EXCEPT ![t] = RunsLeft]
    /\ UNCHANGED <<used, linked, running, most, cooling, due, waiting>>

\* should_run_auto_sync, in mode "auto"; one tick at a time.
Tick ==
    /\ Scheduler \notin waiting /\ RunsLeft > 0 /\ due
    /\ Start(Scheduler)
    /\ UNCHANGED <<used, linked, cooling, due, shown>>

\* Whose run it is that ends: one somebody waits for, or one left behind.
Owner(a) == a \in waiting \/ (a = NoActor /\ Going > Cardinality(waiting))

\* The run's row commits with the day it was started on.
Committed(a, day) ==
    /\ Owner(a) /\ running[day] > 0
    /\ running' = [running EXCEPT ![day] = @ - 1]
    /\ used' = IF day = "today" THEN used + 1 ELSE used
    /\ cooling' \in BOOLEAN /\ due' = FALSE
    /\ waiting' = waiting \ {a}
    /\ UNCHANGED <<linked, most, shown>>

\* The callback of a new link: one more run, whatever the quota says.
LinkRun ==
    /\ linked < MaxLinks
    /\ used' = used + 1 /\ linked' = linked + 1
    /\ cooling' \in BOOLEAN /\ due' = FALSE
    /\ UNCHANGED <<running, most, shown, waiting>>

\* An error other than BankingError rolls the run back: its calls are spent and
\* nothing counts them.
RunLost(a, day) ==
    /\ Owner(a) /\ running[day] > 0
    /\ running' = [running EXCEPT ![day] = @ - 1]
    /\ waiting' = waiting \ {a}
    /\ UNCHANGED <<used, linked, most, cooling, due, shown>>

Restart ==
    /\ Going > 0
    /\ running' = [today |-> 0, before |-> 0] /\ waiting' = {}
    /\ UNCHANGED <<used, linked, most, cooling, due, shown>>

CooldownPasses ==
    /\ cooling /\ cooling' = FALSE
    /\ UNCHANGED <<used, linked, running, most, due, shown, waiting>>

IntervalPasses ==
    /\ ~due /\ due' = TRUE
    /\ UNCHANGED <<used, linked, running, most, cooling, shown, waiting>>

\* UTC midnight.
NewDay ==
    /\ used > 0 \/ running.today > 0
    /\ used' = 0 /\ linked' = 0 /\ most' = 0
    /\ running' = [today |-> 0, before |-> Going]
    /\ UNCHANGED <<cooling, due, shown, waiting>>

QuotaNext ==
    \/ \E t \in Tabs : StatusArrives(t) \/ Remount(t) \/ PressSync(t) \/ PressRefused(t)
    \/ Tick \/ LinkRun \/ Restart
    \/ \E a \in Actors \cup {NoActor}, day \in {"today", "before"} :
        Committed(a, day) \/ RunLost(a, day)
    \/ CooldownPasses \/ IntervalPasses \/ NewDay

QuotaSpec == QuotaInit /\ [][QuotaNext]_quotaVars

-----------------------------------------------------------------------------
QuotaTypeOK ==
    /\ used \in Nat /\ linked \in Nat
    /\ running \in [today : Nat, before : Nat] /\ most \in Nat
    /\ {cooling, due} \subseteq BOOLEAN
    /\ shown \in [Tabs -> -1 .. MaxPerDay]
    /\ waiting \subseteq Actors

\* The check-then-commit race is the only way past the daily limit: whatever the
\* tabs, the scheduler, lost runs, restarts and midnight do, the runs started
\* under the quota exceed it by less than the number that went on at once, so
\* runs made one at a time keep the limit.
RunsNearLimit == most > 0 => used - linked < MaxPerDay + most
=============================================================================

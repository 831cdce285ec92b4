-------------------------- MODULE Screens_proofs --------------------------
(***************************************************************************)
(* The screens of the web client that the next-state relation of MCScreens *)
(* moves one at a time, each by itself and for every value of its          *)
(* constants: the account page, the settings page, the linking of          *)
(* transfers, the transaction forms, the transactions page, the accounts   *)
(* page, the pickers and the sync quota behind the accounts page's button. *)
(* The screens that add up money are in SumsAndOrder_proofs.               *)
(***************************************************************************)
EXTENDS TransactionForm, TransactionsScreen, TransferLinking, AccountScreen,
        SettingsScreen, AccountsScreen, PickerLists, SyncQuota,
        FiniteSetTheorems, SequenceTheorems, FunctionTheorems, TLAPS

-----------------------------------------------------------------------------
(***************************************************************************)
(* The account page. EntryInv: the body of the entry in flight is the one  *)
(* made from the amount that is booked as asked for; the sum an adjustment *)
(* has read is the balance without what was booked since.                  *)
(***************************************************************************)
PlainBody(amount) == [kind |-> "plain", from |-> "own", to |-> "own", cents |-> amount]

EntryMadeOf(call, amount) ==
    \/ call = [body |-> PlainBody(amount), amount |-> amount]
    \/ call = [body |-> TransferBody(amount), amount |-> amount]

EntryForms == [choice : EntryChoices, touched : BOOLEAN, amount : EntryAmounts \cup {Unparsed}]
BalanceForms == [open : BOOLEAN, amount : Int \cup {Unparsed}]
Books == [own : Int, peer : Int]

Adjustments == [target : Int, read : Int \cup {NoSubject}, since : Int]

ReadIsBehind(call, own) ==
    IF call.read = NoSubject THEN call.since = 0 ELSE own = call.read + call.since

EntryInv ==
    /\ entry \in EntryForms
    /\ entryCall = NoSubject \/ \E amount \in Int : EntryMadeOf(entryCall, amount)
    /\ balanceForm \in BalanceForms
    /\ balanceCall = NoSubject
       \/ (balanceCall \in Adjustments /\ ReadIsBehind(balanceCall, balances.own))
    /\ cell \in AccountRows \cup {NoSubject} /\ cellCalls \subseteq AccountRows
    /\ balances \in Books /\ asked \in Books
    /\ entries \in 0 .. MaxEntries
    /\ balances = asked

\* The server's two legs of an entry come to what was typed.
LEMMA LegsComeToTheEntry ==
  ASSUME EntryInv, EntryAccepted
  PROVE  /\ balances' \in Books /\ asked' = balances'
         /\ \E amount \in Int : balances'.own = balances.own + amount /\ BookedMeanwhile(amount)
<1>. DEFINE b == entryCall.body
            typed == entryCall.amount
<1>1. PICK amount \in Int : EntryMadeOf(entryCall, amount)
  BY DEF EntryInv, EntryAccepted
<1>2. typed = amount
  BY <1>1 DEF EntryMadeOf
<1>3. balances = [own |-> balances.own, peer |-> balances.peer]
      /\ balances.own \in Int /\ balances.peer \in Int
  BY DEF EntryInv, Books
<1>4. asked' = [own |-> balances.own + amount,
                peer |-> IF b.kind = "plain" THEN balances.peer ELSE balances.peer - amount]
  BY <1>2 DEF EntryInv, EntryAccepted
<1>5. BookedMeanwhile(amount)
  BY <1>2 DEF EntryAccepted
<1>6. CASE b = PlainBody(amount)
  <2>1. balances' = [balances EXCEPT !.own = @ + amount]
    BY <1>6 DEF EntryAccepted, PlainBody
  <2>2. balances' = [own |-> balances.own + amount, peer |-> balances.peer]
    BY <2>1, <1>3
  <2>3. balances' \in Books /\ asked' = balances'
    BY <2>2, <1>3, <1>4, <1>6 DEF PlainBody, Books
  <2>4. balances'.own = balances.own + amount
    BY <2>2
  <2>. QED  BY <2>3, <2>4, <1>5
<1>7. CASE b = TransferBody(amount)
  <2>1. balances' = [balances EXCEPT ![b.from] = @ - b.cents, ![b.to] = @ + b.cents]
    BY <1>7 DEF EntryAccepted, TransferBody
  <2>2. balances' = [own |-> balances.own + amount, peer |-> balances.peer - amount]
    <3>1. CASE amount < 0
      <4>1. b.from = "own" /\ b.to = "peer" /\ b.cents = -amount
        BY <3>1, <1>7 DEF TransferBody
      <4>2. balances' = [own |-> balances.own - (-amount), peer |-> balances.peer + (-amount)]
        BY <4>1, <2>1, <1>3
      <4>. QED  BY <4>2, <1>3
    <3>2. CASE ~(amount < 0)
      <4>1. b.from = "peer" /\ b.to = "own" /\ b.cents = amount
        BY <3>2, <1>7 DEF TransferBody
      <4>. QED  BY <4>1, <2>1, <1>3
    <3>. QED  BY <3>1, <3>2
  <2>3. b.kind # "plain"
    BY <1>7 DEF TransferBody
  <2>4. balances' \in Books /\ asked' = balances'
    BY <2>2, <2>3, <1>3, <1>4 DEF Books
  <2>5. balances'.own = balances.own + amount
    BY <2>2
  <2>. QED  BY <2>4, <2>5, <1>5
<1>. QED  BY <1>1, <1>6, <1>7 DEF EntryMadeOf

\* What is booked meanwhile goes into what the adjustment has missed.
LEMMA BookedIsMissed ==
  ASSUME balanceCall = NoSubject
         \/ (balanceCall \in Adjustments /\ ReadIsBehind(balanceCall, balances.own)),
         balances.own \in Int, NEW amount \in Int,
         balances'.own = balances.own + amount, BookedMeanwhile(amount)
  PROVE  balanceCall' = NoSubject
         \/ (balanceCall' \in Adjustments /\ ReadIsBehind(balanceCall', balances'.own))
<1>1. CASE balanceCall = NoSubject
  BY <1>1 DEF BookedMeanwhile
<1>2. CASE balanceCall # NoSubject /\ balanceCall.read = NoSubject
  <2>1. balanceCall' = balanceCall
    BY <1>2 DEF BookedMeanwhile
  <2>2. balanceCall' \in Adjustments /\ balanceCall'.read = NoSubject /\ balanceCall'.since = 0
    BY <1>2, <2>1 DEF ReadIsBehind
  <2>. QED  BY <2>2 DEF ReadIsBehind
<1>3. CASE balanceCall # NoSubject /\ balanceCall.read # NoSubject
  <2>1. balanceCall.read \in Int /\ balanceCall.since \in Int
    BY <1>3 DEF Adjustments
  <2>2. balanceCall' = [balanceCall EXCEPT !.since = @ + amount]
    BY <1>3 DEF BookedMeanwhile
  <2>3. balanceCall' \in Adjustments
    BY <1>3, <2>1, <2>2 DEF Adjustments
  <2>4. balanceCall'.read = balanceCall.read /\ balanceCall'.since = balanceCall.since + amount
    BY <1>3, <2>1, <2>2 DEF Adjustments
  <2>. QED  BY <1>3, <2>1, <2>3, <2>4 DEF ReadIsBehind
<1>. QED  BY <1>1, <1>2, <1>3

LEMMA EntryInitially == AccountInit => EntryInv
BY AccountAssumption
DEF AccountInit, EntryInv, EntryForms, BalanceForms, Books, BlankEntry

LEMMA EntryStep == EntryInv /\ [AccountNext]_accountVars => EntryInv'
<1>. SUFFICES ASSUME EntryInv, [AccountNext]_accountVars  PROVE EntryInv'
  OBVIOUS
<1>. USE AccountAssumption
<1>1. ASSUME NEW amount \in EntryAmounts \cup {Unparsed}, TypeEntryAmount(amount)
      PROVE  EntryInv'
  BY <1>1 DEF EntryInv, TypeEntryAmount, EntryForms, EntryMadeOf
<1>2. ASSUME NEW amount \in EntryAmounts \cup {Unparsed}, TypeBalance(amount)
      PROVE  EntryInv'
  BY <1>2 DEF EntryInv, TypeBalance, BalanceForms, EntryMadeOf
<1>3. ASSUME NEW choice \in EntryChoices, PickEntryChoice(choice)
      PROVE  EntryInv'
  BY <1>3 DEF EntryInv, PickEntryChoice, EntryForms, EntryMadeOf
<1>4. ASSUME NEW choice \in EntryChoices, TrackSuggestion(choice)
      PROVE  EntryInv'
  BY <1>4 DEF EntryInv, TrackSuggestion, EntryForms, EntryMadeOf
<1>5. CASE SubmitEntry
  <2>1. entry.amount \in Int
    BY <1>5 DEF EntryInv, SubmitEntry, EntryForms
  <2>2. EntryMadeOf(entryCall', entry.amount)
    BY <1>5 DEF SubmitEntry, EntryBody, EntryMadeOf, PlainBody
  <2>3. entries' \in 0 .. MaxEntries
    BY <1>5 DEF EntryInv, SubmitEntry, Counted
  <2>. QED  BY <1>5, <2>1, <2>2, <2>3 DEF EntryInv, SubmitEntry, EntryMadeOf
<1>6. CASE EntryAccepted
  <2>1. PICK amount \in Int : balances'.own = balances.own + amount /\ BookedMeanwhile(amount)
    BY <1>6, LegsComeToTheEntry
  <2>2. balanceCall' = NoSubject
        \/ (balanceCall' \in Adjustments /\ ReadIsBehind(balanceCall', balances'.own))
    BY <2>1, BookedIsMissed DEF EntryInv, Books
  <2>3. balances' \in Books /\ asked' = balances'
    BY <1>6, LegsComeToTheEntry
  <2>. QED
    BY <1>6, <2>2, <2>3 DEF EntryInv, EntryAccepted, BlankEntry, EntryForms
<1>7. CASE EntryRefused
  BY <1>7 DEF EntryInv, EntryRefused
<1>8. CASE OpenBalance
  BY <1>8 DEF EntryInv, OpenBalance, BalanceForms, Books, EntryMadeOf
<1>9. CASE CancelBalance
  BY <1>9 DEF EntryInv, CancelBalance, BalanceForms, EntryMadeOf
<1>10. CASE SubmitBalance
  <2>1. balanceForm.amount \in Int
    BY <1>10 DEF EntryInv, SubmitBalance, BalanceForms
  <2>2. entries' \in 0 .. MaxEntries
    BY <1>10 DEF EntryInv, SubmitBalance, Counted
  <2>3. balanceCall' \in Adjustments /\ balanceCall'.read = NoSubject /\ balanceCall'.since = 0
    BY <1>10, <2>1 DEF SubmitBalance, Adjustments
  <2>4. ReadIsBehind(balanceCall', balances.own)
    BY <2>3 DEF ReadIsBehind
  <2>. QED  BY <1>10, <2>2, <2>3, <2>4 DEF EntryInv, SubmitBalance, EntryMadeOf
<1>11. CASE BalanceAccepted
  <2>0. balanceCall # NoSubject /\ balanceCall.read # NoSubject
    BY <1>11 DEF BalanceAccepted
  <2>1. balanceCall \in Adjustments /\ balances.own = balanceCall.read + balanceCall.since
    BY <2>0 DEF EntryInv, ReadIsBehind
  <2>2. balanceCall.target \in Int /\ balanceCall.read \in Int /\ balanceCall.since \in Int
    BY <2>0, <2>1 DEF Adjustments
  <2>3. balances = [own |-> balances.own, peer |-> balances.peer]
        /\ balances.own \in Int /\ balances.peer \in Int
    BY DEF EntryInv, Books
  <2>4. balances.own + (balanceCall.target - balanceCall.read)
          = balanceCall.target + balanceCall.since
    BY <2>1, <2>2, <2>3
  <2>5. balances' = [balances EXCEPT !.own = balanceCall.target + balanceCall.since]
        /\ asked' = balances'
    BY <1>11, <2>4 DEF EntryInv, BalanceAccepted
  <2>6. balances' \in Books
    BY <2>2, <2>5 DEF EntryInv, Books
  <2>7. balanceForm' \in BalanceForms /\ balanceCall' = NoSubject
        /\ UNCHANGED <<entry, entryCall, cell, cellCalls, entries>>
    BY <1>11 DEF EntryInv, BalanceAccepted, BalanceForms
  <2>. QED  BY <2>5, <2>6, <2>7 DEF EntryInv, EntryMadeOf
<1>12. CASE BalanceRefused
  BY <1>12 DEF EntryInv, BalanceRefused, EntryMadeOf
<1>13. ASSUME NEW r \in AccountRows, EditCell(r)
       PROVE  EntryInv'
  BY <1>13 DEF EntryInv, EditCell, EntryMadeOf
<1>14. ASSUME NEW r \in AccountRows, CellAnswered(r)
       PROVE  EntryInv'
  BY <1>14 DEF EntryInv, CellAnswered, EntryMadeOf
<1>15. CASE LeaveCell
  BY <1>15 DEF EntryInv, LeaveCell, EntryMadeOf
<1>16. CASE PickCell
  <2>1. entries' \in 0 .. MaxEntries
    BY <1>16 DEF EntryInv, PickCell, Counted
  <2>. QED  BY <1>16, <2>1 DEF EntryInv, PickCell, EntryMadeOf
<1>17. CASE BalanceRead
  <2>1. balanceCall' = [balanceCall EXCEPT !.read = balances.own] /\ balanceCall \in Adjustments
        /\ balances.own \in Int /\ balanceCall.since = 0
    BY <1>17 DEF EntryInv, BalanceRead, Books, ReadIsBehind
  <2>2. balanceCall' \in Adjustments /\ ReadIsBehind(balanceCall', balances.own)
    BY <2>1 DEF Adjustments, ReadIsBehind
  <2>. QED  BY <1>17, <2>2 DEF EntryInv, BalanceRead, EntryMadeOf
<1>18. ASSUME NEW amount \in EntryAmounts, BookElsewhere(amount)
       PROVE  EntryInv'
  <2>1. balances' = [balances EXCEPT !.own = @ + amount] /\ asked' = balances' /\ amount \in Int
    BY <1>18 DEF EntryInv, BookElsewhere
  <2>2. balances' \in Books /\ balances'.own = balances.own + amount
    BY <2>1 DEF EntryInv, Books
  <2>3. balanceCall' = NoSubject
        \/ (balanceCall' \in Adjustments /\ ReadIsBehind(balanceCall', balances'.own))
    <3>. BookedMeanwhile(amount) /\ balances.own \in Int
      BY <1>18 DEF EntryInv, BookElsewhere, Books
    <3>. balanceCall = NoSubject
         \/ (balanceCall \in Adjustments /\ ReadIsBehind(balanceCall, balances.own))
      BY DEF EntryInv
    <3>. QED  BY <2>1, <2>2, BookedIsMissed
  <2>4. entries' \in 0 .. MaxEntries
    BY <1>18 DEF EntryInv, BookElsewhere, Counted
  <2>. QED  BY <1>18, <2>1, <2>2, <2>3, <2>4 DEF EntryInv, BookElsewhere
<1>19. CASE UNCHANGED accountVars
  BY <1>19 DEF EntryInv, accountVars, EntryMadeOf
<1>. QED
  BY <1>1, <1>2, <1>3, <1>4, <1>5, <1>6, <1>7, <1>8, <1>9, <1>10, <1>11, <1>12,
     <1>13, <1>14, <1>15, <1>16, <1>17, <1>18, <1>19 DEF AccountNext

LEMMA EntryInvariant == AccountSpec => []EntryInv
BY EntryInitially, EntryStep, PTL DEF AccountSpec

\* The fields of the account page hold what they can hold.
THEOREM AccountTypesHold == AccountSpec => []AccountTypeOK
<1>1. EntryInv => AccountTypeOK
  <2>. SUFFICES ASSUME EntryInv PROVE AccountTypeOK
    OBVIOUS
  <2>1. entryCall = NoSubject \/ entryCall.body.cents \in Int
    BY DEF EntryInv, EntryMadeOf, PlainBody, TransferBody
  <2>2. entry.choice \in EntryChoices /\ entry.touched \in BOOLEAN
        /\ entry.amount \in EntryAmounts \cup {Unparsed} /\ balanceForm.open \in BOOLEAN
    BY ZenonT(20) DEF EntryInv, EntryForms, BalanceForms
  <2>3. balanceCall = NoSubject \/ {balanceCall.target, balanceCall.since} \subseteq Int
    BY DEF EntryInv, Adjustments
  <2>. QED  BY <2>1, <2>2, <2>3 DEF EntryInv, AccountTypeOK, Books
<1>. QED  BY <1>1, EntryInvariant, PTL

\* An accepted entry moves this account by the amount typed and, as a transfer,
\* the other account by its opposite (onSubmit's from and to, and the two legs
\* create_transfer books); an adjustment ends at the typed figure and what was
\* booked since its sum was read (set_account_balance), whatever overlaps.
THEOREM EntriesMove == AccountSpec => []EntriesMoveAsTyped
<1>1. EntryInv => EntriesMoveAsTyped
  BY DEF EntryInv, EntriesMoveAsTyped
<1>. QED  BY <1>1, EntryInvariant, PTL

-----------------------------------------------------------------------------
(***************************************************************************)
(* The settings page. WaitInv: a countdown that shows zero has run for     *)
(* ConfirmDelay seconds by the clock. RestInv: a scope that a delete has    *)
(* checked is not in use; the rest is the types.                           *)
(***************************************************************************)
ResetDialogs == [open : BOOLEAN, openedAt : 0 .. MaxClock, left : 0 .. ConfirmDelay,
                 chosen : SUBSET ResetOptions]
ResetFrames == [stale : BOOLEAN, left : 0 .. ConfirmDelay, chosen : SUBSET ResetOptions]

WaitInv ==
    /\ clock \in 0 .. MaxClock
    /\ resetDialog \in ResetDialogs
    /\ resetDialog.openedAt <= clock
    /\ resetDialog.left = 0 => clock - resetDialog.openedAt >= ConfirmDelay
    /\ frame \in ResetFrames
    /\ resetCall \subseteq ResetOptions /\ wiped \subseteq ResetOptions

Merges == [source : PayeeIds \cup {NoPayee}, target : PayeeIds \cup {NoPayee}]

PayeeInv ==
    /\ payees \subseteq PayeeIds /\ payeeList \subseteq PayeeIds
    /\ merging \in Merges /\ mergeCall \in Merges

ScopeInv ==
    /\ scopes \subseteq RowScopes /\ scopeList \subseteq RowScopes
    /\ UsedScopes \cap RowScopes \subseteq scopes
    /\ \A c \in scopeCalls :
        /\ c \in [scope : RowScopes, checked : BOOLEAN]
        /\ c.checked => c.scope \notin UsedScopes

RuleInv == rules \in Seq(Nat) /\ ruleList \in Seq(Nat) /\ ruleCalls \subseteq Nat

CountInv == settingsCalls \in 0 .. MaxSettingsCalls

SettingsInv == WaitInv /\ PayeeInv /\ ScopeInv /\ RuleInv /\ CountInv

LEMMA SettingsInitially == SettingsInit => SettingsInv
BY SettingsAssumption
DEF SettingsInit, SettingsInv, WaitInv, ResetDialogs, ResetFrames, NoFrame,
    PayeeInv, Merges, NotMerging, ScopeInv, RuleInv, CountInv

\* The dialog: opening restarts the countdown, the timer looks at the clock.
LEMMA WaitStep ==
  ASSUME WaitInv, [SettingsNext]_settingsVars
  PROVE  WaitInv'
<1>. USE SettingsAssumption
<1>0. clock \in Nat /\ resetDialog.openedAt \in Nat /\ resetDialog.left \in 0 .. ConfirmDelay
      /\ resetDialog.openedAt \in 0 .. MaxClock /\ resetDialog.open \in BOOLEAN
      /\ resetDialog.chosen \subseteq ResetOptions
  BY DEF WaitInv, ResetDialogs
<1>1. NoFrame \in ResetFrames
  BY DEF NoFrame, ResetFrames
<1>2. CASE Second
  <2>1. clock' \in 0 .. MaxClock /\ clock' = clock + 1
    BY <1>0, <1>2 DEF Second, WaitInv
  <2>. QED  BY <1>0, <1>2, <2>1 DEF Second, resetVars, WaitInv
<1>3. CASE OpenReset
  BY <1>0, <1>3 DEF OpenReset, Opened, WaitInv, ResetDialogs, ResetFrames
<1>4. CASE TimerFires
  <2>1. CASE clock - resetDialog.openedAt >= ConfirmDelay
    <3>1. resetDialog' = [resetDialog EXCEPT !.left = 0]
      BY <1>4, <2>1 DEF TimerFires
    <3>. QED  BY <1>0, <1>4, <1>1, <2>1, <3>1 DEF TimerFires, WaitInv, ResetDialogs
  <2>2. CASE ~(clock - resetDialog.openedAt >= ConfirmDelay)
    <3>. DEFINE left == ConfirmDelay - (clock - resetDialog.openedAt)
    <3>1. resetDialog' = [resetDialog EXCEPT !.left = left]
      BY <1>4, <2>2 DEF TimerFires
    <3>2. left \in 0 .. ConfirmDelay /\ left # 0
      BY <1>0, <2>2 DEF WaitInv
    <3>3. clock' = clock /\ frame' = NoFrame /\ resetCall' = resetCall /\ wiped' = wiped
      BY <1>4 DEF TimerFires
    <3>. HIDE DEF left
    <3>. QED  BY <1>0, <1>1, <3>1, <3>2, <3>3 DEF WaitInv, ResetDialogs
  <2>. QED  BY <2>1, <2>2
<1>5. ASSUME NEW o \in ResetOptions, ToggleOption(o)
      PROVE  WaitInv'
  BY <1>0, <1>5 DEF ToggleOption, WaitInv, ResetDialogs
<1>6. CASE CloseReset
  BY <1>0, <1>6, <1>1 DEF CloseReset, WaitInv, ResetDialogs
<1>7. CASE ConfirmReset
  BY <1>0, <1>7 DEF ConfirmReset, WaitInv, ResetFrames
<1>8. ASSUME NEW accepted \in BOOLEAN, ResetAnswered(accepted)
      PROVE  WaitInv'
  BY <1>0, <1>8, <1>1 DEF ResetAnswered, WaitInv, ResetDialogs
<1>9. CASE Redraw
  BY <1>1, <1>9 DEF Redraw, WaitInv
<1>10. CASE UNCHANGED <<clock, resetVars>>
  BY <1>10 DEF WaitInv, resetVars
<1>. QED
  BY <1>2, <1>3, <1>4, <1>5, <1>6, <1>7, <1>8, <1>10, <1>9
  DEF SettingsNext, settingsVars, resetVars, SettingsArrive, PayeesOnly, ScopesOnly, RulesOnly,
      OpenMerge, PickTarget, CloseMerge, ConfirmMerge, MergeAnswered,
      DeleteScope, DeleteScopeElsewhere, CreateScope, ScopeChecked, ScopeDeleted,
      CreateRule, RuleCreated, RuleRefused, DeleteRule

\* Only a confirmation sends a reset, and only a countdown at zero allows one.
LEMMA OnlyConfirmSends ==
  ASSUME [SettingsNext]_settingsVars, resetCall = {}, resetCall' # {}
  PROVE  ConfirmReset
BY DEF SettingsNext, settingsVars, resetVars, SettingsArrive, Second, OpenReset, Redraw, TimerFires,
       ToggleOption, CloseReset, ResetAnswered, PayeesOnly, ScopesOnly, RulesOnly,
       OpenMerge, PickTarget, CloseMerge, ConfirmMerge, MergeAnswered,
       DeleteScope, DeleteScopeElsewhere, CreateScope, ScopeChecked, ScopeDeleted,
       CreateRule, RuleCreated, RuleRefused, DeleteRule

LEMMA PayeeStep ==
  ASSUME PayeeInv, [SettingsNext]_settingsVars
  PROVE  PayeeInv'
<1>1. ASSUME NEW p \in PayeeIds, OpenMerge(p) \/ PickTarget(p)
      PROVE  PayeeInv'
  BY <1>1 DEF OpenMerge, PickTarget, PayeeInv, Merges
<1>2. CASE CloseMerge
  BY <1>2 DEF CloseMerge, PayeeInv, Merges
<1>3. CASE ConfirmMerge
  BY <1>3 DEF ConfirmMerge, PayeeInv
<1>4. CASE MergeAnswered
  BY <1>4 DEF MergeAnswered, PayeeInv, Merges, NotMerging
<1>5. CASE SettingsArrive
  BY <1>5 DEF SettingsArrive, PayeeInv
<1>6. CASE UNCHANGED payeeVars
  BY <1>6 DEF PayeeInv, payeeVars
<1>. QED
  BY <1>1, <1>2, <1>3, <1>4, <1>5, <1>6
  DEF SettingsNext, settingsVars, payeeVars, Second, OpenReset, Redraw, TimerFires,
      ToggleOption, CloseReset, ConfirmReset, ResetAnswered, ResetOnly, ScopesOnly, RulesOnly,
      DeleteScope, DeleteScopeElsewhere, CreateScope, ScopeChecked, ScopeDeleted,
      CreateRule, RuleCreated, RuleRefused, DeleteRule

LEMMA ScopeStep ==
  ASSUME ScopeInv, [SettingsNext]_settingsVars
  PROVE  ScopeInv'
<1>1. ASSUME NEW s \in RowScopes, DeleteScope(s) \/ DeleteScopeElsewhere(s)
      PROVE  ScopeInv'
  <2>. DEFINE request == [scope |-> s, checked |-> FALSE]
  <2>1. request \in [scope : RowScopes, checked : BOOLEAN] /\ ~request.checked
    OBVIOUS
  <2>2. scopeCalls' \subseteq scopeCalls \cup {request}
        /\ scopes' = scopes /\ scopeList' = scopeList
    BY <1>1 DEF DeleteScope, DeleteScopeElsewhere
  <2>. HIDE DEF request
  <2>. QED  BY <2>1, <2>2 DEF ScopeInv
<1>2. ASSUME NEW s \in RowScopes, CreateScope(s)
      PROVE  ScopeInv'
  BY <1>2 DEF CreateScope, ScopeInv
<1>3. ASSUME NEW c \in scopeCalls, ScopeChecked(c)
      PROVE  ScopeInv'
  <2>1. c \in [scope : RowScopes, checked : BOOLEAN]
    BY DEF ScopeInv
  <2>2. CASE c.scope \in scopes \ UsedScopes /\ Cardinality(scopes) > 1
    <3>. DEFINE passed == [c EXCEPT !.checked = TRUE]
    <3>1. passed \in [scope : RowScopes, checked : BOOLEAN] /\ passed.scope = c.scope
      BY <2>1
    <3>2. scopeCalls' = (scopeCalls \ {c}) \cup {passed}
          /\ scopes' = scopes /\ scopeList' = scopeList
      BY <1>3, <2>2 DEF ScopeChecked
    <3>3. c.scope \notin UsedScopes
      BY <2>2
    <3>. HIDE DEF passed
    <3>. QED  BY <3>1, <3>2, <3>3 DEF ScopeInv
  <2>3. CASE ~(c.scope \in scopes \ UsedScopes /\ Cardinality(scopes) > 1)
    <3>1. scopeCalls' = scopeCalls \ {c} /\ scopes' = scopes /\ scopeList' = scopeList
      BY <1>3, <2>3 DEF ScopeChecked
    <3>. QED  BY <3>1 DEF ScopeInv
  <2>. QED  BY <2>2, <2>3
<1>4. ASSUME NEW c \in scopeCalls, ScopeDeleted(c)
      PROVE  ScopeInv'
  BY <1>4 DEF ScopeDeleted, ScopeInv
<1>5. CASE SettingsArrive
  BY <1>5 DEF SettingsArrive, ScopeInv
<1>6. CASE UNCHANGED scopeVars
  BY <1>6 DEF ScopeInv, scopeVars
<1>. QED
  BY <1>1, <1>2, <1>3, <1>4, <1>5, <1>6
  DEF SettingsNext, settingsVars, scopeVars, Second, OpenReset, Redraw, TimerFires,
      ToggleOption, CloseReset, ConfirmReset, ResetAnswered, ResetOnly, PayeesOnly, RulesOnly,
      OpenMerge, PickTarget, CloseMerge, ConfirmMerge, MergeAnswered,
      CreateRule, RuleCreated, RuleRefused, DeleteRule

LEMMA RuleStep ==
  ASSUME RuleInv, [SettingsNext]_settingsVars
  PROVE  RuleInv'
<1>1. CASE CreateRule
  BY <1>1 DEF CreateRule, RuleInv
<1>2. CASE RuleCreated
  BY <1>2 DEF RuleCreated, RuleInv
<1>3. CASE RuleRefused
  BY <1>3 DEF RuleRefused, RuleInv
<1>4. ASSUME NEW i \in DOMAIN rules, DeleteRule(i)
      PROVE  RuleInv'
  <2>1. rules' = SubSeq(rules, 1, i - 1) \o SubSeq(rules, i + 1, Len(rules))
        /\ ruleList' = ruleList /\ ruleCalls' = ruleCalls
    BY <1>4 DEF DeleteRule
  <2>2. rules \in Seq(Nat) /\ i \in 1 .. Len(rules)
    BY <1>4 DEF RuleInv
  <2>3. SubSeq(rules, 1, i - 1) \in Seq(Nat)
    BY <2>2
  <2>4. SubSeq(rules, i + 1, Len(rules)) \in Seq(Nat)
    BY <2>2
  <2>. QED  BY <2>1, <2>3, <2>4 DEF RuleInv
<1>5. CASE SettingsArrive
  BY <1>5 DEF SettingsArrive, RuleInv
<1>6. CASE UNCHANGED ruleVars
  BY <1>6 DEF RuleInv, ruleVars
<1>. QED
  BY <1>1, <1>2, <1>3, <1>4, <1>5, <1>6
  DEF SettingsNext, settingsVars, ruleVars, Second, OpenReset, Redraw, TimerFires,
      ToggleOption, CloseReset, ConfirmReset, ResetAnswered, ResetOnly, PayeesOnly, ScopesOnly,
      OpenMerge, PickTarget, CloseMerge, ConfirmMerge, MergeAnswered,
      DeleteScope, DeleteScopeElsewhere, CreateScope, ScopeChecked, ScopeDeleted

LEMMA CountStep ==
  ASSUME CountInv, [SettingsNext]_settingsVars
  PROVE  CountInv'
<1>1. CASE CountSettings
  BY <1>1, SettingsAssumption DEF CountSettings, CountInv
<1>2. CASE settingsCalls' = settingsCalls
  BY <1>2 DEF CountInv
<1>. QED
  BY <1>1, <1>2
  DEF SettingsNext, settingsVars, SettingsArrive, Second, OpenReset, Redraw, TimerFires,
      ToggleOption, CloseReset, ConfirmReset, ResetAnswered,
      OpenMerge, PickTarget, CloseMerge, ConfirmMerge, MergeAnswered,
      DeleteScope, DeleteScopeElsewhere, CreateScope, ScopeChecked, ScopeDeleted,
      CreateRule, RuleCreated, RuleRefused, DeleteRule

LEMMA SettingsInvariant == SettingsSpec => []SettingsInv
<1>1. SettingsInv /\ [SettingsNext]_settingsVars => SettingsInv'
  BY WaitStep, PayeeStep, ScopeStep, RuleStep, CountStep DEF SettingsInv
<1>. QED  BY <1>1, SettingsInitially, PTL DEF SettingsSpec

\* The fields of the settings page hold what they can hold, and no scope that is
\* in use is ever deleted (routers/scopes.py refuses one that is).
THEOREM SettingsTypesHold == SettingsSpec => []SettingsTypeOK
<1>1. SettingsInv => SettingsTypeOK
  BY DEF SettingsInv, WaitInv, ResetDialogs, ResetFrames, PayeeInv, Merges, ScopeInv,
         RuleInv, CountInv, SettingsTypeOK
<1>. QED  BY <1>1, SettingsInvariant, PTL

\* A reset is sent ConfirmDelay seconds after its dialog opened at the earliest,
\* for any delay, however often the dialog was opened and closed before and
\* whenever the browser lets the timer fire; but for a click on the frame that is
\* drawn before the effects of opening are.
THEOREM EveryResetWaits == SettingsSpec => ResetWaits
<1>1. ASSUME SettingsInv, [SettingsNext]_settingsVars
      PROVE  resetCall = {} /\ resetCall' # {} =>
                /\ resetDialog.open
                /\ frame.stale \/ clock - resetDialog.openedAt >= ConfirmDelay
  BY <1>1, OnlyConfirmSends DEF ConfirmReset, SettingsInv, WaitInv
<1>2. ASSUME SettingsInv, [SettingsNext]_settingsVars
      PROVE  [resetCall = {} /\ resetCall' # {} =>
                /\ resetDialog.open
                /\ frame.stale \/ clock - resetDialog.openedAt >= ConfirmDelay]_settingsVars
  BY <1>1, <1>2
<1>. QED  BY <1>2, SettingsInvariant, PTL DEF SettingsSpec, ResetWaits

-----------------------------------------------------------------------------
(***************************************************************************)
(* Linking transfers. LinkInv: no row is in two of the pairs offered, nor  *)
(* in two of the pairs of a sequence; while `current` holds and the banner *)
(* has no request under way, the pairs it offers are open.                 *)
(***************************************************************************)
Apart(a, b) == RowsOf(a) \cap RowsOf(b) = {}

RequestOK(call) ==
    /\ call \in [mode : {"none", "one", "all"}, todo : Seq(Matches)]
    /\ call.mode = "none" => call = Idle
    /\ \A i, j \in DOMAIN call.todo : i # j => Apart(call.todo[i], call.todo[j])

OfferOK(pairs) ==
    pairs \subseteq Matches /\ \A a, b \in pairs : a # b => Apart(a, b)

ModalOK ==
    /\ modal \in MatchRows \cup {NoModal} /\ candidates \subseteq Matches
    /\ modalCall = "none" \/ RowsOf(modalCall) \subseteq MatchRows

LinkInv ==
    /\ linkedRows \subseteq MatchRows \cup PayeeMatches
    /\ payeeOffers \subseteq PayeeMatches /\ payeeCall \subseteq PayeeMatches
    /\ current \in BOOLEAN /\ elsewhere \in 0 .. MaxElsewhere
    /\ OfferOK(offered) /\ RequestOK(linkCall) /\ ModalOK
    /\ SequenceStaysOpen
    /\ current /\ linkCall = Idle => \A m \in offered : Open(m)

\* A finite set as a sequence: its elements, none of them twice.
LEMMA SetToSeqInjective ==
  ASSUME NEW S, IsFiniteSet(S)
  PROVE  /\ SetToSeq(S) \in Seq(S)
         /\ \A i, j \in DOMAIN SetToSeq(S) : SetToSeq(S)[i] = SetToSeq(S)[j] => i = j
<1>. DEFINE n == Cardinality(S)
            OneEach(f) == f \in [1 .. n -> S] /\ IsInjective(f)
<1>1. n \in Nat /\ ExistsBijection(1 .. n, S)
  BY FS_CardinalityType
<1>2. \E f : OneEach(f)
  BY <1>1 DEF ExistsBijection, Bijection, Injection
<1>3. SetToSeq(S) = CHOOSE f \in [1 .. n -> S] : IsInjective(f)
  BY DEF SetToSeq
<1>4. OneEach(SetToSeq(S))
  BY <1>2, <1>3
<1>5. SetToSeq(S) \in Seq(S)
  BY <1>1, <1>4, IsASeq
<1>. QED  BY <1>4, <1>5 DEF IsInjective

LEMMA RowsOfMatch ==
  ASSUME NEW m \in Matches
  PROVE  RowsOf(m) \subseteq MatchRows
BY DEF MatchRows

LEMMA IdleOK == RequestOK(Idle)
<1>1. <<>> \in Seq(Matches) /\ DOMAIN <<>> = {}
  BY EmptySeq
<1>. QED  BY <1>1 DEF RequestOK, Idle

LEMMA LinkInitially == LinkInit => LinkInv
<1>. SUFFICES ASSUME LinkInit PROVE LinkInv
  OBVIOUS
<1>1. RequestOK(linkCall)
  BY IdleOK DEF LinkInit
<1>2. SequenceStaysOpen
  BY DEF LinkInit, SequenceStaysOpen
<1>3. elsewhere \in 0 .. MaxElsewhere
  BY LinkingAssumption DEF LinkInit
<1>. QED
  BY <1>1, <1>2, <1>3 DEF LinkInit, LinkInv, OfferOK, ModalOK

\* The next request of a sequence is answered: what is left of it stays open.
LEMMA LinkNextStep ==
  ASSUME LinkInv, LinkNext
  PROVE  LinkInv'
<1>. DEFINE todo == linkCall.todo
            pair == Head(todo)
<1>1. /\ todo \in Seq(Matches) /\ todo # <<>>
      /\ linkCall \in [mode : {"none", "one", "all"}, todo : Seq(Matches)]
      /\ linkCall.mode # "none"
  BY DEF LinkInv, RequestOK, LinkNext, Idle
<1>2. /\ Tail(todo) \in Seq(Matches) /\ pair \in Matches
      /\ DOMAIN todo = 1 .. Len(todo) /\ Len(todo) \in Nat /\ Len(todo) >= 1
      /\ DOMAIN Tail(todo) = 1 .. (Len(todo) - 1)
      /\ pair = todo[1]
      /\ \A i \in 1 .. (Len(todo) - 1) : Tail(todo)[i] = todo[i + 1]
  BY <1>1
<1>3. CASE Open(pair)
  <2>1. linkedRows' = linkedRows \cup RowsOf(pair)
        /\ linkCall' = [linkCall EXCEPT !.todo = Tail(todo)]
    BY <1>3 DEF LinkNext
  <2>2. linkCall'.todo = Tail(todo) /\ linkCall'.mode = linkCall.mode
        /\ linkCall' \in [mode : {"none", "one", "all"}, todo : Seq(Matches)]
    BY <1>1, <1>2, <2>1
  <2>3. \A i \in DOMAIN Tail(todo) : i + 1 \in DOMAIN todo /\ i + 1 # 1 /\ i \in Nat
    BY <1>2
  <2>4. ASSUME NEW i \in DOMAIN Tail(todo), NEW j \in DOMAIN Tail(todo), i # j
        PROVE  Apart(Tail(todo)[i], Tail(todo)[j])
    <3>1. i + 1 # j + 1
      BY <2>3, <2>4
    <3>. QED  BY <1>2, <2>3, <3>1 DEF LinkInv, RequestOK
  <2>5. RequestOK(linkCall)'
    BY <1>1, <2>2, <2>4 DEF RequestOK
  <2>6. ASSUME current', NEW i \in DOMAIN Tail(todo)
        PROVE  RowsOf(Tail(todo)[i]) \cap linkedRows' = {}
    <3>1. Tail(todo)[i] = todo[i + 1] /\ Apart(todo[i + 1], pair)
      BY <1>2, <2>3 DEF LinkInv, RequestOK
    <3>2. Open(todo[i + 1])
      BY <2>3, <2>6 DEF LinkInv, SequenceStaysOpen, LinkNext
    <3>. QED  BY <2>1, <3>1, <3>2 DEF Open, Apart, RowsOf
  <2>7. SequenceStaysOpen'
    BY <2>2, <2>6 DEF SequenceStaysOpen, Open, RowsOf
  <2>8. linkCall' # Idle
    BY <1>1, <2>2 DEF Idle
  <2>9. linkedRows' \subseteq MatchRows \cup PayeeMatches
    BY <1>2, <2>1, RowsOfMatch DEF LinkInv
  <2>. QED
    BY <2>5, <2>7, <2>8, <2>9 DEF LinkInv, LinkNext, OfferOK, ModalOK
<1>4. CASE ~Open(pair)
  <2>1. linkCall' = Idle /\ linkedRows' = linkedRows /\ current' = current
    BY <1>4 DEF LinkNext
  <2>2. ~current
    BY <1>2, <1>4 DEF LinkInv, SequenceStaysOpen
  <2>3. RequestOK(linkCall)'
    BY <2>1, IdleOK DEF RequestOK, Idle
  <2>. QED
    BY <2>1, <2>2, <2>3 DEF LinkInv, LinkNext, OfferOK, ModalOK, SequenceStaysOpen
<1>. QED  BY <1>3, <1>4

\* The banner's button for one pair.
LEMMA LinkOneStep ==
  ASSUME LinkInv, NEW pair \in Matches, LinkOne(pair)
  PROVE  LinkInv'
<1>1. linkCall' = [mode |-> "one", todo |-> <<pair>>] /\ linkCall = Idle /\ pair \in offered
  BY DEF LinkOne
<1>2. DOMAIN <<pair>> = {1} /\ <<pair>>[1] = pair /\ <<pair>> \in Seq(Matches)
  OBVIOUS
<1>3. RequestOK(linkCall)'
  BY <1>1, <1>2 DEF RequestOK
<1>4. SequenceStaysOpen'
  BY <1>1, <1>2 DEF LinkInv, LinkOne, SequenceStaysOpen, Open
<1>5. linkCall' # Idle
  BY <1>1 DEF Idle
<1>. QED  BY <1>3, <1>4, <1>5 DEF LinkInv, LinkOne, ModalOK, OfferOK

\* "Link all": the pairs offered, one after the other.
LEMMA LinkAllStep ==
  ASSUME LinkInv, LinkAll
  PROVE  LinkInv'
<1>. DEFINE todo == SetToSeq(offered)
<1>1. linkCall' = [mode |-> "all", todo |-> todo] /\ linkCall = Idle
  BY DEF LinkAll
<1>2. IsFiniteSet(offered)
  BY FS_Subset, LinkingAssumption DEF LinkInv, OfferOK
<1>3. /\ todo \in Seq(offered)
      /\ \A i, j \in DOMAIN todo : todo[i] = todo[j] => i = j
  BY <1>2, SetToSeqInjective
<1>. HIDE DEF todo
<1>4. todo \in Seq(Matches) /\ \A i \in DOMAIN todo : todo[i] \in offered
  BY <1>3 DEF LinkInv, OfferOK
<1>5. RequestOK(linkCall)'
  BY <1>1, <1>3, <1>4 DEF RequestOK, LinkInv, OfferOK
<1>6. SequenceStaysOpen'
  BY <1>1, <1>4 DEF LinkInv, LinkAll, SequenceStaysOpen, Open
<1>7. linkCall' # Idle
  BY <1>1 DEF Idle
<1>. QED  BY <1>5, <1>6, <1>7 DEF LinkInv, LinkAll, ModalOK, OfferOK

LEMMA LinkStep == LinkInv /\ [LinkingNext]_linkVars => LinkInv'
<1>. SUFFICES ASSUME LinkInv, [LinkingNext]_linkVars  PROVE LinkInv'
  OBVIOUS
<1>. USE LinkingAssumption
<1>1. CASE FetchSuggestions
  <2>1. OfferOK(offered)' /\ \A m \in offered' : Open(m)'
    BY <1>1 DEF FetchSuggestions, Offers, OfferOK, Apart, Open
  <2>2. current' \in BOOLEAN
    BY <1>1 DEF FetchSuggestions
  <2>3. SequenceStaysOpen'
    <3>1. SequenceStaysOpen /\ DOMAIN Idle.todo = {} /\ linkCall' = linkCall /\ linkedRows' = linkedRows
      BY <1>1, EmptySeq DEF LinkInv, FetchSuggestions, Idle
    <3>2. current' => current \/ linkCall = Idle
      BY <1>1 DEF FetchSuggestions
    <3>. QED  BY <3>1, <3>2 DEF SequenceStaysOpen, Open
  <2>. QED  BY <1>1, <2>1, <2>2, <2>3 DEF LinkInv, FetchSuggestions, ModalOK
<1>2. ASSUME NEW pair \in Matches, LinkOne(pair)
      PROVE  LinkInv'
  BY <1>2, LinkOneStep
<1>3. ASSUME NEW pair \in Matches, PickCandidate(pair)
      PROVE  LinkInv'
  <2>1. ModalOK'
    BY <1>3, RowsOfMatch DEF LinkInv, PickCandidate, ModalOK, RowsOf
  <2>. QED  BY <1>3, <2>1 DEF LinkInv, PickCandidate, SequenceStaysOpen, Open
<1>4. ASSUME NEW pair \in Matches, LinkedElsewhere(pair)
      PROVE  LinkInv'
  <2>1. elsewhere' \in 0 .. MaxElsewhere
    BY <1>4 DEF LinkInv, LinkedElsewhere
  <2>2. linkedRows' \subseteq MatchRows \cup PayeeMatches
    BY <1>4, RowsOfMatch DEF LinkInv, LinkedElsewhere
  <2>3. current' = FALSE /\ SequenceStaysOpen'
    BY <1>4 DEF LinkedElsewhere, SequenceStaysOpen
  <2>. QED  BY <1>4, <2>1, <2>2, <2>3 DEF LinkInv, LinkedElsewhere, ModalOK
<1>5. CASE LinkAll
  BY <1>5, LinkAllStep
<1>6. CASE LinkNext
  BY <1>6, LinkNextStep
<1>7. CASE LinkDone
  <2>1. RequestOK(linkCall)'
    BY <1>7, IdleOK DEF LinkDone, RequestOK, Idle
  <2>. QED  BY <1>7, <2>1 DEF LinkInv, LinkDone, ModalOK, SequenceStaysOpen
<1>16. CASE LinkLost
  <2>1. RequestOK(linkCall)'
    BY <1>16, IdleOK DEF LinkLost, RequestOK, Idle
  <2>2. linkCall.todo \in Seq(Matches) /\ linkCall.todo # <<>>
    BY <1>16 DEF LinkInv, RequestOK, LinkLost
  <2>3. Head(linkCall.todo) \in Matches
    BY <2>2
  <2>4. linkedRows' \subseteq MatchRows \cup PayeeMatches
    BY <1>16, <2>3, RowsOfMatch DEF LinkInv, LinkLost
  <2>. QED  BY <1>16, <2>1, <2>4 DEF LinkInv, LinkLost, ModalOK, SequenceStaysOpen
<1>8. ASSUME NEW r \in PayeeMatches, ConfirmPayeeMatch(r)
      PROVE  LinkInv'
  BY <1>8 DEF LinkInv, ConfirmPayeeMatch, ModalOK, SequenceStaysOpen, Open
<1>9. CASE PayeeMatchEnds
  BY <1>9 DEF LinkInv, PayeeMatchEnds, ModalOK, SequenceStaysOpen
<1>10. ASSUME NEW r \in MatchRows, OpenModal(r)
       PROVE  LinkInv'
  BY <1>10 DEF LinkInv, OpenModal, ModalOK, SequenceStaysOpen, Open
<1>11. CASE CandidatesArrive
  BY <1>11 DEF LinkInv, CandidatesArrive, ModalOK, SequenceStaysOpen, Open
<1>12. CASE CreateLeg
  <2>1. modal \in MatchRows /\ modalCall' = <<modal, modal>>
    BY <1>12 DEF LinkInv, CreateLeg, ModalOK
  <2>2. ModalOK'
    BY <1>12, <2>1 DEF LinkInv, CreateLeg, ModalOK, RowsOf
  <2>. QED  BY <1>12, <2>2 DEF LinkInv, CreateLeg, SequenceStaysOpen, Open
<1>13. CASE ModalCallEnds
  <2>1. RowsOf(modalCall) \subseteq MatchRows
    BY <1>13 DEF LinkInv, ModalCallEnds, ModalOK
  <2>. QED  BY <1>13, <2>1 DEF LinkInv, ModalCallEnds, ModalOK, SequenceStaysOpen, Open
<1>14. CASE CloseModal
  BY <1>14 DEF LinkInv, CloseModal, ModalOK, SequenceStaysOpen, Open
<1>15. CASE UNCHANGED linkVars
  BY <1>15 DEF LinkInv, linkVars, ModalOK, SequenceStaysOpen, Open
<1>. QED
  BY <1>1, <1>2, <1>3, <1>4, <1>5, <1>6, <1>7, <1>8, <1>9, <1>10, <1>11, <1>12,
     <1>13, <1>14, <1>15, <1>16 DEF LinkingNext

LEMMA LinkInvariant == LinkingSpec => []LinkInv
BY LinkInitially, LinkStep, PTL DEF LinkingSpec

\* The pairs and rows that linking is about are those that look like transfers.
THEOREM LinkingTypesHold == LinkingSpec => []LinkingTypeOK
<1>1. LinkInv => LinkingTypeOK
  BY DEF LinkInv, LinkingTypeOK, OfferOK, RequestOK, ModalOK, ToSet
<1>. QED  BY <1>1, LinkInvariant, PTL

\* "Link all" sends its pairs one after the other and never breaks a later one by
\* linking an earlier one: for any pairs, however they share rows, the ones the
\* server offers together do not, and nothing but a link from elsewhere stands
\* between a pair of the sequence and its request.
THEOREM SequencesStayOpen == LinkingSpec => []SequenceStaysOpen
<1>1. LinkInv => SequenceStaysOpen
  BY DEF LinkInv
<1>. QED  BY <1>1, LinkInvariant, PTL

-----------------------------------------------------------------------------
(***************************************************************************)
(* The transaction forms. FieldsOK: what the fields hold, and that they     *)
(* hold categories of the account's scope unless the split lines crossed    *)
(* scopes. Kept: an edit form whose payee is still the saved one and whose  *)
(* category nobody has picked shows the saved category.                     *)
(***************************************************************************)
InItsScope(f) ==
    /\ f.category \in PickerRows(f)
    /\ \A i \in DOMAIN f.lines : f.lines[i].category \in PickerRows(f)

Forms == [open : BOOLEAN, kind : {"add", "edit"}, account : DOMAIN CategoriesOf,
          payee : Texts \cup {Blank}, category : FieldValues, touched : BOOLEAN,
          amount : Amounts \cup {Blank}, lines : Seq(SplitLine),
          typed : BOOLEAN, renamed : BOOLEAN, crossed : BOOLEAN]

FieldsOK(f) ==
    /\ f \in Forms
    /\ Len(f.lines) # 1
    /\ f.kind = "edit" => f.account = FirstAccount
    /\ ~f.crossed => InItsScope(f)

Kept(f, text, row) ==
    f.open /\ f.kind = "edit" /\ ~f.typed /\ ~f.renamed =>
        /\ f.payee = row.payee /\ text = row.payee
        /\ ~f.touched => f.category = SelectValue(row)

FormInv ==
    /\ FieldsOK(form) /\ Kept(form, debounced, saved)
    /\ debounced \in Texts \cup {Blank}
    /\ answered \subseteq (DOMAIN CategoriesOf) \X Texts
    /\ saved \in SavedRows /\ saving \in BOOLEAN /\ inputs \in 0 .. MaxInputs

\* The suggestion a field is given is a category of the form's account.
LEMMA SuggestedInScope ==
  ASSUME FormInv, NEW f, f.account \in DOMAIN CategoriesOf, NEW text
  PROVE  Suggested(f, text) \in CategoriesOf[f.account] \cup {Blank}
<1>1. <<f.account, text>> \in answered => text \in Texts
  BY DEF FormInv
<1>. QED  BY <1>1, FormAssumption DEF Suggested

\* Another category of the scope in the plain field.
LEMMA CategoryField ==
  ASSUME NEW f, FieldsOK(f), NEW val \in PickerRows(f)
  PROVE  FieldsOK([f EXCEPT !.category = val])
<1>. DEFINE g == [f EXCEPT !.category = val]
<1>1. val \in FieldValues
  BY DEF FieldsOK, Forms, PickerRows, FieldValues, AllCategories
<1>2. g \in Forms
  BY <1>1 DEF FieldsOK, Forms
<1>3. /\ g.category = val /\ g.lines = f.lines /\ g.kind = f.kind
      /\ g.account = f.account /\ g.crossed = f.crossed
  BY DEF FieldsOK, Forms
<1>. HIDE DEF g
<1>4. FieldsOK(g)
  BY <1>2, <1>3 DEF FieldsOK, InItsScope, PickerRows
<1>. QED  BY <1>4 DEF g

\* A render keeps every field but the category, which it may replace by a
\* suggestion, and then only one the effect's guards let through.
LEMMA RenderedFields ==
  ASSUME FormInv, NEW f, FieldsOK(f), NEW text, NEW row
  PROVE  LET g == Rendered(f, text, row) IN
         /\ FieldsOK(g)
         /\ g = f \/ (Tracks(f, text, row) /\ g = [f EXCEPT !.category = Suggested(f, text)])
<1>. DEFINE val == Suggested(f, text)
<1>1. val \in PickerRows(f)
  BY SuggestedInScope DEF FieldsOK, Forms, PickerRows
<1>. HIDE DEF val
<1>2. FieldsOK([f EXCEPT !.category = val])
  BY <1>1, CategoryField
<1>. DEFINE g == Rendered(f, text, row)
<1>3. g = f \/ (Tracks(f, text, row) /\ g = [f EXCEPT !.category = val])
  BY DEF Rendered, val
<1>. HIDE DEF g
<1>4. FieldsOK(g)
  BY <1>2, <1>3
<1>. QED  BY <1>3, <1>4 DEF g, val

\* ... so a render keeps what is kept.
LEMMA RenderedKept ==
  ASSUME FormInv, NEW f, FieldsOK(f), NEW text, NEW row, Kept(f, text, row)
  PROVE  Kept(Rendered(f, text, row), text, row)
<1>. DEFINE g == Rendered(f, text, row)
            val == Suggested(f, text)
<1>1. g = f \/ (Tracks(f, text, row) /\ g = [f EXCEPT !.category = val])
  BY RenderedFields
<1>. HIDE DEF g, val
<1>2. CASE g = f
  BY <1>2 DEF g
<1>3. CASE Tracks(f, text, row) /\ g = [f EXCEPT !.category = val]
  <2>1. /\ g.open = f.open /\ g.kind = f.kind /\ g.typed = f.typed
        /\ g.renamed = f.renamed /\ g.payee = f.payee /\ g.touched = f.touched
    BY <1>3 DEF FieldsOK, Forms
  <2>2. f.kind = "edit" => text # row.payee
    BY <1>3 DEF Tracks
  <2>3. Kept(g, text, row)
    BY <2>1, <2>2 DEF Kept
  <2>. QED  BY <2>3 DEF g
<1>. QED  BY <1>1, <1>2, <1>3

\* The fields as the reset effect leaves them.
LEMMA ClearedFields ==
  ASSUME NEW kind \in {"add", "edit"}
  PROVE  /\ FieldsOK(Cleared(kind)) /\ ~Cleared(kind).open
         /\ FieldsOK([Cleared(kind) EXCEPT !.open = TRUE])
<1>1. NoLines \in Seq(SplitLine) /\ Len(NoLines) = 0 /\ DOMAIN NoLines = {}
  BY EmptySeq DEF NoLines
<1>. DEFINE f == [Cleared(kind) EXCEPT !.open = TRUE]
<1>2. Cleared(kind) \in Forms /\ f \in Forms
  BY <1>1, FormAssumption DEF Cleared, Forms, FieldValues
<1>3. /\ Cleared(kind).lines = NoLines /\ Cleared(kind).category = Blank
      /\ Cleared(kind).account = FirstAccount /\ ~Cleared(kind).crossed /\ ~Cleared(kind).open
  BY DEF Cleared
<1>4. /\ f.lines = NoLines /\ f.category = Blank
      /\ f.account = FirstAccount /\ ~f.crossed
  BY DEF Cleared
<1>. HIDE DEF f, NoLines
<1>5. FieldsOK(Cleared(kind))
  BY <1>1, <1>2, <1>3 DEF FieldsOK, InItsScope, PickerRows
<1>6. FieldsOK(f)
  BY <1>1, <1>2, <1>4 DEF FieldsOK, InItsScope, PickerRows
<1>. QED  BY <1>3, <1>5, <1>6 DEF f

\* The fields as the seeding effect leaves them: the row's.
LEMMA SeededFields ==
  ASSUME NEW f, FieldsOK(f), f.kind = "edit", NEW row \in SavedRows
  PROVE  LET g == Seeded(row, f) IN
         /\ FieldsOK(g)
         /\ g.open = f.open /\ g.kind = "edit" /\ g.account = f.account
         /\ g.payee = row.payee /\ g.category = SelectValue(row) /\ ~g.touched
         /\ g.typed = f.typed /\ g.renamed = f.renamed
<1>. DEFINE g == Seeded(row, f)
            val == SelectValue(row)
            foreign == \E i \in DOMAIN row.lines : row.lines[i].category \notin PickerRows(f)
            SavedLine == [category : AllCategories \cup {Blank}, amount : Amounts \cup {Blank}]
<1>1. /\ row.payee \in Texts \cup {Blank} /\ row.amount \in Amounts \cup {Blank}
      /\ row.category \in CategoriesOf[FirstAccount] \cup {Blank}
      /\ row.lines \in Seq(SavedLine) /\ Len(row.lines) # 1
  BY FormAssumption
<1>2. f \in Forms /\ f.account = FirstAccount
  BY DEF FieldsOK
<1>3. SavedLine \subseteq SplitLine
  BY DEF SplitLine, FieldValues
<1>4. foreign \in BOOLEAN
  OBVIOUS
<1>5. row.lines \in Seq(SplitLine)
  BY <1>1, <1>3, SeqMonotonic
<1>6. ~foreign => \A i \in DOMAIN row.lines : row.lines[i].category \in PickerRows(f)
  OBVIOUS
<1>7. val \in CategoriesOf[FirstAccount] \cup {Blank, ReadyToAssign} /\ val \in FieldValues
  BY <1>1, FormAssumption DEF SelectValue, FieldValues, AllCategories
<1>. HIDE DEF val, foreign
<1>8. g = [f EXCEPT !.payee = row.payee, !.category = val, !.touched = FALSE,
                    !.amount = row.amount, !.lines = row.lines, !.crossed = foreign]
  BY DEF Seeded, val, foreign
<1>9. g \in Forms
  BY <1>1, <1>2, <1>4, <1>5, <1>7, <1>8 DEF Forms
<1>10. /\ g.open = f.open /\ g.kind = f.kind /\ g.account = f.account
       /\ g.payee = row.payee /\ g.category = val /\ ~g.touched /\ g.lines = row.lines
       /\ g.typed = f.typed /\ g.renamed = f.renamed /\ g.crossed = foreign
  BY <1>2, <1>8 DEF Forms
<1>. HIDE DEF g
<1>11. ~g.crossed => InItsScope(g)
  BY <1>2, <1>6, <1>7, <1>10 DEF InItsScope, PickerRows
<1>12. FieldsOK(g)
  BY <1>1, <1>2, <1>9, <1>10, <1>11 DEF FieldsOK
<1>. QED  BY <1>10, <1>12 DEF g, val

\* A handler that shows other fields than before keeps the invariant if what it
\* shows does.
LEMMA ShowStep ==
  ASSUME FormInv, NEW f, FieldsOK(f), Kept(f, debounced, saved), Show(f),
         UNCHANGED <<debounced, answered, saved, saving>>, inputs' \in 0 .. MaxInputs
  PROVE  FormInv'
<1>1. form' = Rendered(f, debounced, saved)
  BY DEF Show
<1>2. FieldsOK(Rendered(f, debounced, saved)) /\ Kept(Rendered(f, debounced, saved), debounced, saved)
  BY RenderedFields, RenderedKept
<1>3. FieldsOK(form')
  BY <1>1, <1>2
<1>4. Kept(form', debounced, saved)
  BY <1>1, <1>2
<1>. QED  BY <1>3, <1>4 DEF FormInv, FieldsOK, Kept, InItsScope

LEMMA CountedInput ==
  ASSUME FormInv, NEW control, Uses(control)
  PROVE  inputs' \in 0 .. MaxInputs
BY FormAssumption DEF FormInv, Uses

\* The controls of the split lines are there with two lines at least.
LEMMA SplitControls ==
  ASSUME FormInv, NEW control \in {"lines", "split", "picker"}, Uses(control)
  PROVE  /\ form.open
         /\ control = "lines" => form.lines \in Seq(SplitLine) /\ Len(form.lines) >= 2
         /\ control # "lines" => form.lines = NoLines
<1>1. form.lines \in Seq(SplitLine) /\ Len(form.lines) # 1
  BY DEF FormInv, FieldsOK, Forms
<1>2. form.lines # NoLines => Len(form.lines) >= 2
  <2>. DEFINE n == Len(form.lines)
  <2>1. n \in Nat /\ (n = 0 => form.lines = NoLines) /\ n # 1
    BY <1>1, EmptySeq DEF NoLines
  <2>. HIDE DEF n
  <2>2. n = 0 \/ n >= 2
    BY <2>1
  <2>. QED  BY <2>1, <2>2 DEF n
<1>3. form.open /\ (control = "lines" => form.lines # NoLines)
      /\ (control # "lines" => form.lines = NoLines)
  BY DEF Uses, Controls, AddControls, EditControls
<1>. QED  BY <1>1, <1>2, <1>3

\* What LinesChange shows.
LinesShown(lines) ==
    IF Len(lines) >= 2 THEN [form EXCEPT !.lines = lines]
    ELSE [form EXCEPT !.lines = NoLines, !.touched = TRUE,
                      !.category = lines[1].category,
                      !.amount = IF Parses(lines[1].amount) THEN lines[1].amount ELSE @]

LEMMA LinesStep ==
  ASSUME FormInv, NEW lines \in Seq(SplitLine), Len(lines) >= 1,
         ~form.crossed => \A i \in DOMAIN lines : lines[i].category \in PickerRows(form),
         LinesChange(lines),
         UNCHANGED <<debounced, answered, saved, saving>>, inputs' \in 0 .. MaxInputs
  PROVE  FormInv'
<1>. DEFINE f == LinesShown(lines)
<1>1. Show(f)
  BY DEF LinesChange, LinesShown
<1>2. form \in Forms /\ FieldsOK(form) /\ Kept(form, debounced, saved)
  BY DEF FormInv, FieldsOK
<1>3. CASE Len(lines) >= 2
  <2>1. f = [form EXCEPT !.lines = lines]
    BY <1>3 DEF LinesShown
  <2>2. f \in Forms
    BY <1>2, <2>1 DEF Forms
  <2>3. /\ f.open = form.open /\ f.kind = form.kind /\ f.account = form.account
        /\ f.payee = form.payee /\ f.category = form.category /\ f.touched = form.touched
        /\ f.typed = form.typed /\ f.renamed = form.renamed /\ f.crossed = form.crossed
        /\ f.lines = lines
    BY <1>2, <2>1 DEF Forms
  <2>. HIDE DEF f
  <2>4. FieldsOK(f)
    <3>1. ~f.crossed => InItsScope(f)
      <4>1. PickerRows(f) = PickerRows(form)
        BY <2>3 DEF PickerRows
      <4>2. ~form.crossed => form.category \in PickerRows(form)
        BY <1>2 DEF FieldsOK, InItsScope
      <4>. QED  BY <2>3, <4>1, <4>2 DEF InItsScope
    <3>2. Len(f.lines) # 1
      <4>1. ~(1 >= 2) /\ Len(f.lines) >= 2
        BY <1>3, <2>3
      <4>. QED  BY <4>1
    <3>. QED  BY <1>2, <2>2, <2>3, <3>1, <3>2 DEF FieldsOK
  <2>5. Kept(f, debounced, saved)
    BY <1>2, <2>3 DEF Kept
  <2>. QED  BY <1>1, <2>4, <2>5, ShowStep
<1>4. CASE ~(Len(lines) >= 2)
  <2>1. 1 \in DOMAIN lines /\ lines[1] \in SplitLine
    BY <1>4
  <2>. DEFINE val == lines[1].category
              amount == IF Parses(lines[1].amount) THEN lines[1].amount ELSE form.amount
  <2>2. val \in FieldValues /\ amount \in Amounts \cup {Blank}
    BY <1>2, <2>1 DEF SplitLine, Forms
  <2>3. ~form.crossed => val \in PickerRows(form)
    BY <2>1
  <2>4. NoLines \in Seq(SplitLine) /\ Len(NoLines) = 0 /\ DOMAIN NoLines = {}
    BY EmptySeq DEF NoLines
  <2>5. f = [form EXCEPT !.lines = NoLines, !.touched = TRUE, !.category = val, !.amount = amount]
    BY <1>4 DEF LinesShown
  <2>. HIDE DEF val, amount, NoLines
  <2>6. f \in Forms
    BY <1>2, <2>2, <2>4, <2>5 DEF Forms
  <2>7. /\ f.open = form.open /\ f.kind = form.kind /\ f.account = form.account
        /\ f.payee = form.payee /\ f.category = val /\ f.touched = TRUE
        /\ f.typed = form.typed /\ f.renamed = form.renamed /\ f.crossed = form.crossed
        /\ f.lines = NoLines
    BY <1>2, <2>5 DEF Forms
  <2>. HIDE DEF f
  <2>8. FieldsOK(f)
    BY <1>2, <2>3, <2>4, <2>6, <2>7 DEF FieldsOK, InItsScope, PickerRows
  <2>9. Kept(f, debounced, saved)
    BY <1>2, <2>7 DEF Kept
  <2>. QED  BY <1>1, <2>8, <2>9, ShowStep
<1>. QED  BY <1>3, <1>4

LEMMA RemovedLine ==
  ASSUME NEW S, NEW s \in Seq(S), Len(s) >= 2, NEW i \in DOMAIN s
  PROVE  /\ RemoveAt(s, i) \in Seq(S) /\ Len(RemoveAt(s, i)) = Len(s) - 1
         /\ \A j \in DOMAIN RemoveAt(s, i) : \E k \in DOMAIN s : RemoveAt(s, i)[j] = s[k]
<1>. DEFINE before == SubSeq(s, 1, i - 1)
            after == SubSeq(s, i + 1, Len(s))
<1>1. i \in 1 .. Len(s) /\ DOMAIN s = 1 .. Len(s) /\ Len(s) \in Nat
  OBVIOUS
<1>2. before \in Seq(S) /\ Len(before) = i - 1 /\ \A j \in 1 .. i - 1 : before[j] = s[j]
  BY <1>1
<1>3. after \in Seq(S) /\ Len(after) = Len(s) - i /\ \A j \in 1 .. Len(s) - i : after[j] = s[i + j]
  BY <1>1
<1>4. RemoveAt(s, i) = before \o after
  BY DEF RemoveAt
<1>. HIDE DEF before, after
<1>5. /\ before \o after \in Seq(S) /\ Len(before \o after) = Len(s) - 1
      /\ \A j \in 1 .. Len(s) - 1 :
            (before \o after)[j] = IF j <= i - 1 THEN before[j] ELSE after[j - (i - 1)]
  <2>1. /\ before \o after \in Seq(S) /\ Len(before \o after) = Len(before) + Len(after)
        /\ \A j \in 1 .. Len(before) + Len(after) :
            (before \o after)[j] = IF j <= Len(before) THEN before[j] ELSE after[j - Len(before)]
    BY <1>2, <1>3, ConcatProperties
  <2>2. Len(before) + Len(after) = Len(s) - 1
    BY <1>1, <1>2, <1>3
  <2>. QED  BY <1>2, <2>1, <2>2
<1>6. ASSUME NEW j \in 1 .. Len(s) - 1
      PROVE  \E k \in DOMAIN s : (before \o after)[j] = s[k]
  <2>1. CASE j <= i - 1
    <3>1. j \in 1 .. i - 1 /\ j \in DOMAIN s
      BY <1>1, <2>1
    <3>. QED  BY <1>2, <1>5, <2>1, <3>1
  <2>2. CASE ~(j <= i - 1)
    <3>. DEFINE l == j - (i - 1)
    <3>1. l \in 1 .. Len(s) - i /\ i + l \in DOMAIN s
      BY <1>1, <2>2
    <3>2. (before \o after)[j] = after[l]
      BY <1>5, <2>2
    <3>. HIDE DEF l
    <3>. QED  BY <1>3, <3>1, <3>2
  <2>. QED  BY <2>1, <2>2
<1>7. DOMAIN RemoveAt(s, i) = 1 .. Len(s) - 1
  BY <1>4, <1>5
<1>. QED  BY <1>4, <1>5, <1>6, <1>7

LEMMA FormInitially == FormInit => FormInv
<1>. SUFFICES ASSUME FormInit PROVE FormInv
  OBVIOUS
<1>1. PICK kind \in {"add", "edit"} : form = Cleared(kind)
  BY DEF FormInit
<1>2. FieldsOK(form) /\ ~form.open
  BY <1>1, ClearedFields
<1>3. Kept(form, debounced, saved)
  BY <1>2 DEF Kept
<1>4. inputs \in 0 .. MaxInputs
  BY FormAssumption DEF FormInit
<1>. QED  BY <1>2, <1>3, <1>4 DEF FormInit, FormInv

\* Opening a form, and a refetch of the edited row.
LEMMA OpenStep ==
  ASSUME FormInv, OpenAdd \/ OpenEdit \/ (\E row \in SavedRows : Refetched(row))
  PROVE  FormInv'
<1>0. 0 \in 0 .. MaxInputs
  BY FormAssumption
<1>1. CASE OpenAdd
  <2>. DEFINE f == [Cleared("add") EXCEPT !.open = TRUE]
  <2>1. FieldsOK(f)
    BY ClearedFields
  <2>2. f.kind = "add"
    BY DEF Cleared
  <2>3. Show(f) /\ inputs' = 0 /\ UNCHANGED <<debounced, answered, saved, saving>>
    BY <1>1 DEF OpenAdd
  <2>. HIDE DEF f
  <2>4. Kept(f, debounced, saved)
    BY <2>2 DEF Kept
  <2>5. inputs' \in 0 .. MaxInputs
    BY <1>0, <2>3
  <2>. QED  BY <2>1, <2>3, <2>4, <2>5, ShowStep
<1>2. CASE OpenEdit
  <2>. DEFINE f == [Cleared("edit") EXCEPT !.open = TRUE]
              g == Seeded(saved, f)
  <2>1. FieldsOK(f) /\ f.kind = "edit" /\ saved \in SavedRows
    BY ClearedFields DEF Cleared, FormInv
  <2>2. form' = g /\ debounced' = saved.payee /\ inputs' = 0
        /\ UNCHANGED <<answered, saved, saving>>
    BY <1>2 DEF OpenEdit
  <2>. HIDE DEF f
  <2>3. FieldsOK(g) /\ g.payee = saved.payee /\ g.category = SelectValue(saved)
    BY <2>1, SeededFields
  <2>. HIDE DEF g
  <2>4. Kept(g, saved.payee, saved)
    BY <2>3 DEF Kept
  <2>5. Kept(form', debounced', saved')
    BY <2>2, <2>4
  <2>6. FieldsOK(form') /\ debounced' \in Texts \cup {Blank}
    BY <2>1, <2>2, <2>3, FormAssumption
  <2>. QED  BY <1>0, <2>2, <2>5, <2>6 DEF FormInv, FieldsOK, Kept, InItsScope
<1>3. ASSUME NEW row \in SavedRows, Refetched(row)
      PROVE  FormInv'
  <2>1. inputs' \in 0 .. MaxInputs /\ saved' = row /\ form.kind = "edit"
        /\ UNCHANGED <<debounced, answered, saving>>
    BY <1>3, FormAssumption DEF Refetched, FormInv
  <2>2. CASE form.open
    <3>. DEFINE f == Seeded(row, form)
                g == [f EXCEPT !.renamed = @ \/ row.payee # saved.payee]
                h == Rendered(g, debounced, row)
    <3>1. /\ FieldsOK(f) /\ f.payee = row.payee /\ f.category = SelectValue(row) /\ ~f.touched
          /\ f.open = form.open /\ f.kind = "edit"
          /\ f.typed = form.typed /\ f.renamed = form.renamed
      BY <2>1, SeededFields DEF FormInv
    <3>2. form' = h
      BY <1>3, <2>2 DEF Refetched
    <3>. HIDE DEF f
    <3>3. f \in Forms /\ (f.renamed \/ row.payee # saved.payee) \in BOOLEAN
      BY <3>1 DEF FieldsOK, Forms
    <3>4. /\ g \in Forms /\ g.renamed = (f.renamed \/ row.payee # saved.payee)
          /\ g.lines = f.lines /\ g.kind = f.kind /\ g.account = f.account
          /\ g.crossed = f.crossed /\ g.category = f.category /\ g.payee = f.payee
          /\ g.typed = f.typed /\ g.touched = f.touched /\ g.open = f.open
      BY <3>3 DEF Forms
    <3>. HIDE DEF g
    <3>5. FieldsOK(g)
      BY <3>1, <3>4 DEF FieldsOK, InItsScope, PickerRows
    <3>6. Kept(g, debounced, row)
      BY <2>1, <3>1, <3>4 DEF Kept, FormInv
    <3>7. FieldsOK(h) /\ Kept(h, debounced, row)
      BY <3>5, <3>6, RenderedFields, RenderedKept
    <3>. HIDE DEF h
    <3>8. FieldsOK(form') /\ Kept(form', debounced', saved')
      BY <2>1, <3>2, <3>7
    <3>. QED  BY <2>1, <3>8 DEF FormInv, FieldsOK, Kept, InItsScope
  <2>3. CASE ~form.open
    <3>1. form' = form
      BY <1>3, <2>3 DEF Refetched
    <3>2. FieldsOK(form') /\ Kept(form', debounced', saved')
      BY <2>3, <3>1 DEF FormInv, Kept
    <3>. QED  BY <2>1, <3>2 DEF FormInv, FieldsOK, Kept, InItsScope
  <2>. QED  BY <2>2, <2>3
<1>. QED  BY <1>1, <1>2, <1>3

\* The debounced payee and the suggestions for it.
LEMMA SuggestStep ==
  ASSUME FormInv,
         Debounce \/ (\E account \in DOMAIN CategoriesOf, text \in Texts :
                        SuggestionsArrive(account, text))
  PROVE  FormInv'
<1>1. CASE Debounce
  <2>1. debounced' = form.payee /\ UNCHANGED <<answered, saved, saving, inputs>>
        /\ debounced # form.payee
    BY <1>1 DEF Debounce
  <2>2. FieldsOK(form) /\ form.payee \in Texts \cup {Blank}
    BY DEF FormInv, FieldsOK, Forms
  <2>3. CASE form.open
    <3>. DEFINE h == Rendered(form, form.payee, saved)
    <3>1. form' = h
      BY <1>1, <2>3 DEF Debounce
    <3>2. Kept(form, form.payee, saved)
      BY DEF FormInv, Kept
    <3>3. FieldsOK(h) /\ Kept(h, form.payee, saved)
      BY <2>2, <3>2, RenderedFields, RenderedKept
    <3>. HIDE DEF h
    <3>4. FieldsOK(form') /\ Kept(form', debounced', saved')
      BY <2>1, <3>1, <3>3
    <3>. QED  BY <2>1, <2>2, <3>4 DEF FormInv, FieldsOK, Kept, InItsScope
  <2>4. CASE ~form.open
    <3>1. form' = form
      BY <1>1, <2>4 DEF Debounce
    <3>2. FieldsOK(form') /\ Kept(form', debounced', saved')
      BY <2>2, <2>4, <3>1 DEF Kept
    <3>. QED  BY <2>1, <2>2, <3>2 DEF FormInv, FieldsOK, Kept, InItsScope
  <2>. QED  BY <2>3, <2>4
<1>2. ASSUME NEW account \in DOMAIN CategoriesOf, NEW text \in Texts,
             SuggestionsArrive(account, text)
      PROVE  FormInv'
  <2>1. /\ answered' = answered \cup {<<account, text>>}
        /\ form.account = account /\ debounced = text
        /\ UNCHANGED <<debounced, saved, saving, inputs>>
    BY <1>2 DEF SuggestionsArrive
  <2>2. answered' \subseteq (DOMAIN CategoriesOf) \X Texts
    BY <2>1 DEF FormInv
  <2>3. FieldsOK(form) /\ Kept(form, debounced, saved) /\ form \in Forms
    BY DEF FormInv, FieldsOK
  <2>4. CASE Tracks(form, text, saved)
    <3>. DEFINE val == Top[account][text]
    <3>1. form' = [form EXCEPT !.category = val]
      BY <1>2, <2>4 DEF SuggestionsArrive
    <3>2. val \in PickerRows(form)
      BY <2>1, FormAssumption DEF PickerRows
    <3>. HIDE DEF val
    <3>3. FieldsOK(form')
      BY <2>3, <3>1, <3>2, CategoryField
    <3>4. Kept(form', debounced, saved)
      <4>1. /\ form'.kind = form.kind /\ form'.typed = form.typed /\ form'.open = form.open
            /\ form'.renamed = form.renamed /\ form'.payee = form.payee
        BY <2>3, <3>1 DEF Forms
      <4>2. form.kind = "edit" => debounced # saved.payee
        BY <2>1, <2>4 DEF Tracks
      <4>. QED  BY <2>3, <4>1, <4>2 DEF Kept
    <3>. QED  BY <2>1, <2>2, <3>3, <3>4 DEF FormInv, FieldsOK, Kept, InItsScope
  <2>5. CASE ~Tracks(form, text, saved)
    <3>1. form' = form
      BY <1>2, <2>5 DEF SuggestionsArrive
    <3>. QED  BY <2>1, <2>2, <2>3, <3>1 DEF FormInv, FieldsOK, Kept, InItsScope
  <2>. QED  BY <2>4, <2>5
<1>. QED  BY <1>1, <1>2

\* The plain fields: the payee, the account, the category and the amount.
LEMMA FieldStep ==
  ASSUME FormInv,
         \/ \E text \in Texts : Type(text)
         \/ \E account \in DOMAIN CategoriesOf : ChooseAccount(account)
         \/ \E choice \in PickerRows(form) : Pick(choice)
         \/ \E amount \in Amounts : TypeAmount(amount)
  PROVE  FormInv'
<1>0. form \in Forms /\ FieldsOK(form) /\ Kept(form, debounced, saved)
  BY DEF FormInv, FieldsOK
<1>1. ASSUME NEW text \in Texts, Type(text)
      PROVE  FormInv'
  <2>. DEFINE f == [form EXCEPT !.payee = text, !.typed = TRUE]
  <2>1. Show(f) /\ UNCHANGED <<debounced, answered, saved, saving>> /\ inputs' \in 0 .. MaxInputs
    BY <1>1, CountedInput DEF Type
  <2>2. /\ f \in Forms /\ f.typed /\ f.lines = form.lines /\ f.kind = form.kind
        /\ f.account = form.account /\ f.crossed = form.crossed /\ f.category = form.category
    BY <1>0 DEF Forms
  <2>. HIDE DEF f
  <2>3. FieldsOK(f) /\ Kept(f, debounced, saved)
    BY <1>0, <2>2 DEF FieldsOK, InItsScope, PickerRows, Kept
  <2>. QED  BY <2>1, <2>3, ShowStep
<1>2. ASSUME NEW account \in DOMAIN CategoriesOf, ChooseAccount(account)
      PROVE  FormInv'
  <2>. DEFINE f == [form EXCEPT !.account = account, !.category = Blank, !.touched = FALSE,
                                !.crossed = @ \/ form.lines # NoLines]
  <2>1. Show(f) /\ UNCHANGED <<debounced, answered, saved, saving>> /\ inputs' \in 0 .. MaxInputs
    BY <1>2, CountedInput DEF ChooseAccount
  <2>2. form.kind # "edit"
    BY <1>2 DEF ChooseAccount, Uses, Controls, EditControls
  <2>3. (form.crossed \/ form.lines # NoLines) \in BOOLEAN
    BY <1>0 DEF Forms
  <2>4. /\ f \in Forms /\ f.lines = form.lines /\ f.kind = form.kind
        /\ f.account = account /\ f.crossed = (form.crossed \/ form.lines # NoLines)
        /\ f.category = Blank
    BY <1>0, <2>3 DEF Forms, FieldValues
  <2>. HIDE DEF f
  <2>5. ~f.crossed => InItsScope(f)
    <3>1. DOMAIN NoLines = {}
      BY DEF NoLines
    <3>2. ~f.crossed => f.lines = NoLines
      BY <2>4
    <3>. HIDE DEF NoLines
    <3>. QED  BY <2>4, <3>1, <3>2 DEF InItsScope, PickerRows
  <2>6. FieldsOK(f)
    BY <1>0, <2>2, <2>4, <2>5 DEF FieldsOK
  <2>7. Kept(f, debounced, saved)
    BY <2>2, <2>4 DEF Kept
  <2>. QED  BY <2>1, <2>6, <2>7, ShowStep
<1>3. ASSUME NEW val \in PickerRows(form), Pick(val)
      PROVE  FormInv'
  <2>. DEFINE f == [form EXCEPT !.category = val]
              g == [form EXCEPT !.category = val, !.touched = TRUE]
  <2>1. Show(g) /\ UNCHANGED <<debounced, answered, saved, saving>> /\ inputs' \in 0 .. MaxInputs
    BY <1>3, CountedInput DEF Pick
  <2>2. FieldsOK(f)
    BY <1>0, CategoryField
  <2>3. g = [f EXCEPT !.touched = TRUE] /\ f \in Forms
    BY <1>0, <2>2 DEF FieldsOK, Forms
  <2>4. /\ f.open = form.open /\ f.kind = form.kind /\ f.typed = form.typed
        /\ f.renamed = form.renamed /\ f.payee = form.payee
    BY <1>0 DEF Forms
  <2>. HIDE DEF f, g
  <2>5. /\ g \in Forms /\ g.lines = f.lines /\ g.kind = f.kind /\ g.account = f.account
        /\ g.crossed = f.crossed /\ g.category = f.category /\ g.touched
        /\ g.open = f.open /\ g.typed = f.typed /\ g.renamed = f.renamed /\ g.payee = f.payee
    BY <2>3 DEF Forms
  <2>6. FieldsOK(g)
    BY <2>2, <2>5 DEF FieldsOK, InItsScope, PickerRows
  <2>7. Kept(g, debounced, saved)
    BY <1>0, <2>4, <2>5 DEF Kept
  <2>. QED  BY <2>1, <2>6, <2>7, ShowStep
<1>4. ASSUME NEW amount \in Amounts, TypeAmount(amount)
      PROVE  FormInv'
  <2>. DEFINE f == [form EXCEPT !.amount = amount]
  <2>1. Show(f) /\ UNCHANGED <<debounced, answered, saved, saving>> /\ inputs' \in 0 .. MaxInputs
    BY <1>4, CountedInput DEF TypeAmount
  <2>2. /\ f \in Forms /\ f.lines = form.lines /\ f.kind = form.kind
        /\ f.account = form.account /\ f.crossed = form.crossed /\ f.category = form.category
        /\ f.open = form.open /\ f.typed = form.typed /\ f.renamed = form.renamed
        /\ f.payee = form.payee /\ f.touched = form.touched
    BY <1>0 DEF Forms
  <2>. HIDE DEF f
  <2>3. FieldsOK(f)
    BY <1>0, <2>2 DEF FieldsOK, InItsScope, PickerRows
  <2>4. Kept(f, debounced, saved)
    BY <1>0, <2>2 DEF Kept
  <2>. QED  BY <2>1, <2>3, <2>4, ShowStep
<1>. QED  BY <1>1, <1>2, <1>3, <1>4

\* The split lines.
LEMMA SplitStep ==
  ASSUME FormInv,
         \/ StartSplitting \/ AddLine
         \/ \E i \in DOMAIN form.lines : RemoveLine(i)
         \/ \E i \in DOMAIN form.lines, val \in LineRows(form), amount \in Amounts :
              \/ UpdateLine(i, [form.lines[i] EXCEPT !.category = val])
              \/ UpdateLine(i, [form.lines[i] EXCEPT !.amount = amount])
  PROVE  FormInv'
<1>0. form \in Forms /\ FieldsOK(form) /\ Kept(form, debounced, saved)
  BY DEF FormInv, FieldsOK
<1>1. BlankLine \in SplitLine /\ BlankLine.category = Blank
  BY DEF BlankLine, SplitLine, FieldValues
<1>2. ~form.crossed => \A i \in DOMAIN form.lines : form.lines[i].category \in PickerRows(form)
  BY <1>0 DEF FieldsOK, InItsScope
<1>3. CASE StartSplitting
  <2>. DEFINE first == [category |-> form.category, amount |-> form.amount]
              lines == <<first, BlankLine>>
              f == [form EXCEPT !.lines = lines]
  <2>1. Show(f) /\ UNCHANGED <<debounced, answered, saved, saving>> /\ inputs' \in 0 .. MaxInputs
    BY <1>3, CountedInput DEF StartSplitting
  <2>2. first \in SplitLine /\ first.category = form.category
    BY <1>0 DEF Forms, SplitLine
  <2>. HIDE DEF first
  <2>3. /\ lines \in Seq(SplitLine) /\ Len(lines) = 2 /\ DOMAIN lines = {1, 2}
        /\ lines[1] = first /\ lines[2] = BlankLine
    BY <1>1, <2>2
  <2>. HIDE DEF lines
  <2>4. /\ f \in Forms /\ f.lines = lines /\ f.kind = form.kind
        /\ f.account = form.account /\ f.crossed = form.crossed /\ f.category = form.category
        /\ f.open = form.open /\ f.typed = form.typed /\ f.renamed = form.renamed
        /\ f.payee = form.payee /\ f.touched = form.touched
    BY <1>0, <2>3 DEF Forms
  <2>. HIDE DEF f
  <2>5. ~f.crossed => InItsScope(f)
    <3>1. ~form.crossed => form.category \in PickerRows(form)
      BY <1>0 DEF FieldsOK, InItsScope
    <3>2. PickerRows(f) = PickerRows(form) /\ Blank \in PickerRows(form)
      BY <2>4 DEF PickerRows
    <3>3. \A i \in DOMAIN lines : lines[i].category \in {form.category, Blank}
      BY <1>1, <2>2, <2>3
    <3>. QED  BY <2>4, <3>1, <3>2, <3>3 DEF InItsScope
  <2>6. FieldsOK(f)
    BY <1>0, <2>3, <2>4, <2>5 DEF FieldsOK
  <2>7. Kept(f, debounced, saved)
    BY <1>0, <2>4 DEF Kept
  <2>. QED  BY <2>1, <2>6, <2>7, ShowStep
<1>4. CASE AddLine
  <2>. DEFINE lines == Append(form.lines, BlankLine)
  <2>1. /\ LinesChange(lines) /\ UNCHANGED <<debounced, answered, saved, saving>>
        /\ inputs' \in 0 .. MaxInputs
    BY <1>4, CountedInput DEF AddLine
  <2>2. form.lines \in Seq(SplitLine) /\ Len(form.lines) >= 2
    BY <1>4, SplitControls DEF AddLine
  <2>3. /\ lines \in Seq(SplitLine) /\ Len(lines) = Len(form.lines) + 1
        /\ \A i \in 1 .. Len(form.lines) : lines[i] = form.lines[i]
        /\ lines[Len(form.lines) + 1] = BlankLine
    BY <1>1, <2>2, AppendProperties
  <2>. HIDE DEF lines
  <2>4. Len(lines) >= 1
    BY <2>2, <2>3
  <2>5. ASSUME NEW i \in DOMAIN lines, ~form.crossed
        PROVE  lines[i].category \in PickerRows(form)
    <3>1. i \in 1 .. Len(form.lines) \/ i = Len(form.lines) + 1
      BY <2>2, <2>3
    <3>2. DOMAIN form.lines = 1 .. Len(form.lines) /\ Blank \in PickerRows(form)
      BY <2>2 DEF PickerRows
    <3>. QED  BY <1>1, <1>2, <2>3, <2>5, <3>1, <3>2
  <2>. QED  BY <2>1, <2>3, <2>4, <2>5, LinesStep
<1>5. ASSUME NEW i \in DOMAIN form.lines, RemoveLine(i)
      PROVE  FormInv'
  <2>. DEFINE lines == RemoveAt(form.lines, i)
  <2>1. /\ LinesChange(lines) /\ UNCHANGED <<debounced, answered, saved, saving>>
        /\ inputs' \in 0 .. MaxInputs
    BY <1>5, CountedInput DEF RemoveLine
  <2>2. form.lines \in Seq(SplitLine) /\ Len(form.lines) >= 2
    BY <1>5, SplitControls DEF RemoveLine
  <2>3. /\ lines \in Seq(SplitLine) /\ Len(lines) = Len(form.lines) - 1
        /\ \A j \in DOMAIN lines : \E k \in DOMAIN form.lines : lines[j] = form.lines[k]
    BY <2>2, RemovedLine
  <2>. HIDE DEF lines
  <2>4. Len(lines) >= 1
    BY <2>2, <2>3
  <2>5. ~form.crossed => \A j \in DOMAIN lines : lines[j].category \in PickerRows(form)
    BY <1>2, <2>3
  <2>. QED  BY <2>1, <2>3, <2>4, <2>5, LinesStep
<1>6. ASSUME NEW i \in DOMAIN form.lines, NEW line \in SplitLine, UpdateLine(i, line)
      PROVE  FormInv'
  <2>. DEFINE lines == [form.lines EXCEPT ![i] = line]
  <2>1. /\ LinesChange(lines) /\ UNCHANGED <<debounced, answered, saved, saving>>
        /\ inputs' \in 0 .. MaxInputs
        /\ line.category \in LineRows(form) \cup {form.lines[i].category}
    BY <1>6, CountedInput DEF UpdateLine
  <2>2. form.lines \in Seq(SplitLine) /\ Len(form.lines) >= 2
    BY <1>6, SplitControls DEF UpdateLine
  <2>3. /\ lines \in Seq(SplitLine) /\ Len(lines) = Len(form.lines)
        /\ DOMAIN lines = DOMAIN form.lines
        /\ \A j \in DOMAIN lines : lines[j] = IF j = i THEN line ELSE form.lines[j]
    BY <1>6, <2>2, ExceptSeq
  <2>. HIDE DEF lines
  <2>4. Len(lines) >= 1
    BY <2>2, <2>3
  <2>5. ~form.crossed => line.category \in PickerRows(form)
    BY <1>2, <2>1 DEF LineRows
  <2>6. ~form.crossed => \A j \in DOMAIN lines : lines[j].category \in PickerRows(form)
    BY <1>2, <2>3, <2>5
  <2>. QED  BY <2>1, <2>3, <2>4, <2>6, LinesStep
<1>7. ASSUME NEW i \in DOMAIN form.lines, NEW val \in LineRows(form), NEW amount \in Amounts
      PROVE  /\ [form.lines[i] EXCEPT !.category = val] \in SplitLine
             /\ [form.lines[i] EXCEPT !.amount = amount] \in SplitLine
  <2>1. form.lines[i] \in SplitLine
    <3>1. form.lines \in Seq(SplitLine)
      BY <1>0 DEF Forms
    <3>. HIDE DEF SplitLine
    <3>. QED  BY <3>1
  <2>2. val \in FieldValues
    BY <1>0 DEF LineRows, PickerRows, FieldValues, AllCategories, Forms
  <2>. QED  BY <2>1, <2>2 DEF SplitLine
<1>. QED  BY <1>3, <1>4, <1>5, <1>6, <1>7

\* The save, and the ways out of a form.
LEMMA CloseStep ==
  ASSUME FormInv,
         Submit \/ SaveSucceeds \/ SaveFails \/ CloseForm \/ PickTransferTarget
         \/ UNCHANGED formVars
  PROVE  FormInv'
<1>1. CASE Submit \/ SaveFails \/ UNCHANGED formVars
  <2>1. UNCHANGED <<form, debounced, answered, saved, inputs>> /\ saving' \in BOOLEAN
    BY <1>1 DEF Submit, SaveFails, formVars, FormInv
  <2>. QED  BY <2>1 DEF FormInv, FieldsOK, Kept, InItsScope
<1>2. CASE SaveSucceeds \/ CloseForm
  <2>1. /\ UNCHANGED <<debounced, answered, saved, inputs>> /\ saving' \in BOOLEAN
        /\ form' = [form EXCEPT !.open = FALSE]
    BY <1>2 DEF SaveSucceeds, CloseForm, FormInv
  <2>2. FieldsOK(form) /\ form \in Forms
    BY DEF FormInv, FieldsOK
  <2>3. /\ form' \in Forms /\ ~form'.open /\ form'.lines = form.lines /\ form'.kind = form.kind
        /\ form'.account = form.account /\ form'.crossed = form.crossed
        /\ form'.category = form.category
    BY <2>1, <2>2 DEF Forms
  <2>4. FieldsOK(form') /\ Kept(form', debounced, saved)
    BY <2>2, <2>3 DEF FieldsOK, InItsScope, PickerRows, Kept
  <2>. QED  BY <2>1, <2>4 DEF FormInv, FieldsOK, Kept, InItsScope
<1>3. CASE PickTransferTarget
  <2>1. /\ form' = Cleared("edit") /\ UNCHANGED <<debounced, answered, saved, saving>>
        /\ inputs' \in 0 .. MaxInputs
    BY <1>3, CountedInput DEF PickTransferTarget
  <2>2. FieldsOK(form') /\ Kept(form', debounced, saved)
    BY <2>1, ClearedFields DEF Kept
  <2>. QED  BY <2>1, <2>2 DEF FormInv, FieldsOK, Kept, InItsScope
<1>. QED  BY <1>1, <1>2, <1>3

LEMMA FormInvariant == FormSpec => []FormInv
<1>1. FormInv /\ [FormNext]_formVars => FormInv'
  BY OpenStep, SuggestStep, FieldStep, SplitStep, CloseStep DEF FormNext
<1>. QED  BY <1>1, FormInitially, PTL DEF FormSpec

\* The fields of the forms hold what they can hold.
THEOREM FormTypesHold == FormSpec => []FormTypeOK
<1>1. FormInv => FormTypeOK
  <2>. SUFFICES ASSUME FormInv PROVE FormTypeOK
    OBVIOUS
  <2>1. form \in Forms /\ Len(form.lines) # 1
    BY DEF FormInv, FieldsOK
  <2>2. {form.open, form.touched, form.typed, form.renamed, form.crossed, saving} \subseteq BOOLEAN
    <3>1. /\ form.open \in BOOLEAN /\ form.touched \in BOOLEAN /\ form.typed \in BOOLEAN
          /\ form.renamed \in BOOLEAN /\ form.crossed \in BOOLEAN /\ saving \in BOOLEAN
      BY <2>1 DEF Forms, FormInv
    <3>. QED  BY <3>1
  <2>3. /\ form.kind \in {"add", "edit"} /\ form.account \in DOMAIN CategoriesOf
        /\ form.payee \in Texts \cup {Blank} /\ form.category \in FieldValues
        /\ form.amount \in Amounts \cup {Blank} /\ form.lines \in Seq(SplitLine)
    BY <2>1 DEF Forms
  <2>. QED  BY <2>1, <2>2, <2>3 DEF FormInv, FormTypeOK
<1>. QED  BY <1>1, FormInvariant, PTL

\* No form shows a category of another account's scope, for any accounts, payees
\* and suggestions: an answer that arrives after the account was changed belongs
\* to a key that is no longer asked (the queryKey holds the account), and a change
\* of account clears the field. Left out are forms whose split lines crossed scopes,
\* under a change of account or already in the row.
THEOREM CategoriesInScope == FormSpec => []CategoryInScope
<1>1. FormInv => CategoryInScope
  BY DEF FormInv, FieldsOK, InItsScope, CategoryInScope
<1>. QED  BY <1>1, FormInvariant, PTL

\* An edit form whose payee nobody has typed into and whose category nobody has
\* picked saves the category the row has, whatever is suggested for its payee.
THEOREM SavedCategoriesKept == FormSpec => []SavedCategoryKept
<1>1. FormInv => SavedCategoryKept
  BY DEF FormInv, Kept, SavedCategoryKept
<1>. QED  BY <1>1, FormInvariant, PTL

\* A render leaves a category picked by hand alone.
LEMMA HandChoiceRendered ==
  ASSUME NEW f, f.touched, NEW text, NEW row
  PROVE  Rendered(f, text, row) = f
BY DEF Rendered, Tracks

\* A handler that leaves the category field and its mark alone.
LEMMA QuietShow ==
  ASSUME FormInv, NEW f, f.touched = form.touched, f.category = form.category,
         Show(f), form.touched
  PROVE  form'.category = form.category
BY HandChoiceRendered DEF Show

LEMMA OnlyHandsChange ==
  ASSUME FormInv, [FormNext]_formVars, form.open, form'.open, form.touched,
         form'.category # form.category
  PROVE  \/ ByHand
         \/ \E account \in DOMAIN CategoriesOf : ChooseAccount(account)
         \/ \E row \in SavedRows : Refetched(row)
<1>0. form \in Forms
  BY DEF FormInv, FieldsOK
<1>1. ~OpenAdd /\ ~OpenEdit
  BY DEF OpenAdd, OpenEdit
<1>2. ~CloseForm /\ ~SaveSucceeds /\ ~PickTransferTarget
  <2>1. ~[form EXCEPT !.open = FALSE].open /\ ~Cleared("edit").open
    BY <1>0 DEF Forms, Cleared
  <2>. QED  BY <2>1 DEF CloseForm, SaveSucceeds, PickTransferTarget
<1>3. ~Submit /\ ~SaveFails /\ ~UNCHANGED formVars
  BY DEF Submit, SaveFails, formVars
<1>5. ~Debounce
  <2>1. Debounce => form' = form
    BY HandChoiceRendered DEF Debounce
  <2>. QED  BY <2>1
<1>6. ASSUME NEW account, NEW text, SuggestionsArrive(account, text)
      PROVE  FALSE
  BY <1>6 DEF SuggestionsArrive, Tracks
<1>7. ASSUME NEW text \in Texts, Type(text)
      PROVE  FALSE
  <2>. DEFINE f == [form EXCEPT !.payee = text, !.typed = TRUE]
  <2>1. f.touched = form.touched /\ f.category = form.category
    BY <1>0 DEF Forms
  <2>2. Show(f)
    BY <1>7 DEF Type
  <2>. HIDE DEF f
  <2>. QED  BY <2>1, <2>2, QuietShow
<1>9. ASSUME NEW amount \in Amounts, TypeAmount(amount)
      PROVE  FALSE
  <2>. DEFINE f == [form EXCEPT !.amount = amount]
  <2>1. f.touched = form.touched /\ f.category = form.category
    BY <1>0 DEF Forms
  <2>2. Show(f)
    BY <1>9 DEF TypeAmount
  <2>. HIDE DEF f
  <2>. QED  BY <2>1, <2>2, QuietShow
<1>10. ~StartSplitting
  <2>. DEFINE f == [form EXCEPT !.lines =
                      <<[category |-> form.category, amount |-> form.amount], BlankLine>>]
  <2>1. f.touched = form.touched /\ f.category = form.category
    BY <1>0 DEF Forms
  <2>2. StartSplitting => Show(f)
    BY DEF StartSplitting
  <2>. HIDE DEF f
  <2>. QED  BY <2>1, <2>2, QuietShow
<1>11. ASSUME NEW lines, Len(lines) >= 2, LinesChange(lines)
       PROVE  FALSE
  <2>. DEFINE f == [form EXCEPT !.lines = lines]
  <2>1. f.touched = form.touched /\ f.category = form.category
    BY <1>0 DEF Forms
  <2>2. Show(f)
    BY <1>11 DEF LinesChange
  <2>. HIDE DEF f
  <2>. QED  BY <2>1, <2>2, QuietShow
<1>12. ~AddLine
  <2>. SUFFICES ASSUME AddLine PROVE FALSE
    OBVIOUS
  <2>1. form.lines \in Seq(SplitLine) /\ Len(form.lines) >= 2
    BY SplitControls DEF AddLine
  <2>2. BlankLine \in SplitLine
    BY DEF BlankLine, SplitLine, FieldValues
  <2>3. Len(Append(form.lines, BlankLine)) >= 2
    BY <2>1, <2>2, AppendProperties
  <2>. QED  BY <2>3, <1>11 DEF AddLine
<1>13. ASSUME NEW i \in DOMAIN form.lines, NEW line, UpdateLine(i, line)
       PROVE  FALSE
  <2>1. form.lines \in Seq(SplitLine) /\ Len(form.lines) >= 2
    BY <1>13, SplitControls DEF UpdateLine
  <2>2. Len([form.lines EXCEPT ![i] = line]) = Len(form.lines)
    BY <2>1
  <2>. QED  BY <1>11, <1>13, <2>1, <2>2 DEF UpdateLine
<1>. QED
  BY <1>1, <1>2, <1>3, <1>5, <1>6, <1>7, <1>9, <1>10, <1>12, <1>13 DEF FormNext, ByHand

\* A category picked by hand gives way to the user, to another account and to a
\* refetch that seeds the form anew, in forms of any size: no suggestion, debounce
\* or other render replaces it while its form is open.
THEOREM HandChoicesStay == FormSpec => HandChoiceStays
<1>1. ASSUME FormInv, [FormNext]_formVars
      PROVE  [form.open /\ form'.open /\ form.touched /\ form'.category # form.category
              => \/ ByHand
                 \/ \E account \in DOMAIN CategoriesOf : ChooseAccount(account)
                 \/ \E row \in SavedRows : Refetched(row)]_formVars
  BY <1>1, OnlyHandsChange
<1>. QED  BY <1>1, FormInvariant, PTL DEF FormSpec, HandChoiceStays

-----------------------------------------------------------------------------
(***************************************************************************)
(* The transactions page. RowsOK: the legs of a transfer name each other,  *)
(* which every call leaves true and on which the announced number rests.   *)
(***************************************************************************)
RowsOK(rows) ==
    /\ rows \in [RowIds -> RowStates \cup {Gone}]
    /\ \A r \in RowIds :
        rows[r] # Gone /\ rows[r].peer # NoRow =>
            /\ rows[r].peer # r /\ rows[rows[r].peer] # Gone
            /\ rows[rows[r].peer].peer = r

ListInv ==
    /\ RowsOK(rowState)
    /\ filter \in Filters /\ applied \in Filters
    /\ Listed \subseteq RowIds /\ \A r \in Listed : loaded[r] \in RowStates
    /\ selected \subseteq RowIds
    /\ selecting \in BOOLEAN /\ changes \in 0 .. MaxChanges
    /\ dialog.row \in RowIds \cup {NoRow}
    /\ \A c \in underway : c.ids \subseteq RowIds

\* A row that is there has the fields of one.
LEMMA RowTyped ==
  ASSUME NEW rows, RowsOK(rows), NEW r \in RowIds, rows[r] # Gone
  PROVE  rows[r] \in RowStates /\ rows[r].peer \in RowIds \cup {NoRow}
BY DEF RowsOK, RowStates

\* What keeps every row and its peer keeps the pairs.
LEMMA SamePeers ==
  ASSUME RowsOK(rowState), NEW rows \in [RowIds -> RowStates \cup {Gone}],
         \A r \in RowIds : rows[r] = Gone <=> rowState[r] = Gone,
         \A r \in RowIds : rowState[r] # Gone => rows[r].peer = rowState[r].peer
  PROVE  RowsOK(rows)
<1>1. ASSUME NEW r \in RowIds, rows[r] # Gone, rows[r].peer # NoRow
      PROVE  /\ rows[r].peer # r /\ rows[rows[r].peer] # Gone
             /\ rows[rows[r].peer].peer = r
  <2>1. rowState[r] # Gone /\ rowState[r].peer = rows[r].peer
    BY <1>1
  <2>2. rowState[r].peer \in RowIds
    BY <1>1, <2>1, RowTyped
  <2>. QED  BY <1>1, <2>1, <2>2 DEF RowsOK
<1>. QED  BY <1>1 DEF RowsOK

\* A delete takes both legs of a transfer or none.
LEMMA DeletedOK ==
  ASSUME RowsOK(rowState), NEW ids \in SUBSET RowIds
  PROVE  RowsOK(Deleted(ids))
<1>. DEFINE rows == Deleted(ids)
<1>1. \A r \in RowIds : rows[r] = IF r \in Cascade(ids) THEN Gone ELSE rowState[r]
  BY DEF Deleted
<1>2. rows \in [RowIds -> RowStates \cup {Gone}]
  BY DEF Deleted, RowsOK
<1>. HIDE DEF rows
<1>3. ASSUME NEW r \in RowIds, rows[r] # Gone, rows[r].peer # NoRow
      PROVE  /\ rows[r].peer # r /\ rows[rows[r].peer] # Gone
             /\ rows[rows[r].peer].peer = r
  <2>. DEFINE p == rowState[r].peer
  <2>1. r \notin Cascade(ids) /\ rows[r] = rowState[r] /\ rowState[r] # Gone
    BY <1>1, <1>3
  <2>2. p \in RowIds /\ p # NoRow
    BY <1>3, <2>1, RowTyped
  <2>3. p # r /\ rowState[p] # Gone /\ rowState[p].peer = r
    BY <2>1, <2>2 DEF RowsOK
  <2>4. p \notin Cascade(ids)
    BY <2>1, <2>3 DEF Cascade, Live
  <2>. QED  BY <1>1, <2>1, <2>2, <2>3, <2>4
<1>4. RowsOK(rows)
  BY <1>2, <1>3 DEF RowsOK
<1>. QED  BY <1>4 DEF rows

\* An unlink clears both legs of a transfer or none.
LEMMA UnlinkedOK ==
  ASSUME RowsOK(rowState), NEW ids \in SUBSET RowIds
  PROVE  RowsOK(Unlinked(ids))
<1>. DEFINE rows == Unlinked(ids)
            Cut(r) == r \in Cascade(ids) /\ rowState[r].peer # NoRow
            cleared(r) == [rowState[r] EXCEPT !.peer = NoRow, !.category = "unassigned"]
<1>1. \A r \in RowIds : rows[r] = IF Cut(r) THEN cleared(r) ELSE rowState[r]
  BY DEF Unlinked
<1>2. ASSUME NEW r \in RowIds, Cut(r)
      PROVE  /\ cleared(r) \in RowStates /\ cleared(r).peer = NoRow
             /\ cleared(r) # Gone /\ rowState[r] # Gone
  <2>1. rowState[r] # Gone
    BY <1>2 DEF Cascade, Live
  <2>2. rowState[r] \in RowStates
    BY <2>1, RowTyped
  <2>3. cleared(r) \in RowStates /\ cleared(r).peer = NoRow
    BY <2>2 DEF RowStates
  <2>. QED  BY <2>1, <2>3, ListAssumption
<1>3. rows \in [RowIds -> RowStates \cup {Gone}]
  <2>1. rows = [r \in RowIds |-> rows[r]]
    BY DEF Unlinked
  <2>2. \A r \in RowIds : rows[r] \in RowStates \cup {Gone}
    BY <1>1, <1>2 DEF RowsOK
  <2>. HIDE DEF rows
  <2>. QED  BY <2>1, <2>2
<1>. HIDE DEF rows, cleared
<1>4. ASSUME NEW r \in RowIds, rows[r] # Gone, rows[r].peer # NoRow
      PROVE  /\ rows[r].peer # r /\ rows[rows[r].peer] # Gone
             /\ rows[rows[r].peer].peer = r
  <2>. DEFINE p == rowState[r].peer
  <2>1. ~Cut(r)
    BY <1>1, <1>2, <1>4
  <2>2. rows[r] = rowState[r] /\ rowState[r] # Gone /\ r \notin Cascade(ids)
    BY <1>1, <1>4, <2>1
  <2>3. p \in RowIds /\ p # NoRow
    BY <1>4, <2>2, RowTyped
  <2>4. p # r /\ rowState[p] # Gone /\ rowState[p].peer = r
    BY <2>2, <2>3 DEF RowsOK
  <2>5. p \notin Cascade(ids)
    BY <2>2, <2>4 DEF Cascade, Live
  <2>6. rows[p] = rowState[p]
    BY <1>1, <2>3, <2>5
  <2>. QED  BY <2>2, <2>4, <2>6
<1>5. RowsOK(rows)
  BY <1>3, <1>4 DEF RowsOK
<1>. QED  BY <1>5 DEF rows

\* A change of category and of the cleared mark leave the pairs alone.
LEMMA FieldsOfRowsOK ==
  ASSUME RowsOK(rowState), NEW ids \in SUBSET RowIds,
         NEW category \in {"unassigned", "groceries", "transfer"}
  PROVE  RowsOK(Categorized(ids, category)) /\ \A mark \in BOOLEAN : RowsOK(Marked(ids, mark))
<1>. DEFINE named(r) == [rowState[r] EXCEPT !.category = category]
            marked(r, mark) == [rowState[r] EXCEPT !.cleared = mark]
<1>1. ASSUME NEW r \in RowIds, rowState[r] # Gone, NEW mark \in BOOLEAN
      PROVE  /\ named(r) \in RowStates /\ named(r).peer = rowState[r].peer
             /\ marked(r, mark) \in RowStates /\ marked(r, mark).peer = rowState[r].peer
             /\ named(r) # Gone /\ marked(r, mark) # Gone
  <2>1. rowState[r] \in RowStates
    BY <1>1, RowTyped
  <2>3. named(r) \in RowStates /\ named(r).peer = rowState[r].peer
    BY <2>1 DEF RowStates
  <2>4. marked(r, mark) \in RowStates /\ marked(r, mark).peer = rowState[r].peer
    BY <2>1 DEF RowStates
  <2>. QED  BY <2>3, <2>4, ListAssumption
<1>. HIDE DEF named, marked
<1>2. RowsOK(Categorized(ids, category))
  <2>. DEFINE rows == Categorized(ids, category)
  <2>1. rows = [r \in RowIds |-> IF r \in Live \cap ids /\ rowState[r].peer = NoRow
                                 THEN named(r) ELSE rowState[r]]
    BY DEF Categorized, named
  <2>. HIDE DEF rows
  <2>2. \A r \in Live : rowState[r] # Gone
    BY DEF Live
  <2>3. rows \in [RowIds -> RowStates \cup {Gone}]
    BY <1>1, <2>1, <2>2 DEF RowsOK
  <2>4. /\ \A r \in RowIds : rows[r] = Gone <=> rowState[r] = Gone
        /\ \A r \in RowIds : rowState[r] # Gone => rows[r].peer = rowState[r].peer
    BY <1>1, <2>1, <2>2
  <2>5. RowsOK(rows)
    BY <2>3, <2>4, SamePeers
  <2>. QED  BY <2>5 DEF rows
<1>3. ASSUME NEW mark \in BOOLEAN
      PROVE  RowsOK(Marked(ids, mark))
  <2>. DEFINE rows == Marked(ids, mark)
  <2>1. rows = [r \in RowIds |-> IF r \in Live \cap ids THEN marked(r, mark) ELSE rowState[r]]
    BY DEF Marked, marked
  <2>. HIDE DEF rows
  <2>2. \A r \in Live : rowState[r] # Gone
    BY DEF Live
  <2>3. rows \in [RowIds -> RowStates \cup {Gone}]
    BY <1>1, <2>1, <2>2 DEF RowsOK
  <2>4. /\ \A r \in RowIds : rows[r] = Gone <=> rowState[r] = Gone
        /\ \A r \in RowIds : rowState[r] # Gone => rows[r].peer = rowState[r].peer
    BY <1>1, <2>1, <2>2
  <2>5. RowsOK(rows)
    BY <2>3, <2>4, SamePeers
  <2>. QED  BY <2>5 DEF rows
<1>. QED  BY <1>2, <1>3

\* A link makes a pair of two rows that are in none.
LEMMA LinkedOK ==
  ASSUME RowsOK(rowState), NEW r \in RowIds, NEW s \in RowIds, Linkable(r, s)
  PROVE  RowsOK(Linked(r, s))
<1>. DEFINE rows == Linked(r, s)
            leg(a, b) == [rowState[a] EXCEPT !.peer = b, !.category = "transfer"]
<1>1. /\ r # s /\ rowState[r] # Gone /\ rowState[s] # Gone
      /\ rowState[r].peer = NoRow /\ rowState[s].peer = NoRow
  BY DEF Linkable, Live
<1>2. rowState[r] \in RowStates /\ rowState[s] \in RowStates
  BY <1>1, RowTyped
<1>3. /\ leg(r, s) \in RowStates /\ leg(r, s).peer = s
      /\ leg(s, r) \in RowStates /\ leg(s, r).peer = r
  BY <1>2 DEF RowStates
<1>4. leg(r, s) # Gone /\ leg(s, r) # Gone
  BY <1>3, ListAssumption
<1>5. rows = [rowState EXCEPT ![r] = leg(r, s), ![s] = leg(s, r)]
  BY <1>1 DEF Linked, RowsOK
<1>. HIDE DEF rows, leg
<1>6. rowState \in [RowIds -> RowStates \cup {Gone}]
  BY DEF RowsOK
<1>7. rows \in [RowIds -> RowStates \cup {Gone}]
  BY <1>3, <1>5, <1>6
<1>8. /\ rows[r] = leg(r, s) /\ rows[s] = leg(s, r)
      /\ \A x \in RowIds \ {r, s} : rows[x] = rowState[x]
  BY <1>1, <1>5, <1>6
<1>9. ASSUME NEW x \in RowIds \ {r, s}, rows[x] # Gone, rows[x].peer # NoRow
      PROVE  /\ rows[x].peer # x /\ rows[rows[x].peer] # Gone
             /\ rows[rows[x].peer].peer = x
  <2>1. rowState[x] # Gone /\ rowState[x].peer # NoRow /\ rows[x] = rowState[x]
    BY <1>8, <1>9
  <2>2. rowState[x].peer \in RowIds
    BY <2>1, RowTyped
  <2>3. /\ rowState[x].peer # x /\ rowState[rowState[x].peer] # Gone
        /\ rowState[rowState[x].peer].peer = x
    BY <2>1 DEF RowsOK
  <2>4. x # NoRow
    BY ListAssumption
  <2>5. rowState[x].peer \notin {r, s}
    BY <1>1, <2>3, <2>4
  <2>. QED  BY <1>8, <2>1, <2>2, <2>3, <2>5
<1>10. RowsOK(rows)
  BY <1>1, <1>3, <1>4, <1>7, <1>8, <1>9 DEF RowsOK
<1>. QED  BY <1>10 DEF rows

\* A new row is in no pair.
LEMMA NewOK ==
  ASSUME RowsOK(rowState), NEW r \in RowIds \ Live
  PROVE  RowsOK([rowState EXCEPT ![r] = New])
<1>. DEFINE rows == [rowState EXCEPT ![r] = New]
<1>1. New \in RowStates /\ New.peer = NoRow
  BY DEF New, RowStates
<1>. HIDE DEF New
<1>2. rowState \in [RowIds -> RowStates \cup {Gone}] /\ rowState[r] = Gone
  BY DEF RowsOK, Live
<1>3. rows \in [RowIds -> RowStates \cup {Gone}]
      /\ rows[r] = New /\ \A x \in RowIds \ {r} : rows[x] = rowState[x]
  BY <1>1, <1>2
<1>. HIDE DEF rows
<1>4. ASSUME NEW x \in RowIds \ {r}, rows[x] # Gone, rows[x].peer # NoRow
      PROVE  /\ rows[x].peer # x /\ rows[rows[x].peer] # Gone
             /\ rows[rows[x].peer].peer = x
  <2>1. rowState[x] # Gone /\ rowState[x].peer # NoRow /\ rows[x] = rowState[x]
    BY <1>3, <1>4
  <2>2. rowState[x].peer \in RowIds
    BY <2>1, RowTyped
  <2>3. /\ rowState[x].peer # x /\ rowState[rowState[x].peer] # Gone
        /\ rowState[rowState[x].peer].peer = x
    BY <2>1 DEF RowsOK
  <2>. QED  BY <1>2, <1>3, <2>1, <2>2, <2>3
<1>5. RowsOK(rows)
  BY <1>1, <1>3, <1>4 DEF RowsOK
<1>. QED  BY <1>5 DEF rows

\* Whatever a call does, it leaves the pairs whole.
LEMMA OutcomesOK ==
  ASSUME RowsOK(rowState), NEW c, c.ids \subseteq RowIds, NEW rows \in Outcomes(c)
  PROVE  RowsOK(rows)
<1>1. \/ rows = Deleted(c.ids) \/ rows = Unlinked(c.ids)
      \/ \E mark \in BOOLEAN : rows = Marked(c.ids, mark)
      \/ \E k \in {"unassigned", "groceries"} : rows = Categorized(c.ids, k)
      \/ \E r \in c.ids, s \in RowIds : Linkable(r, s) /\ rows = Linked(r, s)
      \/ \E r \in RowIds \ Live : rows = [rowState EXCEPT ![r] = New]
  BY DEF Outcomes
<1>2. CASE \E k \in {"unassigned", "groceries"} : rows = Categorized(c.ids, k)
  BY <1>2, FieldsOfRowsOK
<1>3. CASE \E r \in c.ids, s \in RowIds : Linkable(r, s) /\ rows = Linked(r, s)
  BY <1>3, LinkedOK
<1>4. CASE \E mark \in BOOLEAN : rows = Marked(c.ids, mark)
  BY <1>4, FieldsOfRowsOK
<1>. QED  BY <1>1, <1>2, <1>3, <1>4, DeletedOK, UnlinkedOK, NewOK

LEMMA ListInitially == ListInit => ListInv
<1>. SUFFICES ASSUME ListInit PROVE ListInv
  OBVIOUS
<1>1. Fresh \in RowStates /\ Fresh.peer = NoRow
  BY DEF Fresh, RowStates
<1>. HIDE DEF Fresh
<1>2. rowState \in [RowIds -> RowStates \cup {Gone}]
      /\ \A r \in RowIds : rowState[r] # Gone => rowState[r].peer = NoRow
  BY <1>1 DEF ListInit
<1>3. RowsOK(rowState)
  BY <1>2 DEF RowsOK
<1>4. filter \in Filters /\ applied \in Filters
  BY ListAssumption DEF ListInit
<1>5. changes \in 0 .. MaxChanges
  BY ListAssumption DEF ListInit
<1>6. Listed = {}
  BY DEF ListInit, Fetched, Listed
<1>. QED  BY <1>3, <1>4, <1>5, <1>6 DEF ListInit, ListInv, NoDialog

\* A fetch lists rows that are there, as they are.
LEMMA FetchedOK ==
  ASSUME ListInv, NEW rows \in SUBSET Live
  PROVE  DOMAIN Fetched(rows) = rows /\ \A r \in rows : Fetched(rows)[r] \in RowStates
<1>1. \A r \in rows : r \in RowIds /\ rowState[r] # Gone
  BY DEF Live
<1>. QED  BY <1>1, RowTyped DEF Fetched, ListInv

\* The filter controls.
LEMMA FilterStep ==
  ASSUME ListInv,
         \/ \E f \in FilterSets : SetFilter(f) \/ TypeSearch(f)
         \/ DebounceSearch \/ ReviewUnassigned
  PROVE  ListInv'
<1>1. ASSUME NEW f \in FilterSets, SetFilter(f)
      PROVE  ListInv'
  <2>1. f \in Filters /\ [f EXCEPT !.text = applied.text] \in Filters
    BY ListAssumption DEF ListInv, Filters
  <2>. QED  BY <1>1, <2>1, FetchedOK DEF SetFilter, Refilter, ListInv, Listed
<1>2. ASSUME NEW f \in FilterSets, TypeSearch(f)
      PROVE  ListInv'
  BY <1>2, ListAssumption DEF TypeSearch, ListInv, Listed
<1>3. CASE DebounceSearch
  BY <1>3, FetchedOK DEF DebounceSearch, Refilter, ListInv, Listed
<1>4. CASE ReviewUnassigned
  <2>. DEFINE f == [filter EXCEPT !.category = "unassigned", !.month = All]
  <2>1. f \in Filters
    BY DEF ListInv, Filters
  <2>2. filter' = f /\ Refilter([f EXCEPT !.text = applied.text])
        /\ UNCHANGED <<rowState, selecting, dialog, underway, changes>>
    BY <1>4 DEF ReviewUnassigned
  <2>. HIDE DEF f
  <2>3. [f EXCEPT !.text = applied.text] \in Filters
    BY <2>1 DEF ListInv, Filters
  <2>. QED  BY <2>1, <2>2, <2>3, FetchedOK DEF Refilter, ListInv, Listed
<1>. QED  BY <1>1, <1>2, <1>3, <1>4

\* A call that is sent names rows of the list.
LEMMA SendStep ==
  ASSUME ListInv, NEW op, NEW ids \in SUBSET RowIds, Send(op, ids)
  PROVE  ListInv'
<1>1. changes' \in 0 .. MaxChanges
  BY ListAssumption DEF Send, ListInv, Listed
<1>2. Request(op, ids).ids = ids
  BY DEF Request
<1>. QED  BY <1>1, <1>2 DEF Send, ListInv, Listed

\* A call's answer, and a change made elsewhere.
LEMMA AnswerStep ==
  ASSUME ListInv,
         ChangedElsewhere \/ \E c \in underway : Succeeds(c) \/ Fails(c)
  PROVE  ListInv'
<1>1. CASE ChangedElsewhere
  <2>1. PICK r \in Live, op \in {"delete", "update", "link", "unlink"} :
            rowState' \in Outcomes(Request(op, {r}))
    BY <1>1 DEF ChangedElsewhere
  <2>2. Request(op, {r}).ids = {r} /\ r \in RowIds
    BY DEF Request, Live
  <2>3. RowsOK(rowState')
    BY <2>1, <2>2, OutcomesOK DEF ListInv, Listed
  <2>4. changes' \in 0 .. MaxChanges
    BY <1>1, ListAssumption DEF ChangedElsewhere, ListInv, Listed
  <2>. QED  BY <1>1, <2>3, <2>4 DEF ChangedElsewhere, ListInv, RowsOK, Listed
<1>2. ASSUME NEW c \in underway, Succeeds(c)
      PROVE  ListInv'
  <2>1. RowsOK(rowState')
    BY <1>2, OutcomesOK DEF Succeeds, ListInv, Listed
  <2>2. dialog'.row \in RowIds \cup {NoRow}
    BY <1>2 DEF Succeeds, ListInv, NoDialog
  <2>. QED  BY <1>2, <2>1, <2>2 DEF Succeeds, ListInv, RowsOK, Listed
<1>3. ASSUME NEW c \in underway, Fails(c)
      PROVE  ListInv'
  BY <1>3 DEF Fails, ListInv, Listed
<1>. QED  BY <1>1, <1>2, <1>3

LEMMA ListStep == ListInv /\ [ListNext]_listVars => ListInv'
<1>. SUFFICES ASSUME ListInv, [ListNext]_listVars  PROVE ListInv'
  OBVIOUS
<1>1. ASSUME NEW rows \in SUBSET RowIds, Fetch(rows)
      PROVE  ListInv'
  <2>1. rows \in SUBSET Live
    BY <1>1 DEF Fetch, Listing
  <2>2. Listed' = rows /\ \A r \in rows : loaded'[r] \in RowStates
    BY <1>1, <2>1, FetchedOK DEF Fetch, Listed
  <2>. QED  BY <1>1, <2>2 DEF Fetch, ListInv, RowsOK
<1>2. CASE LoadMore
  <2>1. Listing \in SUBSET Live /\ Live \subseteq RowIds
    BY DEF Listing, Live
  <2>2. \A r \in Listing : rowState[r] \in RowStates
    BY <2>1, RowTyped DEF Live, ListInv
  <2>3. /\ Listed' = Listed \cup Listing
        /\ \A r \in Listed' : loaded'[r] = IF r \in Listed THEN loaded[r] ELSE rowState[r]
    BY <1>2 DEF LoadMore, Listed
  <2>5. Listed' \subseteq RowIds /\ \A r \in Listed' : loaded'[r] \in RowStates
    BY <2>1, <2>2, <2>3 DEF ListInv
  <2>. QED  BY <1>2, <2>5 DEF LoadMore, ListInv, RowsOK
<1>3. ASSUME NEW r \in RowIds, ToggleSelected(r) \/ Tap(r)
      PROVE  ListInv'
  BY <1>3 DEF ToggleSelected, Tap, Dialog, ListInv, Listed
<1>4. ASSUME NEW r \in RowIds, SendRow(r)
      PROVE  ListInv'
  BY <1>4, SendStep DEF SendRow, ListInv
<1>5. CASE ToggleSelectAllLoaded \/ ToggleSelecting \/ ClearSelection
  <2>1. selecting' \in BOOLEAN
    BY <1>5 DEF ToggleSelectAllLoaded, ToggleSelecting, ClearSelection, ListInv, Listed
  <2>2. selected' \subseteq RowIds
    BY <1>5 DEF ToggleSelectAllLoaded, ToggleSelecting, ClearSelection, ListInv, Listed
  <2>. QED
    BY <1>5, <2>1, <2>2 DEF ToggleSelectAllLoaded, ToggleSelecting, ClearSelection, ListInv, Listed
<1>6. ASSUME NEW name, OpenBulk(name) \/ OpenTop(name)
      PROVE  ListInv'
  BY <1>6 DEF OpenBulk, OpenTop, Dialog, ListInv, Listed
<1>7. CASE CloseDialog \/ HandOverToLink
  BY <1>7 DEF CloseDialog, NoDialog, HandOverToLink, Dialog, ListInv, Listed
<1>8. CASE SendEdit \/ SendLink \/ ConfirmBulk \/ SendNew
  <2>1. SendEdit \/ SendLink => {dialog.row} \subseteq RowIds
    BY DEF SendEdit, SendLink, Offered, ListInv, Listed
  <2>2. {} \subseteq RowIds /\ selected \subseteq RowIds
    BY DEF ListInv, Listed
  <2>. QED  BY <1>8, <2>1, <2>2, SendStep DEF SendEdit, SendLink, ConfirmBulk, SendNew, SendOnce
<1>9. CASE UNCHANGED listVars
  BY <1>9 DEF listVars, ListInv, Listed
<1>. QED
  BY <1>1, <1>2, <1>3, <1>4, <1>5, <1>6, <1>7, <1>8, <1>9, FilterStep, AnswerStep DEF ListNext

LEMMA ListInvariant == ListSpec => []ListInv
BY ListInitially, ListStep, PTL DEF ListSpec

\* The page shows, selects and asks for rows that can exist.
THEOREM ListTypesHold == ListSpec => []ListTypeOK
<1>1. ListInv => ListTypeOK
  <2>. SUFFICES ASSUME ListInv PROVE ListTypeOK
    OBVIOUS
  <2>1. \A r \in Live : rowState[r] \in RowStates
    BY RowTyped DEF Live, ListInv
  <2>. QED  BY <2>1 DEF ListInv, ListTypeOK
<1>. QED  BY <1>1, ListInvariant, PTL

\* A confirmation announces as many rows as the server deletes, for a selection
\* of any size among any number of rows and transfers, counted from a list that
\* shows the selected rows with the peers they have: the legs selected without
\* their peers are as many as the peers that go with them.
THEOREM CascadesAreCounted == ListSpec => []CountsTheCascade
<1>1. ASSUME ListInv
      PROVE  CountsTheCascade
  <2>. SUFFICES ASSUME ShownAsTheyAre
                PROVE  Cardinality(selected) + Cardinality(ExtraPeers(selected))
                          = Cardinality(Cascade(selected))
    <3>1. ShownAsTheyAre => selected \cap Listed = selected
      BY DEF ShownAsTheyAre
    <3>. QED  BY <3>1 DEF CountsTheCascade, Announced
  <2>0. \A r \in selected : r \in Live /\ loaded[r].peer = rowState[r].peer
    BY DEF ShownAsTheyAre
  <2>. DEFINE unpaired == ExtraPeers(selected)
              others == {r \in Live \ selected : rowState[r].peer \in selected}
              peerOf == [r \in unpaired |-> rowState[r].peer]
  <2>1. /\ selected \subseteq RowIds /\ Live \subseteq RowIds
        /\ \A r \in Live : rowState[r].peer # NoRow =>
              /\ rowState[r].peer \in Live /\ rowState[r].peer # r
              /\ rowState[rowState[r].peer].peer = r
    <3>1. ASSUME NEW r \in Live, rowState[r].peer # NoRow
          PROVE  /\ rowState[r].peer \in Live /\ rowState[r].peer # r
                 /\ rowState[rowState[r].peer].peer = r
      <4>1. rowState[r].peer \in RowIds
        BY <1>1, <3>1, RowTyped DEF ListInv, Live
      <4>. QED  BY <1>1, <3>1, <4>1 DEF ListInv, RowsOK, Live
    <3>. QED  BY <1>1, <3>1 DEF ListInv, Live
  <2>2. NoRow \notin Live
    BY <2>1, ListAssumption
  <2>3. \A r \in unpaired : /\ r \in selected /\ rowState[r].peer \in others
                          /\ rowState[rowState[r].peer].peer = r
    BY <2>0, <2>1 DEF ExtraPeers
  <2>4. \A s \in others : rowState[s].peer \in unpaired /\ rowState[rowState[s].peer].peer = s
    BY <2>0, <2>1, <2>2 DEF ExtraPeers
  <2>5. Cascade(selected) = selected \cup others /\ selected \cap others = {}
    BY <2>0, <2>1 DEF Cascade
  <2>6. unpaired \subseteq selected /\ others \subseteq RowIds
    BY <2>1 DEF ExtraPeers
  <2>7. IsFiniteSet(selected) /\ IsFiniteSet(unpaired) /\ IsFiniteSet(others)
    <3>. HIDE DEF unpaired, others
    <3>. QED  BY <2>1, <2>6, FS_Subset, ListAssumption
  <2>8. Cardinality(unpaired) = Cardinality(others)
    <3>. HIDE DEF unpaired, others
    <3>1. peerOf \in [unpaired -> others]
      BY <2>3
    <3>2. \A a, b \in unpaired : peerOf[a] = peerOf[b] => a = b
      BY <2>3
    <3>3. \A s \in others : \E r \in unpaired : peerOf[r] = s
      BY <2>4
    <3>. HIDE DEF peerOf
    <3>4. peerOf \in Bijection(unpaired, others)
      BY <3>1, <3>2, <3>3, Fun_IsBij
    <3>5. ExistsBijection(unpaired, others)
      BY <3>4 DEF ExistsBijection
    <3>. QED  BY <2>7, <3>5, FS_Bijection
  <2>9. Cardinality(selected \cup others) = Cardinality(selected) + Cardinality(others)
    <3>. HIDE DEF others
    <3>1. Cardinality(selected \cup others)
            = Cardinality(selected) + Cardinality(others) - Cardinality(selected \cap others)
      BY <2>7, FS_Union
    <3>2. Cardinality(selected \cap others) = 0
      BY <2>5, FS_EmptySet
    <3>3. Cardinality(selected) \in Nat /\ Cardinality(others) \in Nat
      BY <2>7, FS_CardinalityType
    <3>. QED  BY <3>1, <3>2, <3>3
  <2>. QED  BY <2>5, <2>8, <2>9
<1>. QED  BY <1>1, ListInvariant, PTL

-----------------------------------------------------------------------------
(***************************************************************************)
(* The accounts page. DialogInv: a dialog that is open has fields to save, *)
(* and what is being saved names an account. CallbackInv: a code has been  *)
(* posted by an effect that ran.                                           *)
(***************************************************************************)
AccountLists == [AccountIds -> [edit : Edits, linked : BOOLEAN] \cup {Absent}]

StoreInv ==
    /\ Edits \ ClosedEdits # {}
    /\ accounts \in AccountLists /\ accountList \in AccountLists
    /\ rowCalls \subseteq AccountIds \cup {"create"}
    /\ accountCalls \in 0 .. MaxAccountCalls
    /\ newName \in BOOLEAN /\ showClosed \in BOOLEAN

DialogInv ==
    /\ editing \in AccountIds \cup {NoPick} /\ draft \in Edits \cup {NoPick}
    /\ editing # NoPick => draft \in Edits
    /\ editCall # NoPick => editCall \in [id : AccountIds, edit : Edits]
    /\ crashed \in BOOLEAN

CallbackInv ==
    /\ callback \in [phase : {"none", "working", "done", "failed"}, effects : Nat, posts : {0, 1}]
    /\ callback.effects = 0 => callback.posts = 0
    /\ redirecting \in BOOLEAN
    /\ linking = [open |-> linking.open, country |-> linking.country, bank |-> linking.bank]
    /\ linking.open \in BOOLEAN
    /\ linking.bank = NoPick \/ linking.bank \in Banks[linking.country]

AccountsInv == StoreInv /\ DialogInv /\ CallbackInv

LEMMA AccountsInitially == AccountsInit => AccountsInv
<1>. SUFFICES ASSUME AccountsInit PROVE AccountsInv  OBVIOUS
<1>1. StoreInv
  <2>1. PICK e \in Edits \ ClosedEdits, here \in SUBSET AccountIds : \E s \in here :
            accounts = [a \in AccountIds |-> IF a \in here THEN [edit |-> e, linked |-> a = s] ELSE Absent]
    BY Zenon DEF AccountsInit
  <2>2. PICK s \in here :
            accounts = [a \in AccountIds |-> IF a \in here THEN [edit |-> e, linked |-> a = s] ELSE Absent]
    BY <2>1
  <2>3. \A a \in AccountIds : [edit |-> e, linked |-> a = s] \in [edit : Edits, linked : BOOLEAN]
    OBVIOUS
  <2>4. accounts \in AccountLists
    BY <2>2, <2>3 DEF AccountLists
  <2>5. accountList \in AccountLists
    BY DEF AccountsInit, AccountLists
  <2>6. Edits \ ClosedEdits # {}
    OBVIOUS
  <2>7. rowCalls = {} /\ accountCalls = 0 /\ newName = FALSE /\ showClosed = FALSE
    BY DEF AccountsInit
  <2>8. 0 \in 0 .. MaxAccountCalls
    BY AccountsAssumption
  <2>. QED  BY <2>4, <2>5, <2>6, <2>7, <2>8 DEF StoreInv
<1>2. DialogInv
  BY DEF AccountsInit, DialogInv
<1>3. CallbackInv
  BY DEF AccountsInit, CallbackInv, NoLink
<1>. QED  BY <1>1, <1>2, <1>3 DEF AccountsInv

LEMMA RemovedTyped ==
    ASSUME accounts \in AccountLists, NEW a
    PROVE  Removed(a) \in AccountLists
BY DEF AccountLists, Removed

LEMMA EditedTyped ==
    ASSUME accounts \in AccountLists, NEW a \in Exists(accounts), NEW e \in Edits
    PROVE  [accounts EXCEPT ![a].edit = e] \in AccountLists
BY DEF AccountLists, Exists

LEMMA CreatedTyped ==
    ASSUME StoreInv, NEW a \in AccountIds
    PROVE  Created(a) \in AccountLists
<1>1. (CHOOSE e \in Edits \ ClosedEdits : TRUE) \in Edits
  BY DEF StoreInv
<1>. QED  BY <1>1 DEF Created, StoreInv, AccountLists

LEMMA StoreStep == AccountsInv /\ [AccountsNext]_accountsVars => StoreInv'
<1>. SUFFICES ASSUME AccountsInv, [AccountsNext]_accountsVars PROVE StoreInv'  OBVIOUS
<1>. USE AccountsAssumption
<1>. DEFINE Same == UNCHANGED <<accounts, accountList, rowCalls, accountCalls, newName, showClosed>>
<1>0. ASSUME Same PROVE StoreInv'
  BY <1>0 DEF AccountsInv, StoreInv
<1>1. ASSUME ListArrives PROVE StoreInv'
  BY <1>1 DEF AccountsInv, StoreInv, ListArrives, listVarsUnchanged
<1>2. ASSUME ToggleShowClosed PROVE StoreInv'
  BY <1>2 DEF AccountsInv, StoreInv, ToggleShowClosed
<1>3. ASSUME \/ CloseAccount \/ AccountNotSaved
             \/ \E a \in AccountIds : OpenAccount(a)
             \/ \E e \in Edits : EditAccount(e)
      PROVE  StoreInv'
  <2>1. Same
    BY <1>3 DEF CloseAccount, AccountNotSaved, OpenAccount, EditAccount, listVarsUnchanged
  <2>. QED  BY <2>1, <1>0
<1>4. ASSUME SaveAccount PROVE StoreInv'
  BY <1>4 DEF AccountsInv, StoreInv, SaveAccount, Counting, listVarsUnchanged
<1>5. ASSUME AccountSaved PROVE StoreInv'
  <2>1. editCall.id \in Exists(accounts) /\ editCall.edit \in Edits
    BY <1>5 DEF AccountSaved, AccountsInv, DialogInv
  <2>2. accounts' \in AccountLists
    BY <1>5, <2>1, EditedTyped DEF AccountSaved, AccountsInv, StoreInv
  <2>. QED  BY <1>5, <2>2 DEF AccountSaved, AccountsInv, StoreInv, listVarsUnchanged, AccountLists
<1>6. ASSUME TypeAccountName PROVE StoreInv'
  BY <1>6 DEF AccountsInv, StoreInv, TypeAccountName
<1>7. ASSUME NEW c \in AccountIds \cup {"create"}, SendAccountCall(c) PROVE StoreInv'
  BY <1>7 DEF AccountsInv, StoreInv, SendAccountCall, Counting
<1>8. ASSUME NEW c \in AccountIds \cup {"create"}, AccountCallSucceeds(c) PROVE StoreInv'
  <2>1. accounts' \in AccountLists /\ newName' \in BOOLEAN
    BY <1>8, RemovedTyped, CreatedTyped DEF AccountCallSucceeds, AccountsInv, StoreInv
  <2>. QED  BY <1>8, <2>1 DEF AccountsInv, StoreInv, AccountCallSucceeds
<1>9. ASSUME NEW c \in AccountIds \cup {"create"}, AccountCallFails(c) PROVE StoreInv'
  BY <1>9 DEF AccountsInv, StoreInv, AccountCallFails
<1>10. ASSUME AccountsChangeElsewhere PROVE StoreInv'
  <2>1. accounts' \in AccountLists
    BY <1>10, RemovedTyped, EditedTyped DEF AccountsChangeElsewhere, AccountsInv, StoreInv
  <2>. QED  BY <1>10, <2>1 DEF AccountsChangeElsewhere, AccountsInv, StoreInv, Counting, listVarsUnchanged
<1>11. ASSUME LinkingStep \/ Redirected PROVE StoreInv'
  <2>1. Same
    BY <1>11 DEF LinkingStep, Redirected
  <2>. QED  BY <2>1, <1>0
<1>12. ASSUME UNCHANGED accountsVars PROVE StoreInv'
  <2>1. Same
    BY <1>12 DEF accountsVars
  <2>. QED  BY <2>1, <1>0
<1>. QED
  BY <1>1, <1>2, <1>3, <1>4, <1>5, <1>6, <1>7, <1>8, <1>9, <1>10, <1>11, <1>12
     DEF AccountsNext, RemoveAccount, CreateAccount, TogglePicker, ChooseCountry, ChooseBank,
         StartConnect, ConnectRefused, CallbackEffect, CallbackAnswered

LEMMA DialogStep == AccountsInv /\ [AccountsNext]_accountsVars => DialogInv'
<1>. SUFFICES ASSUME AccountsInv, [AccountsNext]_accountsVars PROVE DialogInv'  OBVIOUS
<1>. USE DEF AccountsInv, DialogInv
<1>0. ASSUME editUnchanged PROVE DialogInv'
  BY <1>0 DEF editUnchanged
<1>1. ASSUME ListArrives PROVE DialogInv'
  <2>1. editing \in Exists(accounts) => accounts[editing].edit \in Edits
    BY DEF StoreInv, AccountLists, Exists
  <2>. QED  BY <1>1, <2>1 DEF ListArrives
<1>2. ASSUME NEW a \in AccountIds, OpenAccount(a) PROVE DialogInv'
  <2>1. accountList[a].edit \in Edits
    BY <1>2 DEF OpenAccount, RowsShown, StoreInv, AccountLists, Exists
  <2>. QED  BY <1>2, <2>1 DEF OpenAccount
<1>3. ASSUME NEW e \in Edits, EditAccount(e) PROVE DialogInv'
  BY <1>3 DEF EditAccount
<1>4. ASSUME CloseAccount PROVE DialogInv'
  BY <1>4 DEF CloseAccount
<1>5. ASSUME SaveAccount PROVE DialogInv'
  BY <1>5 DEF SaveAccount
<1>6. ASSUME AccountSaved PROVE DialogInv'
  BY <1>6 DEF AccountSaved
<1>7. ASSUME AccountNotSaved PROVE DialogInv'
  BY <1>7 DEF AccountNotSaved
<1>8. CASE UNCHANGED accountsVars
  BY <1>8, <1>0 DEF accountsVars, editUnchanged
<1>. HIDE DEF AccountsInv, DialogInv
<1>9. ASSUME NEW c, AccountCallSucceeds(c) \/ AccountCallFails(c) \/ SendAccountCall(c) PROVE DialogInv'
  BY <1>9, <1>0 DEF AccountCallSucceeds, AccountCallFails, SendAccountCall
<1>10. ASSUME \/ ToggleShowClosed \/ TypeAccountName \/ AccountsChangeElsewhere \/ LinkingStep \/ Redirected
       PROVE  DialogInv'
  BY <1>10, <1>0
     DEF ToggleShowClosed, TypeAccountName, AccountsChangeElsewhere, LinkingStep, Redirected
<1>. QED
  BY <1>1, <1>2, <1>3, <1>4, <1>5, <1>6, <1>7, <1>8, <1>9, <1>10
     DEF AccountsNext, RemoveAccount, CreateAccount, TogglePicker, ChooseCountry, ChooseBank,
         StartConnect, ConnectRefused, CallbackEffect, CallbackAnswered

LEMMA CallbackStep == AccountsInv /\ [AccountsNext]_accountsVars => CallbackInv'
<1>. SUFFICES ASSUME AccountsInv, [AccountsNext]_accountsVars PROVE CallbackInv'  OBVIOUS
<1>. DEFINE Same == UNCHANGED <<linking, redirecting, callback>>
<1>0. ASSUME Same PROVE CallbackInv'
  BY <1>0 DEF AccountsInv, CallbackInv
<1>1. ASSUME TogglePicker PROVE CallbackInv'
  BY <1>1 DEF TogglePicker, AccountsInv, CallbackInv
<1>2. ASSUME NEW c, ChooseCountry(c) PROVE CallbackInv'
  BY <1>2 DEF ChooseCountry, AccountsInv, CallbackInv
<1>3. ASSUME NEW b, ChooseBank(b) PROVE CallbackInv'
  BY <1>3 DEF ChooseBank, AccountsInv, CallbackInv
<1>4. ASSUME StartConnect \/ ConnectRefused PROVE CallbackInv'
  <2>1. UNCHANGED <<linking, callback>> /\ redirecting' \in BOOLEAN
    BY <1>4 DEF StartConnect, ConnectRefused
  <2>. QED  BY <2>1 DEF AccountsInv, CallbackInv
<1>5. ASSUME Redirected PROVE CallbackInv'
  <2>1. /\ linking' = NoLink /\ redirecting' = FALSE
        /\ callback' = [callback EXCEPT !.phase = "working"]
    BY <1>5 DEF Redirected
  <2>2. callback' \in [phase : {"none", "working", "done", "failed"}, effects : Nat, posts : {0, 1}]
    BY <2>1 DEF AccountsInv, CallbackInv
  <2>3. callback'.effects = callback.effects /\ callback'.posts = callback.posts
    BY <2>1 DEF AccountsInv, CallbackInv
  <2>. QED  BY <2>1, <2>2, <2>3 DEF NoLink, AccountsInv, CallbackInv
<1>6. ASSUME NEW complete \in BOOLEAN, CallbackEffect(complete) PROVE CallbackInv'
  <2>1. UNCHANGED <<linking, redirecting>>
    BY <1>6 DEF CallbackEffect
  <2>2. /\ callback.effects \in Nat /\ callback.posts \in {0, 1}
        /\ callback.effects = 0 => callback.posts = 0
        /\ callback.phase \in {"none", "working", "done", "failed"}
        /\ callback = [phase |-> callback.phase, effects |-> callback.effects, posts |-> callback.posts]
    BY DEF AccountsInv, CallbackInv
  <2>3. CASE StartedAlready
    <3>1. callback' = [callback EXCEPT !.effects = callback.effects + 1]
      BY <1>6, <2>3 DEF CallbackEffect
    <3>. QED  BY <2>1, <2>2, <3>1 DEF AccountsInv, CallbackInv
  <2>4. CASE ~StartedAlready /\ complete
    <3>1. callback' = [callback EXCEPT !.effects = callback.effects + 1, !.posts = callback.posts + 1]
      BY <1>6, <2>4 DEF CallbackEffect
    <3>2. callback.posts = 0
      BY <2>2, <2>4 DEF StartedAlready
    <3>3. callback' = [phase |-> callback.phase, effects |-> callback.effects + 1,
                      posts |-> callback.posts + 1]
      BY <2>2, <3>1
    <3>. QED  BY <2>1, <2>2, <3>2, <3>3 DEF AccountsInv, CallbackInv
  <2>5. CASE ~StartedAlready /\ ~complete
    <3>1. callback' = [callback EXCEPT !.effects = callback.effects + 1, !.phase = "failed"]
      BY <1>6, <2>5 DEF CallbackEffect
    <3>2. callback' = [phase |-> "failed", effects |-> callback.effects + 1, posts |-> callback.posts]
      BY <2>2, <3>1
    <3>. QED  BY <2>1, <2>2, <3>2 DEF AccountsInv, CallbackInv
  <2>. QED  BY <2>3, <2>4, <2>5
<1>7. ASSUME NEW phase \in {"done", "failed"}, CallbackAnswered(phase) PROVE CallbackInv'
  BY <1>7 DEF CallbackAnswered, AccountsInv, CallbackInv
<1>8. ASSUME \/ ListArrives \/ ToggleShowClosed \/ CloseAccount
             \/ SaveAccount \/ AccountSaved \/ AccountNotSaved \/ TypeAccountName
             \/ AccountsChangeElsewhere
             \/ \E a \in AccountIds : OpenAccount(a)
             \/ \E e \in Edits : EditAccount(e)
             \/ \E c \in AccountIds \cup {"create"} :
                    AccountCallSucceeds(c) \/ AccountCallFails(c) \/ SendAccountCall(c)
             \/ UNCHANGED accountsVars
      PROVE  CallbackInv'
  <2>1. Same
    BY <1>8 DEF ListArrives, ToggleShowClosed, CloseAccount, SaveAccount, AccountSaved,
       AccountNotSaved, TypeAccountName, AccountsChangeElsewhere, OpenAccount, EditAccount,
       AccountCallSucceeds, AccountCallFails, SendAccountCall, listVarsUnchanged, accountsVars
  <2>. QED  BY <2>1, <1>0
<1>. QED
  BY <1>1, <1>2, <1>3, <1>4, <1>5, <1>6, <1>7, <1>8
     DEF AccountsNext, RemoveAccount, CreateAccount

LEMMA AccountsInvariant == AccountsSpec => []AccountsInv
<1>1. AccountsInv /\ [AccountsNext]_accountsVars => AccountsInv'
  BY StoreStep, DialogStep, CallbackStep DEF AccountsInv
<1>. QED  BY <1>1, AccountsInitially, PTL DEF AccountsSpec

\* The fields of the accounts page hold what they can hold; the callback posts
\* the bank's code once, however often its effect runs (startedRef), and a bank
\* is connected in the country it was chosen for.
THEOREM AccountsTypesHold == AccountsSpec => []AccountsTypeOK
<1>1. AccountsInv => AccountsTypeOK
  <2>. SUFFICES ASSUME AccountsInv PROVE AccountsTypeOK  OBVIOUS
  <2>1. \A a \in AccountIds, rows \in {accounts, accountList} :
            rows[a] # Absent => rows[a].edit \in Edits /\ rows[a].linked \in BOOLEAN
    BY DEF AccountsInv, StoreInv, AccountLists
  <2>. QED  BY <2>1 DEF AccountsInv, StoreInv, DialogInv, CallbackInv, AccountsTypeOK
<1>. QED  BY <1>1, AccountsInvariant, PTL

-----------------------------------------------------------------------------
(***************************************************************************)
(* The pickers. MarkInv is MarkedRowExists made inductive: PayeeAutocomplete *)
(* keeps a row marked while its list is closed, since a focus opens it     *)
(* again as it was, and CategoryPicker only from one opening to the next   *)
(* change of its list.                                                     *)
(***************************************************************************)
PickerStates ==
    [kind : {"category", "payee"}, open : BOOLEAN, search : Searches \cup {NoText},
     index : {i \in Int : i >= -1}, moved : BOOLEAN]

PickerTyped ==
    /\ picker \in PickerStates
    /\ list \in Lists
    /\ payeeAnswers \in [Searches -> Seq(Searches)]
    /\ \A s \in Searches : payeeAnswers[s] \in PayeeLists[s] \cup {<<>>}
    /\ searched \in Searches \cup {NoText}
    /\ picker.kind = "payee" => value \in Searches \cup {NoText}

Within(index, rows) == rows # <<>> => index + 1 \in 1 .. Len(rows)

MarkInv ==
    IF picker.kind = "payee" THEN Within(picker.index, PayeeRows)
    ELSE picker.open /\ ~picker.moved => Within(picker.index, OptionRows(list, picker.search))

PickerInv == PickerTyped /\ MarkInv

LEMMA PayeeRowsTyped == PickerTyped => PayeeRows \in Seq(Searches)
BY DEF PickerTyped, PayeeRows

LEMMA RowsCounted ==
    ASSUME PickerTyped
    PROVE  \E S : Rows \in Seq(S)
<1>1. OptionRows(list, picker.search) \in Seq(Labels(list))
  BY PickerAssumption DEF PickerTyped, PickerStates
<1>. QED  BY <1>1, PayeeRowsTyped DEF Rows

LEMMA SeqCounted ==
    ASSUME NEW S, NEW rows \in Seq(S)
    PROVE  /\ Len(rows) \in Nat /\ DOMAIN rows = 1 .. Len(rows)
           /\ rows # <<>> => Len(rows) > 0
           /\ Within(0, rows)
<1>1. Len(rows) \in Nat /\ DOMAIN rows = 1 .. Len(rows)
  OBVIOUS
<1>2. rows # <<>> => Len(rows) > 0
  BY <1>1, EmptySeq
<1>. QED  BY <1>1, <1>2 DEF Within

LEMMA PickerInitially == PickerInit => PickerInv
<1>. SUFFICES ASSUME PickerInit PROVE PickerInv  OBVIOUS
<1>1. PICK kind \in {"category", "payee"} :
          picker = [kind |-> kind, open |-> FALSE, search |-> NoText, index |-> 0, moved |-> FALSE]
  BY DEF PickerInit
<1>2. payeeAnswers = [s \in Searches |-> <<>>] /\ searched = NoText /\ list \in Lists /\ value = NoText
  BY DEF PickerInit
<1>3. PickerTyped
  BY <1>1, <1>2 DEF PickerTyped, PickerStates
<1>4. MarkInv
  BY <1>1, <1>2 DEF MarkInv, Within, PayeeRows
<1>. QED  BY <1>3, <1>4 DEF PickerInv

LEMMA MarkOnRow ==
    ASSUME PickerTyped, NEW i \in DOMAIN Rows
    PROVE  i - 1 \in {k \in Int : k >= -1} /\ Within(i - 1, Rows)
<1>1. i \in 1 .. Len(Rows) /\ Len(Rows) \in Nat
  BY RowsCounted, SeqCounted
<1>. QED  BY <1>1 DEF Within

LEMMA RemarkedTyped ==
    ASSUME PickerTyped, picker.kind = "payee", MarkInv, NEW rows \in Seq(Searches)
    PROVE  /\ Remarked(rows) \in PickerStates
           /\ Remarked(rows).kind = "payee"
           /\ Within(Remarked(rows).index, rows)
<1>0. /\ Len(rows) \in Nat /\ Within(0, rows) /\ Len(PayeeRows) \in Nat
      /\ rows # <<>> => Len(rows) > 0
  BY PayeeRowsTyped, SeqCounted
<1>9. PayeeRows = <<>> => Len(PayeeRows) = 0
  OBVIOUS
<1>1. CASE Len(rows) # Len(PayeeRows)
  <2>1. Remarked(rows) = [picker EXCEPT !.index = 0]
    BY <1>1 DEF Remarked
  <2>2. Remarked(rows) \in PickerStates /\ Remarked(rows).kind = "payee" /\ Remarked(rows).index = 0
    <3>1. 0 \in {i \in Int : i >= -1}
      OBVIOUS
    <3>. QED  BY <2>1, <3>1 DEF PickerTyped, PickerStates
  <2>. QED  BY <1>0, <2>2
<1>2. CASE Len(rows) = Len(PayeeRows)
  <2>1. Remarked(rows) = picker
    BY <1>2 DEF Remarked
  <2>2. rows # <<>> => PayeeRows # <<>>
    BY <1>0, <1>2, <1>9
  <2>3. Within(picker.index, rows)
    BY <1>2, <2>2 DEF MarkInv, Within
  <2>. QED  BY <2>1, <2>3 DEF PickerTyped
<1>. QED  BY <1>1, <1>2

\* The steps that leave what is listed as it is and put the mark somewhere.
MarksAt(index) ==
    /\ picker' = [picker EXCEPT !.index = index]
    /\ UNCHANGED <<list, payeeAnswers, searched, value>>

LEMMA MarksAtHolds ==
    ASSUME PickerInv, NEW index \in Int, index >= -1, MarksAt(index),
           Within(index, Rows) \/ (picker.kind = "category" /\ picker.moved)
    PROVE  PickerInv'
<1>1. index \in {i \in Int : i >= -1}
  OBVIOUS
<1>2. /\ picker' \in PickerStates /\ picker'.kind = picker.kind /\ picker'.index = index
      /\ picker'.search = picker.search /\ picker'.moved = picker.moved
  BY <1>1 DEF PickerInv, PickerTyped, PickerStates, MarksAt
<1>3. PickerTyped'
  BY <1>2 DEF PickerInv, PickerTyped, MarksAt
<1>4. PayeeRows' = PayeeRows /\ OptionRows(list, picker.search)' = OptionRows(list, picker.search)
  BY <1>2 DEF MarksAt, PayeeRows
<1>5. Within(picker.index, PayeeRows)' = Within(index, PayeeRows)
  BY <1>2, <1>4 DEF Within
<1>6. Within(picker.index, OptionRows(list, picker.search))' = Within(index, OptionRows(list, picker.search))
  BY <1>2, <1>4 DEF Within
<1>7. picker.kind \in {"category", "payee"}
  BY DEF PickerInv, PickerTyped, PickerStates
<1>8. MarkInv'
  BY <1>2, <1>5, <1>6, <1>7 DEF MarkInv, Rows
<1>. QED  BY <1>3, <1>8 DEF PickerInv

\* The steps of the list that touch neither its rows nor their mark.
LEMMA ShowHolds ==
    ASSUME PickerInv, NEW b \in BOOLEAN, picker' = [picker EXCEPT !.open = b],
           picker.kind = "payee" \/ ~b,
           UNCHANGED <<list, payeeAnswers, searched>>,
           picker.kind = "payee" => value' \in Searches \cup {NoText}
    PROVE  PickerInv'
<1>1. /\ picker' \in PickerStates /\ picker'.kind = picker.kind /\ picker'.index = picker.index
      /\ picker'.open = b
  BY DEF PickerInv, PickerTyped, PickerStates
<1>2. PickerTyped'
  BY <1>1 DEF PickerInv, PickerTyped
<1>3. PayeeRows' = PayeeRows
  BY DEF PayeeRows
<1>4. picker.kind = "payee" => MarkInv'
  BY <1>1, <1>3 DEF PickerInv, MarkInv, Within
<1>5. picker.kind # "payee" => MarkInv'
  BY <1>1 DEF MarkInv
<1>. QED  BY <1>2, <1>4, <1>5 DEF PickerInv

LEMMA CategoryStep ==
    ASSUME PickerInv,
           \/ OpenCategories \/ CloseList
           \/ \E search \in Searches \cup {NoText} : SearchCategories(search)
           \/ \E l \in Lists : ListChanges(l)
    PROVE  PickerInv'
<1>1. ASSUME NEW search \in Searches \cup {NoText}, picker.kind = "category",
             picker' = [picker EXCEPT !.open = TRUE, !.search = search, !.index = 0, !.moved = FALSE],
             UNCHANGED <<list, payeeAnswers, searched, value>>
      PROVE  PickerInv'
  <2>1. 0 \in {i \in Int : i >= -1}
    OBVIOUS
  <2>2. /\ picker' \in PickerStates /\ picker'.kind = "category" /\ picker'.index = 0
        /\ picker'.search = search
    BY <1>1, <2>1 DEF PickerInv, PickerTyped, PickerStates
  <2>3. PickerTyped'
    BY <1>1, <2>2 DEF PickerInv, PickerTyped
  <2>4. OptionRows(list, search) \in Seq(Labels(list))
    BY PickerAssumption DEF PickerInv, PickerTyped
  <2>5. Within(0, OptionRows(list, search))
    BY <2>4, SeqCounted
  <2>6. Within(picker.index, OptionRows(list, picker.search))'
    BY <1>1, <2>2, <2>5 DEF Within
  <2>. QED  BY <2>2, <2>3, <2>6 DEF PickerInv, MarkInv
<1>2. CASE OpenCategories
  BY <1>2, <1>1 DEF OpenCategories
<1>3. ASSUME NEW search \in Searches \cup {NoText}, SearchCategories(search) PROVE PickerInv'
  <2>1. picker' = [picker EXCEPT !.open = TRUE, !.search = search, !.index = 0, !.moved = FALSE]
    BY <1>3 DEF SearchCategories, PickerInv, PickerTyped, PickerStates
  <2>. QED  BY <1>3, <2>1, <1>1 DEF SearchCategories
<1>4. CASE CloseList
  <2>1. picker.kind = "payee" => value' \in Searches \cup {NoText}
    BY <1>4 DEF CloseList, PickerInv, PickerTyped
  <2>. QED  BY <1>4, <2>1, ShowHolds DEF CloseList
<1>5. ASSUME NEW l \in Lists, ListChanges(l) PROVE PickerInv'
  <2>1. /\ picker' \in PickerStates /\ picker'.kind = picker.kind /\ picker'.index = picker.index
        /\ picker'.open = picker.open /\ picker'.moved = picker.open
    BY <1>5 DEF ListChanges, PickerInv, PickerTyped, PickerStates
  <2>2. PickerTyped'
    BY <1>5, <2>1 DEF ListChanges, PickerInv, PickerTyped
  <2>3. PayeeRows' = PayeeRows
    BY <1>5 DEF ListChanges, PayeeRows
  <2>4. picker.kind = "payee" => MarkInv'
    BY <2>1, <2>3 DEF PickerInv, MarkInv, Within
  <2>5. picker.kind # "payee" => MarkInv'
    BY <2>1 DEF MarkInv
  <2>. QED  BY <2>2, <2>4, <2>5 DEF PickerInv
<1>. QED  BY <1>2, <1>3, <1>4, <1>5

LEMMA KeyStep ==
    ASSUME PickerInv,
           ArrowDown \/ ArrowUp \/ Enter \/ \E i \in DOMAIN Rows : Hover(i) \/ Click(i)
    PROVE  PickerInv'
<1>1. PickerTyped /\ Len(Rows) \in Nat /\ DOMAIN Rows = 1 .. Len(Rows) /\ (Rows # <<>> => Len(Rows) > 0)
  BY RowsCounted, SeqCounted DEF PickerInv
<1>2. picker.index \in Int /\ picker.index >= -1 /\ picker.kind \in {"category", "payee"}
  BY DEF PickerInv, PickerTyped, PickerStates
<1>3. CASE ArrowDown
  <2>. DEFINE below == picker.index + 1
              index == IF below < Len(Rows) THEN below ELSE Len(Rows) - 1
  <2>1. index \in Int /\ index >= -1 /\ Within(index, Rows)
    BY <1>1, <1>2 DEF Within
  <2>2. MarksAt(index)
    BY <1>3 DEF ArrowDown, MarksAt
  <2>. QED  BY <2>1, <2>2, MarksAtHolds
<1>4. CASE ArrowUp
  <2>. DEFINE index == IF picker.index > 0 THEN picker.index - 1 ELSE 0
  <2>1. index \in Int /\ index >= -1
    BY <1>2
  <2>2. MarksAt(index)
    BY <1>4 DEF ArrowUp, MarksAt
  <2>3. Within(picker.index, Rows) \/ (picker.kind = "category" /\ picker.moved)
    BY <1>2, <1>4 DEF ArrowUp, PickerInv, PickerTyped, PickerStates, MarkInv, Rows
  <2>4. Within(index, Rows) \/ (picker.kind = "category" /\ picker.moved)
    BY <1>1, <1>2, <2>3 DEF Within
  <2>. QED  BY <2>1, <2>2, <2>4, MarksAtHolds
<1>5. ASSUME NEW i \in DOMAIN Rows, Hover(i) PROVE PickerInv'
  <2>1. i - 1 \in Int /\ i - 1 >= -1 /\ Within(i - 1, Rows)
    BY <1>1, MarkOnRow
  <2>2. MarksAt(i - 1)
    BY <1>5 DEF Hover, MarksAt
  <2>. QED  BY <2>1, <2>2, MarksAtHolds
<1>6. ASSUME NEW i, Choose(i) PROVE PickerInv'
  <2>1. picker.kind = "payee" => value' \in Searches \cup {NoText}
    <3>1. PayeeRows \in Seq(Searches)
      BY <1>1, PayeeRowsTyped
    <3>2. i \in DOMAIN Rows /\ value' = Rows[i]
      BY <1>6 DEF Choose
    <3>. QED  BY <3>1, <3>2 DEF Rows
  <2>. QED  BY <1>6, <2>1, ShowHolds DEF Choose
<1>. QED  BY <1>3, <1>4, <1>5, <1>6 DEF Enter, Click

LEMMA PayeeSteps ==
    ASSUME PickerInv,
           \/ \E text \in Searches \cup {NoText} : TypePayee(text)
           \/ FocusPayee \/ DebouncePayee
           \/ \E rows \in UNION {PayeeLists[s] : s \in Searches} : PayeesArrive(rows)
    PROVE  PickerInv'
<1>1. ASSUME NEW text \in Searches \cup {NoText}, TypePayee(text) PROVE PickerInv'
  BY <1>1, ShowHolds DEF TypePayee
<1>2. CASE FocusPayee
  <2>1. value' \in Searches \cup {NoText}
    BY <1>2 DEF FocusPayee, PickerInv, PickerTyped
  <2>. QED  BY <1>2, <2>1, ShowHolds DEF FocusPayee
<1>3. ASSUME NEW rows \in Seq(Searches), picker.kind = "payee", picker' = Remarked(rows),
             PayeeRows' = rows, PickerTyped'
      PROVE  PickerInv'
  <2>1. Within(Remarked(rows).index, rows) /\ Remarked(rows).kind = "payee"
    BY <1>3, RemarkedTyped DEF PickerInv
  <2>2. Within(picker.index, PayeeRows)'
    BY <1>3, <2>1 DEF Within
  <2>. QED  BY <1>3, <2>1, <2>2 DEF PickerInv, MarkInv
<1>4. CASE DebouncePayee
  <2>. DEFINE rows == IF value = NoText THEN <<>> ELSE payeeAnswers[value]
  <2>1. rows \in Seq(Searches) /\ picker.kind = "payee" /\ value \in Searches \cup {NoText}
    BY <1>4 DEF DebouncePayee, PickerInv, PickerTyped
  <2>2. picker' = Remarked(rows) /\ UNCHANGED <<list, payeeAnswers, value>> /\ searched' = value
    BY <1>4 DEF DebouncePayee
  <2>3. PayeeRows' = rows
    BY <2>2 DEF PayeeRows
  <2>4. Remarked(rows) \in PickerStates
    BY <2>1, RemarkedTyped DEF PickerInv
  <2>5. PickerTyped'
    BY <2>1, <2>2, <2>4 DEF PickerInv, PickerTyped
  <2>. HIDE DEF rows
  <2>. QED  BY <2>1, <2>2, <2>3, <2>5, <1>3
<1>5. ASSUME NEW rows, PayeesArrive(rows) PROVE PickerInv'
  <2>1. /\ picker.kind = "payee" /\ searched \in Searches /\ rows \in PayeeLists[searched]
        /\ picker' = Remarked(rows) /\ UNCHANGED <<list, searched, value>>
        /\ payeeAnswers' = [payeeAnswers EXCEPT ![searched] = rows]
    BY <1>5 DEF PayeesArrive, PickerInv, PickerTyped
  <2>2. rows \in Seq(Searches)
    BY <2>1, PickerAssumption
  <2>3. PayeeRows' = rows
    BY <2>1, PickerAssumption DEF PayeeRows, PickerInv, PickerTyped
  <2>4. Remarked(rows) \in PickerStates
    BY <2>1, <2>2, RemarkedTyped DEF PickerInv
  <2>5. PickerTyped'
    BY <2>1, <2>2, <2>4 DEF PickerInv, PickerTyped
  <2>. QED  BY <2>1, <2>2, <2>3, <2>5, <1>3
<1>. QED  BY <1>1, <1>2, <1>4, <1>5

LEMMA PickerInvariant == PickerSpec => []PickerInv
<1>1. PickerInv /\ UNCHANGED pickerVars => PickerInv'
  <2>. SUFFICES ASSUME PickerInv, UNCHANGED pickerVars PROVE PickerInv'  OBVIOUS
  <2>1. UNCHANGED <<picker, list, payeeAnswers, searched, value>>
    BY DEF pickerVars
  <2>2. PickerTyped'
    BY <2>1 DEF PickerInv, PickerTyped
  <2>3. PayeeRows' = PayeeRows
    BY <2>1 DEF PayeeRows
  <2>4. MarkInv'
    BY <2>1, <2>3 DEF PickerInv, MarkInv, Within
  <2>. QED  BY <2>2, <2>4 DEF PickerInv
<1>2. PickerInv /\ [PickerNext]_pickerVars => PickerInv'
  BY <1>1, CategoryStep, KeyStep, PayeeSteps DEF PickerNext
<1>. QED  BY <1>2, PickerInitially, PTL DEF PickerSpec

\* The pickers' fields hold what they can hold.
THEOREM PickerTypesHold == PickerSpec => []PickerTypeOK
<1>1. PickerInv => PickerTypeOK
  <2>. SUFFICES ASSUME PickerInv PROVE PickerTypeOK  OBVIOUS
  <2>1. /\ picker.kind \in {"category", "payee"} /\ picker.open \in BOOLEAN /\ picker.moved \in BOOLEAN
        /\ picker.search \in Searches \cup {NoText} /\ picker.index \in Int /\ picker.index >= -1
    BY DEF PickerInv, PickerTyped, PickerStates
  <2>. QED  BY <2>1 DEF PickerInv, PickerTyped, PickerTypeOK
<1>. QED  BY <1>1, PickerInvariant, PTL

\* Enter takes the row that is marked: for any lists, searches and answers, in
\* any order of keys, debounces and refetches, an open list with rows has its
\* marked one, but for a CategoryPicker whose list its form has replaced since.
THEOREM MarkedRowsExist == PickerSpec => []MarkedRowExists
<1>1. PickerInv => MarkedRowExists
  <2>. SUFFICES ASSUME PickerInv, picker.open, ~picker.moved, Rows # <<>>
                PROVE  picker.index + 1 \in DOMAIN Rows
    BY DEF MarkedRowExists
  <2>1. DOMAIN Rows = 1 .. Len(Rows)
    BY RowsCounted, SeqCounted DEF PickerInv
  <2>2. Within(picker.index, Rows)
    BY DEF PickerInv, PickerTyped, PickerStates, MarkInv, Rows
  <2>. QED  BY <2>1, <2>2 DEF Within
<1>. QED  BY <1>1, PickerInvariant, PTL

-----------------------------------------------------------------------------
(***************************************************************************)
(* The sync quota, for any number of tabs, any quota and any overlap. A    *)
(* run enters the count of its day when it commits, but its trigger looked *)
(* at the count before: SpentToday says what the runs that are still going may  *)
(* add to it.                                                              *)
(***************************************************************************)
(* Every run of today is counted or going; those that are going were let   *)
(* in while the count was below the quota, and never more than most of     *)
(* them at a time.                                                         *)
SpentToday ==
  /\ running.today <= most
  /\ most = 0 => used = linked
  /\ most > 0 => used - linked + running.today < MaxPerDay + most

QuotaInv == QuotaTypeOK /\ SpentToday

-----------------------------------------------------------------------------
(* RunsLeft is a number the page can show.                                 *)
LEMMA RunsLeftBounds ==
  ASSUME used \in Nat
  PROVE  RunsLeft \in -1 .. MaxPerDay
  BY QuotaAssumption DEF RunsLeft

(* Two flags, set to Boolean values, are Boolean.                          *)
LEMMA FlagsOK ==
  ASSUME NEW f \in BOOLEAN, NEW g \in BOOLEAN
  PROVE  {f, g} \subseteq BOOLEAN
  BY Zenon

LEMMA QuotaInitially == QuotaInit => QuotaInv
<1> SUFFICES ASSUME QuotaInit PROVE QuotaInv
  OBVIOUS
<1>1. {cooling, due} \subseteq BOOLEAN
  BY Zenon DEF QuotaInit
<1>2. shown \in [Tabs -> -1 .. MaxPerDay]
  <2>1. -1 \in -1 .. MaxPerDay
    BY QuotaAssumption
  <2> QED BY <2>1 DEF QuotaInit
<1>3. QuotaTypeOK
  BY <1>1, <1>2 DEF QuotaInit, QuotaTypeOK
<1> QED BY <1>3 DEF QuotaInit, QuotaInv, SpentToday

(* A run is started while the committed runs leave one.                    *)
LEMMA StartKeeps ==
  ASSUME QuotaInv, NEW a \in Actors, Start(a), RunsLeft > 0,
         UNCHANGED <<used, linked, shown>>, {cooling', due'} \subseteq BOOLEAN
  PROVE  QuotaInv'
<1>1. used < MaxPerDay /\ used \in Nat /\ linked \in Nat
  BY QuotaAssumption DEF QuotaInv, QuotaTypeOK, RunsLeft
<1>2. running' = [today |-> running.today + 1, before |-> running.before]
  BY DEF Start, QuotaInv, QuotaTypeOK
<1>3. QuotaTypeOK'
  BY <1>2 DEF Start, QuotaInv, QuotaTypeOK
<1>4. SpentToday'
  BY <1>1, <1>2, QuotaAssumption DEF Start, QuotaInv, QuotaTypeOK, SpentToday
<1> QED BY <1>3, <1>4 DEF QuotaInv

(* A run of some day ends: its row commits, or it is lost.                 *)
LEMMA EndKeeps ==
  ASSUME QuotaInv, NEW a, NEW day \in {"today", "before"},
         Committed(a, day) \/ RunLost(a, day)
  PROVE  QuotaInv'
<1>1. cooling' \in BOOLEAN /\ due' \in BOOLEAN
  <2>1. cooling \in BOOLEAN /\ due \in BOOLEAN
    BY Zenon DEF QuotaInv, QuotaTypeOK
  <2> QED BY <2>1, Zenon DEF Committed, RunLost
<1>2. {cooling', due'} \subseteq BOOLEAN
  BY <1>1, FlagsOK, Zenon
<1>3. waiting' \subseteq Actors /\ shown' = shown /\ most' = most /\ linked' = linked
  BY DEF Committed, RunLost, QuotaInv, QuotaTypeOK
<1>4. CASE day = "today"
  <2>1. running' = [today |-> running.today - 1, before |-> running.before]
    BY <1>4 DEF Committed, RunLost, QuotaInv, QuotaTypeOK
  <2>2. running.today > 0 /\ used' \in {used, used + 1}
    BY <1>4 DEF Committed, RunLost
  <2>3. QuotaTypeOK'
    BY <2>1, <2>2, <1>2, <1>3 DEF QuotaInv, QuotaTypeOK
  <2>4. SpentToday'
    BY <2>1, <2>2, QuotaAssumption DEF Committed, RunLost, QuotaInv, QuotaTypeOK, SpentToday
  <2> QED BY <2>3, <2>4 DEF QuotaInv
<1>5. CASE day = "before"
  <2>1. running' = [today |-> running.today, before |-> running.before - 1]
    BY <1>5 DEF Committed, RunLost, QuotaInv, QuotaTypeOK
  <2>2. running.before > 0 /\ used' = used
    BY <1>5 DEF Committed, RunLost
  <2>3. QuotaTypeOK'
    BY <2>1, <2>2, <1>2, <1>3 DEF QuotaInv, QuotaTypeOK
  <2>4. SpentToday'
    BY <2>1, <2>2, QuotaAssumption DEF Committed, RunLost, QuotaInv, QuotaTypeOK, SpentToday
  <2> QED BY <2>3, <2>4 DEF QuotaInv
<1> QED BY <1>4, <1>5

LEMMA LinkKeeps == QuotaInv /\ LinkRun => QuotaInv'
<1> SUFFICES ASSUME QuotaInv, LinkRun PROVE QuotaInv'
  OBVIOUS
<1>1. cooling' \in BOOLEAN /\ due' \in BOOLEAN
  BY Zenon DEF LinkRun
<1>2. {cooling', due'} \subseteq BOOLEAN
  BY <1>1, FlagsOK, Zenon
<1>3. QuotaTypeOK'
  BY <1>2 DEF QuotaInv, QuotaTypeOK, LinkRun
<1>4. SpentToday'
  BY QuotaAssumption DEF QuotaInv, QuotaTypeOK, SpentToday, LinkRun
<1> QED BY <1>3, <1>4 DEF QuotaInv

LEMMA RestartKeeps == QuotaInv /\ Restart => QuotaInv'
  BY QuotaAssumption DEF QuotaInv, QuotaTypeOK, SpentToday, Restart

LEMMA NewDayKeeps == QuotaInv /\ NewDay => QuotaInv'
  BY QuotaAssumption DEF QuotaInv, QuotaTypeOK, SpentToday, NewDay, Going

(* What the pages see, and the clock, touch no count.                      *)
LEMMA ShownKeeps ==
  ASSUME QuotaInv, NEW t \in Tabs, StatusArrives(t) \/ PressRefused(t)
  PROVE  QuotaInv'
  BY RunsLeftBounds DEF QuotaInv, QuotaTypeOK, SpentToday, StatusArrives, PressRefused

LEMMA QuietKeeps ==
  ASSUME QuotaInv,
         \/ \E t \in Tabs : Remount(t)
         \/ CooldownPasses \/ IntervalPasses \/ UNCHANGED quotaVars
  PROVE  QuotaInv'
  BY DEF QuotaInv, QuotaTypeOK, SpentToday, Remount, CooldownPasses, IntervalPasses, quotaVars

LEMMA QuotaStep == QuotaInv /\ [QuotaNext]_quotaVars => QuotaInv'
<1> SUFFICES ASSUME QuotaInv, [QuotaNext]_quotaVars PROVE QuotaInv'
  OBVIOUS
<1>1. ASSUME NEW t \in Tabs, PressSync(t) PROVE QuotaInv'
  <2>1. {cooling', due'} \subseteq BOOLEAN /\ t \in Actors
    BY <1>1 DEF PressSync, QuotaInv, QuotaTypeOK, Actors
  <2> QED BY <1>1, <2>1, StartKeeps DEF PressSync, MayRun
<1>2. ASSUME Tick PROVE QuotaInv'
  <2>1. {cooling', due'} \subseteq BOOLEAN /\ Scheduler \in Actors
    BY <1>2 DEF Tick, QuotaInv, QuotaTypeOK, Actors
  <2> QED BY <1>2, <2>1, StartKeeps DEF Tick
<1>3. ASSUME NEW a, NEW day \in {"today", "before"}, Committed(a, day) \/ RunLost(a, day)
      PROVE  QuotaInv'
  BY <1>3, EndKeeps
<1>4. ASSUME LinkRun \/ Restart \/ NewDay PROVE QuotaInv'
  BY <1>4, LinkKeeps, RestartKeeps, NewDayKeeps
<1>5. ASSUME NEW t \in Tabs, StatusArrives(t) \/ PressRefused(t) PROVE QuotaInv'
  BY <1>5, ShownKeeps
<1>6. ASSUME \/ \E t \in Tabs : Remount(t)
             \/ CooldownPasses \/ IntervalPasses \/ UNCHANGED quotaVars
      PROVE  QuotaInv'
  BY <1>6, QuietKeeps
<1> QED BY <1>1, <1>2, <1>3, <1>4, <1>5, <1>6 DEF QuotaNext

-----------------------------------------------------------------------------
LEMMA QuotaInvariant == QuotaSpec => []QuotaInv
  BY QuotaInitially, QuotaStep, PTL DEF QuotaSpec

(* Every number the quota is computed from, and every number a tab shows,  *)
(* keeps its range, for any number of tabs and runs.                       *)
THEOREM QuotaTypesHold == QuotaSpec => []QuotaTypeOK
<1>1. QuotaInv => QuotaTypeOK
  BY DEF QuotaInv
<1> QED BY <1>1, QuotaInvariant, PTL

(* However the tabs, the scheduler, lost runs, restarts and midnight       *)
(* interleave, the runs of a day exceed the quota by less than the number  *)
(* that went on at once (quota_remaining looks at committed runs only).    *)
THEOREM QuotaHolds == QuotaSpec => []RunsNearLimit
<1>1. QuotaInv => RunsNearLimit
  BY QuotaAssumption DEF QuotaInv, QuotaTypeOK, SpentToday, RunsNearLimit
<1> QED BY <1>1, QuotaInvariant, PTL
=============================================================================

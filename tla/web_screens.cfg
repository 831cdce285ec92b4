\* Every web screen by itself.
SPECIFICATION MCSpec
CONSTANTS
  Screens = {"form", "picker", "list", "linking", "account", "quota", "accounts",
             "budget", "categories", "settings", "import", "insights"}
  a1 = a1  a2 = a2  c1 = c1  c2 = c2  c3 = c3  t1 = t1  t2 = t2  x1 = x1
  p1 = p1  p2 = p2  r1 = r1  r2 = r2  all = all
  m1 = m1  m2 = m2  m3 = m3  m4 = m4  e1 = e1  e2 = e2  b1 = b1  b2 = b2
  \* the forms
  Blank = Blank
  CategoriesOf <- MCCategoriesOf
  FirstAccount = a1
  Texts = {t1, t2}
  Top <- MCTop
  SavedRows <- MCSavedRows
  Amounts = {1, 2}
  MaxInputs = 3
  \* the pickers
  NoText = NoText
  Searches = {t1, t2}
  Matching <- MCMatching
  Lists <- MCLists
  PayeeLists <- MCPayeeLists
  \* the list
  All = all
  Gone = Gone
  NoRow = NoRow
  RowIds = {r1, r2}
  Traits <- MCTraits
  FilterSets <- MCFilterSets
  MaxChanges = 1
  \* linking
  NoModal = NoModal
  Matches <- MCMatches
  PayeeMatches = {m2}
  MaxElsewhere = 1
  \* an account
  Unparsed = Unparsed
  Plain = Plain
  Transfer = Transfer
  NoSubject = NoSubject
  EntryAmounts <- MCEntryAmounts
  EntryChoices = {Plain, c1, Transfer}
  AccountRows = {r1}
  MaxEntries = 2
  \* the sync quota
  Tabs = {b1, b2}
  Scheduler = Scheduler
  NoActor = NoActor
  MaxPerDay = 1
  MaxOverlap = 3
  MaxLinks = 1
  \* the accounts
  AccountIds = {a1, a2}
  Edits = {e1, e2}
  ClosedEdits = {e2}
  Banks <- MCBanks
  Absent = Absent
  NoPick = NoPick
  MaxAccountCalls = 1
  \* the budget
  Cats = {c1, c3}
  CatOrder <- MCCatOrder
  LastMonth = 2
  Goals <- MCGoals
  Activity <- MCActivity
  Income <- MCIncome
  TypedAmounts = {4}
  Blanked = Blanked
  NoCat = NoCat
  NoData = NoData
  MaxPresses = 2
  \* the categories
  GroupIds = {1, 2}
  CategoryIds = {3, 4}
  GroupScopes = {e1, e2}
  NoId = NoId
  NoScope = NoScope
  MaxImportRows = 2
  MaxCategoryCalls = 2
  \* the settings
  ConfirmDelay = 2
  ResetOptions = {x1}
  PayeeIds = {p1, p2}
  RowScopes = {m1, m2}
  UsedScopes = {}
  NoPayee = NoPayee
  MaxClock = 3
  MaxSettingsCalls = 2
  \* the imports
  Kinds = {"transactions", "categories"}
  Files <- MCFiles
  Chars = {"q", "c", "s", "a", "g"}
  Quote = "q"
  Comma = "c"
  Space = "s"
  Width = 3
  Layout <- MCLayout
  AccountScopes <- MCAccountScopes
  NamedGroups <- MCGroups
  AccountOf <- MCAccountOf
  NoAccount = NoAccount
  Skip = Skip
  NoFile = NoFile
  NoCategory = NoCategory
  MaxReads = 2
  \* insights
  Presets = {"1M", "3M", "YTD"}
  CurrentMonth <- MCNow
  Postings <- MCPostings
  Scopes = {"personal", "family"}
  ScopeOfGroup <- MCScopeOfGroup
  GroupOf <- MCGroupOf
  Uncategorized = "none"
  NoRange = NoRange
  MaxTurns = 3
INVARIANTS
  ScreensTypeOK
  MarkedRowExists
  CategoryInScope
  SavedCategoryKept
  CountsTheCascade
  SequenceStaysOpen
  EntriesMoveAsTyped
  RunsNearLimit
  GoalsNotOverfunded
  OrderIsAsDropped
  RowsAsWritten
  BarsFillTheirWhole
PROPERTIES
  HandChoiceStays
  ResetWaits
\* The pages come to rest: a user who has used up the bounds does nothing more.
CHECK_DEADLOCK FALSE

\* One tab, two pages' calls: a lost refresh, or a second sign-in, over the first one too.
SPECIFICATION FairSpec
CONSTANTS
  None = None
  r1 = r1
  r2 = r2
  r3 = r3
  tab = tab
  budgetPage = budgetPage
  accountsPage = accountsPage
  MaxTokens = 3
  Slots = {r1, r2}
  Tabs = {tab}
  Calls = {budgetPage, accountsPage}
  TabOf <- OneTab
  MaxEvents = 2
INVARIANTS
  TypeOK
  SignedInStays
  OwnTokenNeverReplayed
PROPERTIES
  CallsFinish
  ServedByTokens

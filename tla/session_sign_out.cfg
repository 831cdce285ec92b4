\* Signing out while a refresh is under way.
SPECIFICATION Spec
CONSTANTS
  None = None
  r1 = r1
  r2 = r2
  r3 = r3
  tab = tab
  budgetPage = budgetPage
  accountsPage = accountsPage
  MaxTokens = 3
  Slots = {r1, r2}
  Tabs = {tab}
  Calls = {budgetPage, accountsPage}
  TabOf <- OneTab
  MaxEvents = 1
INVARIANTS
  StaysSignedOut

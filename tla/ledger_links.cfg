\* What the user does by hand: categories, flags, splits and transfers,
\* in three accounts of two scopes.
SPECIFICATION Spec
CONSTANTS
  None = None
  t1 = t1
  t2 = t2
  t3 = t3
  checking = checking
  savings = savings
  wallet = wallet
  food = food
  e1 = e1
  e2 = e2
  opening = opening
  shop = shop
  bookkeeping = bookkeeping
  TxnIds <- MCTxnIds
  AccountScope <- MCAccountScope
  MatchWindow = 3
  Accounts <- ThreeAccounts
  Connections = {}
  ExtIds = {}
  OpeningIds = {}
  ImportAccount <- NoImportAccount
  Categories <- MCCategories
  CategoryScope <- MCCategoryScope
  Payees = {shop}
  SyntheticPayees = {}
  Amounts <- SmallAmounts
  Dates = {0}
  SplitInputs <- Groceries
  RtaInputs = {FALSE, TRUE}
SYMMETRY TxnSymmetry
INVARIANTS
  PeersMutual
  LegsCancel
  LegsApart
PROPERTIES
  LegsUncategorized
  CategorizedInScope

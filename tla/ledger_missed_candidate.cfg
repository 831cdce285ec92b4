\* The candidate table after the bank of one of three accounts was unlinked.
SPECIFICATION Spec
CONSTANTS
  None = None
  t1 = t1
  t2 = t2
  t3 = t3
  checking = checking
  savings = savings
  wallet = wallet
  food = food
  e1 = e1
  e2 = e2
  opening = opening
  shop = shop
  bookkeeping = bookkeeping
  TxnIds <- MCTxnIds
  AccountScope <- MCAccountScope
  MatchWindow = 3
  Accounts <- ThreeAccounts
  Connections <- OneBank
  ExtIds <- FirstBankIds
  OpeningIds = {}
  ImportAccount <- FirstImportAccount
  Categories = {}
  CategoryScope <- NoCategoryScope
  Payees = {shop, bookkeeping}
  SyntheticPayees = {bookkeeping}
  Amounts <- UnitAmounts
  Dates = {0}
  SplitInputs = {}
  RtaInputs = {FALSE}
SYMMETRY TxnSymmetry
INVARIANTS
  CandidatesComplete

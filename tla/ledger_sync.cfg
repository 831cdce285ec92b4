\* Bank imports, revisions and tombstones next to manual and bookkeeping rows,
\* in two accounts linked to two banks, one with an opening balance; dates
\* at the edge of the match window.
SPECIFICATION Spec
CONSTANTS
  None = None
  t1 = t1
  t2 = t2
  t3 = t3
  checking = checking
  savings = savings
  wallet = wallet
  food = food
  e1 = e1
  e2 = e2
  opening = opening
  shop = shop
  bookkeeping = bookkeeping
  TxnIds <- MCTxnIds
  AccountScope <- MCAccountScope
  MatchWindow = 3
  Accounts <- TwoAccounts
  Connections <- TwoBanks
  ExtIds = {opening, e2}
  OpeningIds = {opening}
  ImportAccount <- OpeningAndBank
  Categories = {}
  CategoryScope <- NoCategoryScope
  Payees = {shop, bookkeeping}
  SyntheticPayees = {bookkeeping}
  Amounts <- UnitAmounts
  Dates = {0, 3}
  SplitInputs = {}
  RtaInputs = {FALSE}
SYMMETRY TxnSymmetry
INVARIANTS
  TypeOK
  ImportedOnceNeverRevived
  CandidatesConfirmable
  CandidatesComplete
PROPERTIES
  BankOwnsAmounts
  BankRowsLeaveATombstone

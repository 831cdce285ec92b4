-------------------------- MODULE MCTransferLedger --------------------------
(* TLC instances of TransferLedger.                                        *)
EXTENDS TransferLedger, TLC

CONSTANTS t1, t2, t3, checking, savings, wallet, food, e1, e2, opening,
          shop, bookkeeping

MCTxnIds == {t1, t2, t3}
TxnSymmetry == Permutations(MCTxnIds)

UnitAmounts == {-1, 1}
SmallAmounts == {-1, 0, 1}

TwoAccounts == {checking, savings}
ThreeAccounts == {checking, savings, wallet}
MCAccountScope ==
  [a \in ThreeAccounts |-> IF a = savings THEN "family" ELSE "personal"]
MCCategories == {food}
MCCategoryScope == [c \in MCCategories |-> "personal"]
NoCategoryScope == [c \in {} |-> "personal"]

OneBank == {{checking}}
TwoBanks == {{checking}, {savings}}
OpeningAndBank == (opening :> checking @@ e2 :> savings)
FirstBankIds == {e1}
FirstImportAccount == [e \in FirstBankIds |-> checking]
NoImportAccount == [e \in {} |-> checking]

(* One list of two lines, one of them outside any category. *)
Groceries ==
  {<<[cat |-> food, amount |-> 1], [cat |-> None, amount |-> 0]>>}
Uncategorized ==
  {<<[cat |-> None, amount |-> 1], [cat |-> None, amount |-> 0]>>}
=============================================================================

\* A refetch of the edited row between the user's choice and a suggestion.
SPECIFICATION MCSpec
CONSTANTS
  a1 = a1  c1 = c1  c2 = c2  t1 = t1  t2 = t2
  Blank = Blank
  CategoriesOf <- MCCategoriesOf
  FirstAccount = a1
  Texts = {t1, t2}
  Top <- MCTop
  SavedRows <- MCSavedRows
  Amounts = {2}
  MaxInputs = 3
INVARIANT SuggestionsNeverOverride
CHECK_DEADLOCK FALSE

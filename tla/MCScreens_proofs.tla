-------------------------- MODULE MCScreens_proofs --------------------------
(***************************************************************************)
(* MCScreens implements the specification of every screen, and so has what *)
(* is proved of each.                                                       *)
(***************************************************************************)
EXTENDS MCScreens, Screens_proofs, SumsAndOrder_proofs, ImportDialogs_proofs

LEMMA ScreenMoves ==
    [MCNext]_<<screen, formVars, pickerVars, listVars, linkVars, accountVars, quotaVars,
               accountsVars, budgetVars, categoriesVars, settingsVars, importVars, insightsVars>>
    => /\ [FormNext]_formVars
       /\ [PickerNext]_pickerVars
       /\ [ListNext]_listVars
       /\ [LinkingNext]_linkVars
       /\ [AccountNext]_accountVars
       /\ [QuotaNext]_quotaVars
       /\ [AccountsNext]_accountsVars
       /\ [BudgetNext]_budgetVars
       /\ [CategoriesNext]_categoriesVars
       /\ [SettingsNext]_settingsVars
       /\ [ImportNext]_importVars
       /\ [InsightsNext]_insightsVars
  BY Zenon DEF MCNext

\* Whichever screen moves, each behaves as its own module says.
THEOREM EveryScreenByItself ==
    MCSpec => /\ FormSpec /\ PickerSpec /\ ListSpec /\ LinkingSpec
              /\ AccountSpec /\ QuotaSpec /\ AccountsSpec
              /\ BudgetSpec /\ CategoriesSpec /\ SettingsSpec /\ ImportSpec /\ InsightsSpec
<1>1. MCInit => /\ FormInit /\ PickerInit /\ ListInit /\ LinkInit
                /\ AccountInit /\ QuotaInit /\ AccountsInit
                /\ BudgetInit /\ CategoriesInit /\ SettingsInit /\ ImportInit /\ InsightsInit
  BY Zenon DEF MCInit
<1>. QED
  BY <1>1, ScreenMoves, PTL
  DEF MCSpec, FormSpec, PickerSpec, ListSpec, LinkingSpec, AccountSpec, QuotaSpec, AccountsSpec,
      BudgetSpec, CategoriesSpec, SettingsSpec, ImportSpec, InsightsSpec

\* The screens' variables have their types in whichever of them the user is.
THEOREM ScreensTypesHold == MCSpec => []ScreensTypeOK
<1>1. MCSpec => [](/\ FormTypeOK /\ PickerTypeOK /\ ListTypeOK /\ LinkingTypeOK
                   /\ AccountTypeOK /\ QuotaTypeOK /\ AccountsTypeOK
                   /\ BudgetTypeOK /\ CategoriesTypeOK /\ SettingsTypeOK /\ ImportTypeOK /\ InsightsTypeOK)
  BY EveryScreenByItself, FormTypesHold, PickerTypesHold, ListTypesHold, LinkingTypesHold,
     AccountTypesHold, QuotaTypesHold, AccountsTypesHold,
     BudgetTypesHold, CategoriesTypesHold, SettingsTypesHold, ImportTypesHold, InsightsTypesHold, PTL
<1>2. /\ FormTypeOK /\ PickerTypeOK /\ ListTypeOK /\ LinkingTypeOK
      /\ AccountTypeOK /\ QuotaTypeOK /\ AccountsTypeOK
      /\ BudgetTypeOK /\ CategoriesTypeOK /\ SettingsTypeOK /\ ImportTypeOK /\ InsightsTypeOK
      => ScreensTypeOK
  BY Zenon DEF ScreensTypeOK
<1>. QED  BY <1>1, <1>2, PTL
=============================================================================

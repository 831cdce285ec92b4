-------------------------- MODULE CategoriesScreen --------------------------
(***************************************************************************)
(* CategoriesPage: groups and their categories in an order the user drags, *)
(* saved by one PATCH per item, and the dialogs that edit, move and delete *)
(* them over a list that other tabs change.                                *)
(***************************************************************************)
EXTENDS Naturals, FiniteSets, SequencesExt

CONSTANTS
    GroupIds, CategoryIds,   \* disjoint sets of numbers, as the server gives ids
    GroupScopes,
    NoId, NoScope,
    MaxImportRows,              \* the most rows an import brings
    MaxCategoryCalls         \* bound on the drags and calls

ASSUME CategoriesAssumption ==
    /\ IsFiniteSet(GroupIds) /\ GroupIds # {} /\ GroupIds \subseteq Nat
    /\ IsFiniteSet(CategoryIds) /\ CategoryIds \subseteq Nat /\ GroupIds \cap CategoryIds = {}
    /\ NoId \notin GroupIds \cup CategoryIds /\ NoScope \notin GroupScopes
    /\ {MaxImportRows, MaxCategoryCalls} \subseteq Nat

VARIABLES
    groupScope,   \* group |-> its scope, or none: there is no such group
    groupOf,      \* category |-> its group, or none
    sortOrder,    \* item |-> sort_order
    tree,         \* the list on the page: groups and their scopes, and categories
                  \* of a group, in order
    orderCalls,   \* the PATCHes of drags in flight: [item, order]
    rowForm,      \* the category edited in its row: [id, choice]
    catDialog,    \* the dialog over the list: [name, id, choice]
    catCalls,     \* the other calls in flight, with what they name
    dropped,      \* the order the last drag made, of its group or of the groups
    mixed,        \* drags overlapped, a PATCH failed, or something else changed
    brokenPage,   \* a dialog was rendered without its group
    catCount

serverVars == <<groupScope, groupOf, sortOrder>>
dragVars == <<orderCalls, dropped, mixed>>
categoriesVars == <<serverVars, tree, dragVars, rowForm, catDialog, catCalls, brokenPage, catCount>>

-----------------------------------------------------------------------------
Groups == {g \in GroupIds : groupScope[g] # NoScope}
CategoriesIn(g) == {c \in CategoryIds : groupOf[c] = g}

\* The server lists by sort_order, then by id.
Before(i, j) == sortOrder[i] < sortOrder[j] \/ (sortOrder[i] = sortOrder[j] /\ i < j)
Sorted(s) == \A i, j \in DOMAIN s : i < j => Before(s[i], s[j])
InOrder(S) == CHOOSE s \in [1 .. Cardinality(S) -> S] : Sorted(s)

Tree ==
    [groups |-> InOrder(Groups), scopes |-> [g \in Groups |-> groupScope[g]],
     categories |-> [g \in Groups |-> InOrder(CategoriesIn(g))]]

NoRowForm == [id |-> NoId, choice |-> NoId]
NoCategoryDialog == [name |-> "none", id |-> NoId, choice |-> NoId]

CategoriesInit ==
    /\ \E s \in GroupScopes : groupScope = [g \in GroupIds |-> s]
    /\ groupOf = [c \in CategoryIds |-> CHOOSE g \in GroupIds : \A h \in GroupIds : g <= h]
    /\ sortOrder = [i \in GroupIds \cup CategoryIds |-> 0]
    /\ tree = Tree
    /\ orderCalls = {} /\ rowForm = NoRowForm /\ catDialog = NoCategoryDialog /\ catCalls = {}
    /\ dropped = <<>> /\ mixed = FALSE /\ brokenPage = FALSE /\ catCount = 0

CountCall == catCount < MaxCategoryCalls /\ catCount' = catCount + 1

\* The groups of the list that hold c.
ListedUnder(c) == {g \in DOMAIN tree.categories : c \in Range(tree.categories[g])}

\* Nothing covers the list. The dialog of a category that is gone is not shown.
OnTree ==
    /\ ~brokenPage
    /\ catDialog.name = "none" \/ (catDialog.name = "deleteCategory" /\ ListedUnder(catDialog.id) = {})

\* A refetch replaces what a drag has put on the page and may clear a dialog's
\* choice; a group's dialog without its group ends the page.
TreeArrives ==
    /\ ~brokenPage /\ tree # Tree
    /\ tree' = Tree
    /\ \E choice \in {catDialog.choice, NoId} : catDialog' = [catDialog EXCEPT !.choice = choice]
    /\ brokenPage' = (catDialog.name \in {"editGroup", "deleteGroup"} /\ catDialog.id \notin Groups)
    /\ UNCHANGED <<serverVars, dragVars, rowForm, catCalls, catCount>>

-----------------------------------------------------------------------------
\* MUTANT of Numbered: the items are numbered as they were before the drag.
NumberedBefore(old, new) == {[item |-> old[k], order |-> k - 1] : k \in DOMAIN old}

\* The page numbers the whole list anew, one PATCH per item.
Numbered(old, new) == {[item |-> new[k], order |-> k - 1] : k \in DOMAIN new}

\* findIndex, and the two splices.
Place(s, i) == CHOOSE k \in DOMAIN s : s[k] = i
Moved(s, i, over) == InsertAt(RemoveAt(s, Place(s, i)), Place(s, over), i)

\* handleDragEnd: an optimistic list and its PATCHes; a category stays in its
\* group, whatever it is dropped on.
DropGroup(g, over) ==
    /\ OnTree /\ g # over /\ {g, over} \subseteq Range(tree.groups)
    /\ CountCall
    /\ tree' = [tree EXCEPT !.groups = Moved(@, g, over)]
    /\ orderCalls' = orderCalls \cup Numbered(tree.groups, tree'.groups)
    /\ dropped' = tree'.groups
    /\ mixed' = (mixed \/ orderCalls # {})
    /\ UNCHANGED <<serverVars, rowForm, catDialog, catCalls, brokenPage>>

DropCategory(c, over) ==
    /\ OnTree /\ c # over
    /\ CountCall
    /\ \E g \in ListedUnder(c) :
        LET s == tree.categories[g]
            new == IF over \in Range(s) THEN Moved(s, c, over) ELSE s IN
        /\ tree' = [tree EXCEPT !.categories[g] = new]
        /\ orderCalls' = orderCalls \cup Numbered(s, new)
        /\ dropped' = new
    /\ mixed' = (mixed \/ orderCalls # {})
    /\ UNCHANGED <<serverVars, rowForm, catDialog, catCalls, brokenPage>>

OrderSaved(p) ==
    /\ p \in orderCalls /\ orderCalls' = orderCalls \ {p}
    /\ sortOrder' = [sortOrder EXCEPT ![p.item] = p.order]
    /\ UNCHANGED <<groupScope, groupOf, tree, rowForm, catDialog, catCalls, dropped, mixed, brokenPage, catCount>>

\* No message and no refetch.
OrderNotSaved(p) ==
    /\ p \in orderCalls /\ orderCalls' = orderCalls \ {p} /\ mixed' = TRUE
    /\ UNCHANGED <<serverVars, tree, rowForm, catDialog, catCalls, dropped, brokenPage, catCount>>

-----------------------------------------------------------------------------
\* The form in a category's row starts in its group, and offers the groups of
\* the scope.
ShowRow(f) ==
    /\ OnTree /\ rowForm' = f /\ rowForm' # rowForm
    /\ UNCHANGED <<serverVars, tree, dragVars, catDialog, catCalls, brokenPage, catCount>>

StartCategoryEdit(c) == \E g \in ListedUnder(c) : ShowRow([id |-> c, choice |-> g])

ChooseGroup(g) ==
    /\ g \in DOMAIN tree.scopes
    /\ \E h \in ListedUnder(rowForm.id) : tree.scopes[g] = tree.scopes[h]
    /\ ShowRow([rowForm EXCEPT !.choice = g])

CancelRow == ShowRow(NoRowForm)

\* The dialogs. Closing waits for the call in the buttons, not on the backdrop.
ShowDialog(d) ==
    /\ catDialog' = d
    /\ UNCHANGED <<serverVars, tree, dragVars, rowForm, catCalls, brokenPage, catCount>>

OpenGroupDialog(name, g) ==
    /\ OnTree /\ g \in Range(tree.groups) /\ name \in {"editGroup", "deleteGroup"}
    /\ ShowDialog([name |-> name, id |-> g, choice |-> NoId])

OpenCategoryDelete(c) ==
    /\ OnTree /\ ListedUnder(c) # {}
    /\ ShowDialog([name |-> "deleteCategory", id |-> c, choice |-> NoId])

OpenYnabImport == OnTree /\ ShowDialog([NoCategoryDialog EXCEPT !.name = "import"])

CloseCategoryDialog == ~brokenPage /\ ~OnTree /\ ShowDialog(NoCategoryDialog)

Pending(name) == \E k \in catCalls : k.name = name

\* A category of the scope to take the rows over.
ChooseReassign(c) ==
    /\ catDialog.name = "deleteCategory" /\ c \notin {catDialog.id, catDialog.choice}
    /\ \E g \in ListedUnder(catDialog.id), h \in ListedUnder(c) : tree.scopes[g] = tree.scopes[h]
    /\ ~Pending("deleteCategory")
    /\ ShowDialog([catDialog EXCEPT !.choice = c])

\* The scope chosen for a group with categories can be neither saved nor changed back.
ScopeStuck ==
    /\ catDialog.choice \in GroupScopes \ {tree.scopes[catDialog.id]}
    /\ tree.categories[catDialog.id] # <<>>

ChooseGroupScope(s) ==
    /\ ~brokenPage /\ catDialog.name = "editGroup" /\ ~Pending("editGroup") /\ ~ScopeStuck
    /\ s # catDialog.choice
    /\ ShowDialog([catDialog EXCEPT !.choice = s])

-----------------------------------------------------------------------------
\* A call carries what its dialog says; the forms on the page create.
SendCategoryCall(call) ==
    /\ ~brokenPage /\ CountCall
    /\ catCalls' = catCalls \cup {call}
    /\ UNCHANGED <<serverVars, tree, dragVars, rowForm, catDialog, brokenPage>>

CategoryCall(name, id) == [name |-> name, id |-> id, choice |-> NoId]

\* The dialogs wait for their own call; the row's form does not.
SubmitRow ==
    /\ OnTree /\ ListedUnder(rowForm.id) # {}
    /\ SendCategoryCall([name |-> "editCategory", id |-> rowForm.id, choice |-> rowForm.choice])

SubmitDialog ==
    /\ catDialog.name \in {"editGroup", "deleteGroup", "deleteCategory"}
    /\ ~OnTree /\ ~Pending(catDialog.name)
    /\ catDialog.name = "editGroup" => ~brokenPage /\ ~ScopeStuck
    /\ SendCategoryCall(catDialog)

SubmitNew ==
    /\ OnTree
    /\ \/ SendCategoryCall(CategoryCall("newGroup", NoId))
       \/ \E g \in Range(tree.groups) : SendCategoryCall(CategoryCall("newCategory", g))

\* An import: each of its rows is a new category of a group on the list or of a
\* new group, and one call carries them all.
SubmitImport ==
    /\ catDialog.name = "import" /\ ~Pending("import")
    /\ \E rows \in SeqOf(Range(tree.groups) \cup {NoId}, MaxImportRows) \ {<<>>} :
        SendCategoryCall([name |-> "import", rows |-> rows])

NewItem(S) == CHOOSE i \in S : \A j \in S : i <= j
FreeGroups == GroupIds \ Groups
FreeCategories == {c \in CategoryIds : groupOf[c] = NoId}
ScopeOf(c) == groupScope[groupOf[c]]

AddCategory(g, order) ==
    /\ FreeCategories # {} /\ g \in Groups
    /\ groupOf' = [groupOf EXCEPT ![NewItem(FreeCategories)] = g]
    /\ sortOrder' = [sortOrder EXCEPT ![NewItem(FreeCategories)] = order]
    /\ UNCHANGED groupScope

\* One category per row, numbered on from those its group has by then.
ImportCategories(rows) ==
    \E new \in [DOMAIN rows -> FreeCategories] :
        LET RowOf(c) == CHOOSE k \in DOMAIN rows : new[k] = c
            Order(k) == Cardinality(CategoriesIn(rows[k])) + Cardinality({j \in 1 .. k - 1 : rows[j] = rows[k]}) IN
        /\ \A j, k \in DOMAIN rows : j < k => new[j] < new[k]
        /\ groupOf' = [c \in CategoryIds |-> IF c \in Range(new) THEN rows[RowOf(c)] ELSE groupOf[c]]
        /\ sortOrder' = [i \in GroupIds \cup CategoryIds |->
                            IF i \in Range(new) THEN Order(RowOf(i)) ELSE sortOrder[i]]
        /\ UNCHANGED groupScope

\* scope_id is NOT NULL.
AddGroup(s) ==
    /\ FreeGroups # {} /\ s # NoScope
    /\ groupScope' = [groupScope EXCEPT ![NewItem(FreeGroups)] = s]
    /\ sortOrder' = [sortOrder EXCEPT ![NewItem(FreeGroups)] = 0]
    /\ UNCHANGED groupOf

\* The server's part. A group goes with its categories; a category, and its rows,
\* go to groups of its scope only; a scope changes on an empty group only. An
\* import gives its new groups no scope, and is carried out as a whole or not.
CategoryOutcome(k) ==
    CASE k.name = "editCategory" ->
            /\ groupOf[k.id] # NoId /\ k.choice \in Groups /\ ScopeOf(k.id) = groupScope[k.choice]
            /\ groupOf' = [groupOf EXCEPT ![k.id] = k.choice]
            /\ UNCHANGED <<groupScope, sortOrder>>
      [] k.name = "deleteCategory" ->
            /\ groupOf[k.id] # NoId
            /\ k.choice # NoId => groupOf[k.choice] # NoId /\ ScopeOf(k.id) = ScopeOf(k.choice)
            /\ groupOf' = [groupOf EXCEPT ![k.id] = NoId]
            /\ UNCHANGED <<groupScope, sortOrder>>
      [] k.name = "editGroup" ->
            /\ k.id \in Groups
            /\ k.choice \in GroupScopes \ {groupScope[k.id]} => CategoriesIn(k.id) = {}
            /\ groupScope' = [groupScope EXCEPT ![k.id] = IF k.choice \in GroupScopes THEN k.choice ELSE @]
            /\ UNCHANGED <<groupOf, sortOrder>>
      [] k.name = "deleteGroup" ->
            /\ k.id \in Groups
            /\ groupScope' = [groupScope EXCEPT ![k.id] = NoScope]
            /\ groupOf' = [c \in CategoryIds |-> IF groupOf[c] = k.id THEN NoId ELSE groupOf[c]]
            /\ UNCHANGED sortOrder
      [] k.name = "newCategory" -> AddCategory(k.id, 0)
      [] k.name = "newGroup" -> \E s \in GroupScopes : AddGroup(s)
      [] k.name = "import" ->
            IF Range(k.rows) \subseteq Groups THEN ImportCategories(k.rows) ELSE AddGroup(NoScope)

CategoryCallSucceeds(k) ==
    /\ k \in catCalls /\ catCalls' = catCalls \ {k}
    /\ CategoryOutcome(k)
    /\ catDialog' = IF catDialog.name = k.name THEN NoCategoryDialog ELSE catDialog
    /\ rowForm' = IF k.name = "editCategory" THEN NoRowForm ELSE rowForm
    /\ mixed' = TRUE
    /\ UNCHANGED <<tree, orderCalls, dropped, brokenPage, catCount>>

CategoryCallFails(k) ==
    /\ k \in catCalls /\ catCalls' = catCalls \ {k}
    /\ UNCHANGED <<serverVars, dragVars, tree, rowForm, catDialog, brokenPage, catCount>>

\* Another tab.
CategoriesChangeElsewhere ==
    /\ CountCall
    /\ \/ \E g \in Groups : CategoryOutcome(CategoryCall("deleteGroup", g))
       \/ \E c \in CategoryIds \ FreeCategories : CategoryOutcome(CategoryCall("deleteCategory", c))
    /\ mixed' = TRUE
    /\ UNCHANGED <<tree, orderCalls, rowForm, catDialog, catCalls, dropped, brokenPage>>

CategoriesNext ==
    \/ TreeArrives \/ CancelRow \/ OpenYnabImport \/ CloseCategoryDialog
    \/ SubmitRow \/ SubmitDialog \/ SubmitNew \/ SubmitImport \/ CategoriesChangeElsewhere
    \/ \E g, h \in GroupIds : DropGroup(g, h)
    \/ \E c, d \in CategoryIds : DropCategory(c, d)
    \/ \E p \in orderCalls : OrderSaved(p) \/ OrderNotSaved(p)
    \/ \E c \in CategoryIds : StartCategoryEdit(c) \/ OpenCategoryDelete(c) \/ ChooseReassign(c)
    \/ \E g \in GroupIds : ChooseGroup(g) \/ \E n \in {"editGroup", "deleteGroup"} : OpenGroupDialog(n, g)
    \/ \E s \in GroupScopes : ChooseGroupScope(s)
    \/ \E k \in catCalls : CategoryCallSucceeds(k) \/ CategoryCallFails(k)

CategoriesSpec == CategoriesInit /\ [][CategoriesNext]_categoriesVars

-----------------------------------------------------------------------------
CategoriesTypeOK ==
    /\ groupScope \in [GroupIds -> GroupScopes \cup {NoScope}]
    /\ groupOf \in [CategoryIds -> GroupIds \cup {NoId}]
    /\ sortOrder \in [GroupIds \cup CategoryIds -> Nat]
    /\ \A c \in CategoryIds : groupOf[c] \in Groups \cup {NoId}
    /\ rowForm.id \in CategoryIds \cup {NoId}
    /\ catDialog.id \in GroupIds \cup CategoryIds \cup {NoId}
    /\ {mixed, brokenPage} \subseteq BOOLEAN
    /\ \A p \in orderCalls : p.item \in GroupIds \cup CategoryIds
    /\ catCount \in 0 .. MaxCategoryCalls

\* Once the PATCHes of a drag are through, in whatever order they arrive and
\* whatever refetch comes in between, the server lists the items as they were
\* dropped: unless drags overlap, a PATCH fails or the list is changed otherwise.
OrderIsAsDropped ==
    orderCalls = {} /\ ~mixed /\ dropped # <<>> =>
        dropped = InOrder(Range(dropped))
=============================================================================

-------------------------- MODULE MCTransactionForm --------------------------
(***************************************************************************)
(* An instance of the transaction form that remembers, since it was opened, *)
(* whether the user has picked a category and whether a suggestion has     *)
(* changed the field after that.                                           *)
(***************************************************************************)
EXTENDS TransactionForm, TLC

CONSTANTS a1, c1, c2, t1, t2

VARIABLE since   \* "opened", "chosen" or "overridden"

MCCategoriesOf == a1 :> {c1, c2}
MCTop == a1 :> ((t1 :> c2) @@ (t2 :> Blank))

\* A row with three contents: as first fetched, renamed, and renamed and assigned.
MCSavedRow(p, c) ==
    [payee |-> p, category |-> c, readyToAssign |-> FALSE, amount |-> 2, lines |-> <<>>,
     transfer |-> FALSE]
MCSavedRows == {MCSavedRow(t1, c1), MCSavedRow(t2, c1), MCSavedRow(t2, c2)}

SuggestionChanges ==
    /\ \E account \in DOMAIN CategoriesOf, text \in Texts : SuggestionsArrive(account, text)
    /\ form'.category # form.category

MCInit == FormInit /\ form.kind = "edit" /\ since = "opened"

MCNext ==
    /\ FormNext
    /\ since' = CASE ~form'.open -> "opened"
                  [] ByHand -> "chosen"
                  [] since = "chosen" /\ SuggestionChanges -> "overridden"
                  [] OTHER -> since

MCSpec == MCInit /\ [][MCNext]_<<formVars, since>>

\* "Whether the user has picked a category themselves since opening the modal, so
\* a suggestion arriving afterward never overrides that choice."
SuggestionsNeverOverride == since # "overridden"
=============================================================================

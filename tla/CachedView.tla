----------------------------- MODULE CachedView -----------------------------
(***************************************************************************)
(* What the web client's query cache promises for one query: an answer on  *)
(* screen that the store has moved past is replaced, unless the client has *)
(* an excuse for not knowing, such as a write nobody announced to it.      *)
(***************************************************************************)

VARIABLES
    watching,  \* a component on screen reads the query
    view,      \* what it shows against what the store holds now
    excused    \* the client cannot know that the view is old

cachedVars == <<watching, view, excused>>

Views == {"blank", "current", "old"}

CachedTypeOK ==
    /\ watching \in BOOLEAN
    /\ view \in Views
    /\ excused \in BOOLEAN

Init == ~watching /\ view = "blank" /\ ~excused

-----------------------------------------------------------------------------
\* A component that reads the query appears or goes away.
Turn == watching' \in BOOLEAN /\ UNCHANGED <<view, excused>>

\* The store moves past what is on screen; nobody may have said so.
Write ==
    /\ view = "current" /\ view' = "old"
    /\ excused' \in {excused, TRUE}
    /\ UNCHANGED watching

\* A write was not announced, an answer was lost, a fetch was given up.
Excuse == excused' = TRUE /\ UNCHANGED <<watching, view>>

\* A later fetch makes up for it: the view is owed its replacement again.
Owe == excused' = FALSE /\ UNCHANGED <<watching, view>>

Refresh == view = "old" /\ view' = "current" /\ UNCHANGED <<watching, excused>>

Load == view = "blank" /\ view' \in {"current", "old"} /\ UNCHANGED <<watching, excused>>

\* Signing out drops the cache.
Drop == watching' = FALSE /\ view' = "blank" /\ excused' = FALSE

\* Another reader takes over, or none is left; what is there was not fetched
\* for them, and may be right or wrong.
Switch ==
    /\ watching' \in BOOLEAN
    /\ excused' = TRUE \/ (~watching' /\ UNCHANGED excused)
    /\ view' \in (IF view = "blank" THEN {"blank"} ELSE {"current", "old"})

Next == Turn \/ Switch \/ Write \/ Excuse \/ Owe \/ Refresh \/ Load \/ Drop

\* An old answer that somebody looks at is replaced if the client has no excuse.
Replace == watching /\ ~excused /\ Refresh

Spec == Init /\ [][Next]_cachedVars /\ WF_cachedVars(Replace)
=============================================================================

----------------------------- MODULE MCWebCache -----------------------------
(***************************************************************************)
(* TLC instances of WebCache.                                              *)
(***************************************************************************)
EXTENDS WebCache

CONSTANTS ann, ben, s1, s2

\* The queries of the entities; the derived ones add no way to be refreshed.
\* Two are left to their neighbours: "unassigned" is told with "transactions",
\* "syncStatus" read on the page of "connections".
MCFollowed == DOMAIN Announced \ {"unassigned", "syncStatus"}
=============================================================================

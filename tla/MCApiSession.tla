---------------------------- MODULE MCApiSession ----------------------------
(* TLC instances of ApiSession.                                            *)
EXTENDS ApiSession, TLC

CONSTANTS tab, budgetPage, accountsPage, r1, r2, r3

OneTab == [c \in Calls |-> tab]
=============================================================================

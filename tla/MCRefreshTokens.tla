-------------------------- MODULE MCRefreshTokens --------------------------
(* TLC instances of RefreshTokens.                                         *)
EXTENDS RefreshTokens, TLC

CONSTANTS r1, r2, r3

SlotSymmetry == Permutations(Slots)
=============================================================================

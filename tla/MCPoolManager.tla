--------------------------- MODULE MCPoolManager ---------------------------
(***************************************************************************)
(* The instance of PoolManager for TLC.                                    *)
(***************************************************************************)
EXTENDS PoolManager, TLC
MCSymmetry == Permutations(Callers)
=============================================================================

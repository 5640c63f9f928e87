----------------------------- MODULE MCMetrics -----------------------------
(***************************************************************************)
(* The instance of Metrics for TLC: two trackers for three names, one of   *)
(* which is cut, a histogram with two buckets, a value behind the last.    *)
(***************************************************************************)
EXTENDS Metrics, TLC
MCBoundaries == <<1, 2>>
Alike == Permutations(Recorders)
=============================================================================

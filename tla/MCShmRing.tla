----------------------------- MODULE MCShmRing -----------------------------
(***************************************************************************)
(* The instance of ShmRing for TLC: slots of two cells, items of one cell  *)
(* and of two (the largest the size check lets in), a consumer whose       *)
(* buffer holds every item and one whose buffer holds only the small ones. *)
(***************************************************************************)
EXTENDS ShmRing, TLC
CONSTANTS a, c1
MCItemSize == [i \in Items |-> IF i = a THEN 2 ELSE 1]
MCBufSize == [k \in Consumers |-> IF k = c1 THEN 2 ELSE 1]
Alike == Permutations(Producers)
=============================================================================

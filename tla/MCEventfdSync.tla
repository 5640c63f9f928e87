--------------------------- MODULE MCEventfdSync ---------------------------
(***************************************************************************)
(* The instance of EventfdSync for TLC: three threads on one descriptor, a *)
(* counter that is full at 3 (2^64 - 2 in the kernel).                     *)
(***************************************************************************)
EXTENDS EventfdSync, TLC
Alike == Permutations(Threads)
=============================================================================

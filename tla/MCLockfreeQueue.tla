--------------------------- MODULE MCLockfreeQueue --------------------------
(***************************************************************************)
(* Instances of LockfreeQueue for TLC.  Capacity 4 leaves room for three   *)
(* tasks, and an index of eight values wraps after two laps of the ring,   *)
(* so every alignment of head, tail, the wrap and a batch of two occurs.   *)
(***************************************************************************)
EXTENDS LockfreeQueue
=============================================================================

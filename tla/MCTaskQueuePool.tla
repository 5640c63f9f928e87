--------------------------- MODULE MCTaskQueuePool --------------------------
(***************************************************************************)
(* Instances of TaskQueuePool for TLC.                                     *)
(***************************************************************************)
EXTENDS TaskQueuePool
=============================================================================

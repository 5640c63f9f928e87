--------------------------- MODULE MCTaskManager ---------------------------
(***************************************************************************)
(* The instance of TaskManager for TLC: a client that submits two tasks    *)
(* and awaits them one by one or as a batch, and one that cancels, reads,  *)
(* awaits or drops a future it was given.                                  *)
(***************************************************************************)
EXTENDS TaskManager
CONSTANTS c1, c2
MCMaxTasks == [c \in Clients |-> IF c = c1 THEN 2 ELSE 0]
MCMaxHeld == [c \in Clients |-> IF c = c1 THEN 2 ELSE 1]

(* Only c1 awaits futures as a batch. *)
OneBatch == bat[c2].i = 0
=============================================================================

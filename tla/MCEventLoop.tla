---------------------------- MODULE MCEventLoop ----------------------------
(***************************************************************************)
(* The instance of EventLoop for TLC.                                      *)
(***************************************************************************)
EXTENDS EventLoop
MCWorkers == {1}
=============================================================================

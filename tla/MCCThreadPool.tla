---------------------------- MODULE MCCThreadPool ---------------------------
(***************************************************************************)
(* Instances of CThreadPool for TLC.                                       *)
(***************************************************************************)
EXTENDS CThreadPool
=============================================================================

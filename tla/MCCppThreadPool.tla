--------------------------- MODULE MCCppThreadPool --------------------------
(***************************************************************************)
(* Instances of CppThreadPool for TLC.                                     *)
(***************************************************************************)
EXTENDS CppThreadPool
=============================================================================

--------------------------- MODULE MCProcessPool ----------------------------
(* ProcessPool for TLC: the configurations give every constant its value.  *)
EXTENDS ProcessPool
=============================================================================

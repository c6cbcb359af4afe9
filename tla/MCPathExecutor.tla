--------------------------- MODULE MCPathExecutor ---------------------------
(* Two paths, so that a newer one can replace an older one, and two goals at *)
(* the controller, so that a second one could be sent too early.             *)
EXTENDS PathExecutor, TLC
=============================================================================

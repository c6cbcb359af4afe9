---- MODULE MCRunSession ----
(* A run with one phase, one crash and one failed scan of /proc. *)
EXTENDS RunSession
====

---- MODULE MCShortGoalSession ----
(* A session with two phases; the adapter may be two events ahead. *)
EXTENDS ShortGoalSession
====

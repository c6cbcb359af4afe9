------------------------ MODULE MCHybridPlannerBridge ------------------------
(* Two paths, two requests at the planner and enough goals for the answer to *)
(* one goal's request to meet its successor's.                               *)
EXTENDS HybridPlannerBridge, TLC
=============================================================================

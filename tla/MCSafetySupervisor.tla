------------------------- MODULE MCSafetySupervisor -------------------------
(* A small instance of the safety gate: two executions, velocities below and *)
(* above both limits, timeouts of one and two ticks.                         *)
EXTENDS SafetySupervisor

CONSTANTS A, B

MCExecutions == {A, B}
MCTwists == {[vx |-> 0, wz |-> 2], [vx |-> 1, wz |-> -1],
             [vx |-> 3, wz |-> 2], [vx |-> -2, wz |-> 3]}
=============================================================================

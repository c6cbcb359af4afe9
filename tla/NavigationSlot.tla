-------------------------- MODULE NavigationSlot ---------------------------
(***************************************************************************)
(* What the navigation facade promises its clients and the controller: one *)
(* outer goal at a time, ended exactly once, and one controller execution  *)
(* that is submitted only for a goal that nobody has stopped.  The slot is *)
(* free again only when the controller is idle and the goal has ended, or  *)
(* lost the boundary it was to stay in: such a goal may still be open when *)
(* its slot is free.                                                       *)
(***************************************************************************)

VARIABLES
    held,       \* the slot is taken
    goal,       \* the outer goal as its client sees it
    bounded,    \* the goal is to be driven inside a boundary
    lost,       \* the boundary is lost and the client has not cancelled
    controller

slotVars == <<held, goal, bounded, lost, controller>>

Ended == {"succeeded", "aborted", "canceled"}
Open == {"executing", "canceling"}

SlotInit ==
    /\ held = FALSE /\ goal = "none" /\ controller = "idle"
    /\ bounded \in BOOLEAN /\ lost = FALSE

Accept ==
    /\ ~held /\ controller = "idle"
    /\ held' = TRUE /\ goal' = "executing"
    /\ bounded' \in BOOLEAN /\ lost' = FALSE
    /\ UNCHANGED controller

RequestCancel ==
    /\ held /\ goal = "executing"
    /\ goal' = "canceling" /\ lost' = FALSE
    /\ UNCHANGED <<held, bounded, controller>>

\* Only a goal with a boundary is ever stopped without its client.
LoseBoundary ==
    /\ held /\ goal = "executing" /\ bounded /\ ~lost
    /\ lost' = TRUE
    /\ UNCHANGED <<held, goal, bounded, controller>>

\* No FollowPath is sent for a goal whose cancel was recorded or whose boundary
\* is lost.
Submit ==
    /\ held /\ goal = "executing" /\ ~lost /\ controller = "idle"
    /\ controller' = "owned"
    /\ UNCHANGED <<held, goal, bounded, lost>>

Stop ==
    /\ controller = "owned"
    /\ controller' = "idle"
    /\ UNCHANGED <<held, goal, bounded, lost>>

\* A goal that ends while the controller still runs keeps the slot.
Finish ==
    /\ goal \in Open /\ (held \/ lost)
    /\ \E end \in Ended :
          /\ end = "canceled" => goal = "canceling"
          /\ end = "succeeded" => controller = "idle"
          /\ goal' = end
    /\ held' \in {held, held /\ controller = "owned"}
    /\ lost' = FALSE
    /\ UNCHANGED <<bounded, controller>>

Free ==
    /\ held /\ (goal \in Ended \/ lost)
    /\ controller = "idle"
    /\ held' = FALSE
    /\ UNCHANGED <<goal, bounded, lost, controller>>

SlotNext ==
    \/ Accept \/ RequestCancel \/ LoseBoundary \/ Submit \/ Stop \/ Finish \/ Free

SlotSpec == SlotInit /\ [][SlotNext]_slotVars
=============================================================================

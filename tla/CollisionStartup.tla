---- MODULE CollisionStartup ----
(***************************************************************************)
(* The one start of the Collision Monitor:                                 *)
(* tools/rviz_navigation/collision_monitor_lifecycle_startup.py and        *)
(* collision_lifecycle_startup_policy.py.  The coordinator watches the     *)
(* monitor and its lifecycle manager, asks the manager once for STARTUP    *)
(* and passes when the manager owns an active monitor.  What it waits for  *)
(* besides (the service contract, the scans, the two seconds of discovery) *)
(* comes sooner or later or never; its deadline may pass at any time.      *)
(***************************************************************************)
EXTENDS Naturals

CONSTANT StateSamples    \* equal states in a row before STARTUP (3)

ASSUME StartupBounds == StateSamples \in Nat \ {0}

VARIABLES
    monitor,   \* the Collision Monitor: "absent", "down" (unconfigured), "active"
    manager,   \* its lifecycle manager: STARTUP asked, is_active, the answer
    co         \* the coordinator: pc, the monitor's state and how often it was
               \* seen, manager_active, startup_sent, startup_timed_out

startupVars == <<monitor, manager, co>>

NewCo == [pc |-> "state", seen |-> "none", same |-> 0, active |-> "none",
          sent |-> FALSE, late |-> FALSE]

StartupInit ==
    /\ monitor = "absent" /\ co = NewCo
    /\ manager = [asked |-> FALSE, active |-> FALSE, reply |-> "none"]

---------------------------------------------------------------------------
(* The manager brings the monitor up and reports it, or fails to.          *)

ManagerServes ==
    /\ manager.asked /\ UNCHANGED co
    /\ \/ /\ monitor = "down" /\ monitor' = "active"
          /\ manager' = [asked |-> FALSE, active |-> TRUE, reply |-> "yes"]
       \/ /\ manager' = [manager EXCEPT !.asked = FALSE, !.reply = "no"]
          /\ UNCHANGED monitor

(* Somebody else configures and activates the monitor. *)
StrangerActivates ==
    monitor = "down" /\ ~manager.asked /\ monitor' = "active" /\ UNCHANGED <<manager, co>>

---------------------------------------------------------------------------
(* run.  A query that gets no answer leaves the last value standing.       *)

ReadsState ==
    /\ co.pc = "state"
    /\ co' \in {[co EXCEPT !.pc = "manager"]} \union
               (IF monitor = "absent" THEN {}
                ELSE {[co EXCEPT !.pc = "manager", !.seen = monitor,
                         !.same = IF monitor # co.seen THEN 1
                                  ELSE IF @ < StateSamples THEN @ + 1 ELSE @]})
    /\ UNCHANGED <<monitor, manager>>

\* Mutant: the monitor's own state is enough.
CompletesUnmanaged(c, scans) == c.seen = "active" /\ scans

(* completion_decision: PASS and PASS_RECONCILED; any other one waits.     *)
Completes(c, scans) == c.active = "yes" /\ c.seen = "active" /\ scans

(* The end of a pass of the loop: an unanswered STARTUP is given up after  *)
(* 3 s, which the 12 s for its answer have used up.                        *)
PassEnds(c, scans) ==
    co' = [c EXCEPT !.pc = IF Completes(c, scans) THEN "passed"
                           ELSE IF c.late /\ c.active # "yes" THEN "failed" ELSE "state"]

(* startup_decision: settled stands for the service contract, the scans    *)
(* and the settling time.                                                  *)
Requests(c, settled) == ~c.sent /\ settled /\ c.seen = "down" /\ c.same >= StateSamples

ReadsManager ==
    /\ co.pc = "manager" /\ UNCHANGED monitor
    /\ \E c \in {co, [co EXCEPT !.active = IF manager.active THEN "yes" ELSE "no"]},
          contract \in BOOLEAN, scans \in BOOLEAN, settled \in BOOLEAN :
       /\ settled => contract /\ scans
       /\ IF ~c.sent /\ contract /\ c.seen = "active"
          THEN co' = [c EXCEPT !.pc = "failed"] /\ UNCHANGED manager   \* unmanaged
          ELSE IF Requests(c, settled)
          THEN /\ co' = [c EXCEPT !.pc = "waiting", !.sent = TRUE]
               /\ manager' = [manager EXCEPT !.asked = TRUE]
          ELSE PassEnds(c, scans) /\ UNCHANGED manager

HearsStartup ==
    /\ co.pc = "waiting" /\ UNCHANGED <<monitor, manager>>
    /\ \/ manager.reply = "yes" /\ PassEnds(co, TRUE)
       \/ manager.reply = "no" /\ co' = [co EXCEPT !.pc = "failed"]
       \/ PassEnds([co EXCEPT !.late = TRUE], TRUE)

Expires ==
    /\ co.pc \in {"state", "manager", "waiting"} /\ co' = [co EXCEPT !.pc = "failed"]
    /\ UNCHANGED <<monitor, manager>>

Startup == ManagerServes \/ StrangerActivates \/ ReadsState \/ ReadsManager \/ HearsStartup \/ Expires

---------------------------------------------------------------------------
(* The launch goes on only with a monitor that the manager was asked to    *)
(* start: "ambiguous or unmanaged states fail closed"                      *)
(* (collision_monitor_lifecycle_startup.py:7, completion_decision).        *)
PassIsManaged == co.pc = "passed" => co.sent

(* "If a manager response is lost, state is reconciled through the         *)
(* manager's is_active service" (lines 6-7): the coordinator does not give *)
(* up on a lost answer while the manager owns an active monitor.           *)
LostAnswerIsReconciled ==
    [][co.pc = "waiting" /\ co'.pc = "failed" /\ manager.reply # "no"
         => ~(manager.active /\ monitor = "active") \/ ~co'.late]_startupVars
====

---- MODULE SafetyGuard ----
(***************************************************************************)
(* The safety guard (tools/rviz_navigation/navigation_safety_guard.py), an *)
(* observer of the joined chain that can only publish the emergency stop,  *)
(* ask for the cancel and write its receipt, and the part of the launch    *)
(* that it gates (cleannav_full_sim.launch.py).  Around it: the Collision  *)
(* Monitor, whose lifecycle state it polls, and the publishers of /cmd_vel.*)
(* One unit of time is a second: the age up to which a lifecycle state is  *)
(* fresh, half of the poll's timeout, and more than the half second of     *)
(* a receipt or of the Lease synchronization.                              *)
(***************************************************************************)
EXTENDS GuardReceipts, CollisionStartup

CONSTANTS
    MaxAttempts,  \* lifecycle requests in a row without an answer (5)
    Samples,      \* equal samples that make the publisher graph stable (5)
    MaxQueue      \* kept snapshots waiting when the guard writes another one

ASSUME GuardBounds == {MaxAttempts, Samples, MaxQueue} \subseteq Nat \ {0}

VARIABLES
    mode,     \* the profile: "none", "diagnostic", "short-goal", "historical"
    stage,    \* how far the launch has come
    quiet,    \* seconds since it was active, until the launch's gate
    poll,     \* CMStatePoll
    graph,    \* PublisherGraphConvergence
    goal,     \* what the mode lets the guard know of the goal
    g         \* the rest of the guard

guardVars == <<poll, graph, goal, g>>
worldVars == <<mode, stage, quiet, startupVars>>
vars == <<worldVars, guardVars, receiptVars>>

Modes == {"none", "diagnostic", "short-goal", "historical"}
Motion == {"short-goal", "historical"}
Stages == {"collision", "navigation", "gate", "mission", "shutdown"}
Timeout == 2   \* CMStatePoll.timeout, in seconds
Long == 3      \* no age is told apart beyond

NewPoll == [found |-> FALSE, future |-> "none", age |-> 0,
            attempts |-> 0, state |-> "none", seen |-> Long]
NewGraph == [stable |-> 0, achieved |-> FALSE, failure |-> FALSE]
NewGoal == [accepted |-> FALSE, admitted |-> FALSE, sync |-> FALSE]

Init ==
    /\ ReceiptsInit
    /\ StartupInit /\ mode \in Modes /\ stage = "collision" /\ quiet = Long
    /\ poll = NewPoll /\ graph = NewGraph /\ goal = NewGoal
    /\ g = [pc |-> "run", safety |-> FALSE, armed |-> FALSE, failed |-> FALSE,
            estop |-> FALSE]

---------------------------------------------------------------------------
(* The Collision Monitor: it is started while the launch waits for its     *)
(* coordinator.  A request is answered with the state of that moment, or   *)
(* never.                                                                  *)

MonitorComes ==
    /\ monitor = "absent" /\ stage # "shutdown" /\ monitor' = "down"
    /\ UNCHANGED <<mode, stage, quiet, manager, co, guardVars, receiptVars>>

StartupStep ==
    /\ stage = "collision" /\ Startup /\ UNCHANGED <<mode, stage, quiet, guardVars, receiptVars>>

MonitorDrops ==
    /\ monitor = "active" /\ monitor' = "down" /\ manager' = [manager EXCEPT !.active = FALSE]
    /\ UNCHANGED <<mode, stage, quiet, co, guardVars, receiptVars>>

MonitorAnswers ==
    /\ poll.future = "open" /\ monitor # "absent" /\ poll' = [poll EXCEPT !.future = monitor]
    /\ UNCHANGED <<worldVars, graph, goal, g, receiptVars>>

---------------------------------------------------------------------------
(* CMStatePoll.step.  Of a state only "active" or not matters; time passes *)
(* from tick to tick.                                                      *)

Plus(n, elapsed) == IF n + elapsed < Long THEN n + elapsed ELSE Long

Later(p, elapsed) ==
    [p EXCEPT !.age = IF p.future = "open" THEN Plus(@, elapsed) ELSE 0, !.seen = Plus(@, elapsed)]

Without(p) == [p EXCEPT !.state = "none", !.seen = Long]

Discovery(p, up) ==
    LET q == IF up THEN p ELSE Without(p) IN
    [q EXCEPT !.found = up, !.attempts = IF up /\ ~p.found THEN 0 ELSE @]

Answered(p, up) ==
    LET q == IF up /\ p.future = "active" THEN [p EXCEPT !.state = "active", !.seen = 0]
             ELSE Without(p) IN
    [q EXCEPT !.attempts = 0, !.future = "none"]

Dropped(p) == [Without(p) EXCEPT !.future = "none"]

Received(p, up) ==
    IF p.future \in {"down", "active"} THEN Answered(p, up)
    ELSE IF p.future = "open" /\ (p.age >= Timeout \/ ~up) THEN Dropped(p)
    ELSE p

Dispatched(p, up) ==
    IF up /\ p.attempts < MaxAttempts
    THEN [p EXCEPT !.future = "open", !.age = 0, !.attempts = @ + 1]
    ELSE p

(* The retry interval lets no request follow in the tick that ended one. *)
Polled(up, elapsed) ==
    LET p == Discovery(Later(poll, elapsed), up) IN
    IF p.future = "none" THEN Dispatched(p, up) ELSE Received(p, up)

\* Mutant: a state stays fresh until another one is known.
ActiveForever(p) == p.found /\ p.state = "active"

(* The facts cm and cm_active. *)
Active(p) == p.found /\ p.seen <= 1 /\ p.state = "active"

---------------------------------------------------------------------------
(* PublisherGraphConvergence.sample: "ours" is the one expected endpoint;  *)
(* unknown, foreign and several endpoints, a failed query and, before the  *)
(* graph is stable, a passed deadline are "wrong".                         *)

Sampled(endpoints) ==
    LET n == IF endpoints = "ours" THEN graph.stable + 1 ELSE 0
        reached == graph.achieved \/ n >= Samples IN
    [stable |-> IF reached THEN 0 ELSE n, achieved |-> reached,
     failure |-> \/ graph.failure \/ endpoints = "wrong"
                 \/ graph.achieved /\ endpoints # "ours"]

---------------------------------------------------------------------------
(* The guard's callbacks.  They share one callback group, so one runs at a *)
(* time; the loop looks at failed in between, and one more may run after.  *)

(* Nobody reads the guard before the gate: its steps while the coordinator *)
(* still works are left out, it does the same in the later stages.         *)
Runs == g.pc = "run" /\ stage \notin {"collision", "shutdown"} /\ Len(rw.queue) < MaxQueue

(* fail: once; the emergency stop, the cancel, the failure snapshot. *)
Failing == [g EXCEPT !.failed = TRUE, !.estop = @ \/ ~g.failed]
Told == IF g.failed THEN rw ELSE Written(rw, "failed", TRUE)

CallbackFails ==
    /\ g' = Failing /\ rw' = Told
    /\ UNCHANGED <<worldVars, poll, graph, goal, disk, reader>>

(* What a message says may contradict the profile: identities, authority,  *)
(* command limits, a first goal, a frozen map, the distance driven.        *)
MessageIsWrong == Runs /\ CallbackFails

(* on_safety: a match of Lease and goal ends the synchronization, unless   *)
(* its deadline has passed.                                                *)
SafetyStatus ==
    /\ Runs
    /\ \/ goal.sync /\ CallbackFails
       \/ /\ g' = [g EXCEPT !.safety = TRUE]
          /\ goal' \in {goal, IF goal.accepted THEN [goal EXCEPT !.sync = FALSE] ELSE goal}
          /\ UNCHANGED <<worldVars, poll, graph, receiptVars>>

(* on_command: a moving raw or candidate command before the Lease may wait.*)
CommandBeforeLease ==
    /\ Runs /\ mode = "historical" /\ stage = "mission" /\ g.safety /\ ~goal.sync
    /\ goal' = [goal EXCEPT !.sync = TRUE]
    /\ UNCHANGED <<worldVars, poll, graph, g, receiptVars>>

GoalAccepted ==
    /\ Runs /\ mode = "historical" /\ stage = "mission" /\ ~goal.accepted
    /\ goal' = [goal EXCEPT !.accepted = TRUE]
    /\ UNCHANGED <<worldVars, poll, graph, g, receiptVars>>

(* motion-admission.json, the run supervisor's. *)
AdmissionWritten ==
    /\ mode = "short-goal" /\ stage = "mission" /\ g.pc = "run"
    /\ goal' = [goal EXCEPT !.admitted = ~@]
    /\ UNCHANGED <<worldVars, poll, graph, g, receiptVars>>

---------------------------------------------------------------------------
(* tick *)

(* Missing inputs stop an armed guard. *)
Watched ==
    \/ mode = "none"
    \/ mode = "short-goal" /\ goal.admitted
    \/ mode = "historical" /\ goal.accepted

(* The mission's heartbeat under a Lease, the end of the synchronization.  *)
TickFailsEarly ==
    /\ Runs
    /\ goal.sync \/ (mode = "short-goal" /\ stage = "mission")
    /\ CallbackFails

(* The decision of one tick.  ready: nothing is missing; "stop": a hard    *)
(* fact of the diagnostic mode, a distance limit or the deadline of the    *)
(* readiness; "transition": some single fact has changed.                  *)
Decision(w, ready, verdict) ==
    LET fails == ~g.failed /\ \/ verdict = "stop"
                              \/ graph'.failure
                              \/ g.armed /\ ~ready /\ Watched
        failed == g.failed \/ fails
        told == IF fails THEN Written(w, "failed", TRUE) ELSE w
        says == IF failed THEN "failed" ELSE IF ready THEN "ready" ELSE "waiting" IN
    /\ g' = [g EXCEPT !.armed = @ \/ ready, !.estop = @ \/ fails,
                      !.failed = failed \/ Raises(told)]
    /\ rw' = Written(told, says, failed \/ verdict # "same")

Tick(elapsed) ==
    /\ Runs /\ ~(goal.sync /\ elapsed = 1)
    /\ poll' = Polled(monitor # "absent", elapsed)
    /\ quiet' = IF stage = "mission" THEN Long
                ELSE IF monitor = "active" THEN 0 ELSE Plus(quiet, elapsed)
    /\ disk' = IF elapsed = 1 THEN Older(disk) ELSE disk
    /\ \E endpoints \in (IF g.safety THEN {"ours", "none", "wrong"} ELSE {"unseen"}),
          rest \in BOOLEAN, verdict \in {"stop", "transition", "same"} :
          /\ endpoints = "wrong" => verdict = "stop"
          /\ graph' = IF g.safety THEN Sampled(endpoints) ELSE graph
          /\ Decision(IF elapsed = 1 THEN Aged(rw) ELSE rw,
                      Active(poll') /\ graph'.achieved /\ ~graph'.failure /\ rest, verdict)
    /\ UNCHANGED <<mode, stage, startupVars, goal, reader>>

---------------------------------------------------------------------------
(* The end of the process, and of what it observed. *)

Forgets == poll' = NewPoll /\ graph' = NewGraph /\ goal' = NewGoal

(* The emergency stop is published again if the context still accepts it.  *)
LeavesLoop ==
    /\ g.pc = "run" /\ (g.failed \/ stage = "shutdown")
    /\ \E heard \in (IF stage = "shutdown" THEN BOOLEAN ELSE {TRUE}) :
          g' = [g EXCEPT !.pc = "closing", !.estop = @ \/ heard]
    /\ rw' = Closed(rw) /\ Forgets
    /\ UNCHANGED <<worldVars, disk, reader>>

GuardEnds ==
    /\ g.pc = "closing" /\ ~rw.alive /\ g' = [g EXCEPT !.pc = "out"]
    /\ UNCHANGED <<worldVars, poll, graph, goal, receiptVars>>

GuardDies ==
    /\ g.pc # "out" /\ stage \notin {"collision", "shutdown"}
    /\ g' = [g EXCEPT !.pc = "out"] /\ rw' = GivesUp(rw) /\ Forgets
    /\ UNCHANGED <<worldVars, disk, reader>>

---------------------------------------------------------------------------
(* The launch: each stage starts what comes after it. *)

Goes(to) == stage' = to /\ UNCHANGED <<mode, quiet, startupVars, guardVars>>

StartupForgotten == co' = NewCo /\ manager' = [asked |-> FALSE, active |-> FALSE, reply |-> "none"]

(* The stages of localization and navigation follow the coordinator's PASS *)
(* and end with their probes.                                              *)
CollisionPasses ==
    /\ stage = "collision" /\ co.pc = "passed" /\ stage' = "navigation" /\ StartupForgotten
    /\ quiet' = (IF monitor = "active" THEN 0 ELSE Long)
    /\ UNCHANGED <<mode, monitor, guardVars, receiptVars>>

ProbesPass ==
    stage = "navigation" /\ Goes("gate") /\ ReaderStarts /\ UNCHANGED <<rw, disk>>

GatePasses ==
    stage = "gate" /\ reader = "passed" /\ Goes("mission") /\ UNCHANGED receiptVars

(* Every process ends; what the guard then observes does not matter. *)
ShutsDown ==
    /\ stage' = "shutdown" /\ monitor' = "absent" /\ quiet' = Long /\ Forgets /\ StartupForgotten
    /\ UNCHANGED <<mode, g, receiptVars>>

(* With the extended startup a failed stage waits for the session's end.   *)
StageFails ==
    /\ \/ stage = "collision" /\ co.pc = "failed"
       \/ stage = "navigation"
       \/ stage = "gate" /\ reader = "refused"
    /\ mode = "none" /\ ShutsDown

SessionEnds == stage # "shutdown" /\ ShutsDown

\* Mutant: only a crash is critical, not the exit of a guard that has failed.
CrashSeen == g.pc = "out" /\ ~g.failed /\ stage # "shutdown" /\ ShutsDown

(* process_exit: the guard is critical. *)
GuardExitSeen == g.pc = "out" /\ stage # "shutdown" /\ ShutsDown

Of(A) == A /\ UNCHANGED <<worldVars, guardVars>>

Next ==
    \/ MonitorComes \/ StartupStep \/ MonitorDrops \/ MonitorAnswers
    \/ MessageIsWrong \/ SafetyStatus \/ CommandBeforeLease \/ GoalAccepted
    \/ AdmissionWritten \/ TickFailsEarly \/ (\E elapsed \in {0, 1} : Tick(elapsed))
    \/ LeavesLoop \/ GuardEnds \/ GuardDies
    \/ CollisionPasses \/ ProbesPass \/ GatePasses \/ StageFails \/ SessionEnds \/ GuardExitSeen
    \/ Of(Thread) \/ Of(CommitFails) \/ (stage = "gate" /\ (Of(ReaderLooks) \/ Of(ReaderTimesOut)))

(* The timer fires and time passes (SF: only MaxQueue, which the code does *)
(* not have, ever keeps it waiting), the writer's thread works, a process  *)
(* that has left its loop ends and the launch hears of it.                 *)
Spec ==
    /\ Init /\ [][Next]_vars
    /\ SF_vars(Tick(1) \/ TickFailsEarly) /\ WF_vars(Of(Thread))
    /\ WF_vars(LeavesLoop) /\ WF_vars(GuardEnds) /\ WF_vars(GuardExitSeen)

---------------------------------------------------------------------------
(* A guard that has failed and ends by itself has published the emergency  *)
(* stop, and its receipt says that it failed, however many snapshots were  *)
(* waiting: fail, write_state, ReceiptWriter.close.                        *)
FailureIsTold ==
    g.pc = "out" /\ g.failed /\ ~rw.error => g.estop /\ disk = "failed"

(* The launch admits the mission on a receipt, on a poll and on a response *)
(* that all may be old: together they reach back two full seconds at most. *)
GateIsWitnessed ==
    [][reader # "passed" /\ reader' = "passed" => quiet <= 2]_vars

(* Where missing inputs stop an armed guard, a monitor that is no longer   *)
(* active takes the whole launch down, unless it comes back or the mission *)
(* is no longer admitted (Guard.tick, process_exit).                       *)
MonitorLossEndsLaunch ==
    g.armed /\ Watched /\ monitor = "down" ~>
        stage = "shutdown" \/ monitor = "active" \/ ~Watched
====

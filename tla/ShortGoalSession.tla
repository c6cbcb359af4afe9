---- MODULE ShortGoalSession ----
(***************************************************************************)
(* A supervised session that admits one RViz goal and real motion          *)
(* (tools/rviz_navigation): the run supervisor in its motion mode, the     *)
(* goal adapter, and around them the Safety Supervisor's interlock and     *)
(* Lease, and the Mission Manager.  Adapter and supervisor each see the    *)
(* Safety status late, share the receipts of MotionReceipts, and the       *)
(* adapter tells the supervisor what happens through a topic.  A timeout   *)
(* is a step that may be taken as soon as its wait has begun.              *)
(***************************************************************************)
EXTENDS MotionReceipts, PhaseLedger

CONSTANTS
    MaxLag   \* adapter events on the way when its next handler runs

ASSUME SessionBounds == MaxLag \in Nat \ {0}

VARIABLES
    gate,      \* the Safety Supervisor: interlock, emergency stop, Lease owner
    estop,     \* an emergency_stop message is under way
    calls,     \* interlock requests not served yet
    answer,    \* the answer to the last one, not heard yet
    mission,   \* the one task of the Mission Manager
    status,    \* its terminal TaskStatus, not received yet
    ad,        \* the adapter
    events,    \* its events on the way to the supervisor
    sup,       \* the supervisor's motion state
    ledger,
    failed,    \* the supervisor's list of failures is not empty
    execution, \* motion_execution: "none" or "PASS"
    verified   \* motion_cleanup verified: "none", "yes", "no"

gateVars == <<gate, estop, calls, answer>>
missionVars == <<mission, status>>
adVars == <<ad, events>>
resultVars == <<failed, execution, verified>>
supVars == <<sup, ledger, resultVars>>
vars == <<gateVars, missionVars, adVars, supVars, receiptVars>>

None == "none"
Samples == [block : BOOLEAN, estop : BOOLEAN, owner : {None, "mission", "other"}]
NoSample == [block |-> TRUE, estop |-> TRUE, owner |-> "unknown"]

Init ==
    /\ ReceiptsInit
    /\ gate = [block |-> TRUE, estop |-> FALSE, owner |-> None]
    /\ estop = FALSE /\ calls = <<>> /\ answer = None
    /\ mission = "idle" /\ status = None
    /\ ad = [up |-> TRUE, goal |-> FALSE, ready |-> FALSE, safety |-> NoSample,
             lease |-> None, term |-> None, aware |-> FALSE, ok |-> FALSE, done |-> FALSE,
             deadline |-> None, stopping |-> FALSE, reply |-> None]
    /\ events = <<>>
    /\ sup = [pc |-> "observe", safety |-> NoSample, stage |-> "", open |-> FALSE,
              closed |-> FALSE, admitted |-> FALSE, ready |-> FALSE,
              clicked |-> FALSE, heard |-> {}, trans |-> {}, terminal |-> None,
              prior |-> FALSE]
    /\ ledger = NewLedger
    /\ failed = FALSE /\ execution = None /\ verified = None

---------------------------------------------------------------------------
(* Safety Supervisor, Mission Manager and operator. *)

EstopArrives ==
    /\ estop /\ estop' = FALSE
    /\ gate' = [gate EXCEPT !.estop = TRUE, !.owner = None]
    /\ UNCHANGED <<calls, answer, missionVars, adVars, supVars, receiptVars>>

(* Requests of one client are served in order; nobody waits for the answer *)
(* to a request that was given up.                                         *)
InterlockServes ==
    /\ calls # <<>> /\ calls' = Tail(calls)
    /\ LET refused == Head(calls).on /\ gate.estop IN
       /\ answer' = IF ~Head(calls).live THEN answer ELSE IF refused THEN "no" ELSE "ok"
       /\ gate' = IF refused THEN gate
                  ELSE IF Head(calls).on THEN [gate EXCEPT !.block = FALSE]
                  ELSE [gate EXCEPT !.block = TRUE, !.owner = None]
    /\ UNCHANGED <<estop, missionVars, adVars, supVars, receiptVars>>

MissionAnswers ==
    /\ mission = "asked" /\ ad.reply = "pending"
    /\ \E reply \in {"yes", "no", "error"} :
          /\ ad' = [ad EXCEPT !.reply = reply]
          /\ mission' \in (IF reply = "no" THEN {"idle"} ELSE
                           IF reply = "yes" THEN {"accepted"} ELSE {"idle", "accepted"})
    /\ UNCHANGED <<gateVars, status, events, supVars, receiptVars>>

(* The Lease is refused under the emergency stop and the interlock. *)
MissionAcquires ==
    /\ mission = "accepted" /\ gate.owner = None /\ ~gate.block /\ ~gate.estop
    /\ gate' = [gate EXCEPT !.owner = "mission"] /\ mission' = "running"
    /\ UNCHANGED <<estop, calls, answer, status, adVars, supVars, receiptVars>>

MissionEnds ==
    /\ \/ mission = "running" /\ status' \in {"OK", "BAD"}
       \/ mission = "accepted" /\ status' = "BAD"
    /\ mission' = IF status' = "OK" THEN "succeeded" ELSE "failed"
    /\ UNCHANGED <<gateVars, adVars, supVars, receiptVars>>

MissionReleases ==
    /\ mission \in {"succeeded", "failed"} /\ gate.owner = "mission"
    /\ gate' = [gate EXCEPT !.owner = None]
    /\ UNCHANGED <<estop, calls, answer, missionVars, adVars, supVars, receiptVars>>

(* Another execution takes the Lease before there is a goal. *)
OtherAcquires ==
    /\ ~ad.goal /\ gate.owner = None /\ ~gate.block /\ ~gate.estop
    /\ gate' = [gate EXCEPT !.owner = "other"]
    /\ UNCHANGED <<estop, calls, answer, missionVars, adVars, supVars, receiptVars>>

---------------------------------------------------------------------------
(* The adapter. *)

AdIdle == ad.up /\ Idle("adapter") /\ Len(events) < MaxLag
AdOthers == <<calls, answer, gate, supVars, admission, scope, lifecycle, revocation>>

(* What the supervisor would not look at is left out: once it waits for    *)
(* the Lease to go, or has a fault to find, all but the Lease; then all.   *)
(* The adapter reports the Lease once, first taken and then given back.    *)
LeaseEvents == {"ACQUIRED", "RELEASED"}
OfLease(queue) ==
    LET kept(e) == IF \E i \in DOMAIN queue : queue[i] = e THEN <<e>> ELSE <<>>
    IN  kept("ACQUIRED") \o kept("RELEASED")
FaultAhead == events # <<>> /\ events[Len(events)] = "FAULT"
Emit(more) ==
    events' = events \o
        IF sup.pc \in {"revClose", "revSeen", "write", "ended"} THEN <<>>
        ELSE IF sup.pc = "wait" \/ FaultAhead THEN OfLease(more)
        ELSE more

(* stop_active_task *)
Stops(yes) == estop' = (estop \/ yes)

PreGoal(s) == ~s.block /\ ~s.estop /\ s.owner = None
Replied == ad.reply \in {"yes", "no", "error"}

Fails(a) == [a EXCEPT !.term = "BAD", !.aware = FALSE, !.ok = FALSE]

AdReportsReady ==
    /\ AdIdle /\ ~ad.ready /\ AdmissionValid /\ PreGoal(ad.safety)
    /\ ad' = [ad EXCEPT !.ready = TRUE] /\ Emit(<<"READY">>)
    /\ UNCHANGED <<estop, missionVars, work, AdOthers>>

GoalMayPass ==
    /\ ad.ready /\ AdmissionValid /\ LifecycleValid /\ lifecycle.st = "AUTHORIZED"
    /\ PreGoal(ad.safety)

AdSubmitsGoal ==
    /\ AdIdle /\ ~ad.goal /\ GoalMayPass
    /\ ad' = [ad EXCEPT !.goal = TRUE, !.reply = "pending", !.deadline = "reply"]
    /\ Emit(<<"CLICK">>) /\ mission' = "asked"
    /\ UNCHANGED <<estop, status, work, AdOthers>>

(* Receipts, Safety, pose, bounds or the Mission service speak against it. *)
AdRejectsGoal ==
    /\ AdIdle /\ ~ad.goal
    /\ ad' = Fails([ad EXCEPT !.goal = TRUE]) /\ Emit(<<"CLICK", "FAULT">>)
    /\ UNCHANGED <<estop, missionVars, work, AdOthers>>

AdRejectsSecondGoal ==
    /\ AdIdle /\ ad.goal /\ Emit(<<"FAULT">>) /\ Stops(TRUE)
    /\ UNCHANGED <<ad, missionVars, work, AdOthers>>

(* maybe_finish, without a Lease seen: the end of the task is two seconds  *)
(* old, in which a Safety status and an emergency stop arrive.             *)
MayFinish(a) ==
    /\ a.term # None /\ ~a.done /\ a.safety.owner = None /\ a.lease = None
    /\ a.aware /\ ~estop
FinishJob ==
    Job("finish", <<Op("scope", "CLOSED", FALSE, FALSE, TRUE),
                    Op("lifecycle", "same", FALSE, FALSE, FALSE),
                    Op("close", "CLOSED", FALSE, TRUE, FALSE),
                    Op("revoke", "none", FALSE, FALSE, FALSE)>>, FALSE, FALSE)

AdSeesStatus ==
    /\ AdIdle /\ status # None /\ status' = None
    /\ ad' = [ad EXCEPT !.term = status, !.aware = FALSE, !.ok = (status = "OK")]
    /\ UNCHANGED <<estop, mission, events, work, AdOthers>>

AcquiredJob ==
    Job("acquired", <<Op("scope", "LEASE_ACTIVE", TRUE, FALSE, FALSE),
                      Op("lifecycle", "LEASE_ACTIVE", TRUE, FALSE, FALSE)>>, FALSE, FALSE)
ReleasedJob ==
    Job("released", <<Op("scope", "CLOSED", FALSE, TRUE, FALSE),
                      Op("lifecycle", "LEASE_RELEASED", FALSE, TRUE, FALSE),
                      Op("close", "CLOSED", FALSE, TRUE, FALSE),
                      Op("revoke", "none", FALSE, FALSE, FALSE)>>, TRUE, TRUE)

(* A sample while the emergency stop is active; the handler goes on. *)
UnderEstop(a) == gate.estop /\ ~a.done
Sampled ==
    [ad EXCEPT !.safety = gate, !.aware = TRUE, !.ok = (@ /\ ~UnderEstop(ad))]

AdSeesOwnerMismatch ==
    /\ AdIdle
    /\ gate.owner = "other" \/ (gate.owner = "mission" /\ ad.lease = None /\ ~ad.goal)
    /\ ad' = Sampled
    /\ Emit(<<"FAULT">>) /\ Stops(TRUE)
    /\ UNCHANGED <<missionVars, work, AdOthers>>

AdSeesLease ==
    /\ AdIdle /\ gate.owner = "mission" /\ ad.lease = None /\ ad.goal
    /\ ad' = [Sampled EXCEPT !.lease = "seen"] /\ Emit(<<"ACQUIRED">>)
    /\ Starts("adapter", AcquiredJob)
    /\ UNCHANGED <<estop, missionVars, AdOthers>>

AdSeesRelease ==
    /\ AdIdle /\ gate.owner = None /\ ad.lease = "seen" /\ ad.term # None /\ ~ad.done
    /\ ad' = [Sampled EXCEPT !.lease = "released"] /\ Emit(<<"RELEASED">>)
    /\ Stops(UnderEstop(ad)) /\ Starts("adapter", ReleasedJob)
    /\ UNCHANGED <<missionVars, AdOthers>>

AdSeesSafety ==
    /\ AdIdle /\ (ad.safety # gate \/ (ad.term # None /\ ~ad.aware))
    /\ \/ gate.owner = "mission" /\ ad.lease # None
       \/ gate.owner = None /\ ~(ad.lease = "seen" /\ ad.term # None /\ ~ad.done)
    /\ ad' = Sampled /\ Stops(UnderEstop(ad) /\ ad.goal)
    /\ UNCHANGED <<missionVars, events, work, AdOthers>>

(* The poll, ten times a second. *)
HasLease == ad.lease = "seen" \/ ad.safety.owner = "mission"
AcceptedJob ==
    LET to == IF HasLease THEN "LEASE_ACTIVE" ELSE "GOAL_ACCEPTED" IN
    Job("accepted", <<Op("scope", to, FALSE, FALSE, FALSE),
                      Op("lifecycle", to, FALSE, FALSE, FALSE)>>, FALSE, FALSE)

AdHearsAcceptance ==
    /\ AdIdle /\ ad.reply = "yes" /\ ad' = [ad EXCEPT !.reply = None]
    /\ Starts("adapter", AcceptedJob)
    /\ UNCHANGED <<estop, missionVars, events, AdOthers>>

AdHearsRefusal ==
    /\ AdIdle /\ ad.reply \in {"no", "error"}
    /\ ad' = Fails([ad EXCEPT !.reply = None]) /\ Emit(<<"FAULT">>)
    /\ UNCHANGED <<estop, missionVars, work, AdOthers>>

(* Four seconds without an answer, or sixty with the task. *)
AdGoalTimesOut ==
    /\ AdIdle /\ ad.deadline # None /\ ~ad.done /\ ~Replied
    /\ ad' = [ad EXCEPT !.deadline = None, !.stopping = TRUE, !.term = "BAD",
                        !.aware = FALSE]
    /\ Emit(<<"FAULT">>) /\ Stops(TRUE)
    /\ UNCHANGED <<missionVars, work, AdOthers>>

Terminal(a) == IF a.ok THEN "TERMINAL_OK" ELSE "TERMINAL_BAD"

AdStopUnconfirmed ==
    /\ AdIdle /\ ad.stopping /\ ~ad.done /\ ~Replied
    /\ ad' = [ad EXCEPT !.ok = FALSE, !.done = TRUE, !.up = FALSE]
    /\ Emit(<<"FAULT", "TERMINAL_BAD">>)
    /\ UNCHANGED <<estop, missionVars, work, AdOthers>>

AdFinishes ==
    /\ AdIdle /\ MayFinish(ad) /\ ~Replied
    /\ ad' = [ad EXCEPT !.ok = FALSE] /\ Starts("adapter", FinishJob)
    /\ UNCHANGED <<estop, missionVars, events, AdOthers>>

AdEnds ==
    /\ AdIdle /\ ad.done /\ ~Replied
    /\ ad' = [ad EXCEPT !.up = FALSE] /\ Emit(<<Terminal(ad)>>)
    /\ UNCHANGED <<estop, missionVars, work, AdOthers>>

(* What follows the updates of a handler. *)
AdFinishesJob ==
    /\ ad.up /\ Finished("adapter") /\ Ends("adapter")
    /\ LET job == work["adapter"].job
           raised == work["adapter"].raised IN
       /\ ad' = [ad EXCEPT
                    !.deadline = IF job = "accepted" THEN "task" ELSE @,
                    !.done = @ \/ job = "released" \/ (job = "finish" /\ ~raised),
                    !.ok = @ /\ ~(raised /\ job \in {"released", "finish"})]
       /\ IF raised THEN Emit(<<"FAULT">>)
          ELSE IF job = "accepted" THEN Emit(<<"ACCEPTED">>) ELSE UNCHANGED events
       /\ Stops(raised /\ job \in {"acquired", "accepted"})
    /\ UNCHANGED <<missionVars, AdOthers>>

Adapter ==
    \/ AdReportsReady \/ AdSubmitsGoal \/ AdRejectsGoal \/ AdRejectsSecondGoal
    \/ AdSeesStatus \/ AdSeesOwnerMismatch \/ AdSeesLease \/ AdSeesRelease \/ AdSeesSafety
    \/ AdHearsAcceptance \/ AdHearsRefusal \/ AdGoalTimesOut \/ AdStopUnconfirmed
    \/ AdFinishes \/ AdEnds \/ AdFinishesJob

---------------------------------------------------------------------------
(* The supervisor. *)

SupOthers == <<gate, missionVars, ad, scope, lifecycle, revocation>>
Issued == scope # Nothing
InLoop == sup.pc = "observe"

(* What nobody looks at any more is forgotten. *)
Over(s) == [s EXCEPT !.pc = "ended", !.safety = NoSample, !.trans = {}, !.prior = FALSE,
                     !.closed = FALSE]

GoodReasons ==
    {"no_motion_observation_complete", "historical_motion_goal_complete", "patrol_complete"}

\* Mutant: only an interlock that was confirmed open is worth a stop.
LeavesOpening(s, queue, why) ==
    LET out == [s EXCEPT !.ready = FALSE, !.clicked = FALSE, !.terminal = None,
                         !.open = FALSE, !.admitted = FALSE, !.heard = {},
                         !.trans = @ \cup (s.heard \cap LeaseEvents)]
        closed == s.closed /\ revocation # Nothing /\ lifecycle.st = "CLOSED"
        untouched == ~Issued /\ ~s.open /\ s.stage = "" IN
    /\ failed' = (why \notin GoodReasons)
    /\ admission' = IF admission = "none" THEN "none" ELSE "REVOKED"
    /\ \/ /\ closed \/ untouched
          /\ sup' = Over(out) /\ verified' = "yes" /\ events' = <<>> /\ UNCHANGED estop
       \/ /\ ~closed /\ ~untouched
          /\ sup' = [out EXCEPT !.pc = "wait", !.prior = (revocation # Nothing)]
          /\ Stops(s.open) /\ events' = OfLease(queue) /\ UNCHANGED verified

(* The end of the loop and revoke_motion_before_shutdown up to its first   *)
(* wait: what is open or opening is stopped, the admission is revoked.     *)
Leaves(s, queue, why) ==
    LET out == [s EXCEPT !.ready = FALSE, !.clicked = FALSE, !.terminal = None,
                         !.open = FALSE, !.admitted = FALSE, !.heard = {},
                         !.trans = @ \cup (s.heard \cap LeaseEvents)]
        closed == s.closed /\ revocation # Nothing /\ lifecycle.st = "CLOSED"
        untouched == ~Issued /\ ~s.open /\ s.stage = "" IN
    /\ failed' = (why \notin GoodReasons)
    /\ admission' = IF admission = "none" THEN "none" ELSE "REVOKED"
    /\ \/ /\ closed \/ untouched
          /\ sup' = Over(out) /\ verified' = "yes" /\ events' = <<>> /\ UNCHANGED estop
       \/ /\ ~closed /\ ~untouched
          /\ sup' = [out EXCEPT !.pc = "wait", !.prior = (revocation # Nothing)]
          /\ Stops(TRUE) /\ events' = OfLease(queue) /\ UNCHANGED verified

(* A call that was given up is still served, its answer is not heard. *)
GivesUpCalls ==
    /\ calls' = [i \in DOMAIN calls |-> [calls[i] EXCEPT !.live = FALSE]]
    /\ answer' = None
AsksInterlock(on) ==
    /\ calls' = Append([i \in DOMAIN calls |-> [calls[i] EXCEPT !.live = FALSE]],
                       [on |-> on, live |-> TRUE])
    /\ answer' = None

SupLeaves(why) ==
    /\ Leaves(sup, events, why) /\ GivesUpCalls
    /\ UNCHANGED <<ledger, execution, work, SupOthers>>
SupFails == SupLeaves("failure")

(* Mutant of SupRecordsReadiness: a loss is taken back whenever it comes. *)
SupRecordsReadinessAnytime ==
    /\ InLoop
    /\ \E ready \in SUBSET Phases :
          LET after == Advance(ledger, ready) IN
          ledger' = IF Lost(after, ready) = {} THEN after
                    ELSE ReopenFrom(after, FirstLost(after, ready))
    /\ UNCHANGED <<gateVars, missionVars, adVars, sup, resultVars, receiptVars>>

(* The ledger: a loss before the authority is issued reopens the phases. *)
SupRecordsReadiness ==
    /\ InLoop
    /\ \E ready \in SUBSET Phases :
          LET after == Advance(ledger, ready) IN
          /\ ledger' = IF Lost(after, ready) = {} THEN after
                       ELSE ReopenFrom(after, FirstLost(after, ready))
          /\ Lost(after, ready) # {} => ~sup.open /\ ~Issued
    /\ UNCHANGED <<gateVars, missionVars, adVars, sup, resultVars, receiptVars>>

SupLosesReadiness ==
    /\ InLoop /\ (sup.open \/ Issued)
    /\ \E phase \in Phases : ledger[phase] = "PASS" /\ ledger' = FailAt(ledger, phase)
    /\ Leaves(sup, events, "failure") /\ GivesUpCalls
    /\ UNCHANGED <<execution, work, SupOthers>>

(* Any other check of the loop: processes, guard, resources, positions,    *)
(* and a command that the samples at hand do not allow.                    *)
CommandAllowed ==
    /\ admission = "ADMITTED" /\ LifecycleValid /\ "ACCEPTED" \in sup.heard
    /\ ~sup.safety.block /\ ~sup.safety.estop /\ sup.safety.owner = "mission"
SupRejects == InLoop /\ SupFails
SupRejectsCommand ==
    /\ sup.pc \in {"observe", "open", "openSeen", "receipt", "close", "closeSeen"}
    /\ gate.owner # None /\ ~CommandAllowed /\ SupFails

SupStops == InLoop /\ SupLeaves("requested stop")

SupTimesOut ==
    /\ InLoop
    /\ \/ AllPass(ledger) /\ ~Issued
       \/ sup.admitted /\ sup.ready /\ ~sup.clicked
       \/ sup.admitted /\ sup.clicked /\ "ACCEPTED" \notin sup.heard
       \/ sup.admitted /\ "ACCEPTED" \in sup.heard
       \/ sup.admitted /\ sup.terminal # None
    /\ SupFails

(* on_safety of the observer, whatever the supervisor is waiting for. *)
SupSamples ==
    /\ sup.pc \notin {"write", "ended"} /\ sup.safety # gate
    /\ sup' = [sup EXCEPT !.safety = gate,
                  !.trans = @ \cup (IF gate.owner = "mission" THEN {"ACQUIRED"} ELSE {})
                              \cup (IF sup.safety.owner = "mission" /\ gate.owner = None
                                    THEN {"RELEASED"} ELSE {})]
    /\ UNCHANGED <<gateVars, missionVars, adVars, ledger, resultVars,
                   receiptVars>>

(* on_goal of the observer.  A goal changes nothing or is refused: before  *)
(* the admission, as the second one, or without a current guard receipt.   *)
SupRejectsGoal ==
    /\ ad.goal
    /\ sup.pc \in {"observe", "open", "openSeen", "receipt", "close", "closeSeen"}
    /\ SupFails

(* The event queue. *)
Heard(more) == [sup EXCEPT !.heard = @ \cup more]
SupHears ==
    /\ InLoop /\ events # <<>>
    /\ LET e == Head(events) IN
       \/ /\ \/ e = "READY" /\ sup' = [sup EXCEPT !.ready = TRUE]
             \/ /\ e = "CLICK" /\ sup.admitted /\ ~sup.clicked
                /\ sup' = [sup EXCEPT !.clicked = TRUE]
             \/ e = "ACCEPTED" /\ sup.clicked /\ sup' = Heard({e})
             \/ e \in {"ACQUIRED", "RELEASED"} /\ sup' = Heard({e})
             \/ e = "TERMINAL_OK" /\ sup' = [sup EXCEPT !.terminal = "OK"]
             \/ e = "TERMINAL_BAD" /\ sup' = [sup EXCEPT !.terminal = "BAD"]
          /\ events' = Tail(events)
          /\ UNCHANGED <<estop, calls, answer, admission, failed, verified>>
       \/ /\ \/ e = "FAULT"
             \/ e = "CLICK" /\ (~sup.admitted \/ sup.clicked)
             \/ e = "ACCEPTED" /\ ~sup.clicked
          /\ Leaves(sup, Tail(events), "failure") /\ GivesUpCalls
    /\ UNCHANGED <<ledger, execution, work, SupOthers>>

(* Admission: the receipts, then the interlock, then the proof.  The code  *)
(* also wants that it heard of no goal, which says nothing of one on its   *)
(* way; a goal heard of before the admission ends the run                  *)
(* (SupRejectsGoal), so nothing of it is left to ask here.                 *)
SupIssues ==
    /\ InLoop /\ AllPass(ledger) /\ ~Issued
    /\ "ACCEPTED" \notin sup.heard
    /\ Issue /\ admission' = "OPENING"
    /\ AsksInterlock(TRUE)
    /\ sup' = [sup EXCEPT !.stage = "OPENING", !.pc = "open"]
    /\ UNCHANGED <<gate, estop, missionVars, adVars, ledger, resultVars,
                   revocation, work>>

SupHearsOpen ==
    /\ sup.pc = "open" /\ answer = "ok" /\ answer' = None
    /\ sup' = [sup EXCEPT !.pc = "openSeen"]
    /\ UNCHANGED <<gate, estop, calls, missionVars, adVars, ledger,
                   resultVars, receiptVars>>

SupSeesOpen ==
    /\ sup.pc = "openSeen" /\ PreGoal(sup.safety)
    /\ sup' = [sup EXCEPT !.pc = "receipt", !.open = TRUE]
    /\ UNCHANGED <<gateVars, missionVars, adVars, ledger, resultVars,
                   receiptVars>>

(* Three seconds for the answer, three for the status, or the guard never  *)
(* confirms what the supervisor sees.                                      *)
SupCannotOpen == sup.pc \in {"open", "openSeen", "receipt"} /\ SupFails

SupAdmits ==
    /\ sup.pc = "receipt"
    /\ PreGoal(sup.safety) \/ (~sup.safety.block /\ sup.safety.owner = "mission")
    /\ sup' = [sup EXCEPT !.pc = "observe", !.stage = "ADMITTED", !.admitted = TRUE]
    /\ admission' = "ADMITTED"
    /\ UNCHANGED <<gateVars, missionVars, adVars, ledger, resultVars,
                   scope, lifecycle, revocation, work>>

(* Completion: every piece of evidence, then block-all idle. *)
\* Mutant: the Lease was taken and given back, however the Mission ended.
CompleteAnyTerminal ==
    /\ sup.clicked /\ {"ACCEPTED", "ACQUIRED", "RELEASED"} \subseteq sup.heard
    /\ sup.terminal # None /\ RevocationValid(TRUE, TRUE)

Complete ==
    /\ sup.clicked /\ {"ACCEPTED", "ACQUIRED", "RELEASED"} \subseteq sup.heard
    /\ sup.terminal = "OK" /\ RevocationValid(TRUE, TRUE)

SupCompletes ==
    /\ InLoop /\ sup.admitted /\ Complete /\ sup.safety.owner = None
    /\ AsksInterlock(FALSE) /\ sup' = [sup EXCEPT !.pc = "close"]
    /\ UNCHANGED <<gate, estop, missionVars, adVars, ledger, resultVars,
                   receiptVars>>

Blocked(s) == s.block /\ s.owner = None

\* Mutant: the request to close is not awaited.
SupHearsCloseAnyway ==
    /\ sup.pc \in {"close", "revClose"} /\ answer' = None
    /\ sup' = [sup EXCEPT !.pc = IF @ = "close" THEN "closeSeen" ELSE "revSeen"]
    /\ UNCHANGED <<gate, estop, calls, missionVars, adVars, ledger,
                   resultVars, receiptVars>>

SupHearsClose ==
    /\ sup.pc \in {"close", "revClose"} /\ answer = "ok" /\ answer' = None
    /\ sup' = [sup EXCEPT !.pc = IF @ = "close" THEN "closeSeen" ELSE "revSeen"]
    /\ UNCHANGED <<gate, estop, calls, missionVars, adVars, ledger,
                   resultVars, receiptVars>>

SupCannotClose == sup.pc \in {"close", "closeSeen"} /\ SupFails

SupPasses ==
    /\ sup.pc = "closeSeen" /\ Blocked(sup.safety) /\ execution' = "PASS"
    /\ Leaves([sup EXCEPT !.closed = TRUE, !.open = FALSE, !.admitted = FALSE],
              events, "short_goal_completed")
    /\ GivesUpCalls
    /\ UNCHANGED <<ledger, work, SupOthers>>

(* Revocation: the Lease must be seen to be gone, five seconds long. *)
SupHearsLate ==
    /\ sup.pc = "wait" /\ events # <<>> /\ events' = Tail(events)
    /\ sup' = [sup EXCEPT !.trans = @ \cup {Head(events)}]
    /\ UNCHANGED <<gateVars, missionVars, ad, ledger, resultVars, receiptVars>>

Acquired == "ACQUIRED" \in sup.trans
Released ==
    \/ "RELEASED" \in sup.trans
    \/ lifecycle.st = "CLOSED" /\ lifecycle.rel

SupSeesNoLease ==
    /\ sup.pc = "wait" /\ sup.safety.owner = None /\ (Acquired => Released)
    /\ AsksInterlock(FALSE) /\ events' = <<>>
    /\ sup' = [sup EXCEPT !.pc = "revClose", !.prior = @ /\ lifecycle.st = "CLOSED"]
    /\ UNCHANGED <<gate, estop, missionVars, ad, ledger, resultVars,
                   receiptVars>>

Unverified ==
    /\ verified' = "no" /\ sup' = Over(sup) /\ events' = <<>>
    /\ GivesUpCalls
    /\ UNCHANGED <<gate, estop, missionVars, ad, ledger, failed,
                   execution, admission, scope, lifecycle, revocation>>

(* No fresh sample without owner, no answer, no status, or a callback of   *)
(* the observer raised.                                                    *)
SupCannotRevoke == sup.pc \in {"wait", "revClose", "revSeen"} /\ Unverified /\ UNCHANGED work

RevokeJob ==
    LET rel == Acquired /\ Released IN
    Job("revoke", <<Op("scope", "CLOSED", FALSE, rel, TRUE),
                    Op("lifecycle", "same", FALSE, FALSE, TRUE),
                    Op("close", "CLOSED", FALSE, Released, FALSE),
                    Op("revoke", "none", FALSE, FALSE, FALSE)>>, Acquired, Released)

SupSeesBlocked ==
    /\ sup.pc = "revSeen" /\ Blocked(sup.safety)
    /\ IF sup.prior
       THEN /\ verified' = IF RevocationValid(Acquired, Released) THEN "yes" ELSE "no"
            /\ sup' = Over(sup)
            /\ UNCHANGED work
       ELSE /\ Starts("supervisor", RevokeJob) /\ UNCHANGED verified
            /\ sup' = [Over(sup) EXCEPT !.pc = "write"]
    /\ UNCHANGED <<gateVars, missionVars, adVars, ledger, failed, execution,
                   admission, scope, lifecycle, revocation>>

SupRevokes ==
    /\ sup.pc = "write" /\ Finished("supervisor") /\ Ends("supervisor")
    /\ verified' = IF work["supervisor"].raised THEN "no" ELSE "yes"
    /\ sup' = Over(sup)
    /\ UNCHANGED <<gateVars, missionVars, adVars, ledger, failed, execution,
                   admission, scope, lifecycle, revocation>>

Supervisor ==
    \/ SupRecordsReadiness \/ SupLosesReadiness \/ SupRejects \/ SupRejectsCommand
    \/ SupStops \/ SupTimesOut \/ SupSamples \/ SupRejectsGoal \/ SupHears
    \/ SupIssues \/ SupHearsOpen \/ SupSeesOpen \/ SupCannotOpen \/ SupAdmits
    \/ SupCompletes \/ SupHearsClose \/ SupCannotClose \/ SupPasses \/ SupHearsLate
    \/ SupSeesNoLease \/ SupCannotRevoke \/ SupSeesBlocked \/ SupRevokes

Receipts ==
    /\ \E w \in Writers : Updates(w)
    /\ UNCHANGED <<gateVars, missionVars, adVars, supVars>>

(* The processes of the launch live until the supervisor tears them down;  *)
(* an update that is under way then may still be made.                     *)
Launch ==
    \/ MissionAnswers \/ MissionAcquires \/ MissionEnds \/ MissionReleases \/ OtherAcquires
    \/ Adapter

Next ==
    \/ EstopArrives \/ InterlockServes \/ Supervisor \/ Receipts
    \/ sup.pc # "ended" /\ Launch

Spec == Init /\ [][Next]_vars

---------------------------------------------------------------------------
(* Properties. *)

TypeOK ==
    /\ ReceiptsTypeOK
    /\ gate \in Samples /\ estop \in BOOLEAN
    /\ answer \in {None, "ok", "no"} /\ Len(calls) <= 2
    /\ mission \in {"idle", "asked", "accepted", "running", "succeeded", "failed"}
    /\ ad.lease \in {None, "seen", "released"} /\ ad.term \in {None, "OK", "BAD"}
    /\ ad.deadline \in {None, "reply", "task"}
    /\ sup.stage \in {"", "OPENING", "ADMITTED"}
    /\ ledger \in Ledgers
    /\ execution \in {None, "PASS"} /\ verified \in {None, "yes", "no"}
    /\ (sup.pc = "ended") = (verified # None)

(* A shutdown that is reported as verified leaves the interlock closed and *)
(* nobody with the Lease, and no request that is still on its way opens it *)
(* again (revoke_motion_before_shutdown).                                  *)
ShutdownIsSafe ==
    verified = "yes" /\ Issued =>
        /\ gate.block /\ gate.owner = None
        /\ \A i \in DOMAIN calls : ~calls[i].on

(* The authority stands on phases that have all passed: none of them is    *)
(* reopened under it, and one that is lost then fails the session.         *)
AuthorityNeedsReadiness == Issued => AllPass(ledger) \/ Failed(ledger)

(* The Mission holds the Lease only in a session whose admission was       *)
(* proved: the authority issued on passed phases, the interlock confirmed  *)
(* open, then ADMITTED (the main loop, from the loss of an admitted phase  *)
(* to the issue of the receipts, and confirm_admitted_safety_receipt).     *)
LeaseNeedsAdmission ==
    /\ AuthorityNeedsReadiness
    /\ gate.owner = "mission" =>
          Issued /\ admission \in {"ADMITTED", "REVOKED"} /\ sup.stage = "ADMITTED"

(* However often phases are lost and recover, they are admitted in order, a *)
(* failure blocks the later ones, and no turn of the loop follows it        *)
(* (PhaseLedger, first_admitted_phase_loss).                                *)
PhasesInOrder == Ordered(ledger) /\ (Failed(ledger) => ~InLoop)

(* An execution that passed is one the Mission finished with a Lease it    *)
(* took and gave back, with the receipts closed and the interlock closed   *)
(* (motion_completion_decision).                                           *)
PassIsWitnessed ==
    execution = "PASS" =>
        /\ mission = "succeeded" /\ gate.block /\ gate.owner = None
        /\ scope.st = "CLOSED" /\ lifecycle.st = "CLOSED" /\ lifecycle.acq
        /\ revocation.st = "REVOKED" /\ revocation.acq /\ revocation.rel

(* Receipts that say the authority is revoked are written only when the    *)
(* Mission does not hold the Lease and will not take it (maybe_finish).    *)
RevokedMeansNoLease == revocation # Nothing => gate.owner # "mission"

(* A Scope that is closed stays closed (update_scope). *)
ScopeStaysClosed == [][scope.st = "CLOSED" => scope'.st = "CLOSED"]_vars

(* However the session ends, once it was authorized: the interlock is      *)
(* closed for good, or the emergency stop is in force or under way.        *)
EveryEndStops ==
    verified # None /\ Issued =>
        \/ gate.estop \/ estop
        \/ gate.block /\ \A i \in DOMAIN calls : ~calls[i].on

(* A goal that was executed, witnessed and cleaned up is a success. *)
SuccessIsReported == execution = "PASS" /\ verified = "yes" => ~failed
====

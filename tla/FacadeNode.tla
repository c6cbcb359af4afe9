---- MODULE FacadeNode ----
(***************************************************************************)
(* The node around the facade runtime (cleannav_navigation): the boundary  *)
(* of a polygon goal and its handshake with the costmap layers, the proof  *)
(* of a path against a costmap snapshot, the stop that must be seen before *)
(* success, and the patrol path server, which drives the same FollowPath   *)
(* server.  The runtime itself is NavigationFacade; here it is what its    *)
(* session asks of the node.  Goals are numbered, the number of a goal is  *)
(* its token.  A wait that has a deadline may end as soon as it began.     *)
(***************************************************************************)
EXTENDS Integers, FiniteSets

CONSTANTS
    Costmaps,     \* the costmaps that carry the boundary layer
    MaxGoals,     \* navigation goals
    MaxPatrols,   \* patrol paths
    Need          \* half seconds of stop evidence

ASSUME NodeBounds ==
    /\ Costmaps # {} /\ MaxGoals \in Nat /\ MaxPatrols \in Nat
    /\ Need \in Nat \ {0}

VARIABLES
    session,    \* the one session of the runtime
    bound,      \* the facade's boundary: token, ever activated, armed
    layer,      \* costmap -> the token its layer has applied, 0 when just born
    ack,        \* costmap -> the token its layer is known to be ready for, or 0
    live,       \* the goal the FollowPath server works on
    requests,   \* goal requests it has not answered
    answer,     \* owner -> answer to its last request, then that goal's result
    patrol,     \* the patrol path server
    robot,      \* "still", "driven" by a command that is not zero, or "coasting"
    evidence    \* half seconds of zero commands and of still odometry seen

layerVars == <<layer, ack>>
followVars == <<live, requests, answer>>
vars == <<session, bound, layerVars, followVars, patrol, robot, evidence>>

None == "none"
Owners == {"facade", "patrol"}
Ends == {"succeeded", "aborted", "canceled"}
Nobody == [owner |-> None, n |-> 0, polygon |-> FALSE, proof |-> 0, asked |-> FALSE]
NoEvidence == [zero |-> 0, still |-> 0]

Init ==
    /\ session = [pc |-> "free", n |-> 0, polygon |-> FALSE, cancel |-> FALSE, client |-> FALSE,
                  alone |-> FALSE, stop |-> None]
    /\ bound = [token |-> 0, ever |-> FALSE, armed |-> FALSE]
    /\ layer = [c \in Costmaps |-> 0] /\ ack = [c \in Costmaps |-> 0]
    /\ live = Nobody /\ requests = {} /\ answer = [o \in Owners |-> None]
    /\ patrol = [pc |-> "free", n |-> 0, pieces |-> 0, cancel |-> FALSE]
    /\ robot = "still" /\ evidence = NoEvidence

(* The coroutine of the session has re-armed a wait that is done, and does *)
(* so for ever on the only thread of the node: no callback runs any more.  *)
Spinning == session.pc = "spin"
Awake == ~Spinning

---------------------------------------------------------------------------
(* The boundary layer of a costmap and the state it is known to be in.     *)
(* Whether a boundary is active belongs to its token.                      *)

(* updateCosts with the boundary it was told last, the newest or not yet,  *)
(* and its state message: not ready when the polygon is not valid for it   *)
(* or the transform is stale.  A state message a second and a half old is  *)
(* like one that is not ready.  The publisher of the boundary keeps its    *)
(* last message for a layer that comes late.                               *)
LayerUpdates(c) ==
    /\ \E told \in {layer[c], bound.token}, ready \in BOOLEAN :
          /\ layer' = [layer EXCEPT ![c] = told]
          /\ ack' = [ack EXCEPT ![c] = IF ready THEN told ELSE 0]
    /\ UNCHANGED <<session, bound, followVars, patrol, robot, evidence>>

CostmapRestarts(c) ==
    /\ layer[c] # 0 /\ layer' = [layer EXCEPT ![c] = 0]
    /\ UNCHANGED <<session, bound, ack, followVars, patrol, robot, evidence>>

---------------------------------------------------------------------------
(* The boundary in the facade. *)

\* Mutant: the token of the state message is not compared.
BoundaryReadyForAny == \A c \in Costmaps : ack[c] # 0

BoundaryReady == \A c \in Costmaps : ack[c] = bound.token

(* _watch_boundary, ten times a second. *)
WatchCancels ==
    /\ Awake /\ bound.armed /\ ~BoundaryReady
    /\ session.pc \notin {"free", "reserved"} /\ ~session.cancel
    /\ session' = [session EXCEPT !.cancel = TRUE]
    /\ UNCHANGED <<bound, layerVars, followVars, patrol, robot, evidence>>

---------------------------------------------------------------------------
(* A session. *)

To(pc) == session' = [session EXCEPT !.pc = pc]
(* The slot is free again, and what was asked of the session goes with it; *)
(* the result is not told apart but for success.                           *)
Finish == session' = [session EXCEPT !.pc = "free", !.cancel = FALSE, !.client = FALSE,
                                     !.alone = FALSE, !.stop = None]
(* The inner goal is asked to end, and its end is waited for. *)
Stop(why) ==
    /\ session' = [session EXCEPT !.pc = "stop", !.stop = why]
    /\ live' = IF live.owner = "facade" THEN [live EXCEPT !.asked = TRUE] ELSE live
(* _complete_success: what counts is seen from here on. *)
Guard ==
    /\ session' = [session EXCEPT !.pc = "guard", !.alone = patrol.pc = "free" /\ live = Nobody, !.stop = None]
    /\ evidence' = NoEvidence
SameNode == UNCHANGED <<bound, layerVars, patrol, robot>>
OnlySession == SameNode /\ UNCHANGED <<followVars, evidence>>

AcceptsGoal ==
    /\ session.pc = "free" /\ session.n < MaxGoals
    /\ \E polygon \in BOOLEAN :
          session' = [pc |-> "reserved", n |-> session.n + 1, polygon |-> polygon,
                      cancel |-> FALSE, client |-> FALSE, alone |-> FALSE, stop |-> None]
    /\ OnlySession

(* What was asked for counts once; who asked tells how the goal can end.   *)
ClientCancels ==
    /\ Awake /\ session.pc \notin {"free", "left"} /\ ~session.client
    /\ session' = [session EXCEPT !.cancel = TRUE, !.client = TRUE] /\ OnlySession

(* execute, up to the wait of _initialize_boundary. *)
Starts ==
    /\ session.pc = "reserved"
    /\ IF session.polygon \/ bound.ever
       THEN bound' = [token |-> session.n, ever |-> TRUE, armed |-> FALSE] /\ To("init")
       ELSE bound' = [bound EXCEPT !.armed = FALSE] /\ To("begin")
    /\ UNCHANGED <<layerVars, followVars, patrol, robot, evidence>>

\* Mutant: a boundary that both layers know is not watched.
HandshakeEndsUnarmed ==
    /\ session.pc = "init" /\ BoundaryReady /\ To("begin")
    /\ UNCHANGED <<bound, layerVars, followVars, patrol, robot, evidence>>

HandshakeEnds ==
    /\ session.pc = "init" /\ BoundaryReady /\ To("begin")
    /\ bound' = [bound EXCEPT !.armed = session.polygon]
    /\ UNCHANGED <<layerVars, followVars, patrol, robot, evidence>>

(* Six seconds, or a cancel. *)
HandshakeFails == session.pc = "init" /\ Finish /\ OnlySession

(* The robot stands where the goal is: no inner goal is needed. *)
AlreadyThere ==
    /\ session.pc = "begin" /\ robot = "still" /\ SameNode /\ UNCHANGED followVars
    /\ IF session.cancel THEN Finish /\ UNCHANGED evidence ELSE Guard

(* A polygon goal is planned from a start that was seen to stand still and *)
(* from a costmap that is awaited next; another one at once.               *)
Plans ==
    /\ session.pc = "begin" /\ OnlySession
    /\ CASE session.cancel -> Finish
         [] ~session.cancel /\ ~session.polygon -> To("plan")
         [] OTHER -> IF robot = "still" THEN To("start") ELSE Finish
CapturesStart == session.pc = "start" /\ OnlySession /\ (To("plan") \/ Finish)

(* The path is there and a costmap is asked for, or there is no path. *)
SeesPlan ==
    /\ session.pc = "plan" /\ OnlySession
    /\ IF session.cancel THEN Finish ELSE To("admit") \/ Finish

(* The dispatch of a path that was proved. *)
Submit ==
    /\ requests' = requests \cup {[Nobody EXCEPT !.owner = "facade", !.n = session.n,
                                   !.polygon = session.polygon, !.proof = bound.token]}
    /\ answer' = [answer EXCEPT !["facade"] = None]
    /\ session' = [session EXCEPT !.pc = "sent", !.stop = None]
    /\ UNCHANGED live

(* _validate_boundary_path; the sweep itself is among the refusals.        *)
Proved == session.polygon => BoundaryReady

(* The snapshot arrives and the path is proved and sent, or it is not.     *)
Admits ==
    /\ session.pc = "admit" /\ SameNode /\ UNCHANGED evidence
    /\ IF ~session.cancel /\ Proved
       THEN Submit \/ (Finish /\ UNCHANGED followVars)
       ELSE Finish /\ UNCHANGED followVars

Forget == answer' = [answer EXCEPT !["facade"] = None] /\ UNCHANGED <<live, requests>>
SeesAnswer ==
    /\ session.pc = "sent" /\ answer["facade"] # None /\ SameNode /\ UNCHANGED evidence
    /\ IF answer["facade"] = "rejected" THEN Finish /\ Forget
       ELSE To("follow") /\ UNCHANGED followVars

(* The wait of _follow_with_replanning: cancel, a tick, or the end.        *)
Ended == answer["facade"] \in Ends
SeesEnd ==
    /\ session.pc = "follow" /\ Ended
    /\ Forget /\ SameNode
    /\ CASE answer["facade"] = "succeeded" -> Guard
         [] answer["facade"] = "aborted" /\ ~session.cancel ->
               (To("plan") \/ Finish) /\ UNCHANGED evidence
         [] OTHER -> Finish /\ UNCHANGED evidence
SeesCancel ==
    /\ session.pc \in {"follow", "replan"} /\ session.cancel /\ ~Ended
    /\ Stop("cancel") /\ SameNode /\ UNCHANGED <<requests, answer, evidence>>

(* A tick wakes the coroutine, or is found pending by it: it goes before   *)
(* an end that is there.                                                   *)
Replans == session.pc = "follow" /\ ~session.cancel /\ To("tick") /\ OnlySession

(* A cancel that is met where the planner is asked, after it was refused   *)
(* or before it was sent, ends the outer goal as cancelled.  A client's    *)
(* leaves FollowPath driving: nobody tells it, and the slot is held until  *)
(* it ends.  Of the watch's own the action server knows nothing: the call  *)
(* raises, and the handler of the exception stops FollowPath.              *)
CancelMet ==
    CASE Ended -> Finish /\ Forget
      [] ~Ended /\ session.client -> To("left") /\ UNCHANGED followVars
      [] OTHER -> Stop("abort") /\ UNCHANGED <<requests, answer>>

(* No replacement: after a cancel the session stops; a polygon goal proves *)
(* the path it has once more, another one keeps it or has tried enough.    *)
NoReplacement ==
    \/ session.cancel /\ Stop("abort") /\ UNCHANGED <<requests, answer, evidence>>
    \/ ~session.cancel /\ session.polygon /\ To("recheck") /\ UNCHANGED <<followVars, evidence>>
    \/ /\ ~session.cancel /\ ~session.polygon
       /\ \/ To("follow") /\ UNCHANGED <<followVars, evidence>>
          \/ answer["facade"] = "succeeded" /\ Guard /\ Forget
          \/ /\ answer["facade"] # "succeeded"
             /\ Stop("abort") /\ UNCHANGED <<requests, answer, evidence>>

(* The coroutine goes on: the planner is asked, or cannot be.              *)
SendsReplan ==
    /\ session.pc = "tick" /\ SameNode
    /\ \/ NoReplacement
       \/ ~session.cancel /\ To("replan") /\ UNCHANGED <<followVars, evidence>>
       \/ session.cancel /\ CancelMet /\ UNCHANGED evidence

(* The plan is there, for a goal that goes on or was aborted, and the      *)
(* snapshot is awaited; or there is none, or the planner refuses.          *)
SeesReplan ==
    /\ session.pc = "replan" /\ ~session.cancel /\ SameNode
    /\ \/ NoReplacement
       \/ /\ answer["facade"] \in {"accepted", "aborted"}
          /\ To("readmit") /\ UNCHANGED <<followVars, evidence>>
ReplanIsRejected ==
    /\ session.pc = "replan" /\ session.cancel /\ CancelMet
    /\ SameNode /\ UNCHANGED evidence

(* The end comes before the plan.  For an aborted goal the wait is armed   *)
(* again with the end in it.                                               *)
SeesEndInReplan ==
    /\ session.pc = "replan" /\ Ended /\ SameNode
    /\ CASE answer["facade"] = "succeeded" -> Guard /\ Forget
         [] answer["facade"] = "aborted" /\ ~session.cancel ->
               To("spin") /\ UNCHANGED <<followVars, evidence>>
         [] OTHER -> Finish /\ Forget /\ UNCHANGED evidence

(* The slot of a goal that ended before its FollowPath.                    *)
LateResult ==
    /\ session.pc = "left" /\ Ended /\ Finish /\ Forget
    /\ SameNode /\ UNCHANGED evidence

(* The replacement is proved: the old goal has to end before it is sent.   *)
Readmits ==
    /\ session.pc = "readmit" /\ Proved /\ SameNode
    /\ CASE session.cancel -> Stop("abort") /\ UNCHANGED <<requests, answer, evidence>>
         [] ~session.cancel /\ ~Ended -> Stop("swap") /\ UNCHANGED <<requests, answer, evidence>>
         [] ~session.cancel /\ answer["facade"] = "succeeded" -> Guard /\ Forget
         [] OTHER -> /\ UNCHANGED evidence
                     /\ \/ answer["facade"] = "aborted" /\ Submit
                        \/ Finish /\ Forget
(* Near the goal, or the same path: nothing changes. *)
KeepsPath ==
    session.pc = "readmit" /\ Proved /\ ~session.cancel /\ To("follow") /\ OnlySession
IsRefused == session.pc = "readmit" /\ NoReplacement /\ SameNode

(* The proof of the path it has, for a polygon goal without a replacement. *)
Rechecks ==
    /\ session.pc = "recheck" /\ SameNode /\ UNCHANGED <<requests, answer, evidence>>
    /\ \/ Proved /\ To("follow") /\ UNCHANGED live
       \/ Stop("abort")

(* The end of a goal that was asked to end: it may have come by itself.    *)
SeesStop ==
    /\ session.pc = "stop" /\ Ended /\ SameNode
    /\ CASE session.stop = "swap" /\ ~session.cancel /\ answer["facade"] # "succeeded" ->
               (Submit \/ (Finish /\ Forget)) /\ UNCHANGED evidence
         [] session.stop # "abort" /\ answer["facade"] = "succeeded" ->
               (Guard \/ (Finish /\ UNCHANGED evidence)) /\ Forget
         [] OTHER -> Finish /\ Forget /\ UNCHANGED evidence

(* _wait_for_waypoint_stop_and_snapshot: half a second more of evidence;   *)
(* a gap between two samples starts over.                                  *)
Least(a, b) == IF a < b THEN a ELSE b
SeesStanding ==
    /\ session.pc = "guard" /\ \E gap \in BOOLEAN :
          evidence' = [zero |-> IF robot = "driven" THEN 0 ELSE Least(Need, evidence.zero + 1),
                       still |-> IF robot # "still" \/ gap THEN 0 ELSE Least(Need, evidence.still + 1)]
    /\ evidence' # evidence /\ SameNode /\ UNCHANGED <<session, followVars>>

\* Mutant: a zero command counts as a stop.
StopProvedByCommand == evidence.zero = Need
StopProved == evidence.zero = Need /\ evidence.still = Need

AsksFinalCostmap == session.pc = "guard" /\ StopProved /\ To("final") /\ OnlySession
NoFinalCostmap == session.pc = "final" /\ To("guard") /\ OnlySession
Leave == Finish /\ evidence' = NoEvidence /\ SameNode /\ UNCHANGED followVars
Succeeds == session.pc = "final" /\ Leave
GuardTimesOut == session.pc \in {"guard", "final"} /\ Leave

Works ==
    \/ Starts \/ HandshakeEnds \/ AlreadyThere \/ Plans \/ CapturesStart \/ SeesPlan
    \/ Admits \/ SeesAnswer \/ SeesEnd \/ SeesCancel \/ SendsReplan \/ SeesReplan
    \/ ReplanIsRejected \/ SeesEndInReplan \/ LateResult \/ Readmits \/ KeepsPath
    \/ IsRefused \/ Rechecks \/ SeesStop
Stands == SeesStanding \/ AsksFinalCostmap \/ NoFinalCostmap \/ Succeeds
TimesOut == HandshakeFails \/ GuardTimesOut

---------------------------------------------------------------------------
(* The patrol path server. *)

SameFacade == UNCHANGED <<session, bound, layerVars, robot, evidence>>
PatrolTo(pc) == patrol' = [patrol EXCEPT !.pc = pc]
Unheard == answer' = [answer EXCEPT !["patrol"] = None] /\ UNCHANGED <<live, requests>>
(* The finally clause frees the slot with the result. *)
PatrolEnds == patrol' = [patrol EXCEPT !.pc = "free", !.pieces = 0, !.cancel = FALSE]

(* closed_loop_splits: an open path is one piece, a closed one is split    *)
(* where it is far from its start.                                         *)
Pieces == 1..2
PatrolAccepts ==
    /\ patrol.pc = "free" /\ patrol.n < MaxPatrols
    /\ \E pieces \in Pieces :
          patrol' = [pc |-> "next", n |-> patrol.n + 1, pieces |-> pieces, cancel |-> FALSE]
    /\ session' = [session EXCEPT !.alone = FALSE]
    /\ UNCHANGED <<bound, layerVars, followVars, robot, evidence>>

PatrolIsCancelled ==
    /\ patrol.pc # "free" /\ ~patrol.cancel /\ patrol' = [patrol EXCEPT !.cancel = TRUE]
    /\ SameFacade /\ UNCHANGED followVars

(* The loop over the pieces. *)
PatrolSends ==
    /\ patrol.pc = "next" /\ SameFacade /\ UNCHANGED live
    /\ IF patrol.cancel THEN PatrolEnds /\ UNCHANGED <<requests, answer>>
       ELSE /\ requests' = requests \cup {[Nobody EXCEPT !.owner = "patrol", !.n = patrol.n]}
            /\ answer' = [answer EXCEPT !["patrol"] = None] /\ PatrolTo("sent")
PatrolCannotSend == patrol.pc = "next" /\ PatrolEnds /\ SameFacade /\ UNCHANGED followVars

PatrolSeesAnswer ==
    /\ patrol.pc = "sent" /\ answer["patrol"] # None /\ SameFacade
    /\ IF answer["patrol"] = "rejected" THEN PatrolEnds /\ Unheard
       ELSE PatrolTo("follow") /\ UNCHANGED followVars

PatrolSeesEnd ==
    /\ patrol.pc = "follow" /\ answer["patrol"] \in Ends /\ SameFacade /\ Unheard
    /\ CASE answer["patrol"] # "succeeded" -> PatrolEnds
         [] patrol.pieces = 1 -> PatrolEnds
         [] OTHER -> patrol' = [patrol EXCEPT !.pc = "next", !.pieces = 1]

(* The inner goal is this patrol's own. *)
Own(g) == g.owner = "patrol" /\ patrol.pc # "free" /\ g.n = patrol.n

(* A cancel: the inner goal is asked to stop, and what is awaited is the   *)
(* answer to the asking, not the end.                                      *)
PatrolAsksStop ==
    /\ patrol.pc = "follow" /\ patrol.cancel /\ answer["patrol"] \notin Ends
    /\ PatrolTo("asked") /\ SameFacade /\ UNCHANGED followVars

\* Mutant: the answer to the cancel is not awaited.
PatrolLeavesUnasked ==
    /\ patrol.pc = "asked" /\ PatrolEnds /\ SameFacade /\ Unheard

PatrolLeaves ==
    /\ patrol.pc = "asked" /\ (Own(live) => live.asked) /\ PatrolEnds
    /\ SameFacade /\ Unheard

(* An exception while it follows: asked to stop, nothing awaited. *)
PatrolFails ==
    /\ patrol.pc = "follow" /\ PatrolEnds /\ SameFacade
    /\ live' = IF Own(live) THEN [live EXCEPT !.asked = TRUE] ELSE live
    /\ answer' = [answer EXCEPT !["patrol"] = None] /\ UNCHANGED requests

\* Mutant: a cancel is looked for between two pieces only.
PatrolWorksThrough == Awake /\ (PatrolSends \/ PatrolSeesAnswer \/ PatrolSeesEnd)

PatrolWorks ==
    Awake /\ (PatrolSends \/ PatrolSeesAnswer \/ PatrolSeesEnd \/ PatrolAsksStop \/ PatrolLeaves)
Patrol ==
    \/ Awake /\ (PatrolAccepts \/ PatrolIsCancelled \/ PatrolCannotSend \/ PatrolFails)
    \/ PatrolWorks

---------------------------------------------------------------------------
(* The controller's FollowPath server, and the robot under it.             *)

(* Only the goal its owner waits for is heard of. *)
Heard(g) == g.owner = "facade" \/ Own(g)
Tell(a, g, what) == IF Heard(g) THEN [a EXCEPT ![g.owner] = what] ELSE a

(* A new goal preempts the one before, which is aborted. *)
Accepts(o) ==
    \E r \in {q \in requests : q.owner = o} :
        /\ requests' = requests \ {r} /\ live' = r
        /\ answer' = Tell(Tell(answer, live, "aborted"), r, "accepted")
Rejects(o) ==
    \E r \in {q \in requests : q.owner = o} :
        requests' = requests \ {r} /\ answer' = Tell(answer, r, "rejected") /\ UNCHANGED live
HearsCancel ==
    /\ patrol.pc = "asked" /\ Own(live) /\ ~live.asked
    /\ live' = [live EXCEPT !.asked = TRUE] /\ UNCHANGED <<requests, answer>>
FollowEnds ==
    /\ live # Nobody /\ live' = Nobody /\ UNCHANGED requests
    /\ \E end \in IF live.asked THEN Ends ELSE Ends \ {"canceled"} :
          answer' = Tell(answer, live, end)
SameOwners == UNCHANGED <<session, bound, layerVars, patrol, robot, evidence>>
Answers(o) == (Accepts(o) \/ Rejects(o)) /\ SameOwners
Follow == (\E o \in Owners : Answers(o)) \/ ((HearsCancel \/ FollowEnds) /\ SameOwners)

(* A command that is not zero, and odometry that is not still, are heard   *)
(* of at once; the commands of a goal may outlast it, and so may motion.   *)
Robot ==
    /\ \/ live # Nobody /\ robot # "driven" /\ robot' = "driven" /\ evidence' = NoEvidence
       \/ robot = "driven" /\ robot' = "coasting" /\ UNCHANGED evidence
       \/ robot = "coasting" /\ robot' = "still" /\ UNCHANGED evidence
    /\ UNCHANGED <<session, bound, layerVars, followVars, patrol>>

---------------------------------------------------------------------------
Layers == \E c \in Costmaps :
    LayerUpdates(c) \/ CostmapRestarts(c)
Next ==
    \/ Layers \/ WatchCancels \/ AcceptsGoal \/ ClientCancels \/ Works \/ Replans
    \/ Stands \/ TimesOut \/ Patrol \/ Follow \/ Robot

(* The executor runs what is ready and clocks go on; the controller        *)
(* answers, and ends what it is asked to end.  Nothing else is owed: no    *)
(* message of a layer, no command, no end of a goal nobody cancels.        *)
Fairness ==
    /\ WF_vars(Works) /\ WF_vars(TimesOut) /\ WF_vars(WatchCancels) /\ WF_vars(PatrolWorks)
    /\ (\A o \in Owners : WF_vars(Answers(o))) /\ WF_vars(HearsCancel /\ SameOwners)
    /\ WF_vars(live.asked /\ FollowEnds /\ SameOwners)
Spec == Init /\ [][Next]_vars /\ Fairness

---------------------------------------------------------------------------
(* Properties. *)

(* No goal the facade has at the controller runs before both costmaps      *)
(* carry the boundary of its own session, and none runs under the boundary *)
(* of a session before: for a polygon goal, and for any goal after one     *)
(* (_initialize_boundary, _validate_boundary_path).  A layer that was      *)
(* restarted carries none until it is told again.                          *)
MotionInsideBoundary ==
    live.owner = "facade" /\ bound.ever =>
        /\ live.proof = live.n /\ live.n = session.n
        /\ \A c \in Costmaps : layer[c] \in {live.n, 0}

(* A polygon goal does not outlast the boundary: when the costmaps stop    *)
(* answering for it, the robot is taken off the path, or they answer again *)
(* (_watch_boundary).  Excepted is a goal whose client's cancel was met    *)
(* where the planner was asked: it has ended, its FollowPath drives on,    *)
(* and the watch takes the cancel as made.  The watch's own cancel is not  *)
(* excepted, wherever it is met.                                           *)
PolygonFollow == live.owner = "facade" /\ live.polygon
LostBoundaryEnds ==
    PolygonFollow /\ ~BoundaryReady
        ~> ~PolygonFollow \/ BoundaryReady \/ (session.pc = "left" /\ session.client)

(* A controller goal of the patrol server that nobody waits for any more   *)
(* has been asked to stop, whatever the facade did to the shared           *)
(* controller in between (_execute_patrol_path).                           *)
NoOrphan == live.owner = "patrol" /\ ~Own(live) => live.asked

(* A waypoint is reported as reached only by a robot that stands and is    *)
(* told to stand, unless a patrol path was accepted meanwhile              *)
(* (_wait_for_waypoint_stop_and_snapshot).                                 *)
WaypointIsAStop ==
    [][Succeeds /\ session.alone => robot = "still"]_vars

(* A cancel ends the patrol path and the navigation goal it was sent to,   *)
(* whichever of the two the controller works for and whatever the costmaps *)
(* do.  Excepted is a node whose thread spins over a FollowPath that was   *)
(* aborted during a replan, which serves no patrol any more.  The goal's   *)
(* slot may still wait for a FollowPath that nobody told.                  *)
CancelsEnd ==
    /\ patrol.cancel ~> patrol.pc = "free" \/ Spinning
    /\ session.cancel ~> session.pc \in {"free", "left"}
====

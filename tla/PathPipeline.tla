---------------------------- MODULE PathPipeline ----------------------------
(* The legacy execution chain: the planner bridge and the path executor as   *)
(* two processes joined by three topics.  Every topic is reliable with depth *)
(* one: what the reader has not taken is overwritten by the next callback's  *)
(* messages, and of several messages of one callback the reader may miss all *)
(* but the last.  Nothing orders messages of different topics.               *)
(* The bridge's variables keep their names; the executor's get an x.         *)
EXTENDS HybridPlannerBridge

CONSTANTS
    Handles, NoHandle, MayReject,   \* as in PathExecutor
    GoalOf                          \* the final goal each path leads to

ASSUME PipelineAssumption ==
    /\ NoHandle \notin Handles
    /\ GoalOf \in [Paths -> 1 .. MaxGoals]

VARIABLES
    xSending, xActive, xRoute, xPending, xCancelRequested, xCancelCall, xCancelWhenAccepted,
    xUnverified, xNearGoal, xObserved, xLastStatus, xOutbox, xServer, xRevoked,
    reached             \* history: final goals the controller has driven to

PathNode == INSTANCE PathExecutor WITH
    sending <- xSending, active <- xActive, route <- xRoute, pending <- xPending,
    cancelRequested <- xCancelRequested, cancelCall <- xCancelCall,
    cancelWhenAccepted <- xCancelWhenAccepted, unverified <- xUnverified,
    nearGoal <- xNearGoal, observed <- xObserved, lastStatus <- xLastStatus,
    outbox <- xOutbox, server <- xServer, revoked <- xRevoked

bridgeVars == <<goalVars, deferred, sendVars, callVars, lastStatus, planner>>
xNodeVars  == <<xSending, xActive, xRoute, xPending, xCancelRequested, xCancelCall,
                xCancelWhenAccepted, xUnverified, xNearGoal, xObserved, xLastStatus, xServer,
                xRevoked>>
pipeVars   == <<vars, xNodeVars, xOutbox, reached>>

PipeInit == Init /\ PathNode!Init /\ reached = {}

\* The reader takes message i of the batch and misses those before it.
Take(batch, i) == SubSeq(batch, i + 1, Len(batch))

-----------------------------------------------------------------------------
\* The bridge alone: user goals, timers, planner answers and the planner.
BridgeStep ==
    /\ \/ RetryTimer \/ ReplanTimer \/ ResponseUnverified \/ ResponseRejected
       \/ ResponseAccepted \/ ResultUnverified \/ ResultDropped
       \/ \E p \in Paths : active # NoRequest /\ GoalOf[p] = requestOf[active] /\ ResultPath(p)
       \/ PlannerServer \/ User
    /\ UNCHANGED <<xNodeVars, xOutbox, reached>>

\* The executor alone: timer, feedback, controller answers.
ExecutorStep ==
    /\ PathNode!Callback
    /\ UNCHANGED <<bridgeVars, path, said, reached>>

ControllerStep ==
    /\ PathNode!Controller
    /\ reached' = reached \cup {GoalOf[xRoute[h]] :
                     h \in {g \in Handles : xServer[g] # "succeeded" /\ xServer'[g] = "succeeded"}}
    /\ UNCHANGED <<bridgeVars, path, said>>

DeliverPath ==
    /\ path # NoPath
    /\ PathNode!PathCb(path)
    /\ path' = NoPath
    /\ UNCHANGED <<bridgeVars, said, reached>>

DeliverPlannerStatus ==
    /\ \E i \in 1 .. Len(said) :
        /\ said' = Take(said, i)
        /\ IF said[i].text \in PathNode!DangerPrefixes
           THEN PathNode!StatusCb(said[i].text)
           ELSE UNCHANGED <<xNodeVars, xOutbox, faults>>
    /\ UNCHANGED <<bridgeVars, path, reached>>

\* What the bridge does with an executor status; most are not for it.
OnExecutorStatus(s) ==
    \/ s.text = "follow_path_near_goal"  /\ NearGoal(s.path)
    \/ s.text = "follow_path_aborted"    /\ FollowAborted(s.path)
    \/ s.text = "follow_path_succeeded"  /\ FollowSucceeded(s.path)
    \/ /\ s.text \notin {"follow_path_near_goal", "follow_path_aborted", "follow_path_succeeded"}
             \/ s.path # latest
       /\ UNCHANGED vars

DeliverExecutorStatus ==
    /\ \E i \in 1 .. Len(xOutbox) :
        /\ xOutbox' = Take(xOutbox, i)
        /\ OnExecutorStatus(xOutbox[i])
    /\ UNCHANGED <<xNodeVars, reached>>

PipeNext ==
    \/ BridgeStep \/ ExecutorStep \/ ControllerStep
    \/ DeliverPath \/ DeliverPlannerStatus \/ DeliverExecutorStatus

PipeSpec == PipeInit /\ [][PipeNext]_pipeVars

(* Both nodes spin, so every message, answer and timer is served; a request  *)
(* that is repeated is once accepted and a plan that is tried again gives a  *)
(* path at last.                                                             *)
ExecutorIdle == UNCHANGED <<xNodeVars, xOutbox, reached>>

PipeFairness ==
    /\ SF_pipeVars((RetryTimer \/ ReplanTimer) /\ sending' # NoRequest /\ ExecutorIdle)
    /\ WF_pipeVars(ReplanTimer /\ ExecutorIdle)
    /\ WF_pipeVars((ResponseRejected \/ ResponseAccepted) /\ ExecutorIdle)
    /\ WF_pipeVars(BridgeStep /\ TakeResult)
    /\ SF_pipeVars(BridgeStep /\ TakeResult /\ path' # NoPath)
    /\ \A r \in Requests :
        /\ WF_pipeVars((Decide(r) \/ Plan(r)) /\ ExecutorIdle)
        /\ SF_pipeVars(BridgeStep /\ planner[r] = "asked" /\ planner'[r] = "planning")
    /\ WF_pipeVars(ExecutorStep /\ (PathNode!ResponseRejected \/ PathNode!ResponseAccepted
                                    \/ PathNode!CancelResponse \/ PathNode!Result))
    /\ SF_pipeVars(ExecutorStep /\ xSending = NoHandle /\ xSending' # NoHandle)
    /\ \A h \in Handles :
        /\ WF_pipeVars(ControllerStep /\ (PathNode!Decide(h) \/ PathNode!Halt(h)
                                          \/ PathNode!CancelServed(h)))
        /\ SF_pipeVars(ControllerStep /\ xServer[h] = "asked" /\ xServer'[h] = "executing")
    /\ WF_pipeVars(DeliverPath)
    /\ WF_pipeVars(DeliverPlannerStatus)
    /\ WF_pipeVars(DeliverExecutorStatus)

FairPipeSpec == PipeSpec /\ PipeFairness

\* And the robot gets there: a goal that is followed again and again is once
\* reached.
ArrivalSpec ==
    /\ FairPipeSpec
    /\ \A h \in Handles :
        SF_pipeVars(ControllerStep /\ xServer[h] = "executing" /\ xServer'[h] = "succeeded")

-----------------------------------------------------------------------------
(* Properties *)

\* The bridge gives up a final goal only when the robot has driven to it: a
\* late success of an older goal does not end a newer one.
\* (_executor_status_callback:151)
OnlySuccessEndsGoal ==
    [][finalGoal /\ ~finalGoal' /\ generation' = generation => generation \in reached]_pipeVars

\* Every final goal is driven to unless the user replaces it, although plans
\* fail, controllers abort and statuses are lost.
GoalReached ==
    \A g \in 1 .. MaxGoals :
        (generation = g /\ finalGoal) ~> (g \in reached \/ generation # g)

ExecutorHolds == xSending # NoHandle \/ xActive # NoHandle \/ xPending # NoPath \/ path # NoPath

\* The completion window stops the replans of a goal only while its path is
\* being followed: when that ends short of the goal, replanning is restored.
\* (_executor_status_callback:159)
WindowIsReleased ==
    \A g \in 1 .. MaxGoals :
        (generation = g /\ finalGoal /\ InWindow /\ ~ExecutorHolds)
            ~> (generation # g \/ ~finalGoal \/ ~InWindow \/ ExecutorHolds)
=============================================================================

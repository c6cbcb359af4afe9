------------------------- MODULE HybridPlannerBridge -------------------------
(* cleannav_global_planner/hybrid_planner_bridge_node.py: keeps the user's   *)
(* final goal, asks the ComputePathToPose server for a path to it again and  *)
(* again, and publishes every path that still belongs to that goal.  The     *)
(* node runs under rclpy.spin (:398): a callback is one step.  A request is  *)
(* named by an identifier that stands for the code's request_id and goal     *)
(* handle, and is used again once its result has been taken.                 *)
EXTENDS Naturals, Sequences, SequencesExt

CONSTANTS
    Paths,          \* path signatures
    NoPath,
    Requests,       \* requests that can exist at the planner at once
    NoRequest,
    MaxGoals,       \* bound: final goals the user sends (_generation)
    MaxFaults,      \* bound: calls that raise, answers that cannot be trusted
    Replanning,     \* replan_period_sec > 0
    BadGoals        \* the reasons to refuse a goal the user may give

ASSUME BridgeAssumption ==
    /\ NoPath \notin Paths
    /\ NoRequest \notin Requests
    /\ MaxGoals \in Nat /\ MaxFaults \in Nat
    /\ Replanning \in BOOLEAN
    /\ BadGoals \subseteq {"goal frame", "goal position non-finite", "goal quaternion non-finite"}

VARIABLES
    generation,         \* _generation
    finalGoal,          \* _final_goal is set
    hasPath,            \* _has_successful_path
    latest,             \* _latest_path_signature
    window,             \* _completion_window_signature
    pendingGoal,        \* generation in _pending_goal, 0 when there is none
    deferred,           \* _replan_deferred
    sending,            \* request whose goal response is awaited (_send_future)
    active,             \* accepted request (_active_goal_handle)
    requestOf,          \* generation each request was sent for
    cancelRequested,    \* _active_cancel_requested
    observed,           \* a result callback is registered for the active request
    unverified,         \* _submission_unverified
    lastStatus,         \* _last_status
    path,               \* /cleannav/global_path, the sample not read yet
    said,               \* /cleannav/global_planner_status, the last callback's
    planner,            \* state of each request at the server (external)
    faults

goalVars   == <<generation, finalGoal, hasPath, latest, window>>
callVars   == <<active, cancelRequested, observed>>
sendVars   == <<pendingGoal, sending, requestOf, unverified>>
statusVars == <<lastStatus, said>>
vars == <<generation, finalGoal, hasPath, latest, window, pendingGoal, deferred, sending, active,
          requestOf, cancelRequested, observed, unverified, lastStatus, path, said, planner, faults>>

Live(r)  == planner[r] \in {"asked", "planning", "canceling"}
InWindow == window # NoPath /\ window = latest

Status(text, detail) == [text |-> text, detail |-> detail]
Blank                == Status("", "")
Say(text, detail)    == <<Status(text, detail)>>

\* _publish_status: a text equal to the one published before it is dropped.
Fresh(last, texts) ==
    LET keep(kept, s) == IF s = Last(kept) THEN kept ELSE Append(kept, s)
    IN  Tail(FoldLeft(keep, <<last>>, texts))

Publish(last, texts) ==
    IF Fresh(last, texts) = <<>>
    THEN lastStatus' = last /\ UNCHANGED said
    ELSE said' = Fresh(last, texts) /\ lastStatus' = Last(Fresh(last, texts))

\* _publish_failure: silent for a request of an older or finished goal, and a
\* hard failure only until the goal has had its first path.
Failure(g, have, detail) ==
    IF g # generation' \/ ~finalGoal'
    THEN <<>>
    ELSE Say(IF have THEN "replan fail" ELSE "A* fail", detail)

Init ==
    /\ generation = 0 /\ finalGoal = FALSE /\ hasPath = FALSE
    /\ latest = NoPath /\ window = NoPath
    /\ pendingGoal = 0 /\ deferred = FALSE
    /\ sending = NoRequest /\ active = NoRequest
    /\ requestOf = [r \in Requests |-> 0]
    /\ cancelRequested = FALSE /\ observed = FALSE /\ unverified = FALSE
    /\ lastStatus = Blank /\ path = NoPath /\ said = <<>>
    /\ planner = [r \in Requests |-> "free"]
    /\ faults = 0

-----------------------------------------------------------------------------
(* Requests *)

\* _try_send_pending_goal past its early returns: g is the pending generation,
\* server the planner's requests at that point of the callback.
Send(g, server, last, texts) ==
    \/ \E r \in Requests :
        /\ server[r] = "free"
        /\ pendingGoal' = 0 /\ sending' = r
        /\ requestOf' = [requestOf EXCEPT ![r] = g]
        /\ planner' = [server EXCEPT ![r] = "asked"]
        /\ Publish(last, texts)
        /\ UNCHANGED <<unverified, faults>>
    \/ \* the server is not ready
        /\ pendingGoal' = g /\ sending' = NoRequest /\ planner' = server
        /\ Publish(last, texts \o Say("waiting for action server", ""))
        /\ UNCHANGED <<requestOf, unverified, faults>>
    \/ \E r \in Requests :
        \* send_goal_async raises: the request may or may not have left
        /\ server[r] = "free" /\ faults < MaxFaults /\ faults' = faults + 1
        /\ pendingGoal' = 0 /\ sending' = NoRequest /\ unverified' = TRUE
        /\ requestOf' = [requestOf EXCEPT ![r] = g]
        /\ planner' \in {server, [server EXCEPT ![r] = "asked"]}
        /\ Publish(last, texts \o Failure(g, hasPath', "exception"))

\* Nothing is sent; the pending generation becomes g.
Hold(g, server, last, texts) ==
    /\ pendingGoal' = g /\ planner' = server
    /\ Publish(last, texts)
    /\ UNCHANGED <<requestOf, unverified, faults>>

\* Mutant: a deferred replan stays deferred when nothing is sent.
AdvanceQueueStillDeferred(server, texts) ==
    /\ UNCHANGED deferred
    /\ IF pendingGoal # 0 /\ ~unverified
       THEN Send(pendingGoal, server, lastStatus, texts)
       ELSE Hold(pendingGoal, server, lastStatus, texts) /\ sending' = NoRequest

\* _advance_request_queue once no request is outstanding.  The deferred replan
\* goes through the timer's own checks again.
AdvanceQueue(server, texts) ==
    \/ /\ pendingGoal # 0
       /\ UNCHANGED deferred
       /\ IF unverified
          THEN Hold(pendingGoal, server, lastStatus, texts) /\ sending' = NoRequest
          ELSE Send(pendingGoal, server, lastStatus, texts)
    \/ /\ pendingGoal = 0
       /\ deferred' = (deferred /\ ~finalGoal')
       /\ IF Replanning /\ deferred /\ finalGoal' /\ ~InWindow'
          THEN IF unverified
               THEN Hold(generation', server, lastStatus, texts) /\ sending' = NoRequest
               ELSE Send(generation', server, lastStatus, texts)
          ELSE Hold(0, server, lastStatus, texts) /\ sending' = NoRequest

\* _schedule_replan with a final goal set.
ScheduleReplan ==
    IF sending # NoRequest \/ active # NoRequest \/ pendingGoal # 0
    THEN deferred' = TRUE /\ UNCHANGED <<sendVars, statusVars, planner, faults>>
    ELSE /\ UNCHANGED deferred
         /\ IF unverified
            THEN Hold(generation, planner, lastStatus, <<>>) /\ UNCHANGED sending
            ELSE Send(generation, planner, lastStatus, <<>>)

\* _request_cancel_active_goal for the request a: the call may raise and leave
\* the flag down; spent counts the calls that already raised in this callback.
RequestCancel(requested, a, spent) ==
    \/ /\ a = NoRequest \/ requested
       /\ cancelRequested' = requested /\ UNCHANGED planner /\ faults' = faults + spent
    \/ /\ a # NoRequest /\ ~requested
       /\ cancelRequested' = TRUE
       /\ planner' = [planner EXCEPT ![a] = IF @ = "planning" THEN "canceling" ELSE @]
       /\ faults' = faults + spent
    \/ /\ a # NoRequest /\ ~requested
       /\ faults + spent < MaxFaults /\ faults' = faults + spent + 1
       /\ cancelRequested' = FALSE /\ UNCHANGED planner

-----------------------------------------------------------------------------
(* Subscriptions and timers *)

ForgetGoal ==
    /\ hasPath' = FALSE /\ latest' = NoPath /\ window' = NoPath /\ deferred' = FALSE

\* _goal_callback with a goal _validate_goal refuses for the reason text.
GoalRefused(text) ==
    /\ generation < MaxGoals /\ generation' = generation + 1
    /\ finalGoal' = FALSE /\ ForgetGoal
    /\ pendingGoal' = 0
    /\ Publish(lastStatus, Say(text, ""))
    /\ RequestCancel(cancelRequested, active, 0)
    /\ UNCHANGED <<sending, active, requestOf, observed, unverified, path>>

\* _goal_callback with a valid goal
GoalAccepted ==
    /\ generation < MaxGoals /\ generation' = generation + 1
    /\ finalGoal' = TRUE /\ ForgetGoal
    /\ IF sending = NoRequest /\ active = NoRequest /\ ~unverified
       THEN Send(generation + 1, planner, Blank, <<>>) /\ UNCHANGED cancelRequested
       ELSE /\ pendingGoal' = generation + 1
            /\ lastStatus' = Blank
            /\ RequestCancel(cancelRequested, active, 0)
            /\ UNCHANGED <<said, sending, requestOf, unverified>>
    /\ UNCHANGED <<active, observed, path>>

\* _executor_status_callback, one action for each status it acts on.
NearGoal(p) ==
    /\ p = latest
    /\ window' = p
    /\ UNCHANGED <<generation, finalGoal, hasPath, latest, deferred, sendVars, callVars,
                   statusVars, path, planner, faults>>

\* Mutant: an abort does not end the completion window.
FollowAbortedIgnored(p) ==
    /\ p = latest
    /\ UNCHANGED <<goalVars, callVars, deferred, sendVars, statusVars, path, planner, faults>>

FollowAborted(p) ==
    /\ p = latest
    /\ window' = NoPath
    /\ UNCHANGED <<generation, finalGoal, hasPath, latest, callVars, path>>
    /\ IF Replanning /\ finalGoal
       THEN ScheduleReplan
       ELSE UNCHANGED <<deferred, sendVars, statusVars, planner, faults>>

\* Mutant: a success of any path ends the goal.
FollowSucceededAnyPath(p) ==
    /\ p # NoPath
    /\ finalGoal' = FALSE /\ ForgetGoal
    /\ pendingGoal' = 0
    /\ RequestCancel(cancelRequested, active, 0)
    /\ UNCHANGED <<generation, sending, active, requestOf, observed, unverified, statusVars, path>>

FollowSucceeded(p) ==
    /\ p = latest
    /\ finalGoal' = FALSE /\ ForgetGoal
    /\ pendingGoal' = 0
    /\ RequestCancel(cancelRequested, active, 0)
    /\ UNCHANGED <<generation, sending, active, requestOf, observed, unverified, statusVars, path>>

ReplanTimer ==
    /\ Replanning /\ finalGoal /\ ~InWindow
    /\ UNCHANGED <<goalVars, callVars, path>>
    /\ ScheduleReplan

\* The .25 s timer, which only sends what is already queued.
RetryTimer ==
    /\ pendingGoal # 0 /\ ~unverified
    /\ sending = NoRequest /\ active = NoRequest
    /\ UNCHANGED <<goalVars, callVars, deferred, path>>
    /\ Send(pendingGoal, planner, lastStatus, <<>>)

-----------------------------------------------------------------------------
(* Answers of the action client *)

\* Mutant: the submission nobody can vouch for is forgotten.
ResponseForgotten ==
    /\ sending # NoRequest /\ faults < MaxFaults /\ faults' = faults + 1
    /\ sending' = NoRequest
    /\ UNCHANGED <<goalVars, callVars, requestOf, path, planner, unverified, deferred, pendingGoal>>
    /\ Publish(lastStatus, Failure(requestOf[sending], hasPath, "exception"))

\* _goal_response_callback: an exception advances the queue, which is closed.
ResponseUnverified ==
    /\ sending # NoRequest /\ faults < MaxFaults /\ faults' = faults + 1
    /\ sending' = NoRequest /\ unverified' = TRUE
    /\ UNCHANGED <<goalVars, callVars, requestOf, path, planner>>
    /\ \/ /\ Publish(lastStatus, Failure(requestOf[sending], hasPath, "exception"))
          /\ deferred' = (deferred /\ (pendingGoal # 0 \/ ~finalGoal))
          /\ pendingGoal' = IF pendingGoal = 0 /\ Replanning /\ deferred /\ finalGoal /\ ~InWindow
                            THEN generation ELSE pendingGoal
       \/ /\ Publish(lastStatus, Failure(requestOf[sending], hasPath, "goal response unverified"))
          /\ UNCHANGED <<deferred, pendingGoal>>

\* Mutant: the future of a rejected request is not reset.
ResponseRejectedKeepingFuture ==
    /\ sending # NoRequest /\ planner[sending] = "rejected"
    /\ planner' = [planner EXCEPT ![sending] = "free"]
    /\ UNCHANGED <<goalVars, callVars, path, deferred, sendVars, statusVars, faults>>

ResponseRejected ==
    /\ sending # NoRequest /\ planner[sending] = "rejected"
    /\ UNCHANGED <<goalVars, callVars, path>>
    /\ AdvanceQueue([planner EXCEPT ![sending] = "free"],
                    Failure(requestOf[sending], hasPath, "goal rejected"))

\* Mutant: a request of an old goal is accepted without a cancel.
ResponseAcceptedStale ==
    /\ sending # NoRequest /\ planner[sending] \in {"planning", "canceling", "done"}
    /\ sending' = NoRequest /\ active' = sending
    /\ cancelRequested' = FALSE /\ observed' = TRUE
    /\ UNCHANGED <<goalVars, pendingGoal, deferred, requestOf, unverified, path, statusVars,
                   planner, faults>>

ResponseAccepted ==
    /\ sending # NoRequest /\ planner[sending] \in {"planning", "canceling", "done"}
    /\ sending' = NoRequest /\ active' = sending
    /\ UNCHANGED <<goalVars, pendingGoal, deferred, requestOf, unverified, path>>
    /\ \/ /\ observed' = TRUE
          /\ IF requestOf[sending] # generation \/ ~finalGoal
             THEN RequestCancel(FALSE, sending, 0)
             ELSE cancelRequested' = FALSE /\ UNCHANGED <<planner, faults>>
          /\ UNCHANGED statusVars
       \/ \* get_result_async raises: the request is kept and asked to stop
          /\ faults < MaxFaults
          /\ observed' = FALSE
          /\ RequestCancel(FALSE, sending, 1)
          /\ Publish(lastStatus, Failure(requestOf[sending], hasPath, "exception"))

\* _result_callback with an exception or a status that is not terminal
ResultUnverified ==
    /\ active # NoRequest /\ observed /\ faults < MaxFaults
    /\ observed' = FALSE
    /\ RequestCancel(cancelRequested, active, 1)
    /\ UNCHANGED <<goalVars, active, sendVars, deferred, path>>
    /\ Publish(lastStatus, Failure(requestOf[active], hasPath, "result unverified"))

TakeResult ==
    /\ active # NoRequest /\ observed /\ planner[active] = "done"
    /\ active' = NoRequest /\ observed' = FALSE /\ cancelRequested' = FALSE

Outdated(r) == requestOf[r] # generation \/ ~finalGoal

\* _result_callback: a result of an older goal, or one without a usable path
ResultDropped ==
    /\ TakeResult
    /\ UNCHANGED <<goalVars, path>>
    /\ AdvanceQueue([planner EXCEPT ![active] = "free"],
                    Failure(requestOf[active], hasPath, "no path"))

\* _result_callback: a path for the current goal is published
ResultPath(p) ==
    /\ TakeResult
    /\ ~Outdated(active)
    /\ hasPath' = TRUE /\ latest' = p
    /\ window' = IF window = p THEN window ELSE NoPath
    /\ path' = p
    /\ UNCHANGED <<generation, finalGoal>>
    /\ AdvanceQueue([planner EXCEPT ![active] = "free"], Say("path", p))

-----------------------------------------------------------------------------
(* The ComputePathToPose server (external) *)

Serve(r, next) ==
    /\ planner' = [planner EXCEPT ![r] = next]
    /\ UNCHANGED <<goalVars, deferred, sendVars, callVars, statusVars, path, faults>>

Decide(r) == planner[r] = "asked" /\ \E next \in {"planning", "rejected"} : Serve(r, next)

Plan(r) == planner[r] \in {"planning", "canceling"} /\ Serve(r, "done")

-----------------------------------------------------------------------------
Callback ==
    \/ RetryTimer \/ ReplanTimer
    \/ ResponseUnverified \/ ResponseRejected \/ ResponseAccepted
    \/ ResultUnverified \/ ResultDropped
    \/ \E p \in Paths : ResultPath(p)

PlannerServer == \E r \in Requests : Decide(r) \/ Plan(r)

User ==
    \/ GoalAccepted
    \/ \E text \in BadGoals : GoalRefused(text)

Executor == \E p \in Paths : NearGoal(p) \/ FollowAborted(p) \/ FollowSucceeded(p)

Next == Callback \/ PlannerServer \/ User \/ Executor

Spec == Init /\ [][Next]_vars

(* rclpy.spin runs every ready callback and the retry timer again and again; *)
(* the planner decides on every request and finishes every plan it starts.   *)
Fairness ==
    /\ WF_vars(RetryTimer /\ sending' # NoRequest)
    /\ WF_vars(ResponseRejected) /\ WF_vars(ResponseAccepted)
    /\ WF_vars(ResultDropped \/ \E p \in Paths : ResultPath(p))
    /\ \A r \in Requests : WF_vars(Decide(r)) /\ WF_vars(Plan(r))

FairSpec == Spec /\ Fairness

-----------------------------------------------------------------------------
(* Properties *)

\* Every variable keeps its type, whatever the planner and the executor do.
TypeOK ==
    /\ generation \in 0 .. MaxGoals /\ finalGoal \in BOOLEAN /\ hasPath \in BOOLEAN
    /\ latest \in Paths \cup {NoPath} /\ window \in Paths \cup {NoPath}
    /\ pendingGoal \in 0 .. MaxGoals /\ deferred \in BOOLEAN
    /\ sending \in Requests \cup {NoRequest} /\ active \in Requests \cup {NoRequest}
    /\ requestOf \in [Requests -> 0 .. MaxGoals]
    /\ cancelRequested \in BOOLEAN /\ observed \in BOOLEAN /\ unverified \in BOOLEAN
    /\ path \in Paths \cup {NoPath}
    /\ planner \in [Requests -> {"free", "asked", "planning", "canceling", "rejected", "done"}]
    /\ faults \in 0 .. MaxFaults

\* The planner never holds two requests of this node, however goals, timer
\* ticks and results interleave.  (_try_send_pending_goal:222)
OneRequest == \A q, r \in Requests : Live(q) /\ Live(r) => q = r

\* What is queued belongs to the current goal: an old goal is never planned
\* for again, and a finished one leaves nothing queued.  (:230)
QueueIsCurrent == pendingGoal # 0 => pendingGoal = generation /\ finalGoal

\* A request of a goal that is over is not left to run: the node has asked
\* for its end, also when the goal changed before the request was accepted,
\* unless a call raised.  (_goal_callback:128, _goal_response_callback:314)
StaleRequestCancelled ==
    active # NoRequest /\ Outdated(active) /\ faults = 0 => cancelRequested

\* A replan that was merged away is owed only while something that will look
\* at the flag again is outstanding: a request or a queued goal.  (:196)
DeferredIsOwed ==
    deferred /\ ~unverified => sending # NoRequest \/ active # NoRequest \/ pendingGoal # 0

\* Every accepted goal is sent to the planner unless it is replaced, refused
\* or ends: the queued request does not wait for ever, unless a call fails.
\* (:385)
QueuedIsSent ==
    \A g \in 1 .. MaxGoals : (pendingGoal = g) ~> (pendingGoal # g \/ faults > 0)
=============================================================================

---------------------------- MODULE PathExecutor ----------------------------
(* cleannav_path_executor/path_executor_node.py: hands the newest planned    *)
(* path to the FollowPath action server, one goal at a time.  The node runs  *)
(* under rclpy.spin (path_executor_node.py:470), so a callback is one step.  *)
(* A goal is named by a handle; the code's sequence numbers and handle       *)
(* identities are that name, and a handle is used again once its result has  *)
(* been taken.  Statuses are kept because the planner bridge reads them      *)
(* through a queue of depth one; their wording is a name and a path.         *)
EXTENDS Naturals, Sequences, SequencesExt

CONSTANTS
    Paths,          \* path signatures (path_identity.path_signature)
    NoPath,
    Handles,        \* FollowPath goals that can exist at the server at once
    NoHandle,
    MayReject,      \* the controller may refuse a path
    MaxFaults       \* bound: calls that raise, answers that cannot be trusted

ASSUME ExecutorAssumption ==
    /\ NoPath \notin Paths
    /\ NoHandle \notin Handles
    /\ MayReject \in BOOLEAN
    /\ MaxFaults \in Nat

VARIABLES
    sending,            \* goal whose response is awaited (_send_future)
    active,             \* accepted goal (_active_goal_handle)
    route,              \* path each goal was sent with
    pending,            \* newest path not sent yet (_pending_path)
    cancelRequested,    \* _cancel_requested
    cancelCall,         \* the cancel call of the active goal (_cancel_future)
    cancelWhenAccepted, \* _cancel_when_accepted
    unverified,         \* _submission_unverified
    nearGoal,           \* _near_goal_reported
    observed,           \* a result callback is registered for the active goal
    lastStatus,         \* _last_pub_status
    outbox,             \* statuses of the last callback that published any
    server,             \* state of each goal at the controller (external)
    faults,
    revoked             \* history: goals outstanding when a danger was read

nodeVars   == <<sending, active, pending, cancelWhenAccepted, unverified, nearGoal, observed>>
cancelVars == <<cancelRequested, cancelCall>>
statusVars == <<lastStatus, outbox>>
vars == <<sending, active, route, pending, cancelRequested, cancelCall, cancelWhenAccepted,
          unverified, nearGoal, observed, lastStatus, outbox, server, faults, revoked>>

Live(h)     == server[h] \in {"asked", "executing", "canceling"}
Accepted(h) == server[h] \in {"executing", "canceling", "succeeded", "canceled", "aborted"}
Terminal(h) == server[h] \in {"succeeded", "canceled", "aborted"}
PathOf(h)   == IF h = NoHandle THEN NoPath ELSE route[h]

\* _DANGER_STATUS_PREFIXES; a planner status is named by its prefix.
DangerPrefixes ==
    {"goal in inflation zone", "goal occupied in raw map", "start in inflation zone",
     "start occupied in raw map", "A* fail", "invalid map", "invalid inflation_radius",
     "map data len", "map frame", "goal frame", "map dims invalid", "map origin invalid",
     "goal position non-finite", "goal cell", "start cell", "no localization pose",
     "loc frame", "loc x/y non-finite", "loc quaternion invalid", "loc cov invalid",
     "TF fail", "TF trans non-finite", "TF quaternion invalid", "inflation data not ready"}

Status(text, path) == [text |-> text, path |-> path]
Say(text)          == <<Status(text, NoPath)>>
SayOf(text, h)     == <<Status(text, route[h])>>

\* _publish_status: a text equal to the one published before it is dropped.  No
\* callback has the same text twice in a row, so this concerns its first one.
Fresh(said) == IF said # <<>> /\ said[1] = lastStatus THEN Tail(said) ELSE said

Publish(said) ==
    IF Fresh(said) = <<>>
    THEN UNCHANGED statusVars
    ELSE outbox' = Fresh(said) /\ lastStatus' = Last(Fresh(said))

Fault == faults < MaxFaults /\ faults' = faults + 1

Init ==
    /\ sending = NoHandle /\ active = NoHandle
    /\ route = [h \in Handles |-> NoPath]
    /\ pending = NoPath
    /\ cancelRequested = FALSE /\ cancelCall = "none" /\ cancelWhenAccepted = FALSE
    /\ unverified = FALSE /\ nearGoal = FALSE /\ observed = FALSE
    /\ outbox = Say("waiting_for_action_server")
    /\ lastStatus = Status("waiting_for_action_server", NoPath)
    /\ server = [h \in Handles |-> "free"]
    /\ faults = 0
    /\ revoked = {}

-----------------------------------------------------------------------------
(* Sending *)

\* _send_follow_path: the call raises only when nobody can tell whether the
\* server has the goal.
SendFollowPath(path, srv, said) ==
    /\ pending' = NoPath
    /\ \E h \in Handles :
        /\ srv[h] = "free"
        /\ route' = [route EXCEPT ![h] = path]
        /\ \/ /\ sending' = h
              /\ server' = [srv EXCEPT ![h] = "asked"]
              /\ Publish(said \o Say("sending_follow_path"))
              /\ UNCHANGED <<unverified, faults>>
           \/ /\ Fault
              /\ sending' = NoHandle
              /\ unverified' = TRUE
              /\ server' \in {srv, [srv EXCEPT ![h] = "asked"]}
              /\ Publish(said \o Say("sending_follow_path")
                              \o Say("follow_path_submission_unverified"))

\* _try_send_pending_path, reached with no goal outstanding; path is the
\* pending path and srv the server's goals at that point of the callback.
TrySend(path, srv, said) ==
    \/ /\ unverified \/ path = NoPath
       /\ pending' = path /\ server' = srv /\ sending' = NoHandle
       /\ Publish(said)
       /\ UNCHANGED <<route, unverified, faults>>
    \/ /\ ~unverified /\ path # NoPath
       /\ pending' = path /\ server' = srv /\ sending' = NoHandle
       /\ Publish(said \o Say("waiting_for_action_server"))
       /\ UNCHANGED <<route, unverified, faults>>
    \/ /\ ~unverified /\ path # NoPath
       /\ SendFollowPath(path, srv, said)

\* The .2 s timer, when it finds the action server ready.
RetryTimer ==
    /\ pending # NoPath /\ ~unverified
    /\ sending = NoHandle /\ active = NoHandle
    /\ SendFollowPath(pending, server, <<>>)
    /\ UNCHANGED <<active, cancelVars, cancelWhenAccepted, nearGoal, observed, revoked>>

\* _request_cancel_active_goal with _cancel_requested = requested on entry;
\* spent counts the calls that already raised in this callback.
RequestCancel(requested, call, spent, before, after) ==
    \/ /\ cancelRequested' = TRUE
       /\ cancelCall' = IF requested THEN call ELSE "asked"
       /\ Publish(before \o after)
       /\ faults' = faults + spent
    \/ /\ ~requested
       /\ faults + spent < MaxFaults /\ faults' = faults + spent + 1
       /\ cancelRequested' = FALSE /\ cancelCall' = call
       /\ Publish(before \o Say("follow_path_cancel_failed") \o after)

-----------------------------------------------------------------------------
(* Subscriptions *)

Duplicate(path) ==
    IF pending # NoPath THEN path = pending ELSE path \in {PathOf(sending), PathOf(active)}

\* Mutant: a replacement waits without asking for the active goal's end.
PathCbPatient(path) ==
    /\ UNCHANGED <<active, cancelWhenAccepted, nearGoal, observed, revoked, cancelVars>>
    /\ path # NoPath /\ ~Duplicate(path)
    /\ IF active # NoHandle \/ sending # NoHandle
       THEN pending' = path /\ UNCHANGED <<sending, route, unverified, server, faults, statusVars>>
       ELSE TrySend(path, server, <<>>)

\* _path_cb; NoPath stands for a path whose signature is refused.
PathCb(path) ==
    /\ UNCHANGED <<active, cancelWhenAccepted, nearGoal, observed, revoked>>
    /\ \/ /\ path = NoPath \/ Duplicate(path)
          /\ Publish(Say(IF path = NoPath THEN "invalid_path" ELSE "duplicate_path_ignored"))
          /\ UNCHANGED <<sending, route, pending, unverified, server, faults, cancelVars>>
       \/ /\ path # NoPath /\ ~Duplicate(path)
          /\ \/ /\ active # NoHandle
                /\ pending' = path
                /\ RequestCancel(cancelRequested, cancelCall, 0, <<>>, <<>>)
                /\ UNCHANGED <<sending, route, unverified, server>>
             \/ /\ active = NoHandle /\ sending # NoHandle
                /\ pending' = path
                /\ UNCHANGED <<sending, route, unverified, server, faults, cancelVars, statusVars>>
             \/ /\ active = NoHandle /\ sending = NoHandle
                /\ TrySend(path, server, <<>>)
                /\ UNCHANGED cancelVars

\* Mutant: a goal whose acceptance is on the way is not revoked.
StatusCbActiveOnly(text) ==
    /\ text \in DangerPrefixes
    /\ pending' = NoPath
    /\ revoked' = revoked \cup ({sending, active} \ {NoHandle})
    /\ IF active # NoHandle
       THEN RequestCancel(cancelRequested, cancelCall, 0, <<>>,
                          Say("cancel_requested_due_to_planner_status"))
       ELSE UNCHANGED <<cancelVars, statusVars, faults>>
    /\ UNCHANGED <<sending, active, route, cancelWhenAccepted, unverified, nearGoal, observed,
                   server>>

\* _status_cb: a danger drops the pending path and revokes what is outstanding.
StatusCb(text) ==
    /\ text \in DangerPrefixes
    /\ pending' = NoPath
    /\ cancelWhenAccepted' = (cancelWhenAccepted \/ sending # NoHandle)
    /\ revoked' = revoked \cup ({sending, active} \ {NoHandle})
    /\ IF active # NoHandle
       THEN RequestCancel(cancelRequested, cancelCall, 0, <<>>,
                          Say("cancel_requested_due_to_planner_status"))
       ELSE UNCHANGED <<cancelVars, statusVars, faults>>
    /\ UNCHANGED <<sending, active, route, unverified, nearGoal, observed, server>>

-----------------------------------------------------------------------------
(* Answers of the action client *)

\* Mutant: the submission nobody can vouch for is forgotten.
ResponseForgotten ==
    /\ sending # NoHandle /\ Fault
    /\ sending' = NoHandle /\ cancelWhenAccepted' = FALSE
    /\ Publish(Say("follow_path_submission_unverified"))
    /\ UNCHANGED <<active, route, pending, cancelVars, unverified, nearGoal, observed, server,
                   revoked>>

\* _goal_response_callback when the answer is an exception or no handle.
ResponseUnverified ==
    /\ sending # NoHandle /\ Fault
    /\ sending' = NoHandle /\ cancelWhenAccepted' = FALSE /\ unverified' = TRUE
    /\ Publish(Say("follow_path_submission_unverified"))
    /\ UNCHANGED <<active, route, pending, cancelVars, nearGoal, observed, server, revoked>>

ResponseRejected ==
    /\ sending # NoHandle /\ server[sending] = "rejected"
    /\ cancelWhenAccepted' = FALSE
    /\ revoked' = revoked \ {sending}
    /\ TrySend(pending, [server EXCEPT ![sending] = "free"], Say("follow_path_rejected"))
    /\ UNCHANGED <<active, cancelVars, nearGoal, observed>>

ResponseAccepted ==
    /\ sending # NoHandle /\ Accepted(sending)
    /\ sending' = NoHandle /\ active' = sending
    /\ cancelWhenAccepted' = FALSE /\ nearGoal' = FALSE
    /\ \/ /\ observed' = TRUE
          /\ IF cancelWhenAccepted \/ pending # NoPath
             THEN RequestCancel(FALSE, "none", 0, Say("follow_path_accepted"), <<>>)
             ELSE /\ cancelRequested' = FALSE /\ cancelCall' = "none"
                  /\ Publish(Say("follow_path_accepted"))
                  /\ UNCHANGED faults
       \/ \* get_result_async raises: the goal is kept and asked to stop
          /\ faults < MaxFaults
          /\ observed' = FALSE
          /\ RequestCancel(FALSE, "none", 1,
                 Say("follow_path_accepted") \o SayOf("follow_path_aborted", sending), <<>>)
    /\ UNCHANGED <<route, pending, unverified, server, revoked>>

\* _cancel_response_callback
CancelResponse ==
    /\ active # NoHandle
    /\ cancelCall' = "none"
    /\ \/ /\ cancelCall = "granted"
          /\ UNCHANGED <<cancelRequested, statusVars, faults>>
       \/ /\ cancelCall = "refused"
          /\ cancelRequested' = FALSE
          /\ Publish(Say("follow_path_cancel_rejected"))
          /\ UNCHANGED faults
       \/ /\ cancelCall # "none" /\ Fault
          /\ cancelRequested' = FALSE
          /\ Publish(Say("follow_path_cancel_failed"))
    /\ UNCHANGED <<nodeVars, route, server, revoked>>

ResultStatus(h) ==
    CASE server[h] = "succeeded" /\ pending # NoPath -> Say("follow_path_replaced")
      [] server[h] = "succeeded" /\ pending = NoPath -> SayOf("follow_path_succeeded", h)
      [] server[h] = "canceled"                      -> SayOf("follow_path_canceled", h)
      [] OTHER                                       -> SayOf("follow_path_aborted", h)

\* _result_callback with a terminal status
Result ==
    /\ active # NoHandle /\ observed /\ Terminal(active)
    /\ active' = NoHandle
    /\ cancelRequested' = FALSE /\ cancelCall' = "none"
    /\ observed' = FALSE
    /\ revoked' = revoked \ {active}
    /\ TrySend(pending, [server EXCEPT ![active] = "free"], ResultStatus(active))
    /\ UNCHANGED <<cancelWhenAccepted, nearGoal>>

\* _result_callback with an exception or a status that is not terminal
ResultUnverified ==
    /\ active # NoHandle /\ observed /\ faults < MaxFaults
    /\ observed' = FALSE
    /\ RequestCancel(cancelRequested, cancelCall, 1, Say("follow_path_result_unverified"), <<>>)
    /\ UNCHANGED <<sending, active, route, pending, cancelWhenAccepted, unverified, nearGoal,
                   server, revoked>>

\* _feedback_callback with the robot inside the completion window
Feedback ==
    /\ active # NoHandle /\ ~nearGoal
    /\ nearGoal' = TRUE
    /\ Publish(SayOf("follow_path_near_goal", active))
    /\ UNCHANGED <<sending, active, route, pending, cancelVars, cancelWhenAccepted, unverified,
                   observed, server, faults, revoked>>

-----------------------------------------------------------------------------
(* The FollowPath server (external) *)

Serve(h, next) ==
    /\ server' = [server EXCEPT ![h] = next]
    /\ UNCHANGED <<nodeVars, route, cancelRequested, statusVars, revoked>>

Decide(h) ==
    /\ server[h] = "asked"
    /\ \E next \in {"executing"} \cup (IF MayReject THEN {"rejected"} ELSE {}) : Serve(h, next)
    /\ UNCHANGED <<cancelCall, faults>>

Finish(h) ==
    /\ server[h] = "executing"
    /\ \E next \in {"succeeded", "aborted"} : Serve(h, next)
    /\ UNCHANGED <<cancelCall, faults>>

Halt(h) ==
    /\ server[h] = "canceling"
    /\ \E next \in {"succeeded", "aborted", "canceled"} : Serve(h, next)
    /\ UNCHANGED <<cancelCall, faults>>

\* The server answers a cancel request: a goal already over is not cancelled,
\* and a refusal to stop a running goal is a fault.
CancelServed(h) ==
    /\ h = active /\ cancelCall = "asked"
    /\ \/ /\ server[h] \in {"executing", "canceling"}
          /\ Serve(h, "canceling") /\ cancelCall' = "granted" /\ UNCHANGED faults
       \/ /\ Terminal(h)
          /\ Serve(h, server[h]) /\ cancelCall' = "refused" /\ UNCHANGED faults
       \/ /\ server[h] = "executing"
          /\ Serve(h, "executing") /\ cancelCall' = "refused" /\ Fault

-----------------------------------------------------------------------------
Callback ==
    \/ RetryTimer
    \/ ResponseUnverified \/ ResponseRejected \/ ResponseAccepted
    \/ CancelResponse
    \/ Result \/ ResultUnverified
    \/ Feedback

Controller == \E h \in Handles : Decide(h) \/ Finish(h) \/ Halt(h) \/ CancelServed(h)

Planner ==
    \/ \E path \in Paths \cup {NoPath} : PathCb(path)
    \/ \E text \in {"A* fail", "goal frame"} : StatusCb(text)

Next == Callback \/ Controller \/ Planner

Spec == Init /\ [][Next]_vars

(* rclpy.spin runs every ready callback and the timer again and again; the   *)
(* controller answers every request and stops a goal it agreed to cancel.    *)
(* Nothing makes a running goal end, nor the planner say anything.           *)
Fairness ==
    /\ WF_vars(RetryTimer)
    /\ WF_vars(ResponseRejected) /\ WF_vars(ResponseAccepted)
    /\ WF_vars(CancelResponse) /\ WF_vars(Result)
    /\ \A h \in Handles : WF_vars(Decide(h)) /\ WF_vars(Halt(h)) /\ WF_vars(CancelServed(h))

FairSpec == Spec /\ Fairness

-----------------------------------------------------------------------------
(* Properties *)

\* Every variable keeps its type, whatever the server and the planner do.
TypeOK ==
    /\ sending \in Handles \cup {NoHandle}
    /\ active \in Handles \cup {NoHandle}
    /\ route \in [Handles -> Paths \cup {NoPath}]
    /\ pending \in Paths \cup {NoPath}
    /\ cancelRequested \in BOOLEAN
    /\ cancelCall \in {"none", "asked", "granted", "refused"}
    /\ cancelWhenAccepted \in BOOLEAN
    /\ unverified \in BOOLEAN
    /\ nearGoal \in BOOLEAN
    /\ observed \in BOOLEAN
    /\ server \in [Handles -> {"free", "asked", "executing", "canceling", "rejected",
                               "succeeded", "canceled", "aborted"}]
    /\ faults \in 0 .. MaxFaults
    /\ revoked \in SUBSET Handles

\* The controller never holds two goals of this node: a replacement waits for
\* the terminal result of the goal it replaces, and a submission nobody can
\* vouch for closes the node for good.  (_try_send_pending_path:274)
OneGoal == \A g, h \in Handles : Live(g) /\ Live(h) => g = h

\* The ownership behind OneGoal: a live goal is the one being sent or the
\* active one, and a node that lost track of a submission holds neither.
Ownership ==
    /\ sending = NoHandle \/ active = NoHandle
    /\ unverified => sending = NoHandle /\ active = NoHandle
    /\ ~unverified => \A h \in Handles : Live(h) => h \in {sending, active}

\* After a danger status every goal outstanding at that moment ends, also the
\* one whose acceptance was still on the way, unless a call fails.
\* (_status_cb:181)
DangerStops == \A h \in Handles : (h \in revoked) ~> (h \notin revoked \/ faults > 0)

\* The newest path never waits for ever behind an older goal: it is sent,
\* replaced by a newer one or dropped by a danger, unless a call fails.
\* (_result_callback:404)
PendingServed == \A p \in Paths : (pending = p) ~> (pending # p \/ faults > 0)
=============================================================================

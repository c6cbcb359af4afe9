-------------------------- MODULE NavigationFacade --------------------------
(***************************************************************************)
(* NavigationFacadeRuntime, cleannav_navigation/navigation_facade_node.py:  *)
(* one outer goal at a time is planned with ComputePathToPose, followed     *)
(* with FollowPath, replanned while it is followed, and finished once.      *)
(*                                                                         *)
(* rclpy.spin runs every callback and resumes the coroutine of execute on   *)
(* one thread, so the code between two awaits is atomic.  stack holds the   *)
(* program points of execute and of the helper coroutines it awaits, the    *)
(* innermost first; rv is what the last helper returned.  An await suspends *)
(* only when its future is not done yet: yielded says that the coroutine    *)
(* has given the thread back, and only then do callbacks run.  Futures of   *)
(* rclpy action clients have no executor, so their done callbacks run at    *)
(* once when the result arrives.                                            *)
(*                                                                         *)
(* The planner and controller servers, and the transport between, are the   *)
(* environment.  get_result_async is taken not to raise.  Poses, paths,     *)
(* distances and diagnostics are left out: a check of them is a choice.     *)
(***************************************************************************)
EXTENDS Integers, Sequences, FiniteSets

CONSTANTS
    MaxGoals,             \* inner goals that one session may send (a bound)
    MaxReplanFailures,    \* max_replan_failures
    MaxFaults,            \* transport faults (a bound)
    Replanning,           \* replan_period_sec > 0: the timer runs
    Polygons,             \* is the outer goal a NavigateWithinPolygon goal?
    StationaryCompletion  \* stationary_goal_completion

ASSUME FacadeAssumption ==
    /\ MaxGoals \in Nat \ {0}
    /\ MaxReplanFailures \in Nat \ {0}
    /\ MaxFaults \in Nat
    /\ Replanning \in BOOLEAN
    /\ Polygons \subseteq BOOLEAN /\ Polygons # {}
    /\ StationaryCompletion \in BOOLEAN

VARIABLES
    busy, reserved, pendingCancel,  \* _busy, _reserved, _pending_cancel
    outer,                          \* the outer goal as its client sees it
    polygon,                        \* the outer goal carries a polygon
    session,                        \* _session
    stack, rv,                      \* the coroutine of execute
    yielded,                        \* the coroutine does not hold the thread
    victim,                         \* the argument of _cancel_and_confirm
    attempted,                      \* cancel_attempted
    goal,                           \* the inner goals of the session
    sending, reply,                 \* the goal request in flight, its reply
    cancelCall,                     \* the cancel request being awaited
    faults                          \* transport faults so far

slot == <<busy, reserved, pendingCancel, outer, polygon>>
control == <<stack, rv>>
locals == <<victim, attempted>>
transport == <<goal, sending, reply, cancelCall, faults>>
vars == <<slot, session, control, yielded, locals, transport>>

Goals == 1 .. MaxGoals
NoGoal == 0
Terminal == {"succeeded", "aborted", "canceled"}
Live == {"running", "canceling"}
Reasons == {"CANCEL", "RESULT", "REPLAN"}

NewSession(canceled) ==
    [cancelRequested |-> canceled, terminal |-> FALSE, stage |-> "PLANNING",
     wake |-> "none", planner |-> NoGoal, follow |-> NoGoal,
     replanPending |-> FALSE, replanInFlight |-> FALSE, failures |-> 0,
     unverified |-> FALSE]

\* server is the truth at the action server, result what get_result_async has
\* brought; tracked goals are in inner_actions, watched ones wake the session.
Unused == [kind |-> "none", server |-> "none", result |-> "none",
           tracked |-> FALSE, confirmed |-> FALSE, watched |-> FALSE,
           cancel |-> FALSE]

Init ==
    /\ busy = FALSE /\ reserved = FALSE /\ pendingCancel = FALSE
    /\ outer = "none" /\ polygon \in Polygons
    /\ session = NewSession(FALSE)
    /\ stack = <<>> /\ rv = "none" /\ yielded = TRUE
    /\ victim = NoGoal /\ attempted = {}
    /\ goal = [g \in Goals |-> Unused]
    /\ sending = NoGoal /\ reply = "none" /\ cancelCall = "none"
    /\ faults = 0

-----------------------------------------------------------------------------
(* State of the session.                                                    *)

HasSession == busy /\ ~reserved
Latest == Cardinality({g \in Goals : goal[g].kind # "none"})
Done(g) == goal[g].result \in Terminal \union {"error"}
Result(g) == goal[g].result
ActiveInner == {g \in Goals : goal[g].tracked /\ goal[g].result \notin Terminal}
Owned == {"sent"} \union Live
OwnedFollows == {g \in Goals : goal[g].kind = "follow" /\ goal[g].server \in Owned}

\* Mutant: the slot is freed over a submission whose reply never came.
InnerTerminalUnlessSeen(unverified, inFlight, active) ==
    inFlight = NoGoal /\ active = {}

\* _refresh_inner_terminal_locked: every place that changes one of these also
\* refreshes session.inner_terminal.
InnerTerminalOf(unverified, inFlight, active) ==
    ~unverified /\ inFlight = NoGoal /\ active = {}
InnerTerminal == InnerTerminalOf(session.unverified, sending, ActiveInner)

\* A late inner result frees the slot of a session that has ended.
SlotNeverFreedLate(innerTerminal) == busy                           \* mutant
SlotAfter(innerTerminal) == busy /\ ~(session.terminal /\ innerTerminal)

RetriesLeft == session.failures < MaxReplanFailures

\* _send_goal orders the cancel check and the dispatch under one lock.
MayDispatch == ~session.cancelRequested

\* A result wakes those who watch it; the last one also wakes whoever waits for
\* the inner actions to end.
WakesWatchers(watched, innerTerminal) == watched                    \* mutant
Wakes(watched, innerTerminal) == watched \/ innerTerminal

\* _try_wake: the first reason wakes the waiting coroutine.
Woken(wake, reason) == IF wake = "armed" THEN reason ELSE wake

-----------------------------------------------------------------------------
(* The coroutine.                                                           *)

\* The awaits of coroutines outside the runtime: the boundary hand-shake, the
\* start snapshot, the path validator, the stop proof.  They return or raise.
External ==
    [E_Init     |-> {"E_Start", "X_Handle"},
     E_Snapshot |-> {"E_Plan", "X_Handle"},
     E_Validate |-> {"E_Validated", "E_PathRejected"},
     R_Validate |-> {"S_Retry", "R_None"},
     W_Validate |-> {"W_Validated", "W_None"},
     V_Active   |-> {"V_Kept", "V_Unsafe"},
     G_Guard    |-> {"Z_succeed", "Z_abort"}]

Top == IF stack = <<>> THEN "idle" ELSE Head(stack)
At(label) == Top = label
Caller == IF Len(stack) < 2 THEN "none" ELSE stack[2]

\* Is the coroutine at an await of a future that is not done?
Waiting ==
    \/ Top \in {"idle"} \union DOMAIN External
    \/ Top \in {"D_Wait", "I_Wait", "F_Wait", "W_Wait", "A_Wait"} /\ session.wake = "armed"
    \/ Top = "D_Await" /\ reply = "none"
    \/ Top = "C_Response" /\ cancelCall = "sent"
    \/ Top = "C_Result" /\ ~Done(victim)

Goto(label) == stack' = <<label>> \o Tail(stack) /\ UNCHANGED rv
Call(label, back) == stack' = <<label, back>> \o Tail(stack) /\ UNCHANGED rv
Return(value) == stack' = Tail(stack) /\ rv' = value
Raise == stack' = <<"X_Handle">> /\ UNCHANGED rv

Cancel(g, back) == Call("C_Start", back) /\ victim' = g /\ UNCHANGED attempted
OnlyControl == UNCHANGED <<slot, session, locals, transport>>

ExternalAwait ==
    /\ Top \in DOMAIN External
    /\ \E label \in External[Top] : Goto(label)
    /\ OnlyControl

-----------------------------------------------------------------------------
(* _send_goal (D).                                                          *)

SendsFollow == Caller \in {"E_FollowSent", "S_RetrySent", "S_ReplaceSent"}
CanSend == Latest < MaxGoals

Dispatch ==
    /\ At("D_Start")
    /\ \/ /\ ~MayDispatch
          /\ Return("none")
          /\ UNCHANGED <<session, transport>>
       \/ /\ MayDispatch
          /\ sending' = Latest + 1
          /\ goal' = [goal EXCEPT ![Latest + 1].kind =
                            IF SendsFollow THEN "follow" ELSE "plan",
                          ![Latest + 1].server = "sent"]
          /\ session' = [session EXCEPT !.wake = "armed"]
          /\ Goto("D_Wait")
          /\ UNCHANGED <<reply, cancelCall, faults>>
       \/ /\ MayDispatch
          /\ faults < MaxFaults
          /\ faults' = faults + 1
          /\ session' = [session EXCEPT !.unverified = TRUE]
          /\ Raise
          /\ UNCHANGED <<goal, sending, reply, cancelCall>>
    /\ UNCHANGED <<slot, locals>>

\* Woken by the reply, by an outer cancel or by a tick.  While replanning, the
\* cancel stops the active FollowPath before the reply is awaited.
DispatchWoken ==
    /\ At("D_Wait")
    /\ session.wake \in Reasons
    /\ session' = [session EXCEPT !.wake = "none"]
    /\ \/ /\ session.wake = "CANCEL" /\ Caller = "W_Sent"
          /\ Cancel(session.follow, "D_Await")
       \/ /\ ~(session.wake = "CANCEL" /\ Caller = "W_Sent")
          /\ Goto("D_Await")
          /\ UNCHANGED locals
    /\ UNCHANGED <<slot, transport>>

\* _track_dispatch_response and _track_dispatch_exception.
DispatchAnswered ==
    /\ At("D_Await")
    /\ reply # "none"
    /\ sending' = NoGoal
    /\ reply' = "none"
    /\ \/ /\ reply = "accepted"
          /\ goal' = [goal EXCEPT ![sending].tracked = TRUE]
          /\ Return("accepted")
          /\ UNCHANGED session
       \/ /\ reply = "rejected"
          /\ Return("rejected")
          /\ UNCHANGED <<session, goal>>
       \/ /\ reply = "nohandle"
          /\ session' = [session EXCEPT !.unverified = TRUE]
          /\ Return("none")
          /\ UNCHANGED goal
       \/ /\ reply = "error"
          /\ session' = [session EXCEPT !.unverified = TRUE]
          /\ Raise
          /\ UNCHANGED goal
    /\ UNCHANGED <<slot, locals, cancelCall, faults>>

-----------------------------------------------------------------------------
(* _cancel_and_confirm (C): a cancel response for this goal and a CANCELED  *)
(* result, or it is no confirmation.                                        *)

CancelStart ==
    /\ At("C_Start")
    /\ IF goal[victim].confirmed
       THEN /\ Return(IF Result(victim) = "canceled" THEN "true" ELSE "false")
            /\ UNCHANGED cancelCall
       ELSE cancelCall' = "sent" /\ Goto("C_Response")
    /\ UNCHANGED <<slot, session, locals, goal, sending, reply, faults>>

\* Mutant: an accepted cancel response is taken for the CANCELED result.
CancelResponseTrusted ==
    /\ At("C_Response")
    /\ cancelCall \in {"accepted", "refused", "error"}
    /\ cancelCall' = "none"
    /\ Return(IF cancelCall = "accepted" THEN "true" ELSE "false")
    /\ UNCHANGED <<slot, session, locals, goal, sending, reply, faults>>

CancelResponse ==
    /\ At("C_Response")
    /\ cancelCall \in {"accepted", "refused", "error"}
    /\ cancelCall' = "none"
    /\ IF cancelCall = "accepted"
       THEN /\ goal' = [goal EXCEPT ![victim].result =
                              IF @ = "none" THEN "requested" ELSE @]
            /\ Goto("C_Result")
       ELSE Return("false") /\ UNCHANGED goal
    /\ UNCHANGED <<slot, session, locals, sending, reply, faults>>

CancelResult ==
    /\ At("C_Result")
    /\ Done(victim)
    /\ IF Result(victim) = "canceled"
       THEN goal' = [goal EXCEPT ![victim].confirmed = TRUE] /\ Return("true")
       ELSE Return("false") /\ UNCHANGED goal
    /\ UNCHANGED <<slot, session, locals, sending, reply, cancelCall, faults>>

-----------------------------------------------------------------------------
(* _await_inner_terminal (A): keeps the outer action open until every inner *)
(* action is terminal, cancelling each once after an outer cancel.          *)

AwaitTerminalLoop ==
    /\ \/ /\ At("A_Start")
          /\ attempted' = {}
          /\ Goto("A_Loop")
          /\ UNCHANGED session
       \/ /\ At("A_Loop") /\ InnerTerminal
          /\ Return("none")
          /\ UNCHANGED <<session, attempted>>
       \/ /\ At("A_Loop") /\ ~InnerTerminal
          /\ session' = [session EXCEPT !.wake =
                 IF session.cancelRequested /\ ~(ActiveInner \subseteq attempted)
                 THEN "CANCEL" ELSE "armed"]
          /\ Goto("A_Wait")
          /\ UNCHANGED attempted
       \/ /\ At("A_Wait") /\ session.wake \in Reasons
          /\ session' = [session EXCEPT !.wake = "none"]
          /\ Goto(IF session.wake = "CANCEL" THEN "A_Cancel" ELSE "A_Loop")
          /\ UNCHANGED attempted
    /\ UNCHANGED <<slot, victim, transport>>

\* The controller is stopped before the planner.
AwaitTerminalCancel ==
    /\ At("A_Cancel")
    /\ LET todo == ActiveInner \ attempted
           first == {g \in todo : goal[g].kind = "follow"}
       IN  \/ /\ todo = {}
              /\ Goto("A_Loop")
              /\ UNCHANGED locals
           \/ \E g \in IF first # {} THEN first ELSE todo :
                 /\ Call("C_Start", "A_Cancel")
                 /\ victim' = g
                 /\ attempted' = attempted \union {g}
    /\ UNCHANGED <<slot, session, transport>>

-----------------------------------------------------------------------------
(* _wait_inner_result (I) on the planner goal.                              *)

WaitInner ==
    /\ At("I_Start")
    /\ goal' = [goal EXCEPT ![session.planner].result = "requested",
                            ![session.planner].watched = ~session.cancelRequested]
    /\ session' = [session EXCEPT !.wake =
                       IF session.cancelRequested THEN "CANCEL" ELSE "armed"]
    /\ Goto("I_Wait")
    /\ UNCHANGED <<slot, locals, sending, reply, cancelCall, faults>>

\* A natural result that is there wins over the cancel; a CANCELED one still
\* needs the cancel response.
WaitInnerWoken ==
    /\ At("I_Wait")
    /\ session.wake \in Reasons
    /\ session' = [session EXCEPT !.wake = "none"]
    /\ LET result  == Result(session.planner)
           cancels == \/ /\ session.wake = "CANCEL"
                         /\ result \notin {"succeeded", "aborted"}
                      \/ /\ session.wake # "CANCEL"
                         /\ result = "canceled" /\ session.cancelRequested
       IN  \/ cancels /\ Cancel(session.planner, "I_Canceled")
           \/ /\ ~cancels
              /\ Return(IF result \in Terminal THEN result ELSE "error")
              /\ UNCHANGED locals
    /\ UNCHANGED <<slot, transport>>

WaitInnerCanceled ==
    /\ At("I_Canceled")
    /\ Return(IF rv = "true" THEN "confirmed" ELSE "unconfirmed")
    /\ OnlyControl

-----------------------------------------------------------------------------
(* execute (E) up to the first FollowPath.                                  *)

\* A stationary proof completes without inner actions.
Start ==
    /\ At("E_Start")
    /\ \/ /\ StationaryCompletion
          /\ Goto(IF session.cancelRequested THEN "Z_cancel" ELSE "G_Guard")
       \/ Goto(IF session.cancelRequested THEN "Z_cancel"
               ELSE IF polygon THEN "E_Snapshot" ELSE "E_Plan")
    /\ OnlyControl

Plan ==
    /\ \/ At("E_Plan") /\ Goto("Z_abort")  \* the server is not ready
       \/ At("E_Plan") /\ CanSend /\ Call("D_Start", "E_PlanSent")
       \/ At("E_PlanSent") /\ rv # "accepted" /\ Goto("Z_abort")
       \/ /\ At("E_PlanDone")
          /\ \/ rv = "succeeded" /\ Goto("E_Validate")
             \/ Goto(IF rv = "confirmed" THEN "Z_cancel" ELSE "Z_abort")
       \/ /\ At("E_PathRejected") \/ (At("E_Validated") /\ session.cancelRequested)
          /\ Goto(IF session.cancelRequested THEN "Z_cancel" ELSE "Z_abort")
       \/ At("E_Validated") /\ ~session.cancelRequested /\ Goto("E_Follow")
       \/ At("E_Follow") /\ Goto("Z_abort")  \* the server is not ready
    /\ OnlyControl

PlanAccepted ==
    /\ At("E_PlanSent") /\ rv = "accepted"
    /\ session' = [session EXCEPT !.planner = Latest]
    /\ Call("I_Start", "E_PlanDone")
    /\ UNCHANGED <<slot, locals, transport>>

FollowSend ==
    /\ At("E_Follow") /\ CanSend
    /\ session' = [session EXCEPT !.stage = "FOLLOWING"]
    /\ Call("D_Start", "E_FollowSent")
    /\ UNCHANGED <<slot, locals, transport>>

FollowSent ==
    /\ At("E_FollowSent")
    /\ \/ /\ rv = "accepted"
          /\ session' = [session EXCEPT !.follow = Latest, !.failures = 0]
          /\ Goto("F_Loop")
       \/ /\ rv # "accepted" /\ session.cancelRequested /\ InnerTerminal
          /\ Goto("Z_cancel")
          /\ UNCHANGED session
       \/ /\ rv # "accepted" /\ session.unverified
          /\ Call("A_Start", "Z_abort")
          /\ UNCHANGED session
       \/ /\ rv # "accepted" /\ ~session.unverified
          /\ ~(session.cancelRequested /\ InnerTerminal)
          /\ Goto("Z_abort")
          /\ UNCHANGED session
    /\ UNCHANGED <<slot, locals, transport>>

-----------------------------------------------------------------------------
(* _follow_with_replanning (F).                                             *)

FollowLoop ==
    /\ At("F_Loop")
    /\ LET f == session.follow
           wake == IF session.cancelRequested THEN "CANCEL"
                   ELSE IF session.replanPending THEN "REPLAN"
                   ELSE IF Done(f) THEN "RESULT" ELSE "armed"
       IN  /\ session' = [session EXCEPT !.wake = wake, !.stage = "FOLLOWING"]
           /\ goal' = [goal EXCEPT
                  ![f].result = IF @ = "none" THEN "requested" ELSE @,
                  ![f].watched = @ \/ wake = "armed"]
    /\ Goto("F_Wait")
    /\ UNCHANGED <<slot, locals, sending, reply, cancelCall, faults>>

\* Mutant: any result that is there when the cancel is seen counts as success.
FollowCancelingAnyResult ==
    /\ At("F_Wait") /\ session.wake = "CANCEL"
    /\ session' = [session EXCEPT !.wake = "none"]
    /\ IF Done(session.follow)
       THEN Goto("G_Guard") /\ UNCHANGED locals
       ELSE Cancel(session.follow, "F_Canceled")
    /\ UNCHANGED <<slot, transport>>

FollowCanceling ==
    /\ At("F_Wait") /\ session.wake = "CANCEL"
    /\ session' = [session EXCEPT !.wake = "none"]
    /\ \/ /\ Result(session.follow) = "succeeded"
          /\ Goto("G_Guard")
          /\ UNCHANGED locals
       \/ /\ Result(session.follow) # "succeeded"
          /\ Cancel(session.follow, "F_Canceled")
    /\ UNCHANGED <<slot, transport>>

\* An aborted FollowPath is planned again, a bounded number of times.
FollowEnded ==
    /\ At("F_Wait") /\ session.wake = "RESULT"
    /\ session' = [session EXCEPT !.wake = "none"]
    /\ LET result == Result(session.follow)
       IN  \/ /\ result = "error"
              /\ Cancel(session.follow, "F_Unverified")
           \/ /\ result \in Terminal
              /\ Goto(CASE result = "succeeded" -> "G_Guard"
                        [] /\ result = "aborted"
                           /\ RetriesLeft -> "R_Start"
                        [] OTHER -> "Z_abort")
              /\ UNCHANGED locals
           \/ /\ ~Done(session.follow)  \* a stale wake
              /\ Goto("F_Loop")
              /\ UNCHANGED locals
    /\ UNCHANGED <<slot, transport>>

FollowReplan ==
    /\ At("F_Wait") /\ session.wake = "REPLAN"
    /\ session' = [session EXCEPT !.wake = "none", !.replanPending = FALSE,
                                  !.replanInFlight = TRUE, !.stage = "PLANNING"]
    /\ Goto("W_Start")
    /\ UNCHANGED <<slot, locals, transport>>

\* What follows each cancel of the active FollowPath: finish when confirmed,
\* otherwise wait for every inner action and then abort.
FollowStopped ==
    /\ \/ /\ At("F_Canceled") \/ At("F_StopCancel")
          /\ rv = "true" /\ Goto("Z_cancel")
       \/ At("F_Canceled") /\ rv # "true" /\ Call("A_Start", "F_CancelAwaited")
       \/ At("F_StopCancel") /\ rv # "true" /\ Call("A_Start", "Z_abort")
       \/ At("F_Stop") /\ rv = "true" /\ Goto("Z_abort")
       \/ At("F_Stop") /\ rv # "true" /\ Call("A_Start", "Z_abort")
       \/ At("F_Unverified") /\ Call("A_Start", "Z_abort")
       \/ /\ At("F_CancelAwaited")
          /\ Goto(IF Result(session.follow) = "succeeded" THEN "G_Guard"
                  ELSE "Z_abort")
       \/ At("S_Late") /\ Goto(IF rv = "true" THEN "Z_cancel" ELSE "Z_abort")
    /\ OnlyControl

-----------------------------------------------------------------------------
(* _plan_retry (R) and _submit_follow (S).                                  *)

PlanRetry ==
    /\ At("R_Start")
    /\ session' = [session EXCEPT !.stage = "PLANNING", !.failures = @ + 1]
    /\ \/ Goto("R_None")  \* cancelled, or the server is not ready
       \/ ~session.cancelRequested /\ CanSend /\ Call("D_Start", "R_Sent")
    /\ UNCHANGED <<slot, locals, transport>>

PlanRetrySent ==
    /\ At("R_Sent")
    /\ \/ /\ rv = "accepted"
          /\ session' = [session EXCEPT !.planner = Latest]
          /\ Call("I_Start", "R_Done")
       \/ rv # "accepted" /\ Goto("R_None") /\ UNCHANGED session
    /\ UNCHANGED <<slot, locals, transport>>

PlanRetryDone ==
    /\ \/ At("R_Done") /\ rv = "succeeded" /\ Goto("R_Validate")
       \/ At("R_Done") /\ Goto("R_None")
       \/ /\ At("R_None")
          /\ Goto(IF session.cancelRequested THEN "Z_cancel" ELSE "Z_abort")
    /\ OnlyControl

SubmitFollow ==
    /\ \/ At("S_Retry") \/ At("S_Replace")
    /\ \/ Goto("S_Fail")  \* cancelled, or the server is not ready
       \/ /\ ~session.cancelRequested /\ CanSend
          /\ Call("D_Start", IF At("S_Retry") THEN "S_RetrySent" ELSE "S_ReplaceSent")
    /\ OnlyControl

SubmitFollowSent ==
    /\ At("S_RetrySent") \/ At("S_ReplaceSent") \/ At("S_Fail")
    /\ \/ /\ ~At("S_Fail") /\ rv = "accepted"
          /\ session' = [session EXCEPT !.follow = Latest,
                             !.failures = IF At("S_ReplaceSent") THEN 0 ELSE @]
          /\ Goto("F_Loop")
       \/ /\ At("S_Fail") \/ rv # "accepted"
          /\ Goto(IF session.cancelRequested /\ InnerTerminal
                  THEN "Z_cancel" ELSE "Z_abort")
          /\ UNCHANGED session
    /\ UNCHANGED <<slot, locals, transport>>

-----------------------------------------------------------------------------
(* _plan_while_following (W).  W_Ret hands rv to the follow loop.           *)

WhileReturn(value) ==
    /\ stack' = <<"W_Ret">> \o Tail(stack)
    /\ rv' = value

WhilePlan ==
    /\ \/ At("W_Start") /\ WhileReturn("none")  \* the server is not ready
       \/ At("W_Start") /\ CanSend /\ Call("D_Start", "W_Sent")
       \/ /\ At("W_Sent") /\ rv # "accepted"
          /\ WhileReturn(IF session.cancelRequested THEN "OUTER_CANCELED" ELSE "none")
    /\ OnlyControl

WhilePlanAccepted ==
    /\ At("W_Sent") /\ rv = "accepted"
    /\ session' = [session EXCEPT !.planner = Latest]
    /\ goal' = [goal EXCEPT ![Latest].result = "requested"]
    /\ Goto("W_Loop")
    /\ UNCHANGED <<slot, locals, sending, reply, cancelCall, faults>>

WhileLoop ==
    /\ At("W_Loop")
    /\ session' = [session EXCEPT !.wake =
           IF session.cancelRequested THEN "CANCEL"
           ELSE IF Done(session.planner) \/ Done(session.follow) THEN "RESULT"
           ELSE "armed"]
    /\ goal' = [goal EXCEPT ![session.planner].watched = TRUE,
                            ![session.follow].watched = TRUE]
    /\ Goto("W_Wait")
    /\ UNCHANGED <<slot, locals, sending, reply, cancelCall, faults>>

\* planner_handle.cancel_goal_async() without awaiting it.
DropPlanner ==
    goal' = [goal EXCEPT ![session.planner].cancel = @ \/ ~Done(session.planner)]

\* The controller's result takes precedence, then the outer cancel, then the
\* plan.
WhileWoken ==
    /\ At("W_Wait") /\ session.wake \in Reasons
    /\ session' = [session EXCEPT !.wake = "none"]
    /\ \/ /\ Result(session.follow) \in {"succeeded", "canceled"}
          /\ WhileReturn(IF Result(session.follow) = "succeeded"
                         THEN "OUTER_SUCCEEDED"
                         ELSE IF session.cancelRequested THEN "OUTER_CANCELED"
                         ELSE "OUTER_ABORTED")
          /\ DropPlanner
          /\ UNCHANGED locals
       \/ /\ Result(session.follow) \notin {"succeeded", "canceled"}
          /\ session.cancelRequested
          /\ Cancel(session.follow, "W_Canceled")
          /\ UNCHANGED goal
       \/ /\ Result(session.follow) \notin {"succeeded", "canceled"}
          /\ ~session.cancelRequested
          /\ \/ Done(session.planner) /\ WhileReturn("none")
             \/ Result(session.planner) = "succeeded" /\ Goto("W_Validate")
             \/ ~Done(session.planner) /\ Goto("W_Loop")
          /\ UNCHANGED <<goal, locals>>
    /\ UNCHANGED <<slot, sending, reply, cancelCall, faults>>

WhileCanceled ==
    /\ \/ /\ At("W_Canceled")
          /\ DropPlanner
          /\ Call("A_Start", IF rv = "true" THEN "W_Stopped" ELSE "W_NotStopped")
       \/ /\ At("W_Stopped") \/ At("W_NotStopped")
          /\ WhileReturn(IF Result(session.follow) = "succeeded"
                         THEN "OUTER_SUCCEEDED"
                         ELSE IF At("W_Stopped") THEN "OUTER_CANCELED"
                         ELSE "OUTER_ABORTED")
          /\ UNCHANGED goal
    /\ UNCHANGED <<slot, session, locals, sending, reply, cancelCall, faults>>

\* A validated candidate.  Near the goal, or when the path is the same, the
\* active FollowPath is kept; else it is stopped before it is replaced.
WhileValidated ==
    /\ At("W_Validated")
    /\ LET f == session.follow
       IN  \/ session.cancelRequested /\ Cancel(f, "W_LateCancel")
           \/ /\ ~session.cancelRequested
              /\ WhileReturn("NO_CHANGE")  \* near the goal
              /\ UNCHANGED locals
           \/ /\ ~session.cancelRequested /\ Result(f) \in {"succeeded", "aborted"}
              /\ WhileReturn(IF Result(f) = "succeeded" THEN "OUTER_SUCCEEDED"
                             ELSE "candidate")
              /\ UNCHANGED locals
           \/ /\ ~session.cancelRequested /\ Result(f) \in {"canceled", "error"}
              /\ Cancel(f, "W_Await")
           \/ /\ ~session.cancelRequested /\ ~Done(f)
              /\ Cancel(f, "W_Replace")
    /\ UNCHANGED <<slot, session, transport>>

WhileReplace ==
    /\ \/ /\ At("W_LateCancel")
          /\ WhileReturn(IF rv = "true" THEN "OUTER_CANCELED" ELSE "OUTER_ABORTED")
       \/ /\ At("W_Replace")
          /\ rv = "true" \/ Result(session.follow) = "aborted"
          /\ WhileReturn("candidate")
       \/ /\ At("W_Replace")
          /\ rv # "true" /\ Result(session.follow) = "succeeded"
          /\ WhileReturn("OUTER_SUCCEEDED")
       \/ /\ \/ At("W_Await")
             \/ /\ At("W_Replace") /\ rv # "true"
                /\ Result(session.follow) \notin {"aborted", "succeeded"}
          /\ Call("A_Start", "W_Ended")
       \/ At("W_Ended") /\ WhileReturn("OUTER_ABORTED")
       \/ At("W_None") /\ WhileReturn("none")
    /\ OnlyControl

\* Back in _follow_with_replanning.  After a failed replan a polygon goal has
\* its active path validated again; other goals count the failure.
Replanned ==
    /\ At("W_Ret")
    /\ LET failed == session.failures + 1
           plannerOwned == \E g \in ActiveInner : goal[g].kind # "follow"
           revalidates == polygon /\ ~session.unverified /\ ~plannerOwned
           back == [session EXCEPT !.replanInFlight = FALSE, !.stage = "FOLLOWING"]
       IN  \/ /\ rv \in {"OUTER_SUCCEEDED", "OUTER_CANCELED", "OUTER_ABORTED"}
              /\ Goto(CASE rv = "OUTER_SUCCEEDED" -> "G_Guard"
                        [] rv = "OUTER_CANCELED" -> "Z_cancel"
                        [] OTHER -> "Z_abort")
              /\ session' = back
              /\ UNCHANGED locals
           \/ /\ rv = "NO_CHANGE"
              /\ Goto("F_Loop")
              /\ session' = [back EXCEPT !.failures = 0]
              /\ UNCHANGED locals
           \/ /\ rv = "none"
              /\ session' = [back EXCEPT !.failures = failed]
              /\ \/ session.cancelRequested /\ Cancel(session.follow, "F_StopCancel")
                 \/ /\ ~session.cancelRequested /\ revalidates
                    /\ Goto("V_Active")
                    /\ UNCHANGED locals
                 \/ /\ ~session.cancelRequested /\ ~revalidates
                    /\ failed >= MaxReplanFailures
                    /\ Result(session.follow) # "succeeded"
                    /\ Cancel(session.follow, "F_Stop")
                 \/ /\ ~session.cancelRequested /\ ~revalidates
                    /\ failed >= MaxReplanFailures => Result(session.follow) = "succeeded"
                    /\ Goto(IF failed >= MaxReplanFailures THEN "G_Guard" ELSE "F_Loop")
                    /\ UNCHANGED locals
           \/ /\ rv = "candidate"
              /\ session' = back
              /\ \/ session.cancelRequested /\ Cancel(session.follow, "S_Late")
                 \/ /\ ~session.cancelRequested
                    /\ Goto("S_Replace")
                    /\ UNCHANGED locals
    /\ UNCHANGED <<slot, transport>>

Revalidated ==
    /\ \/ /\ At("V_Kept")
          /\ session' = [session EXCEPT !.failures = 0]
          /\ Goto("F_Loop")
          /\ UNCHANGED locals
       \/ /\ At("V_Unsafe")
          /\ Cancel(session.follow, "F_Stop")
          /\ UNCHANGED session
    /\ UNCHANGED <<slot, transport>>

-----------------------------------------------------------------------------
(* The end of execute: its except (X) and finally branches and _finish (Z). *)

HandleException ==
    /\ \/ /\ At("X_Handle")
          /\ Goto(IF session.stage = "FOLLOWING" /\ ~InnerTerminal
                  THEN "X_Cancel" ELSE "Z_abort")
          /\ attempted' = {}
          /\ UNCHANGED victim
       \/ /\ At("X_Cancel")
          /\ LET todo == {g \in ActiveInner \ attempted : goal[g].kind = "follow"}
             IN  \/ todo = {} /\ Call("A_Start", "Z_abort") /\ UNCHANGED locals
                 \/ \E g \in todo : /\ Call("C_Start", "X_Cancel")
                                    /\ victim' = g
                                    /\ attempted' = attempted \union {g}
    /\ UNCHANGED <<slot, session, transport>>

\* canceled() raises on a goal that its client did not cancel, after terminal
\* was set; rclpy aborts a goal that execute leaves active.
FinishRaises ==
    /\ At("Z_cancel") /\ outer = "executing" /\ ~session.terminal
    /\ session' = [session EXCEPT !.terminal = TRUE]
    /\ Raise
    /\ UNCHANGED <<slot, locals, transport>>

\* The slot is freed when every inner action is terminal.  Otherwise it stays
\* closed; without an outer cancel the inner actions are cancelled unawaited.
Finish ==
    /\ Top \in {"Z_succeed", "Z_cancel", "Z_abort"}
    /\ ~(At("Z_cancel") /\ outer = "executing" /\ ~session.terminal)
    /\ outer' = CASE At("Z_succeed") -> "succeeded"
                  [] At("Z_cancel")  -> "canceled"
                  [] At("Z_abort")   -> "aborted"
    /\ session' = [session EXCEPT !.terminal = TRUE]
    /\ stack' = <<>>
    /\ busy' = ~InnerTerminal
    /\ goal' = IF InnerTerminal \/ session.cancelRequested THEN goal
               ELSE [g \in Goals |->
                       IF g \in ActiveInner THEN [goal[g] EXCEPT !.cancel = TRUE]
                       ELSE goal[g]]
    /\ UNCHANGED <<reserved, pendingCancel, polygon, rv, locals,
                   sending, reply, cancelCall, faults>>

Coroutine ==
    \/ ExternalAwait
    \/ Dispatch \/ DispatchWoken \/ DispatchAnswered
    \/ CancelStart \/ CancelResponse \/ CancelResult
    \/ AwaitTerminalLoop \/ AwaitTerminalCancel
    \/ WaitInner \/ WaitInnerWoken \/ WaitInnerCanceled
    \/ Start \/ Plan \/ PlanAccepted \/ FollowSend \/ FollowSent
    \/ FollowLoop \/ FollowCanceling \/ FollowEnded \/ FollowReplan
    \/ FollowStopped
    \/ PlanRetry \/ PlanRetrySent \/ PlanRetryDone
    \/ SubmitFollow \/ SubmitFollowSent
    \/ WhilePlan \/ WhilePlanAccepted \/ WhileLoop \/ WhileWoken
    \/ WhileCanceled \/ WhileValidated \/ WhileReplace
    \/ Replanned \/ Revalidated
    \/ HandleException \/ FinishRaises \/ Finish

-----------------------------------------------------------------------------
(* Callbacks, which run while the coroutine is suspended.                   *)

\* accept_goal; a goal that arrives while the slot is taken is rejected.  What
\* two runs of execute do to each other is not modelled: see OneExecute.
AcceptGoal ==
    /\ ~busy
    /\ stack = <<>>
    /\ busy' = TRUE /\ reserved' = TRUE
    /\ outer' = "executing"
    /\ polygon' \in Polygons
    /\ UNCHANGED <<pendingCancel, session, control, locals, transport>>

\* The executor starts execute.
Execute ==
    /\ reserved
    /\ reserved' = FALSE /\ pendingCancel' = FALSE
    /\ session' = NewSession(pendingCancel)
    /\ stack' = <<"E_Init">> /\ rv' = "none"
    /\ victim' = NoGoal /\ attempted' = {}
    /\ goal' = [g \in Goals |-> Unused]
    /\ faults' = 0
    /\ UNCHANGED <<busy, outer, polygon, sending, reply, cancelCall>>

WakeCancel ==
    session' = [session EXCEPT !.cancelRequested = TRUE,
                               !.wake = Woken(@, "CANCEL")]

\* request_cancel from the outer client.
OuterCancel ==
    /\ outer = "executing"
    /\ \/ reserved /\ pendingCancel' = TRUE /\ UNCHANGED session
       \/ HasSession /\ ~session.terminal /\ WakeCancel /\ UNCHANGED pendingCancel
    /\ outer' = "canceling"
    /\ UNCHANGED <<busy, reserved, polygon, control, locals, transport>>

\* _watch_boundary: the costmaps stopped acknowledging the task polygon.
BoundaryLost ==
    /\ polygon /\ HasSession /\ ~At("E_Init")
    /\ ~session.cancelRequested /\ ~session.terminal
    /\ WakeCancel
    /\ UNCHANGED <<slot, control, locals, transport>>

\* request_replan, the timer; a tick near the goal is dropped.
RequestReplan ==
    /\ Replanning
    /\ HasSession /\ ~session.terminal /\ ~session.cancelRequested
    /\ session.stage = "FOLLOWING" \/ session.replanInFlight
    /\ session' = [session EXCEPT !.replanPending = TRUE,
           !.wake = IF session.stage = "FOLLOWING" /\ ~session.replanInFlight
                    THEN Woken(@, "REPLAN") ELSE @]
    /\ UNCHANGED <<slot, control, locals, transport>>

\* The reply to the goal request; its done callback wakes _send_goal.
ReplyArrives ==
    /\ sending # NoGoal /\ reply = "none"
    /\ \/ /\ goal[sending].server \in Live \union Terminal
          /\ reply' = "accepted"
          /\ UNCHANGED faults
       \/ /\ goal[sending].server = "rejected"
          /\ reply' = "rejected"
          /\ UNCHANGED faults
       \/ /\ faults < MaxFaults
          /\ faults' = faults + 1
          /\ reply' \in {"nohandle", "error"}
    /\ session' = [session EXCEPT !.wake =
                       IF At("D_Wait") THEN Woken(@, "RESULT") ELSE @]
    /\ UNCHANGED <<slot, control, locals, goal, sending, cancelCall>>

\* _observe_inner_terminal and the callbacks that wake the session.
ResultArrives(g) ==
    /\ goal[g].result = "requested" /\ goal[g].server \in Terminal
    /\ goal' = [goal EXCEPT ![g].result = goal[g].server]
    /\ LET terminal == InnerTerminalOf(session.unverified, sending, ActiveInner \ {g})
       IN  /\ busy' = SlotAfter(terminal)
           /\ session' = [session EXCEPT !.wake =
                  IF Wakes(goal[g].watched, terminal) THEN Woken(@, "RESULT") ELSE @]
    /\ UNCHANGED <<reserved, pendingCancel, outer, polygon, control, locals,
                   sending, reply, cancelCall, faults>>

\* The result future ends with an exception: nothing is observed.
ResultLost(g) ==
    /\ goal[g].result = "requested"
    /\ faults < MaxFaults
    /\ faults' = faults + 1
    /\ goal' = [goal EXCEPT ![g].result = "error"]
    /\ session' = [session EXCEPT !.wake =
                       IF goal[g].watched THEN Woken(@, "RESULT") ELSE @]
    /\ UNCHANGED <<slot, control, locals, sending, reply, cancelCall>>

-----------------------------------------------------------------------------
(* The planner and controller action servers.                               *)

ServerDecides(g) ==
    /\ goal[g].server = "sent"
    /\ \E s \in {"running", "rejected"} : goal' = [goal EXCEPT ![g].server = s]
    /\ UNCHANGED <<slot, session, control, locals, sending, reply, cancelCall, faults>>

ServerEnds(g) ==
    /\ goal[g].server \in Live
    /\ \E s \in Terminal :
          /\ s = "canceled" => goal[g].server = "canceling"
          /\ goal' = [goal EXCEPT ![g].server = s]
    /\ UNCHANGED <<slot, session, control, locals, sending, reply, cancelCall, faults>>

\* Another client of the server cancels its goals.
ServerCanceledByOther(g) ==
    /\ goal[g].server = "running"
    /\ goal' = [goal EXCEPT ![g].server = "canceling"]
    /\ UNCHANGED <<slot, session, control, locals, sending, reply, cancelCall, faults>>

\* A cancel request that nobody awaits: accepted or refused.
QueuedCancelHandled(g) ==
    /\ goal[g].cancel
    /\ \E s \in {goal[g].server,
                 IF goal[g].server = "running" THEN "canceling" ELSE goal[g].server} :
          goal' = [goal EXCEPT ![g].cancel = FALSE, ![g].server = s]
    /\ UNCHANGED <<slot, session, control, locals, sending, reply, cancelCall, faults>>

\* The awaited one.  Only a running goal can accept it.
CancelHandled ==
    /\ cancelCall = "sent"
    /\ \/ /\ goal[victim].server = "running"
          /\ goal' = [goal EXCEPT ![victim].server = "canceling"]
          /\ cancelCall' = "accepted"
          /\ UNCHANGED faults
       \/ cancelCall' = "refused" /\ UNCHANGED <<goal, faults>>
       \/ /\ faults < MaxFaults
          /\ faults' = faults + 1
          /\ cancelCall' = "error"
          /\ \E s \in {goal[victim].server,
                       IF goal[victim].server = "running" THEN "canceling"
                       ELSE goal[victim].server} :
                goal' = [goal EXCEPT ![victim].server = s]
    /\ UNCHANGED <<slot, session, control, locals, sending, reply>>

Environment ==
    \/ AcceptGoal \/ Execute \/ OuterCancel \/ BoundaryLost \/ RequestReplan
    \/ ReplyArrives \/ CancelHandled
    \/ \E g \in Goals : \/ ResultArrives(g) \/ ResultLost(g)
                        \/ ServerDecides(g) \/ ServerEnds(g)
                        \/ ServerCanceledByOther(g) \/ QueuedCancelHandled(g)

\* A step of the coroutine, up to its next await.
Step == Coroutine /\ yielded' = Waiting'
Callback == yielded /\ Environment /\ UNCHANGED yielded

Next == Step \/ Callback

Spec == Init /\ [][Next]_vars

-----------------------------------------------------------------------------
TypeOK ==
    /\ {busy, reserved, pendingCancel, polygon, yielded} \subseteq BOOLEAN
    /\ outer \in {"none", "executing", "canceling"} \union Terminal
    /\ session.wake \in {"none", "armed"} \union Reasons
    /\ session.failures \in 0 .. MaxReplanFailures + 1
    /\ {session.planner, session.follow, victim, sending} \subseteq 0 .. MaxGoals
    /\ attempted \subseteq Goals
    /\ \A g \in Goals :
          /\ goal[g].server \in {"none", "sent", "rejected"} \union Live \union Terminal
          /\ goal[g].result \in {"none", "requested", "error"} \union Terminal
    /\ faults \in 0 .. MaxFaults

\* At most one FollowPath is in the hands of the controller: a replacement or
\* a retry is sent only when the one before has ended (_plan_while_following,
\* _cancel_and_confirm).
OneFollow == Cardinality(OwnedFollows) <= 1

\* While an inner goal that a session sent may still be executed, no other
\* outer goal is accepted, whatever became of the session (execute's finally,
\* _observe_inner_terminal).
SlotCoversInner == ~busy => \A g \in Goals : goal[g].server \notin Owned

\* The slot is free only when execute has returned, so two runs of execute
\* never share the runtime (_busy, _session).
OneExecute == ~busy => stack = <<>>

\* The outer goal succeeds only when the last FollowPath did, or when a
\* stationary proof made every inner action unnecessary (_complete_success).
SuccessIsFollowed ==
    outer = "succeeded" /\ ~reserved =>
        \/ StationaryCompletion /\ Latest = 0
        \/ session.follow # NoGoal /\ goal[session.follow].server = "succeeded"

-----------------------------------------------------------------------------
(* The promise to the clients (NavigationSlot).                             *)

\* The session has been told to stop though the client has not asked.
StoppedByWatch == ~reserved /\ session.cancelRequested /\ outer = "executing"

Slot == INSTANCE NavigationSlot WITH
            held <- busy, goal <- outer, bounded <- polygon, lost <- StoppedByWatch,
            controller <- IF OwnedFollows = {} THEN "idle" ELSE "owned"

\* Every step of the runtime is a step of the single slot or changes nothing its
\* clients see (_send_goal, _finish, _observe_inner_terminal).
ImplementsSlot == Slot!SlotSpec

-----------------------------------------------------------------------------
(* Progress.  The executor goes on resuming the coroutine, the servers      *)
(* answer requests and end their goals, the middleware delivers.  Strong    *)
(* fairness: each round of the executor's wait set takes every entity that  *)
(* is ready, so a callback is not passed over forever in favour of others,  *)
(* but it needs the coroutine to give the thread back.                      *)

Delivery ==
    \/ Execute \/ ReplyArrives \/ CancelHandled
    \/ \E g \in Goals : ResultArrives(g)
Serving == \E g \in Goals : ServerDecides(g) \/ ServerEnds(g)

FairSpec ==
    /\ Spec
    /\ WF_vars(Step)
    /\ SF_vars(yielded /\ Delivery /\ UNCHANGED yielded)
    /\ SF_vars(yielded /\ Serving /\ UNCHANGED yielded)

\* An accepted outer cancel ends the outer goal (request_cancel).
CancelEnds == outer = "canceling" ~> outer \in Terminal

\* FollowPath has ended while a replan of it is being planned, and nobody has
\* cancelled: _plan_while_following then awaits a done future again and again.
Spinning ==
    /\ Top \in {"W_Loop", "W_Wait"} /\ Done(session.follow)
    /\ ~Done(session.planner) /\ ~session.cancelRequested

\* Without lost messages the slot is freed (execute, _observe_inner_terminal),
\* unless the coroutine spins.
SlotFreed == busy ~> (~busy \/ Spinning)

-----------------------------------------------------------------------------
(* What the documentation says, and the code does not do.                   *)

\* docs/PROJECT_STATUS.md: cancel is confirmed in planning and in following; a
\* CANCELED outer goal has no FollowPath running.
CanceledMeansStopped == outer = "canceled" => OwnedFollows = {}

\* The coroutine waits without blocking the executor: it always gives the
\* thread back.
Responsive == []<>yielded
=============================================================================

---- MODULE HilClient ----
(***************************************************************************)
(* cleannav_navigation/demo_hil_navigation_client.py: the bridge between   *)
(* the J6M's HTTP server and the local navigate_to_pose action.  A thread  *)
(* posts results and polls events; the node's only executor thread drains  *)
(* the events and hears the action client.  Two queues join them.          *)
(* Event ids are positions in the J6M's log; the client executes           *)
(* (--execute) and starts after event 0.                                   *)
(***************************************************************************)
EXTENDS Naturals, Sequences

CONSTANTS
    Requests,    \* navigation request ids
    MaxEvents    \* length of the J6M's log

ASSUME HilBounds == MaxEvents \in Nat \ {0}

VARIABLES
    log,       \* the J6M's events: submit (with a good or a bad goal), cancel
    told,      \* the results that have reached the J6M, per request
    refused,   \* requests with a result that the J6M answered with 4xx
    http,      \* the thread: pc, after_event_id, pending and remaining results
    incoming, outgoing,   \* _incoming_events, _outgoing_results
    states,    \* _states
    goal,      \* the goal of a request at the action server
    call       \* the cancel call of a request: "none", "asked" or its answer

hilVars == <<http, incoming, outgoing, states>>
vars == <<log, told, refused, hilVars, goal, call>>

TERMINAL_EVENTS ==
    {"GOAL_REJECTED", "SUCCEEDED", "FAILED", "CANCEL_CONFIRMED", "CANCEL_FAILED"}
Ended == {"succeeded", "aborted", "canceled"}

Init ==
    /\ log = <<>> /\ told = [r \in Requests |-> {}] /\ refused = {}
    /\ http = [pc |-> "take", after |-> 0, pending |-> <<>>, remaining |-> <<>>]
    /\ incoming = <<>> /\ outgoing = <<>>
    /\ states = [r \in Requests |->
                   [known |-> FALSE, handle |-> FALSE, cancel_requested |-> FALSE,
                    cancel_in_flight |-> FALSE, cancel_accepted |-> FALSE, terminal |-> FALSE]]
    /\ goal = [r \in Requests |-> "none"]
    /\ call = [r \in Requests |-> "none"]

---------------------------------------------------------------------------
(* The J6M *)

J6mWrites ==
    /\ Len(log) < MaxEvents /\ http.pc # "ended"
    /\ \E r \in Requests, op \in {"submit", "submit bad", "cancel"} :
          log' = Append(log, [op |-> op, req |-> r])
    /\ UNCHANGED <<told, refused, hilVars, goal, call>>

---------------------------------------------------------------------------
(* _http_loop *)

Takes ==
    /\ http.pc = "take" /\ outgoing' = <<>>
    /\ http' = [http EXCEPT !.pc = "post", !.pending = http.remaining \o outgoing,
                            !.remaining = <<>>]
    /\ UNCHANGED <<log, told, refused, incoming, states, goal, call>>

\* Mutant: a result is posted once.
PostedOnce(result) == <<>>

(* After any other failure than 4xx the result stays for the next pass. *)
Kept(result) == <<result>>

(* The J6M has taken a result and says so, has taken it but its answer is  *)
(* lost or no JSON object, has not got it, or refuses it for good (4xx).   *)
Answers == {"ok", "unheard", "failed", "4xx"}

Posts(answer) ==
    /\ http.pc = "post" /\ http.pending # <<>>
    /\ LET result == Head(http.pending) IN
       /\ told' = IF answer \in {"ok", "unheard"}
                  THEN [told EXCEPT ![result.req] = @ \union {result.event}] ELSE told
       /\ refused' = IF answer = "4xx" THEN refused \union {result.req} ELSE refused
       /\ http' = [http EXCEPT !.pending = Tail(@),
                     !.remaining = @ \o (IF answer \in {"unheard", "failed"}
                                         THEN Kept(result) ELSE <<>>)]
    /\ UNCHANGED <<log, incoming, outgoing, states, goal, call>>

(* get_events, without what is not newer than after_event_id. *)
Unread == SubSeq(log, http.after + 1, Len(log))

Polls(answered) ==
    /\ http.pc = "post" /\ http.pending = <<>>
    /\ http' = [http EXCEPT !.pc = "take", !.after = IF answered THEN Len(log) ELSE @]
    /\ incoming' = IF answered THEN incoming \o Unread ELSE incoming
    /\ UNCHANGED <<log, told, refused, outgoing, states, goal, call>>

(* An exception the loop does not catch (a truncated answer is an          *)
(* HTTPException, not an OSError), or the shutdown of the client, which    *)
(* cancels no goal: what is not yet posted is lost.                        *)
HttpEnds ==
    /\ http.pc # "ended" /\ http' = [http EXCEPT !.pc = "ended"]
    /\ UNCHANGED <<log, told, refused, incoming, outgoing, states, goal, call>>

---------------------------------------------------------------------------
(* The node.  At most one event of a kind is emitted for a request: the    *)
(* acceptance has one callback, any other event is terminal.               *)

(* _emit_result *)
Emits(r, st, event) ==
    /\ outgoing' = IF st.terminal THEN outgoing
                   ELSE Append(outgoing, [req |-> r, event |-> event])
    /\ states' = [states EXCEPT ![r] = [st EXCEPT !.terminal = @ \/ event \in TERMINAL_EVENTS]]

(* _request_cancel, once the state is st *)
AsksCancel(r, st) ==
    IF st.terminal \/ st.cancel_in_flight \/ ~st.handle
    THEN states' = [states EXCEPT ![r] = st] /\ UNCHANGED call
    ELSE /\ states' = [states EXCEPT ![r] = [st EXCEPT !.cancel_in_flight = TRUE]]
         /\ call' = [call EXCEPT ![r] = "asked"]

HandleSubmit(r, good) ==
    IF states[r].known THEN UNCHANGED <<states, outgoing, goal, call>>
    ELSE LET st == [states[r] EXCEPT !.known = TRUE] IN
         /\ UNCHANGED call
         /\ IF good
            THEN /\ states' = [states EXCEPT ![r] = st] /\ UNCHANGED outgoing
                 /\ goal' = [goal EXCEPT ![r] = "asked"]
            ELSE Emits(r, st, "GOAL_REJECTED") /\ UNCHANGED goal

(* _build_ros_goal: whether the payload is a goal. *)
IsGoal(event) == event.op = "submit"

HandleCancel(r) ==
    /\ UNCHANGED <<outgoing, goal>>
    /\ IF states[r].known /\ ~states[r].terminal
       THEN AsksCancel(r, [states[r] EXCEPT !.cancel_requested = TRUE])
       ELSE UNCHANGED <<states, call>>

Drains ==
    /\ incoming # <<>> /\ incoming' = Tail(incoming)
    /\ LET event == Head(incoming) IN
       IF event.op = "cancel" THEN HandleCancel(event.req)
       ELSE HandleSubmit(event.req, IsGoal(event))
    /\ UNCHANGED <<log, told, refused, http>>

\* Mutant: a cancel that came before the handle is forgotten.
ForgetsCancel(r, st) == states' = [states EXCEPT ![r] = st] /\ UNCHANGED call

(* The cancel that waited for the goal handle. *)
QueuedCancel(r, st) ==
    IF st.cancel_requested THEN AsksCancel(r, st)
    ELSE states' = [states EXCEPT ![r] = st] /\ UNCHANGED call

OnGoalResponse(r) ==
    /\ states[r].known /\ ~states[r].handle /\ ~states[r].terminal
    /\ goal[r] \notin {"none", "asked"}
    /\ IF goal[r] = "refused"
       THEN Emits(r, states[r], "GOAL_REJECTED") /\ UNCHANGED call
       ELSE /\ outgoing' = Append(outgoing, [req |-> r, event |-> "GOAL_ACCEPTED"])
            /\ QueuedCancel(r, [states[r] EXCEPT !.handle = TRUE])
    /\ UNCHANGED <<log, told, refused, http, incoming, goal>>

OnCancelResponse(r) ==
    /\ call[r] \in {"accepted", "rejected"} /\ call' = [call EXCEPT ![r] = "none"]
    /\ LET st == [states[r] EXCEPT !.cancel_in_flight = FALSE] IN
       IF states[r].terminal THEN UNCHANGED <<states, outgoing>>
       ELSE IF call[r] = "rejected" THEN Emits(r, st, "CANCEL_FAILED")
       ELSE /\ states' = [states EXCEPT ![r] = [st EXCEPT !.cancel_accepted = TRUE]]
            /\ UNCHANGED outgoing
    /\ UNCHANGED <<log, told, refused, http, incoming, goal>>

\* Mutant: whatever the goal ends in confirms an accepted cancel.
ConfirmsAnyEnd(st, end) ==
    IF st.cancel_requested /\ st.cancel_accepted THEN "CANCEL_CONFIRMED"
    ELSE IF end = "succeeded" THEN "SUCCEEDED" ELSE "FAILED"

Verdict(st, end) ==
    CASE end = "succeeded" -> IF st.cancel_requested THEN "CANCEL_FAILED" ELSE "SUCCEEDED"
      [] end = "canceled"  -> IF ~st.cancel_requested THEN "FAILED"
                              ELSE IF st.cancel_accepted THEN "CANCEL_CONFIRMED"
                              ELSE "CANCEL_FAILED"
      [] end = "aborted"   -> "FAILED"

OnGoalResult(r) ==
    /\ states[r].handle /\ ~states[r].terminal /\ goal[r] \in Ended
    /\ Emits(r, states[r], Verdict(states[r], goal[r]))
    /\ UNCHANGED <<log, told, refused, http, incoming, goal, call>>

---------------------------------------------------------------------------
(* The action server: one goal at a time; only a running goal can be       *)
(* cancelled, one that is being cancelled already cannot; it also ends     *)
(* goals of its own accord, and others may cancel them.                    *)

Serves(r, to) == goal' = [goal EXCEPT ![r] = to] /\ UNCHANGED <<log, told, refused, hilVars>>

Busy == \E r \in Requests : goal[r] \in {"running", "canceling"}

ServerDecides(r) ==
    /\ goal[r] = "asked" /\ UNCHANGED call
    /\ Serves(r, "refused") \/ (~Busy /\ Serves(r, "running"))

ServerEnds(r) ==
    /\ UNCHANGED call
    /\ \/ goal[r] = "running" /\ \E end \in {"succeeded", "aborted"} : Serves(r, end)
       \/ goal[r] = "canceling" /\ \E end \in Ended : Serves(r, end)

ServerHearsCancel(r) ==
    /\ call[r] = "asked"
    /\ \/ goal[r] = "running" /\ Serves(r, "canceling") /\ call' = [call EXCEPT ![r] = "accepted"]
       \/ Serves(r, goal[r]) /\ call' = [call EXCEPT ![r] = "rejected"]

OthersCancel(r) == goal[r] = "running" /\ Serves(r, "canceling") /\ UNCHANGED call

Callback(r) == OnGoalResponse(r) \/ OnCancelResponse(r) \/ OnGoalResult(r)
Server(r) == ServerDecides(r) \/ ServerHearsCancel(r) \/ (goal[r] = "canceling" /\ ServerEnds(r))

Next ==
    \/ J6mWrites \/ Takes \/ HttpEnds \/ Drains
    \/ \E answer \in Answers : Posts(answer)
    \/ \E answered \in BOOLEAN : Polls(answered)
    \/ \E r \in Requests : Callback(r) \/ ServerDecides(r) \/ ServerEnds(r)
                           \/ ServerHearsCancel(r) \/ OthersCancel(r)

(* The loops turn; a request that is repeated is at last answered; the     *)
(* server answers, and ends what it has been asked to cancel.              *)
Spec ==
    /\ Init /\ [][Next]_vars
    /\ WF_vars(Takes) /\ WF_vars(Drains)
    /\ WF_vars(\E answer \in Answers : Posts(answer))
    /\ SF_vars(Posts("ok")) /\ WF_vars(\E answered \in BOOLEAN : Polls(answered))
    /\ SF_vars(Polls(TRUE))
    /\ \A r \in Requests : WF_vars(Callback(r)) /\ WF_vars(Server(r))

---------------------------------------------------------------------------
(* What the J6M is told of the end of a goal is what became of it, however *)
(* the result, the cancel and its answer cross (Verdict: _on_goal_result), *)
(* and it is told one end, whatever is repeated (state.terminal).          *)
ReportIsTrue ==
    \A r \in Requests :
        /\ "SUCCEEDED" \in told[r] => goal[r] = "succeeded"
        /\ "CANCEL_CONFIRMED" \in told[r] => goal[r] = "canceled"
        /\ "FAILED" \in told[r] => goal[r] \in {"aborted", "canceled"}
        /\ "GOAL_REJECTED" \in told[r] => goal[r] \in {"none", "refused"}
        /\ \A e, f \in told[r] \intersect TERMINAL_EVENTS : e = f

HeardOf(r) == told[r] \intersect TERMINAL_EVENTS # {} \/ r \in refused \/ http.pc = "ended"

(* The J6M hears of every goal that has ended, unless it refuses a result  *)
(* or the connection is gone for good (_http_loop, _emit_result).          *)
EndIsReported == \A r \in Requests : goal[r] \in Ended \union {"refused"} ~> HeardOf(r)

(* A cancel has an answer, even one that overtakes the acceptance of its   *)
(* goal (_handle_cancel_goal, _on_goal_response).                          *)
CancelAsked(r) ==
    \E i \in 1 .. Len(log), j \in 1 .. Len(log) :
        i < j /\ log[i] = [op |-> "submit", req |-> r] /\ log[j] = [op |-> "cancel", req |-> r]
CancelIsAnswered == \A r \in Requests : CancelAsked(r) ~> HeardOf(r)

(* An accepted cancel ends in its confirmation when the goal is canceled:  *)
(* "ROS cancel accepted; waiting for actual CANCELED result"               *)
(* (demo_hil_navigation_client.py:815).                                    *)
AcceptedCancelIsConfirmed ==
    \A r \in Requests :
        states[r].cancel_accepted /\ goal[r] \in {"canceling", "canceled"} => "CANCEL_FAILED" \notin told[r]
====

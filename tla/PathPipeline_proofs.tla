------------------------- MODULE PathPipeline_proofs -------------------------
(* What TLAPS proves about the two nodes of PathPipeline and about their      *)
(* composition, for every set of paths, requests and goal handles and every  *)
(* bound.                                                                    *)
(*   The planner bridge, whose variables the composition extends: the types, *)
(* that the planner never holds two requests of the node, that what is       *)
(* queued belongs to the goal the user wants now, that a deferred replan is  *)
(* looked at again, and that a request of an old goal has been asked to stop.*)
(*   The path executor, the instance PathNode: the types, that every live    *)
(* goal is owned, and that the controller never holds two goals of the node. *)
(*   Both invariants hold under any input the topics can carry, so they hold *)
(* of the chain (PipeInv); with what the statuses on the way claim (Honest)  *)
(* they give that a final goal ends only by an arrival (EndsOnArrival).      *)
EXTENDS PathPipeline, SequenceTheorems, TLAPS

\* The bounds are numbers, and no request has the name of none.
LEMMA Bounds == MaxGoals \in Nat /\ MaxFaults \in Nat /\ NoRequest \notin Requests
  BY BridgeAssumption DEF BridgeAssumption

USE Bounds

PlannerStates == {"free", "asked", "planning", "canceling", "rejected", "done"}

LiveIn(srv, r) == srv[r] \in {"asked", "planning", "canceling"}

\* Every live request is the one being sent or the active one, unless the node
\* has lost track of a submission; then it holds nothing.
Owner ==
    /\ sending = NoRequest \/ active = NoRequest
    /\ unverified => sending = NoRequest /\ active = NoRequest
    /\ ~unverified => \A r \in Requests : Live(r) => r \in {sending, active}

\* A node that lost a submission has at most that request at the planner.
Lost == unverified => OneRequest

\* A replan is deferred only for a goal.
DeferredHasGoal == deferred => finalGoal

Queue == QueueIsCurrent /\ DeferredIsOwed /\ DeferredHasGoal

IInv == TypeOK /\ Owner /\ Lost /\ Queue /\ StaleRequestCancelled

\* What a callback that ends in _try_send_pending_goal establishes.
Owned ==
    /\ pendingGoal \in 0 .. MaxGoals
    /\ sending \in Requests \cup {NoRequest}
    /\ requestOf \in [Requests -> 0 .. MaxGoals]
    /\ unverified \in BOOLEAN
    /\ planner \in [Requests -> PlannerStates]
    /\ faults \in 0 .. MaxFaults
    /\ Owner /\ Lost

\* A request is sent only from a state without a live one, so at most the
\* request it creates is live afterwards; a goal that is not sent stays queued.
LEMMA SendSafe ==
    ASSUME TypeOK,
           NEW g \in 0 .. MaxGoals, NEW srv \in [Requests -> PlannerStates],
           NEW last, NEW texts,
           ~unverified, \A r \in Requests : ~LiveIn(srv, r), active' = NoRequest,
           Send(g, srv, last, texts)
    PROVE  /\ Owned'
           /\ pendingGoal' \in {0, g}
           /\ sending' # NoRequest \/ pendingGoal' = g \/ unverified'
<1>a. faults \in 0 .. MaxFaults
  BY DEF TypeOK
<1>1. CASE \E r \in Requests :
              /\ pendingGoal' = 0 /\ sending' = r
              /\ requestOf' = [requestOf EXCEPT ![r] = g]
              /\ planner' = [srv EXCEPT ![r] = "asked"]
              /\ UNCHANGED <<unverified, faults>>
  <2>1. PICK r \in Requests :
              /\ pendingGoal' = 0 /\ sending' = r
              /\ requestOf' = [requestOf EXCEPT ![r] = g]
              /\ planner' = [srv EXCEPT ![r] = "asked"]
              /\ UNCHANGED <<unverified, faults>>
    BY <1>1
  <2>2. planner' \in [Requests -> PlannerStates]
    BY <2>1 DEF PlannerStates
  <2>3. \A q \in Requests : Live(q)' => q = r
    BY <2>1 DEF Live, LiveIn
  <2>4. Owner' /\ Lost'
    BY <2>1, <2>3 DEF Owner, Lost
  <2>5. faults' \in 0 .. MaxFaults /\ pendingGoal' \in 0 .. MaxGoals
    <3>1. pendingGoal' = 0 /\ (faults' = faults \/ (faults < MaxFaults /\ faults' = faults + 1))
      BY <2>1
    <3>. QED
      BY <1>a, <3>1
  <2>6. requestOf' \in [Requests -> 0 .. MaxGoals]
    BY <2>1 DEF TypeOK
  <2>7. unverified' \in BOOLEAN
    BY <2>1 DEF TypeOK
  <2>. QED
    BY <2>1, <2>2, <2>4, <2>5, <2>6, <2>7 DEF Owned
<1>2. CASE /\ pendingGoal' = g /\ sending' = NoRequest /\ planner' = srv
           /\ UNCHANGED <<requestOf, unverified, faults>>
  <2>1. \A q \in Requests : ~Live(q)'
    BY <1>2 DEF Live, LiveIn
  <2>2. Owner' /\ Lost'
    BY <1>2, <2>1 DEF Owner, Lost
  <2>3. faults' \in 0 .. MaxFaults /\ pendingGoal' \in 0 .. MaxGoals
    BY <1>2 DEF TypeOK
  <2>4. requestOf' \in [Requests -> 0 .. MaxGoals]
    BY <1>2 DEF TypeOK
  <2>5. unverified' \in BOOLEAN
    BY <1>2 DEF TypeOK
  <2>. QED
    BY <1>2, <2>2, <2>3, <2>4, <2>5 DEF Owned
<1>3. CASE \E r \in Requests :
              /\ faults < MaxFaults /\ faults' = faults + 1
              /\ pendingGoal' = 0 /\ sending' = NoRequest /\ unverified' = TRUE
              /\ requestOf' = [requestOf EXCEPT ![r] = g]
              /\ planner' \in {srv, [srv EXCEPT ![r] = "asked"]}
  <2>1. PICK r \in Requests :
              /\ faults < MaxFaults /\ faults' = faults + 1
              /\ pendingGoal' = 0 /\ sending' = NoRequest /\ unverified' = TRUE
              /\ requestOf' = [requestOf EXCEPT ![r] = g]
              /\ planner' \in {srv, [srv EXCEPT ![r] = "asked"]}
    BY <1>3
  <2>2. planner' \in [Requests -> PlannerStates]
    BY <2>1 DEF PlannerStates
  <2>3. \A q \in Requests : Live(q)' => q = r
    BY <2>1 DEF Live, LiveIn
  <2>4. Owner' /\ Lost'
    BY <2>1, <2>3 DEF Owner, Lost, OneRequest
  <2>5. faults' \in 0 .. MaxFaults /\ pendingGoal' \in 0 .. MaxGoals
    <3>1. pendingGoal' = 0 /\ (faults' = faults \/ (faults < MaxFaults /\ faults' = faults + 1))
      BY <2>1
    <3>. QED
      BY <1>a, <3>1
  <2>6. requestOf' \in [Requests -> 0 .. MaxGoals]
    BY <2>1 DEF TypeOK
  <2>. QED
    BY <2>1, <2>2, <2>4, <2>5, <2>6 DEF Owned
<1>. QED
  BY <1>1, <1>2, <1>3 DEF Send

\* Nothing is sent and nothing is outstanding.
LEMMA HoldSafe ==
    ASSUME TypeOK, Lost,
           NEW g \in 0 .. MaxGoals, NEW srv \in [Requests -> PlannerStates],
           NEW last, NEW texts,
           ~unverified => \A r \in Requests : ~LiveIn(srv, r),
           unverified => srv = planner,
           active' = NoRequest, sending' = NoRequest, Hold(g, srv, last, texts)
    PROVE  Owned' /\ pendingGoal' = g
<1>1. pendingGoal' = g /\ planner' = srv /\ UNCHANGED <<requestOf, unverified, faults>>
  BY DEF Hold
<1>2. Owner'
  BY <1>1 DEF Owner, Live, LiveIn
<1>3. Lost'
  BY <1>1 DEF Lost, OneRequest, Live
<1>4. faults' \in 0 .. MaxFaults
  BY <1>1 DEF TypeOK
<1>5. requestOf' \in [Requests -> 0 .. MaxGoals] /\ unverified' \in BOOLEAN
  BY <1>1 DEF TypeOK
<1>. QED
  BY <1>1, <1>2, <1>3, <1>4, <1>5 DEF Owned

\* A result or a rejection sends what is queued, or the deferred replan.
LEMMA AdvanceSafe ==
    ASSUME TypeOK, Lost, Queue,
           NEW srv \in [Requests -> PlannerStates], NEW texts,
           ~unverified, \A r \in Requests : ~LiveIn(srv, r),
           active' = NoRequest, generation' = generation, finalGoal' = finalGoal,
           AdvanceQueue(srv, texts)
    PROVE  Owned' /\ Queue' /\ deferred' \in BOOLEAN
<1>a. pendingGoal \in 0 .. MaxGoals /\ generation \in 0 .. MaxGoals /\ 0 \in 0 .. MaxGoals
  BY DEF TypeOK
<1>b. deferred \in BOOLEAN /\ finalGoal \in BOOLEAN
  BY DEF TypeOK
<1>1. CASE pendingGoal # 0
  <2>1. deferred' = deferred /\ Send(pendingGoal, srv, lastStatus, texts)
    BY <1>1 DEF AdvanceQueue
  <2>2. /\ Owned' /\ pendingGoal' \in {0, pendingGoal}
        /\ sending' # NoRequest \/ pendingGoal' = pendingGoal \/ unverified'
    BY <1>a, <2>1, SendSafe
  <2>. QED
    BY <1>1, <1>b, <2>1, <2>2 DEF Queue, QueueIsCurrent, DeferredIsOwed, DeferredHasGoal
<1>2. CASE pendingGoal = 0
  <2>1. deferred' = FALSE
    BY <1>2, <1>b DEF AdvanceQueue, Queue, DeferredHasGoal
  <2>2. \/ finalGoal /\ Send(generation, srv, lastStatus, texts)
        \/ Hold(0, srv, lastStatus, texts) /\ sending' = NoRequest
    BY <1>2 DEF AdvanceQueue
  <2>3. Owned' /\ (pendingGoal' # 0 => finalGoal /\ pendingGoal' = generation)
    BY <1>a, <2>2, SendSafe, HoldSafe
  <2>. QED
    BY <2>1, <2>3 DEF Queue, QueueIsCurrent, DeferredIsOwed, DeferredHasGoal
<1>. QED
  BY <1>1, <1>2

\* A replan is sent, queued or owed by what is outstanding.
LEMMA ScheduleSafe ==
    ASSUME TypeOK, Owner, Lost, Queue, finalGoal,
           UNCHANGED <<generation, finalGoal, active>>,
           ScheduleReplan
    PROVE  /\ Owned' /\ Queue' /\ deferred' \in BOOLEAN
           /\ active = NoRequest \/ (requestOf' = requestOf /\ faults' = faults)
<1>a. generation \in 0 .. MaxGoals /\ deferred \in BOOLEAN
  BY DEF TypeOK
<1>b. planner \in [Requests -> PlannerStates]
  BY DEF TypeOK, PlannerStates
<1>1. CASE sending # NoRequest \/ active # NoRequest \/ pendingGoal # 0
  <2>1. /\ deferred' = TRUE
        /\ UNCHANGED <<pendingGoal, sending, requestOf, unverified, planner, faults>>
    BY <1>1 DEF ScheduleReplan, sendVars
  <2>2. Owner' /\ Lost'
    BY <2>1 DEF Owner, Lost, OneRequest, Live
  <2>3. faults' \in 0 .. MaxFaults /\ pendingGoal' \in 0 .. MaxGoals
    BY <2>1 DEF TypeOK
  <2>4. /\ sending' \in Requests \cup {NoRequest} /\ unverified' \in BOOLEAN
        /\ requestOf' \in [Requests -> 0 .. MaxGoals]
    BY <2>1 DEF TypeOK
  <2>5. Queue'
    BY <1>1, <2>1 DEF Queue, QueueIsCurrent, DeferredIsOwed, DeferredHasGoal
  <2>. QED
    BY <1>b, <2>1, <2>2, <2>3, <2>4, <2>5 DEF Owned
<1>2. CASE sending = NoRequest /\ active = NoRequest /\ pendingGoal = 0
  <2>1. /\ deferred' = deferred
        /\ \/ unverified /\ Hold(generation, planner, lastStatus, <<>>) /\ sending' = sending
           \/ ~unverified /\ Send(generation, planner, lastStatus, <<>>)
    BY <1>2 DEF ScheduleReplan
  <2>2. ~unverified => \A r \in Requests : ~LiveIn(planner, r)
    BY <1>2 DEF Owner, Live, LiveIn
  <2>3. CASE unverified /\ Hold(generation, planner, lastStatus, <<>>) /\ sending' = sending
    <3>1. Owned' /\ pendingGoal' = generation
      BY <1>2, <1>a, <1>b, <2>3, HoldSafe
    <3>2. unverified'
      BY <2>3 DEF Hold
    <3>. QED
      BY <1>2, <1>a, <2>1, <3>1, <3>2
      DEF Queue, QueueIsCurrent, DeferredIsOwed, DeferredHasGoal
  <2>4. CASE ~unverified /\ Send(generation, planner, lastStatus, <<>>)
    <3>1. /\ Owned' /\ pendingGoal' \in {0, generation}
      BY <1>2, <1>a, <1>b, <2>2, <2>4, SendSafe
    <3>2. ~deferred
      BY <1>2, <2>4 DEF Queue, DeferredIsOwed
    <3>. QED
      BY <1>2, <1>a, <2>1, <3>1, <3>2
      DEF Queue, QueueIsCurrent, DeferredIsOwed, DeferredHasGoal
  <2>. QED
    BY <2>1, <2>3, <2>4
<1>. QED
  BY <1>1, <1>2

\* A cancel request ends no ownership and raises the flag unless it fails.
LEMMA RequestCancelSafe ==
    ASSUME faults \in 0 .. MaxFaults, planner \in [Requests -> PlannerStates],
           NEW requested \in BOOLEAN, NEW a \in Requests \cup {NoRequest},
           NEW spent \in {0, 1}, spent = 1 => faults < MaxFaults,
           RequestCancel(requested, a, spent)
    PROVE  /\ cancelRequested' \in BOOLEAN
           /\ planner' \in [Requests -> PlannerStates]
           /\ faults' \in 0 .. MaxFaults
           /\ \A r \in Requests : Live(r)' => Live(r)
           /\ faults' = 0 /\ a # NoRequest => cancelRequested'
<1>1. cancelRequested' \in BOOLEAN
  BY DEF RequestCancel
<1>2. planner' \in [Requests -> PlannerStates] /\ \A r \in Requests : Live(r)' => Live(r)
  <2>1. \/ planner' = planner
        \/ planner' = [planner EXCEPT ![a] = IF @ = "planning" THEN "canceling" ELSE @]
    BY DEF RequestCancel
  <2>. QED
    BY <2>1 DEF PlannerStates, Live
<1>3. faults' \in 0 .. MaxFaults
  BY DEF RequestCancel
<1>4. faults' = 0 /\ a # NoRequest => cancelRequested'
  BY DEF RequestCancel
<1>. QED
  BY <1>1, <1>2, <1>3, <1>4

\* The part of the types that sending a request does not touch.
Other ==
    /\ generation \in 0 .. MaxGoals /\ finalGoal \in BOOLEAN /\ hasPath \in BOOLEAN
    /\ latest \in Paths \cup {NoPath} /\ window \in Paths \cup {NoPath}
    /\ deferred \in BOOLEAN
    /\ active \in Requests \cup {NoRequest}
    /\ cancelRequested \in BOOLEAN /\ observed \in BOOLEAN
    /\ path \in Paths \cup {NoPath}

\* The parts together are the invariant.
LEMMA Parts == IInv <=> Owned /\ Other /\ Queue /\ StaleRequestCancelled
  BY DEF IInv, Owned, Other, TypeOK, PlannerStates

\* The initial state owns nothing.
LEMMA Initial == Init => IInv
<1> SUFFICES ASSUME Init PROVE IInv
  OBVIOUS
<1>1. 0 \in 0 .. MaxGoals /\ 0 \in 0 .. MaxFaults
  OBVIOUS
<1>2. Owner /\ Lost /\ Queue /\ StaleRequestCancelled
  BY DEF Init, Owner, Lost, Live, Queue, QueueIsCurrent, DeferredIsOwed, DeferredHasGoal,
         StaleRequestCancelled
<1>3. TypeOK
  BY <1>1 DEF Init, TypeOK
<1>. QED
  BY <1>2, <1>3 DEF IInv

\* Steps that change no ownership: sending, active, unverified and which
\* requests are live stay as they are.
LEMMA SameOwner ==
    ASSUME Owner, Lost,
           sending' = sending, active' = active, unverified' = unverified,
           \A r \in Requests : Live(r)' => Live(r)
    PROVE  Owner' /\ Lost'
  BY DEF Owner, Lost, OneRequest

\* Every step of the node and of its environment keeps the invariant.
LEMMA Inductive == IInv /\ [Next]_vars => IInv'
<1> SUFFICES ASSUME IInv, [Next]_vars PROVE IInv'
  OBVIOUS
<1>0. TypeOK /\ Owner /\ Lost /\ Queue /\ StaleRequestCancelled /\ Other
  BY Parts DEF IInv
<1>a. /\ faults \in 0 .. MaxFaults /\ planner \in [Requests -> PlannerStates]
      /\ generation \in 0 .. MaxGoals /\ 0 \in 0 .. MaxGoals
      /\ pendingGoal \in 0 .. MaxGoals
  BY <1>0 DEF TypeOK, PlannerStates
<1>b. /\ sending \in Requests \cup {NoRequest} /\ active \in Requests \cup {NoRequest}
      /\ requestOf \in [Requests -> 0 .. MaxGoals]
      /\ unverified \in BOOLEAN /\ cancelRequested \in BOOLEAN
  BY <1>0 DEF TypeOK
<1>1. CASE RetryTimer
  <2>1. /\ active = NoRequest /\ sending = NoRequest /\ pendingGoal # 0
        /\ UNCHANGED <<goalVars, callVars, deferred, path>>
        /\ Send(pendingGoal, planner, lastStatus, <<>>) /\ ~unverified
    BY <1>1 DEF RetryTimer
  <2>2. active' = NoRequest /\ \A r \in Requests : ~LiveIn(planner, r)
    BY <1>0, <2>1 DEF Owner, Live, LiveIn, callVars
  <2>3. /\ Owned' /\ pendingGoal' \in {0, pendingGoal}
        /\ sending' # NoRequest \/ pendingGoal' = pendingGoal \/ unverified'
    BY <1>0, <1>a, <2>1, <2>2, SendSafe
  <2>4. Queue' /\ StaleRequestCancelled'
    BY <1>0, <2>1, <2>2, <2>3
    DEF goalVars, Queue, QueueIsCurrent, DeferredIsOwed, DeferredHasGoal, StaleRequestCancelled
  <2>5. Other'
    BY <1>0, <2>1 DEF Other, goalVars, callVars
  <2>. QED
    BY <2>3, <2>4, <2>5, Parts, PTL
<1>2. CASE ReplanTimer
  <2>1. finalGoal /\ UNCHANGED <<goalVars, callVars, path>> /\ ScheduleReplan
    BY <1>2 DEF ReplanTimer
  <2>2. UNCHANGED <<generation, finalGoal, active, cancelRequested>>
    BY <2>1 DEF goalVars, callVars
  <2>3. /\ Owned' /\ Queue' /\ deferred' \in BOOLEAN
        /\ active = NoRequest \/ (requestOf' = requestOf /\ faults' = faults)
    BY <1>0, <2>1, <2>2, ScheduleSafe
  <2>4. StaleRequestCancelled'
    BY <1>0, <2>2, <2>3 DEF StaleRequestCancelled, Outdated
  <2>5. Other'
    BY <1>0, <2>1, <2>3 DEF Other, goalVars, callVars
  <2>. QED
    BY <2>3, <2>4, <2>5, Parts, PTL
<1>3. CASE ResponseUnverified
  <2>1. /\ sending # NoRequest /\ faults < MaxFaults /\ faults' = faults + 1
        /\ sending' = NoRequest /\ unverified' = TRUE
        /\ UNCHANGED <<goalVars, callVars, requestOf, path, planner>>
    BY <1>3 DEF ResponseUnverified
  <2>2. /\ deferred' \in BOOLEAN /\ (deferred' => deferred)
        /\ \/ pendingGoal' = pendingGoal
           \/ pendingGoal' = generation /\ finalGoal
    <3>1. \/ /\ deferred' = (deferred /\ (pendingGoal # 0 \/ ~finalGoal))
             /\ pendingGoal' = IF pendingGoal = 0 /\ Replanning /\ deferred /\ finalGoal /\ ~InWindow
                               THEN generation ELSE pendingGoal
          \/ deferred' = deferred /\ pendingGoal' = pendingGoal
      BY <1>3, Zenon DEF ResponseUnverified
    <3>2. deferred \in BOOLEAN
      BY <1>0 DEF TypeOK, Other
    <3>3. deferred' \in BOOLEAN
      BY <3>1, <3>2
    <3>4. deferred' => deferred
      BY <3>1, <3>2
    <3>5. \/ pendingGoal' = pendingGoal
          \/ pendingGoal' = generation /\ finalGoal
      <4>1. CASE pendingGoal = 0 /\ Replanning /\ deferred /\ finalGoal /\ ~InWindow
        BY <3>1, <4>1
      <4>2. CASE ~(pendingGoal = 0 /\ Replanning /\ deferred /\ finalGoal /\ ~InWindow)
        BY <3>1, <4>2
      <4>. QED
        BY <4>1, <4>2
    <3>. QED
      BY <3>3, <3>4, <3>5
  <2>3. active = NoRequest /\ active' = NoRequest
    BY <1>0, <2>1 DEF Owner, callVars
  <2>4. Owner' /\ Lost'
    BY <1>0, <2>1, <2>3 DEF Owner, Lost, OneRequest, Live
  <2>5. faults' \in 0 .. MaxFaults
    BY <1>a, <2>1
  <2>6. pendingGoal' \in 0 .. MaxGoals
    BY <1>a, <2>2
  <2>7. Owned'
    BY <1>a, <1>b, <2>1, <2>4, <2>5, <2>6 DEF Owned
  <2>8. Queue' /\ StaleRequestCancelled'
    BY <1>0, <2>1, <2>2, <2>3
    DEF goalVars, Queue, QueueIsCurrent, DeferredIsOwed, DeferredHasGoal, StaleRequestCancelled
  <2>9. Other'
    BY <1>0, <2>1, <2>2 DEF Other, goalVars, callVars
  <2>. QED
    BY <2>7, <2>8, <2>9, Parts, PTL
<1>4. CASE ResponseRejected
  <2> DEFINE srv == [planner EXCEPT ![sending] = "free"]
  <2>1. /\ sending # NoRequest
        /\ UNCHANGED <<goalVars, callVars, path>>
        /\ \E texts : AdvanceQueue(srv, texts)
    BY <1>4 DEF ResponseRejected
  <2>2. ~unverified /\ active = NoRequest /\ active' = NoRequest
    BY <1>0, <2>1 DEF Owner, callVars
  <2>3. /\ srv \in [Requests -> PlannerStates]
        /\ \A r \in Requests : ~LiveIn(srv, r)
    BY <1>0, <1>a, <1>b, <2>2 DEF PlannerStates, LiveIn, Live, Owner
  <2>4. Owned' /\ Queue' /\ deferred' \in BOOLEAN
    <3> HIDE DEF srv
    <3>. QED
      BY <1>0, <2>1, <2>2, <2>3, AdvanceSafe DEF goalVars
  <2>5. StaleRequestCancelled'
    BY <2>2 DEF StaleRequestCancelled
  <2>6. Other'
    BY <1>0, <2>1, <2>4 DEF Other, goalVars, callVars
  <2>. QED
    BY <2>4, <2>5, <2>6, Parts, PTL
<1>5. CASE ResponseAccepted
  <2>1. /\ sending # NoRequest /\ sending' = NoRequest /\ active' = sending
        /\ observed' \in BOOLEAN
        /\ UNCHANGED <<goalVars, pendingGoal, deferred, requestOf, unverified, path>>
    BY <1>5 DEF ResponseAccepted
  <2>2. ~unverified /\ active = NoRequest
    BY <1>0, <2>1 DEF Owner
  <2>3. /\ cancelRequested' \in BOOLEAN
        /\ planner' \in [Requests -> PlannerStates]
        /\ faults' \in 0 .. MaxFaults
        /\ \A r \in Requests : Live(r)' => Live(r)
        /\ faults' = 0 /\ (requestOf[sending] # generation \/ ~finalGoal) => cancelRequested'
    <3>1. CASE RequestCancel(FALSE, sending, 0)
      <4>1. FALSE \in BOOLEAN /\ 0 \in {0, 1} /\ ~(0 = 1)
        OBVIOUS
      <4>2. /\ cancelRequested' \in BOOLEAN
            /\ planner' \in [Requests -> PlannerStates]
            /\ faults' \in 0 .. MaxFaults
            /\ \A r \in Requests : Live(r)' => Live(r)
            /\ faults' = 0 /\ sending # NoRequest => cancelRequested'
        BY <1>a, <1>b, <3>1, <4>1, RequestCancelSafe
      <4>. QED
        BY <2>1, <4>2
    <3>2. CASE faults < MaxFaults /\ RequestCancel(FALSE, sending, 1)
      BY <1>a, <1>b, <2>1, <3>2, RequestCancelSafe
    <3>3. CASE /\ ~(requestOf[sending] # generation \/ ~finalGoal)
               /\ cancelRequested' = FALSE /\ planner' = planner /\ faults' = faults
      <4>1. faults' \in 0 .. MaxFaults
        BY <1>a, <3>3
      <4>2. cancelRequested' \in BOOLEAN
        BY <3>3
      <4>3. planner' \in [Requests -> PlannerStates]
        BY <1>a, <3>3
      <4>4. \A r \in Requests : Live(r)' => Live(r)
        BY <3>3 DEF Live
      <4>5. faults' = 0 /\ (requestOf[sending] # generation \/ ~finalGoal) => cancelRequested'
        BY <3>3
      <4>. QED
        BY <4>1, <4>2, <4>3, <4>4, <4>5
    <3>. QED
      BY <1>5, <3>1, <3>2, <3>3 DEF ResponseAccepted
  <2>4. Owner' /\ Lost'
    BY <1>0, <2>1, <2>2, <2>3 DEF Owner, Lost
  <2>5. Owned'
    BY <1>a, <1>b, <2>1, <2>3, <2>4 DEF Owned
  <2>6. Queue' /\ StaleRequestCancelled'
    BY <1>0, <2>1, <2>3
    DEF goalVars, Queue, QueueIsCurrent, DeferredIsOwed, DeferredHasGoal,
        StaleRequestCancelled, Outdated
  <2>7. Other'
    BY <1>0, <1>b, <2>1, <2>3 DEF Other, goalVars
  <2>. QED
    BY <2>5, <2>6, <2>7, Parts, PTL
<1>6. CASE ResultUnverified
  <2>1. /\ active # NoRequest /\ faults < MaxFaults /\ observed' = FALSE
        /\ RequestCancel(cancelRequested, active, 1)
        /\ UNCHANGED <<goalVars, active, sendVars, deferred, path>>
    BY <1>6 DEF ResultUnverified
  <2>2. /\ cancelRequested' \in BOOLEAN
        /\ planner' \in [Requests -> PlannerStates]
        /\ faults' \in 0 .. MaxFaults
        /\ \A r \in Requests : Live(r)' => Live(r)
        /\ faults' = 0 => cancelRequested'
    BY <1>a, <1>b, <2>1, RequestCancelSafe
  <2>3. Owner' /\ Lost'
    BY <1>0, <2>1, <2>2, SameOwner DEF sendVars
  <2>4. Owned'
    BY <1>a, <1>b, <2>1, <2>2, <2>3 DEF Owned, sendVars
  <2>5. Queue' /\ StaleRequestCancelled'
    BY <1>0, <2>1, <2>2
    DEF goalVars, sendVars, Queue, QueueIsCurrent, DeferredIsOwed, DeferredHasGoal,
        StaleRequestCancelled
  <2>6. Other'
    BY <1>0, <2>1, <2>2 DEF Other, goalVars
  <2>. QED
    BY <2>4, <2>5, <2>6, Parts, PTL
<1>7. ASSUME ResultDropped \/ \E p \in Paths : ResultPath(p) PROVE IInv'
  <2> DEFINE srv == [planner EXCEPT ![active] = "free"]
  <2>1. /\ active # NoRequest /\ active' = NoRequest /\ observed' = FALSE
        /\ cancelRequested' = FALSE
        /\ generation' = generation /\ finalGoal' = finalGoal
        /\ \E texts : AdvanceQueue(srv, texts)
        /\ \/ UNCHANGED <<hasPath, latest, window, path>>
           \/ \E p \in Paths : /\ hasPath' = TRUE /\ latest' = p /\ path' = p
                             /\ window' \in {window, NoPath}
    BY <1>7 DEF ResultDropped, ResultPath, TakeResult, goalVars
  <2>2. ~unverified /\ sending = NoRequest
    BY <1>0, <2>1 DEF Owner
  <2>3. /\ srv \in [Requests -> PlannerStates]
        /\ \A r \in Requests : ~LiveIn(srv, r)
    BY <1>0, <1>a, <1>b, <2>2 DEF PlannerStates, LiveIn, Live, Owner
  <2>4. Owned' /\ Queue' /\ deferred' \in BOOLEAN
    <3> HIDE DEF srv
    <3>. QED
      BY <1>0, <2>1, <2>2, <2>3, AdvanceSafe
  <2>5. StaleRequestCancelled'
    BY <2>1 DEF StaleRequestCancelled
  <2>6. Other'
    BY <1>0, <2>1, <2>4 DEF Other
  <2>. QED
    BY <2>4, <2>5, <2>6, Parts, PTL
<1>8. ASSUME NEW q \in Requests, Decide(q) \/ Plan(q) PROVE IInv'
  <2>1. /\ UNCHANGED <<goalVars, deferred, sendVars, callVars, path, faults>>
        /\ planner' \in [Requests -> PlannerStates]
        /\ \A r \in Requests : Live(r)' => Live(r)
    BY <1>a, <1>8 DEF Decide, Plan, Serve, PlannerStates, Live
  <2>2. Owner' /\ Lost'
    BY <1>0, <2>1, SameOwner DEF sendVars, callVars
  <2>3. faults' \in 0 .. MaxFaults
    BY <1>a, <2>1
  <2>4. Owned'
    BY <1>a, <1>b, <2>1, <2>2, <2>3 DEF Owned, sendVars
  <2>5. Queue' /\ StaleRequestCancelled' /\ Other'
    BY <1>0, <2>1
    DEF goalVars, sendVars, callVars, Queue, QueueIsCurrent, DeferredIsOwed, DeferredHasGoal,
        StaleRequestCancelled, Outdated, Other
  <2>. QED
    BY <2>4, <2>5, Parts, PTL
<1>9. ASSUME NEW text, GoalRefused(text) PROVE IInv'
  <2>1. /\ generation < MaxGoals /\ generation' = generation + 1
        /\ finalGoal' = FALSE /\ ForgetGoal /\ pendingGoal' = 0
        /\ RequestCancel(cancelRequested, active, 0)
        /\ UNCHANGED <<sending, active, requestOf, observed, unverified, path>>
    BY <1>9 DEF GoalRefused
  <2>2. /\ cancelRequested' \in BOOLEAN
        /\ planner' \in [Requests -> PlannerStates]
        /\ faults' \in 0 .. MaxFaults
        /\ \A r \in Requests : Live(r)' => Live(r)
        /\ faults' = 0 /\ active # NoRequest => cancelRequested'
    BY <1>a, <1>b, <2>1, RequestCancelSafe
  <2>3. Owner' /\ Lost'
    BY <1>0, <2>1, <2>2, SameOwner
  <2>4. Owned'
    BY <1>a, <1>b, <2>1, <2>2, <2>3 DEF Owned
  <2>5. Queue' /\ StaleRequestCancelled'
    BY <2>1, <2>2 DEF ForgetGoal, Queue, QueueIsCurrent, DeferredIsOwed, DeferredHasGoal,
                      StaleRequestCancelled
  <2>6. generation' \in 0 .. MaxGoals
    BY <1>a, <2>1
  <2>7. Other'
    BY <1>0, <2>1, <2>2, <2>6 DEF Other, ForgetGoal
  <2>. QED
    BY <2>4, <2>5, <2>7, Parts, PTL
<1>10. CASE GoalAccepted
  <2>1. /\ generation < MaxGoals /\ generation' = generation + 1
        /\ finalGoal' = TRUE /\ ForgetGoal
        /\ UNCHANGED <<active, observed, path>>
    BY <1>10 DEF GoalAccepted
  <2>2. generation + 1 \in 0 .. MaxGoals
    BY <1>a, <2>1
  <2>3. /\ Owned' /\ StaleRequestCancelled' /\ cancelRequested' \in BOOLEAN
        /\ pendingGoal' \in {0, generation + 1}
    <3>1. CASE /\ sending = NoRequest /\ active = NoRequest /\ ~unverified
               /\ Send(generation + 1, planner, Blank, <<>>) /\ UNCHANGED cancelRequested
      <4>1. \A r \in Requests : ~LiveIn(planner, r)
        BY <1>0, <3>1 DEF Owner, Live, LiveIn
      <4>2. Owned' /\ pendingGoal' \in {0, generation + 1}
        BY <1>0, <1>a, <2>1, <2>2, <3>1, <4>1, SendSafe
      <4>. QED
        BY <1>b, <2>1, <3>1, <4>2 DEF StaleRequestCancelled
    <3>2. CASE /\ pendingGoal' = generation + 1
               /\ RequestCancel(cancelRequested, active, 0)
               /\ UNCHANGED <<sending, requestOf, unverified>>
      <4>1. /\ cancelRequested' \in BOOLEAN
            /\ planner' \in [Requests -> PlannerStates]
            /\ faults' \in 0 .. MaxFaults
            /\ \A r \in Requests : Live(r)' => Live(r)
            /\ faults' = 0 /\ active # NoRequest => cancelRequested'
        BY <1>a, <1>b, <3>2, RequestCancelSafe
      <4>2. Owner' /\ Lost'
        BY <1>0, <2>1, <3>2, <4>1, SameOwner
      <4>3. pendingGoal' \in 0 .. MaxGoals
        BY <2>2, <3>2
      <4>4. Owned'
        BY <1>b, <3>2, <4>1, <4>2, <4>3 DEF Owned
      <4>. QED
        BY <2>1, <3>2, <4>1, <4>4 DEF StaleRequestCancelled
    <3>. QED
      BY <1>10, <3>1, <3>2 DEF GoalAccepted
  <2>4. Queue'
    BY <2>1, <2>3 DEF ForgetGoal, Queue, QueueIsCurrent, DeferredIsOwed, DeferredHasGoal
  <2>5. Other'
    BY <1>0, <2>1, <2>2, <2>3 DEF Other, ForgetGoal
  <2>. QED
    BY <2>3, <2>4, <2>5, Parts, PTL
<1>11. ASSUME NEW p \in Paths, NearGoal(p) PROVE IInv'
  <2>1. /\ window' = p
        /\ UNCHANGED <<generation, finalGoal, hasPath, latest, deferred, sendVars, callVars,
                       path, planner, faults>>
    BY <1>11 DEF NearGoal
  <2>2. Owner' /\ Lost'
    BY <1>0, <2>1, SameOwner DEF sendVars, callVars, Live
  <2>3. faults' \in 0 .. MaxFaults
    BY <1>a, <2>1
  <2>4. Owned'
    BY <1>a, <1>b, <2>1, <2>2, <2>3 DEF Owned, sendVars
  <2>5. Queue' /\ StaleRequestCancelled' /\ Other'
    BY <1>0, <2>1
    DEF sendVars, callVars, Queue, QueueIsCurrent, DeferredIsOwed, DeferredHasGoal,
        StaleRequestCancelled, Outdated, Other
  <2>. QED
    BY <2>4, <2>5, Parts, PTL
<1>12. ASSUME NEW p \in Paths, FollowAborted(p) PROVE IInv'
  <2>1. /\ window' = NoPath
        /\ UNCHANGED <<generation, finalGoal, hasPath, latest, callVars, path>>
    BY <1>12 DEF FollowAborted
  <2>2. /\ Owned' /\ Queue' /\ deferred' \in BOOLEAN
        /\ active = NoRequest \/ (requestOf' = requestOf /\ faults' = faults)
    <3>1. CASE finalGoal /\ ScheduleReplan
      BY <1>0, <2>1, <3>1, ScheduleSafe DEF callVars
    <3>2. CASE UNCHANGED <<deferred, sendVars, statusVars, planner, faults>>
      <4>1. Owner' /\ Lost'
        BY <1>0, <2>1, <3>2, SameOwner DEF sendVars, callVars, Live
      <4>2. faults' \in 0 .. MaxFaults
        BY <1>a, <3>2
      <4>3. Owned'
        BY <1>a, <1>b, <3>2, <4>1, <4>2 DEF Owned, sendVars
      <4>4. Queue' /\ deferred' \in BOOLEAN
        BY <1>0, <2>1, <3>2
        DEF sendVars, callVars, Queue, QueueIsCurrent, DeferredIsOwed, DeferredHasGoal, Other
      <4>. QED
        BY <3>2, <4>3, <4>4 DEF sendVars
    <3>. QED
      BY <1>12, <3>1, <3>2 DEF FollowAborted
  <2>3. StaleRequestCancelled'
    BY <1>0, <2>1, <2>2 DEF StaleRequestCancelled, Outdated, callVars
  <2>4. Other'
    BY <1>0, <2>1, <2>2 DEF Other, callVars
  <2>. QED
    BY <2>2, <2>3, <2>4, Parts, PTL
<1>13. ASSUME NEW p \in Paths, FollowSucceeded(p) PROVE IInv'
  <2>1. /\ finalGoal' = FALSE /\ ForgetGoal /\ pendingGoal' = 0
        /\ RequestCancel(cancelRequested, active, 0)
        /\ UNCHANGED <<generation, sending, active, requestOf, observed, unverified, path>>
    BY <1>13 DEF FollowSucceeded
  <2>2. /\ cancelRequested' \in BOOLEAN
        /\ planner' \in [Requests -> PlannerStates]
        /\ faults' \in 0 .. MaxFaults
        /\ \A r \in Requests : Live(r)' => Live(r)
        /\ faults' = 0 /\ active # NoRequest => cancelRequested'
    BY <1>a, <1>b, <2>1, RequestCancelSafe
  <2>3. Owner' /\ Lost'
    BY <1>0, <2>1, <2>2, SameOwner
  <2>4. Owned'
    BY <1>a, <1>b, <2>1, <2>2, <2>3 DEF Owned
  <2>5. Queue' /\ StaleRequestCancelled'
    BY <2>1, <2>2 DEF ForgetGoal, Queue, QueueIsCurrent, DeferredIsOwed, DeferredHasGoal,
                      StaleRequestCancelled
  <2>6. Other'
    BY <1>0, <2>1, <2>2 DEF Other, ForgetGoal
  <2>. QED
    BY <2>4, <2>5, <2>6, Parts, PTL
<1>14. CASE UNCHANGED vars
  <2>1. /\ UNCHANGED <<goalVars, deferred, sendVars, callVars, path, faults, planner>>
    BY <1>14 DEF vars, goalVars, sendVars, callVars
  <2>2. Owner' /\ Lost'
    BY <1>0, <2>1, SameOwner DEF sendVars, callVars, Live
  <2>3. faults' \in 0 .. MaxFaults
    BY <1>a, <2>1
  <2>4. Owned'
    BY <1>a, <1>b, <2>1, <2>2, <2>3 DEF Owned, sendVars
  <2>5. Queue' /\ StaleRequestCancelled' /\ Other'
    BY <1>0, <2>1
    DEF goalVars, sendVars, callVars, Queue, QueueIsCurrent, DeferredIsOwed, DeferredHasGoal,
        StaleRequestCancelled, Outdated, Other
  <2>. QED
    BY <2>4, <2>5, Parts, PTL
<1>. QED
  BY <1>1, <1>2, <1>3, <1>4, <1>5, <1>6, <1>7, <1>8, <1>9, <1>10, <1>11, <1>12, <1>13, <1>14
  DEF Next, Callback, PlannerServer, User, Executor

\* The inductive invariant holds in every behaviour.
THEOREM Invariance == Spec => []IInv
  BY Initial, Inductive, PTL DEF Spec

\* Every variable keeps its type in every behaviour of the node.
THEOREM TypeCorrect == Spec => []TypeOK
  BY Invariance, PTL DEF IInv

\* The planner never holds two requests of this node, for any number of goals,
\* requests and failed calls.
THEOREM OneRequestAtATime == Spec => []OneRequest
<1>1. IInv => OneRequest
  BY DEF IInv, Owner, Lost, OneRequest
<1>. QED
  BY <1>1, Invariance, PTL

\* Only the current goal is ever queued.
THEOREM QueueCurrent == Spec => []QueueIsCurrent
  BY Invariance, PTL DEF IInv, Queue

\* A deferred replan is looked at again.
THEOREM DeferredOwed == Spec => []DeferredIsOwed
  BY Invariance, PTL DEF IInv, Queue

\* Unless a call fails, a request of an old goal has been asked to stop.
THEOREM StaleCancelled == Spec => []StaleRequestCancelled
  BY Invariance, PTL DEF IInv

-----------------------------------------------------------------------------
(* The path executor.                                                        *)

LEMMA NodeConstants ==
    NoPath \notin Paths /\ NoHandle \notin Handles /\ MaxFaults \in Nat
  BY BridgeAssumption, PipelineAssumption DEF BridgeAssumption, PipelineAssumption

USE NodeConstants

NodeServerStates == {"free", "asked", "executing", "canceling", "rejected",
                 "succeeded", "canceled", "aborted"}

NodeLiveIn(srv, h) == srv[h] \in {"asked", "executing", "canceling"}

\* A node that lost a submission has at most that goal at the server.
NodeLost == xUnverified => PathNode!OneGoal

NodeIInv == PathNode!TypeOK /\ PathNode!Ownership /\ NodeLost

\* What a callback that ends in _try_send_pending_path establishes.
NodeOwned ==
    /\ xSending \in Handles \cup {NoHandle}
    /\ xRoute \in [Handles -> Paths \cup {NoPath}]
    /\ xPending \in Paths \cup {NoPath}
    /\ xUnverified \in BOOLEAN
    /\ xServer \in [Handles -> NodeServerStates]
    /\ faults \in 0 .. MaxFaults
    /\ PathNode!Ownership /\ NodeLost

\* A path is sent only from a state without a live goal, so at most the goal
\* it creates is live afterwards, and that one is being sent or lost.
LEMMA NodeSendSafe ==
    ASSUME PathNode!TypeOK,
           NEW p \in Paths \cup {NoPath}, NEW srv \in [Handles -> NodeServerStates], NEW told,
           ~xUnverified, \A h \in Handles : ~NodeLiveIn(srv, h), xActive' = NoHandle,
           PathNode!SendFollowPath(p, srv, told)
    PROVE  NodeOwned'
<1>1. PICK h \in Handles :
        /\ xRoute' = [xRoute EXCEPT ![h] = p]
        /\ \/ /\ xSending' = h /\ xServer' = [srv EXCEPT ![h] = "asked"]
              /\ UNCHANGED <<xUnverified, faults>>
           \/ /\ PathNode!Fault /\ xSending' = NoHandle /\ xUnverified' = TRUE
              /\ xServer' \in {srv, [srv EXCEPT ![h] = "asked"]}
  BY DEF PathNode!SendFollowPath
<1>2. xPending' = NoPath
  BY DEF PathNode!SendFollowPath
<1>3. xSending' \in Handles \cup {NoHandle} /\ xRoute' \in [Handles -> Paths \cup {NoPath}]
  BY <1>1 DEF PathNode!TypeOK
<1>7. xUnverified' \in BOOLEAN
  BY <1>1 DEF PathNode!TypeOK
<1>8. faults' \in 0 .. MaxFaults
  BY <1>1 DEF PathNode!TypeOK, PathNode!Fault
<1>4. xServer' \in [Handles -> NodeServerStates]
  BY <1>1 DEF NodeServerStates
<1>5. \A g \in Handles : PathNode!Live(g)' => g = h
  BY <1>1 DEF PathNode!Live, NodeLiveIn
<1>6. PathNode!Ownership' /\ NodeLost'
  BY <1>1, <1>5 DEF PathNode!Ownership, NodeLost, PathNode!OneGoal
<1>. QED
  BY <1>2, <1>3, <1>4, <1>6, <1>7, <1>8 DEF NodeOwned

\* _try_send_pending_path keeps ownership when no goal is outstanding.
LEMMA NodeTrySendSafe ==
    ASSUME PathNode!TypeOK, NodeLost,
           NEW p \in Paths \cup {NoPath}, NEW srv \in [Handles -> NodeServerStates], NEW told,
           ~xUnverified => \A h \in Handles : ~NodeLiveIn(srv, h),
           xUnverified => srv = xServer,
           xActive' = NoHandle,
           PathNode!TrySend(p, srv, told)
    PROVE  NodeOwned'
<1>1. CASE ~xUnverified /\ PathNode!SendFollowPath(p, srv, told)
  BY <1>1, NodeSendSafe
<1>2. CASE /\ xPending' = p /\ xServer' = srv /\ xSending' = NoHandle
           /\ UNCHANGED <<xRoute, xUnverified, faults>>
  <2>1. ~xUnverified => \A h \in Handles : ~PathNode!Live(h)'
    BY <1>2 DEF PathNode!Live, NodeLiveIn
  <2>2. PathNode!Ownership'
    BY <1>2, <2>1 DEF PathNode!Ownership
  <2>3. NodeLost'
    BY <1>2 DEF NodeLost, PathNode!OneGoal, PathNode!Live
  <2>. QED
    BY <1>2, <2>2, <2>3 DEF NodeOwned, PathNode!TypeOK
<1>. QED
  BY <1>1, <1>2 DEF PathNode!TrySend

NodeCallStates == {"none", "asked", "granted", "refused"}

\* A cancel request keeps its flags typed and stays within the fault bound.
LEMMA NodeRequestCancelSafe ==
    ASSUME faults \in 0 .. MaxFaults, NEW requested, NEW call \in NodeCallStates,
           NEW spent \in {0, 1}, NEW before, NEW after, spent = 1 => faults < MaxFaults,
           PathNode!RequestCancel(requested, call, spent, before, after)
    PROVE  xCancelRequested' \in BOOLEAN /\ xCancelCall' \in NodeCallStates /\ faults' \in 0 .. MaxFaults
<1>1. xCancelRequested' \in BOOLEAN
  BY DEF PathNode!RequestCancel
<1>2. xCancelCall' \in NodeCallStates
  BY DEF PathNode!RequestCancel, NodeCallStates
<1>3. faults' \in 0 .. MaxFaults
  BY DEF PathNode!RequestCancel
<1>. QED
  BY <1>1, <1>2, <1>3

\* Steps that change no ownership: sending, active, unverified and which goals
\* are live stay as they are.
LEMMA NodeSameOwner ==
    ASSUME PathNode!Ownership, NodeLost,
           xSending' = xSending, xActive' = xActive, xUnverified' = xUnverified,
           \A h \in Handles : PathNode!Live(h)' => PathNode!Live(h)
    PROVE  PathNode!Ownership' /\ NodeLost'
  BY DEF PathNode!Ownership, NodeLost, PathNode!OneGoal

\* The initial state owns nothing.
LEMMA NodeInitial == PathNode!Init => NodeIInv
<1> SUFFICES ASSUME PathNode!Init PROVE NodeIInv
  OBVIOUS
<1>1. PathNode!TypeOK
  <2>1. faults \in 0 .. MaxFaults
    BY DEF PathNode!Init
  <2>. QED
    BY <2>1 DEF PathNode!Init, PathNode!TypeOK
<1>2. PathNode!Ownership /\ NodeLost
  BY DEF PathNode!Init, PathNode!Ownership, NodeLost, PathNode!Live
<1>. QED
  BY <1>1, <1>2 DEF NodeIInv

\* Every step of the node, the controller or the planner keeps the invariant.
LEMMA NodeInductive == NodeIInv /\ [PathNode!Next]_(PathNode!vars) => NodeIInv'
<1> SUFFICES ASSUME NodeIInv, [PathNode!Next]_(PathNode!vars) PROVE NodeIInv'
  OBVIOUS
<1>0. PathNode!TypeOK /\ PathNode!Ownership /\ NodeLost /\ xServer \in [Handles -> NodeServerStates]
  BY DEF NodeIInv, PathNode!TypeOK, NodeServerStates
<1>a. faults \in 0 .. MaxFaults /\ xCancelCall \in NodeCallStates /\ "none" \in NodeCallStates
  BY <1>0 DEF PathNode!TypeOK, NodeCallStates
<1>1. CASE PathNode!RetryTimer
  <2>1. \A h \in Handles : ~NodeLiveIn(xServer, h)
    BY <1>0, <1>1 DEF PathNode!RetryTimer, PathNode!Ownership, PathNode!Live, NodeLiveIn
  <2>2. NodeOwned'
    BY <1>0, <1>1, <2>1, NodeSendSafe DEF PathNode!RetryTimer, PathNode!TypeOK
  <2>. QED
    BY <1>0, <1>1, <2>2
    DEF PathNode!RetryTimer, PathNode!cancelVars, NodeIInv, NodeOwned, PathNode!TypeOK,
        NodeServerStates
<1>2. CASE PathNode!ResponseUnverified
  <2>1. PathNode!Ownership' /\ NodeLost'
    BY <1>0, <1>2
    DEF PathNode!ResponseUnverified, PathNode!Ownership, NodeLost, PathNode!OneGoal, PathNode!Live
  <2>2. faults' \in 0 .. MaxFaults
    BY <1>a, <1>2 DEF PathNode!ResponseUnverified, PathNode!Fault
  <2>. QED
    BY <1>0, <1>2, <2>1, <2>2
    DEF PathNode!ResponseUnverified, PathNode!TypeOK, NodeIInv, PathNode!cancelVars
<1>3. CASE PathNode!ResponseRejected
  <2> DEFINE srv == [xServer EXCEPT ![xSending] = "free"]
  <2>1. srv \in [Handles -> NodeServerStates]
    BY <1>0 DEF NodeServerStates
  <2>2. ~xUnverified /\ xActive = NoHandle /\ xSending \in Handles
    BY <1>0, <1>3 DEF PathNode!ResponseRejected, PathNode!Ownership, PathNode!TypeOK
  <2>3. \A h \in Handles : ~NodeLiveIn(srv, h)
    BY <1>0, <2>2 DEF PathNode!Ownership, PathNode!Live, NodeLiveIn, PathNode!TypeOK
  <2>4. NodeOwned'
    <3> HIDE DEF srv
    <3>1. PathNode!TrySend(xPending, srv, PathNode!Say("follow_path_rejected")) /\ xActive' = NoHandle
      BY <1>3, <2>2 DEF PathNode!ResponseRejected, srv
    <3>. QED
      BY <1>0, <2>1, <2>2, <2>3, <3>1, NodeTrySendSafe DEF PathNode!TypeOK
  <2>5. /\ xActive' = xActive /\ xCancelRequested' = xCancelRequested /\ xCancelCall' = xCancelCall
        /\ xCancelWhenAccepted' = FALSE /\ xNearGoal' = xNearGoal /\ xObserved' = xObserved
        /\ xRevoked' = xRevoked \ {xSending}
    BY <1>3 DEF PathNode!ResponseRejected, PathNode!cancelVars
  <2>. QED
    BY <1>0, <2>4, <2>5 DEF NodeIInv, NodeOwned, PathNode!TypeOK, NodeServerStates
<1>4. CASE PathNode!ResponseAccepted
  <2>1. ~xUnverified /\ xActive = NoHandle /\ xSending \in Handles
    BY <1>0, <1>4 DEF PathNode!ResponseAccepted, PathNode!Ownership, PathNode!TypeOK
  <2>2. /\ xSending' = NoHandle /\ xActive' = xSending /\ xCancelWhenAccepted' = FALSE
        /\ xNearGoal' = FALSE /\ xObserved' \in BOOLEAN
        /\ UNCHANGED <<xRoute, xPending, xUnverified, xServer, xRevoked>>
    BY <1>4 DEF PathNode!ResponseAccepted
  <2>3. /\ xCancelRequested' \in BOOLEAN
        /\ xCancelCall' \in NodeCallStates
        /\ faults' \in 0 .. MaxFaults
    <3>1. CASE PathNode!RequestCancel(FALSE, "none", 0, PathNode!Say("follow_path_accepted"), <<>>)
      <4>1. xCancelRequested' \in BOOLEAN
        BY <3>1 DEF PathNode!RequestCancel
      <4>2. xCancelCall' \in NodeCallStates
        BY <3>1 DEF PathNode!RequestCancel, NodeCallStates
      <4>3. faults' \in 0 .. MaxFaults
        BY <1>a, <3>1 DEF PathNode!RequestCancel
      <4>. QED
        BY <4>1, <4>2, <4>3
    <3>2. CASE xCancelRequested' = FALSE /\ xCancelCall' = "none" /\ UNCHANGED faults
      <4>1. faults' \in 0 .. MaxFaults
        BY <1>a, <3>2
      <4>2. xCancelRequested' \in BOOLEAN /\ xCancelCall' \in NodeCallStates
        BY <1>a, <3>2
      <4>. QED
        BY <4>1, <4>2
    <3>3. CASE /\ faults < MaxFaults
               /\ PathNode!RequestCancel(FALSE, "none", 1, PathNode!Say("follow_path_accepted")
                                    \o PathNode!SayOf("follow_path_aborted", xSending), <<>>)
      BY <1>a, <3>3, NodeRequestCancelSafe
    <3>. QED
      BY <1>4, <3>1, <3>2, <3>3 DEF PathNode!ResponseAccepted
  <2>4. PathNode!Ownership' /\ NodeLost'
    BY <1>0, <2>1, <2>2 DEF PathNode!Ownership, NodeLost, PathNode!OneGoal, PathNode!Live
  <2>. QED
    BY <1>0, <2>1, <2>2, <2>3, <2>4 DEF NodeIInv, PathNode!TypeOK, NodeCallStates
<1>5. CASE PathNode!CancelResponse
  <2>1. PathNode!Ownership' /\ NodeLost'
    BY <1>0, <1>5, NodeSameOwner DEF PathNode!CancelResponse, PathNode!nodeVars, PathNode!Live
  <2>2. faults' \in 0 .. MaxFaults
    BY <1>a, <1>5 DEF PathNode!CancelResponse, PathNode!Fault
  <2>3. xCancelRequested' \in BOOLEAN /\ xCancelCall' = "none"
    BY <1>0, <1>5 DEF PathNode!CancelResponse, PathNode!TypeOK
  <2>4. UNCHANGED <<PathNode!nodeVars, xRoute, xServer, xRevoked>>
    BY <1>5 DEF PathNode!CancelResponse
  <2>. QED
    BY <1>0, <2>1, <2>2, <2>3, <2>4 DEF PathNode!nodeVars, NodeIInv, PathNode!TypeOK
<1>6. CASE PathNode!Result
  <2> DEFINE srv == [xServer EXCEPT ![xActive] = "free"]
  <2>1. srv \in [Handles -> NodeServerStates]
    BY <1>0 DEF NodeServerStates
  <2>2. ~xUnverified /\ xSending = NoHandle /\ xActive \in Handles
    BY <1>0, <1>6 DEF PathNode!Result, PathNode!Ownership, PathNode!TypeOK
  <2>3. \A h \in Handles : ~NodeLiveIn(srv, h)
    BY <1>0, <2>2 DEF PathNode!Ownership, PathNode!Live, NodeLiveIn, PathNode!TypeOK
  <2>4. NodeOwned'
    <3> HIDE DEF srv
    <3>1. PathNode!TrySend(xPending, srv, PathNode!ResultStatus(xActive)) /\ xActive' = NoHandle
      BY <1>6 DEF PathNode!Result, srv
    <3>. QED
      BY <1>0, <2>1, <2>2, <2>3, <3>1, NodeTrySendSafe DEF PathNode!TypeOK
  <2>5. /\ xActive' = NoHandle /\ xCancelRequested' = FALSE /\ xCancelCall' = "none"
        /\ xObserved' = FALSE /\ xRevoked' = xRevoked \ {xActive}
        /\ xCancelWhenAccepted' = xCancelWhenAccepted /\ xNearGoal' = xNearGoal
    BY <1>6 DEF PathNode!Result
  <2>. QED
    BY <1>0, <2>4, <2>5 DEF NodeIInv, NodeOwned, PathNode!TypeOK, NodeServerStates
<1>7. CASE PathNode!ResultUnverified
  <2>1. /\ xCancelRequested' \in BOOLEAN
        /\ xCancelCall' \in NodeCallStates
        /\ faults' \in 0 .. MaxFaults
    BY <1>a, <1>7, NodeRequestCancelSafe DEF PathNode!ResultUnverified
  <2>2. PathNode!Ownership' /\ NodeLost'
    BY <1>0, <1>7, NodeSameOwner DEF PathNode!ResultUnverified, PathNode!Live
  <2>. QED
    BY <1>0, <1>7, <2>1, <2>2
    DEF PathNode!ResultUnverified, NodeIInv, PathNode!TypeOK, NodeCallStates
<1>8. CASE PathNode!Feedback
  <2>1. PathNode!Ownership' /\ NodeLost'
    BY <1>0, <1>8, NodeSameOwner DEF PathNode!Feedback, PathNode!Live
  <2>. QED
    BY <1>0, <1>8, <2>1 DEF PathNode!Feedback, PathNode!cancelVars, NodeIInv, PathNode!TypeOK
<1>9. ASSUME NEW p \in Paths \cup {NoPath}, PathNode!PathCb(p) PROVE NodeIInv'
  <2>0. /\ UNCHANGED <<xActive, xCancelWhenAccepted, xNearGoal, xObserved, xRevoked>>
    BY <1>9 DEF PathNode!PathCb
  <2>1. CASE UNCHANGED <<xSending, xRoute, xPending, xUnverified, xServer, faults, PathNode!cancelVars>>
    <3>1. PathNode!Ownership' /\ NodeLost'
      BY <1>0, <2>0, <2>1, NodeSameOwner DEF PathNode!Live
    <3>. QED
      BY <1>0, <2>0, <2>1, <3>1 DEF PathNode!cancelVars, NodeIInv, PathNode!TypeOK
  <2>2. CASE /\ xPending' = p /\ PathNode!RequestCancel(xCancelRequested, xCancelCall, 0, <<>>, <<>>)
             /\ UNCHANGED <<xSending, xRoute, xUnverified, xServer>>
    <3>1. /\ xCancelRequested' \in BOOLEAN
          /\ xCancelCall' \in NodeCallStates
          /\ faults' \in 0 .. MaxFaults
      BY <1>a, <2>2, NodeRequestCancelSafe
    <3>2. PathNode!Ownership' /\ NodeLost'
      BY <1>0, <2>0, <2>2, NodeSameOwner DEF PathNode!Live
    <3>. QED
      BY <1>0, <2>0, <2>2, <3>1, <3>2 DEF NodeIInv, PathNode!TypeOK, NodeCallStates
  <2>3. CASE /\ xPending' = p
             /\ UNCHANGED <<xSending, xRoute, xUnverified, xServer, faults, PathNode!cancelVars>>
    <3>1. PathNode!Ownership' /\ NodeLost'
      BY <1>0, <2>0, <2>3, NodeSameOwner DEF PathNode!Live
    <3>. QED
      BY <1>0, <2>0, <2>3, <3>1 DEF PathNode!cancelVars, NodeIInv, PathNode!TypeOK
  <2>4. CASE /\ xActive = NoHandle /\ xSending = NoHandle
             /\ PathNode!TrySend(p, xServer, <<>>) /\ UNCHANGED PathNode!cancelVars
    <3>1. ~xUnverified => \A h \in Handles : ~NodeLiveIn(xServer, h)
      BY <1>0, <2>4 DEF PathNode!Ownership, PathNode!Live, NodeLiveIn
    <3>2. NodeOwned'
      BY <1>0, <2>0, <2>4, <3>1, NodeTrySendSafe
    <3>. QED
      BY <1>0, <2>0, <2>4, <3>2
      DEF PathNode!cancelVars, NodeIInv, NodeOwned, PathNode!TypeOK, NodeServerStates
  <2>. QED
    BY <1>9, <2>1, <2>2, <2>3, <2>4 DEF PathNode!PathCb
<1>10. ASSUME NEW text, PathNode!StatusCb(text) PROVE NodeIInv'
  <2>1. /\ xPending' = NoPath /\ xCancelWhenAccepted' = (xCancelWhenAccepted \/ xSending # NoHandle)
        /\ xRevoked' = xRevoked \cup ({xSending, xActive} \ {NoHandle})
        /\ UNCHANGED <<xSending, xActive, xRoute, xUnverified, xNearGoal, xObserved, xServer>>
    BY <1>10 DEF PathNode!StatusCb
  <2>2. /\ xCancelRequested' \in BOOLEAN
        /\ xCancelCall' \in NodeCallStates
        /\ faults' \in 0 .. MaxFaults
    <3>1. CASE PathNode!RequestCancel(xCancelRequested, xCancelCall, 0, <<>>,
                             PathNode!Say("cancel_requested_due_to_planner_status"))
      BY <1>a, <3>1, NodeRequestCancelSafe
    <3>2. CASE UNCHANGED <<PathNode!cancelVars, PathNode!statusVars, faults>>
      BY <1>a, <1>0, <3>2 DEF PathNode!TypeOK, PathNode!cancelVars
    <3>. QED
      BY <1>10, <3>1, <3>2 DEF PathNode!StatusCb
  <2>3. PathNode!Ownership' /\ NodeLost'
    BY <1>0, <2>1, NodeSameOwner DEF PathNode!Live
  <2>. QED
    BY <1>0, <2>1, <2>2, <2>3 DEF NodeIInv, PathNode!TypeOK, NodeCallStates
<1>11. ASSUME NEW g \in Handles, PathNode!Decide(g) \/ PathNode!Finish(g) \/ PathNode!Halt(g) \/ PathNode!CancelServed(g)
       PROVE  NodeIInv'
  <2>1. /\ UNCHANGED <<PathNode!nodeVars, xRoute, xCancelRequested, xRevoked>>
    BY <1>11
    DEF PathNode!Decide, PathNode!Finish, PathNode!Halt, PathNode!CancelServed, PathNode!Serve
  <2>2. /\ xServer' \in [Handles -> NodeServerStates]
        /\ \A h \in Handles : PathNode!Live(h)' => PathNode!Live(h)
    BY <1>0, <1>11
    DEF PathNode!Decide, PathNode!Finish, PathNode!Halt, PathNode!CancelServed, PathNode!Serve,
        PathNode!Live, PathNode!Terminal, NodeServerStates
  <2>3. /\ xCancelCall' \in {"none", "asked", "granted", "refused"}
        /\ faults' \in 0 .. MaxFaults
    BY <1>0, <1>11
    DEF PathNode!Decide, PathNode!Finish, PathNode!Halt, PathNode!CancelServed, PathNode!Fault,
        PathNode!TypeOK
  <2>4. PathNode!Ownership' /\ NodeLost'
    BY <1>0, <2>1, <2>2, NodeSameOwner DEF PathNode!nodeVars
  <2>. QED
    BY <1>0, <2>1, <2>2, <2>3, <2>4
    DEF PathNode!nodeVars, NodeIInv, PathNode!TypeOK, NodeServerStates, NodeCallStates
<1>12. CASE UNCHANGED PathNode!vars
  BY <1>0, <1>12
  DEF PathNode!vars, NodeIInv, PathNode!TypeOK, PathNode!Ownership, NodeLost, PathNode!OneGoal,
      PathNode!Live
<1>. QED
  BY <1>1, <1>2, <1>3, <1>4, <1>5, <1>6, <1>7, <1>8, <1>9, <1>10, <1>11, <1>12
  DEF PathNode!Next, PathNode!Callback, PathNode!Controller, PathNode!Planner

\* The inductive invariant holds in every behaviour.
THEOREM NodeInvariance == PathNode!Spec => []NodeIInv
  BY NodeInitial, NodeInductive, PTL DEF PathNode!Spec

\* Every variable keeps its type in every behaviour of the node.
THEOREM ExecutorTypeCorrect == PathNode!Spec => []PathNode!TypeOK
  BY NodeInvariance, PTL DEF NodeIInv

\* Every live goal is owned: it is being sent or it is active.
THEOREM OwnershipHolds == PathNode!Spec => []PathNode!Ownership
  BY NodeInvariance, PTL DEF NodeIInv

\* The controller never holds two goals of this node, for any number of paths,
\* goals and failed calls.
THEOREM OneGoalAtATime == PathNode!Spec => []PathNode!OneGoal
<1>1. NodeIInv => PathNode!OneGoal
  BY DEF NodeIInv, PathNode!Ownership, NodeLost, PathNode!OneGoal
<1>. QED
  BY <1>1, NodeInvariance, PTL


-----------------------------------------------------------------------------
(* The two nodes together.  A goal is given up after a success status with   *)
(* the path of its last plan; so the status must come from a goal that the   *)
(* controller has driven to, and the last plan must lead to the goal.        *)

Texts ==
    {"waiting_for_action_server", "sending_follow_path", "follow_path_submission_unverified",
     "follow_path_cancel_failed", "invalid_path", "duplicate_path_ignored",
     "cancel_requested_due_to_planner_status", "follow_path_rejected", "follow_path_accepted",
     "follow_path_aborted", "follow_path_cancel_rejected", "follow_path_replaced",
     "follow_path_succeeded", "follow_path_canceled", "follow_path_result_unverified",
     "follow_path_near_goal"}

\* Those the bridge acts on; they name the path of a goal.
Reports == {"follow_path_near_goal", "follow_path_aborted", "follow_path_succeeded"}

\* A status that says succeeded names a path to a goal that was reached.
Honest ==
    {s \in [text : Texts, path : Paths \cup {NoPath}] :
        /\ s.text \in Reports => s.path \in Paths
        /\ s.text = "follow_path_succeeded" => GoalOf[s.path] \in reached}

\* Every goal at the controller has a path; one that succeeded has reached its
\* end, and the one the node holds is there.
Driven ==
    /\ xActive # NoHandle => xServer[xActive] # "free"
    /\ \A h \in Handles : xServer[h] # "free" => xRoute[h] \in Paths
    /\ \A h \in Handles : xServer[h] = "succeeded" => GoalOf[xRoute[h]] \in reached

\* The last plan is one to the final goal.
PlanIsCurrent == latest \in Paths => GoalOf[latest] = generation

PipeInv == IInv /\ NodeIInv /\ xOutbox \in Seq(Honest) /\ Driven /\ PlanIsCurrent

\* Of what a callback says, only the first text may be dropped.
LEMMA PublishHonest ==
    ASSUME NEW told \in Seq(Honest), xOutbox \in Seq(Honest), PathNode!Publish(told)
    PROVE  xOutbox' \in Seq(Honest)
<1>1. PathNode!Fresh(told) \in Seq(Honest)
  <2>1. CASE told # <<>> /\ told[1] = xLastStatus
    BY <2>1, HeadTailProperties DEF PathNode!Fresh
  <2>2. CASE ~(told # <<>> /\ told[1] = xLastStatus)
    BY <2>2 DEF PathNode!Fresh
  <2> QED BY <2>1, <2>2
<1> QED BY <1>1 DEF PathNode!Publish, PathNode!statusVars

\* Statuses without a path, and the empty sequence, claim nothing.
LEMMA Plain ==
    /\ <<>> \in Seq(Honest)
    /\ \A text \in Texts \ Reports : PathNode!Say(text) \in Seq(Honest)
    /\ \A text \in Texts \ {"follow_path_succeeded"} : \A h \in Handles :
          xRoute[h] \in Paths => PathNode!SayOf(text, h) \in Seq(Honest)
<1>1. \A s \in Honest : <<s>> \in Seq(Honest)
  OBVIOUS
<1>2. ASSUME NEW text \in Texts \ {"follow_path_succeeded"}, NEW p \in Paths
      PROVE  [text |-> text, path |-> p] \in Honest
  BY <1>2 DEF Honest
<1>3. ASSUME NEW text \in Texts \ Reports
      PROVE  [text |-> text, path |-> NoPath] \in Honest
  BY <1>3 DEF Honest, Reports
<1> QED BY <1>1, <1>2, <1>3, EmptySeq DEF PathNode!Say, PathNode!SayOf, PathNode!Status

\* What _try_send_pending_path says and sends.
LEMMA TrySendHonest ==
    ASSUME xOutbox \in Seq(Honest), NEW p \in Paths \cup {NoPath}, NEW told \in Seq(Honest),
           NEW srv \in [Handles -> NodeServerStates],
           xRoute \in [Handles -> Paths \cup {NoPath}],
           \A h \in Handles : srv[h] # "free" => xRoute[h] \in Paths,
           \A h \in Handles : srv[h] = "succeeded" => GoalOf[xRoute[h]] \in reached,
           PathNode!TrySend(p, srv, told) \/ (p # NoPath /\ PathNode!SendFollowPath(p, srv, told)),
           reached' = reached, xActive' = NoHandle
    PROVE  xOutbox' \in Seq(Honest) /\ Driven'
<1>0. {"waiting_for_action_server", "sending_follow_path",
       "follow_path_submission_unverified"} \subseteq Texts \ Reports
  BY DEF Texts, Reports
<1>1. CASE /\ xServer' = srv /\ UNCHANGED xRoute
           /\ \/ PathNode!Publish(told)
              \/ PathNode!Publish(told \o PathNode!Say("waiting_for_action_server"))
  <2>1. told \o PathNode!Say("waiting_for_action_server") \in Seq(Honest)
    BY <1>0, Plain, ConcatProperties
  <2>2. xOutbox' \in Seq(Honest)
    BY <1>1, <2>1, PublishHonest
  <2> QED BY <1>1, <2>2 DEF Driven
<1>2. CASE p # NoPath /\ PathNode!SendFollowPath(p, srv, told)
  <2>1. PICK h \in Handles :
          /\ srv[h] = "free"
          /\ xRoute' = [xRoute EXCEPT ![h] = p]
          /\ xServer' \in {srv, [srv EXCEPT ![h] = "asked"]}
          /\ \/ PathNode!Publish(told \o PathNode!Say("sending_follow_path"))
             \/ PathNode!Publish((told \o PathNode!Say("sending_follow_path"))
                                 \o PathNode!Say("follow_path_submission_unverified"))
    BY <1>2 DEF PathNode!SendFollowPath
  <2>2. told \o PathNode!Say("sending_follow_path") \in Seq(Honest)
    BY <1>0, Plain, ConcatProperties
  <2>3. (told \o PathNode!Say("sending_follow_path"))
            \o PathNode!Say("follow_path_submission_unverified") \in Seq(Honest)
    BY <1>0, <2>2, Plain, ConcatProperties
  <2>4. xOutbox' \in Seq(Honest)
    BY <2>1, <2>2, <2>3, PublishHonest
  <2>5. \A g \in Handles : xServer'[g] # "free" =>
            IF g = h THEN xRoute'[g] = p /\ xServer'[g] # "succeeded"
            ELSE xServer'[g] = srv[g] /\ xRoute'[g] = xRoute[g]
    BY <2>1
  <2> QED BY <1>2, <2>4, <2>5 DEF Driven
<1> QED BY <1>1, <1>2 DEF PathNode!TrySend

\* What _request_cancel_active_goal says.
LEMMA CancelHonest ==
    ASSUME xOutbox \in Seq(Honest), NEW requested, NEW call, NEW spent,
           NEW before \in Seq(Honest), NEW after \in Seq(Honest),
           PathNode!RequestCancel(requested, call, spent, before, after)
    PROVE  xOutbox' \in Seq(Honest)
<1>1. before \o after \in Seq(Honest)
  BY ConcatProperties
<1>2. "follow_path_cancel_failed" \in Texts \ Reports
  BY DEF Texts, Reports
<1>3. before \o PathNode!Say("follow_path_cancel_failed") \in Seq(Honest)
  BY <1>2, Plain, ConcatProperties
<1>4. (before \o PathNode!Say("follow_path_cancel_failed")) \o after \in Seq(Honest)
  BY <1>3, ConcatProperties
<1> QED BY <1>1, <1>4, PublishHonest DEF PathNode!RequestCancel

\* Every callback of the executor keeps its statuses honest.
LEMMA NodeHonest ==
    ASSUME NodeIInv, xOutbox \in Seq(Honest), Driven, reached' = reached,
           \/ PathNode!Callback
           \/ \E p \in Paths : PathNode!PathCb(p)
           \/ \E text \in PathNode!DangerPrefixes : PathNode!StatusCb(text)
    PROVE  xOutbox' \in Seq(Honest) /\ Driven'
<1>1. /\ PathNode!TypeOK
      /\ xRoute \in [Handles -> Paths \cup {NoPath}] /\ xServer \in [Handles -> NodeServerStates]
      /\ xPending \in Paths \cup {NoPath}
      /\ xSending \in Handles \cup {NoHandle} /\ xActive \in Handles \cup {NoHandle}
  BY DEF NodeIInv, PathNode!TypeOK, NodeServerStates
<1>2. /\ xActive # NoHandle => xServer[xActive] # "free"
      /\ \A h \in Handles : xServer[h] # "free" => xRoute[h] \in Paths
      /\ \A h \in Handles : xServer[h] = "succeeded" => GoalOf[xRoute[h]] \in reached
  BY DEF Driven
<1>3. \A text \in {"follow_path_rejected", "follow_path_accepted", "follow_path_cancel_rejected",
                   "follow_path_cancel_failed", "follow_path_replaced", "invalid_path",
                   "follow_path_result_unverified", "cancel_requested_due_to_planner_status",
                   "duplicate_path_ignored", "follow_path_submission_unverified"} :
          PathNode!Say(text) \in Seq(Honest)
  BY Plain DEF Texts, Reports
<1>4. \A text \in {"follow_path_aborted", "follow_path_canceled", "follow_path_near_goal"} :
          \A h \in Handles : xServer[h] # "free" => PathNode!SayOf(text, h) \in Seq(Honest)
  BY <1>2, Plain DEF Texts
<1>5. <<>> \in Seq(Honest)
  BY Plain
<1>6. ASSUME xServer' = xServer, xRoute' = xRoute,
             xActive' # NoHandle => xServer[xActive'] # "free"
      PROVE  Driven'
  <2>1. /\ \A h \in Handles : xServer'[h] # "free" => xRoute'[h] \in Paths
        /\ \A h \in Handles : xServer'[h] = "succeeded" => GoalOf[xRoute'[h]] \in reached'
    BY <1>2, <1>6
  <2>2. xActive' # NoHandle => xServer'[xActive'] # "free"
    BY <1>6
  <2> QED BY <2>1, <2>2 DEF Driven
<1>7. CASE PathNode!RetryTimer
  <2>1. xPending # NoPath /\ PathNode!SendFollowPath(xPending, xServer, <<>>) /\ xActive' = NoHandle
    BY <1>7 DEF PathNode!RetryTimer
  <2> QED BY <1>1, <1>2, <1>5, <2>1, TrySendHonest
<1>8. CASE PathNode!ResponseUnverified
  <2>1. PathNode!Publish(PathNode!Say("follow_path_submission_unverified"))
    BY <1>8 DEF PathNode!ResponseUnverified
  <2>2. xOutbox' \in Seq(Honest)
    BY <1>3, <2>1, PublishHonest
  <2> QED BY <1>2, <1>6, <1>8, <2>2 DEF PathNode!ResponseUnverified
<1>9. CASE PathNode!ResponseRejected
  <2> DEFINE srv == [xServer EXCEPT ![xSending] = "free"]
  <2>1. PathNode!TrySend(xPending, srv, PathNode!Say("follow_path_rejected")) /\ xActive' = NoHandle
    BY <1>9 DEF PathNode!ResponseRejected, NodeIInv, PathNode!Ownership
  <2>2. /\ srv \in [Handles -> NodeServerStates]
        /\ \A h \in Handles : srv[h] # "free" => xRoute[h] \in Paths
        /\ \A h \in Handles : srv[h] = "succeeded" => GoalOf[xRoute[h]] \in reached
    BY <1>1, <1>2 DEF NodeServerStates
  <2> HIDE DEF srv
  <2> QED BY <1>1, <1>3, <2>1, <2>2, TrySendHonest
<1>10. CASE PathNode!ResponseAccepted
  <2>1. /\ xServer' = xServer /\ xRoute' = xRoute /\ xSending \in Handles
        /\ xActive' = xSending /\ xServer[xSending] # "free"
    BY <1>1, <1>10 DEF PathNode!ResponseAccepted, PathNode!Accepted
  <2>2. PathNode!Say("follow_path_accepted") \o PathNode!SayOf("follow_path_aborted", xSending)
            \in Seq(Honest)
    BY <1>3, <1>4, <2>1, ConcatProperties
  <2>3. \/ PathNode!RequestCancel(FALSE, "none", 0, PathNode!Say("follow_path_accepted"), <<>>)
        \/ PathNode!Publish(PathNode!Say("follow_path_accepted"))
        \/ PathNode!RequestCancel(FALSE, "none", 1, PathNode!Say("follow_path_accepted")
               \o PathNode!SayOf("follow_path_aborted", xSending), <<>>)
    BY <1>10 DEF PathNode!ResponseAccepted
  <2>4. xOutbox' \in Seq(Honest)
    BY <1>3, <1>5, <2>2, <2>3, PublishHonest, CancelHonest
  <2> QED BY <1>6, <2>1, <2>4
<1>11. CASE PathNode!CancelResponse
  <2>1. /\ xServer' = xServer /\ xRoute' = xRoute
        /\ \/ UNCHANGED xOutbox
           \/ PathNode!Publish(PathNode!Say("follow_path_cancel_rejected"))
           \/ PathNode!Publish(PathNode!Say("follow_path_cancel_failed"))
    BY <1>11 DEF PathNode!CancelResponse, PathNode!statusVars
  <2>2. xOutbox' \in Seq(Honest)
    BY <1>3, <2>1, PublishHonest
  <2> QED BY <1>2, <1>6, <1>11, <2>1, <2>2 DEF PathNode!CancelResponse, PathNode!nodeVars
<1>12. CASE PathNode!Result
  <2> DEFINE srv == [xServer EXCEPT ![xActive] = "free"]
             told == PathNode!ResultStatus(xActive)
  <2>1. /\ xActive \in Handles /\ PathNode!Terminal(xActive)
        /\ PathNode!TrySend(xPending, srv, told) /\ xActive' = NoHandle
    BY <1>1, <1>12 DEF PathNode!Result
  <2>2. /\ srv \in [Handles -> NodeServerStates]
        /\ \A h \in Handles : srv[h] # "free" => xRoute[h] \in Paths
        /\ \A h \in Handles : srv[h] = "succeeded" => GoalOf[xRoute[h]] \in reached
    BY <1>1, <1>2 DEF NodeServerStates
  <2>3. told \in Seq(Honest)
    <3>1. CASE xServer[xActive] = "succeeded" /\ xPending = NoPath
      <4>1. xRoute[xActive] \in Paths /\ GoalOf[xRoute[xActive]] \in reached
        BY <1>2, <2>1, <3>1
      <4>2. [text |-> "follow_path_succeeded", path |-> xRoute[xActive]] \in Honest
        BY <4>1 DEF Honest, Texts, Reports
      <4>3. told = <<[text |-> "follow_path_succeeded", path |-> xRoute[xActive]]>>
        BY <3>1 DEF PathNode!ResultStatus, PathNode!SayOf, PathNode!Status
      <4> QED BY <4>2, <4>3
    <3>2. CASE xServer[xActive] = "succeeded" /\ xPending # NoPath
      BY <1>3, <3>2 DEF PathNode!ResultStatus
    <3>3. CASE xServer[xActive] = "canceled"
      BY <1>2, <1>4, <2>1, <3>3 DEF PathNode!ResultStatus
    <3>4. CASE xServer[xActive] = "aborted"
      BY <1>2, <1>4, <2>1, <3>4 DEF PathNode!ResultStatus
    <3> QED BY <2>1, <3>1, <3>2, <3>3, <3>4 DEF PathNode!Terminal
  <2> HIDE DEF srv, told
  <2> QED BY <1>1, <2>1, <2>2, <2>3, TrySendHonest
<1>13. CASE PathNode!ResultUnverified
  <2>1. /\ xServer' = xServer /\ xRoute' = xRoute
        /\ PathNode!RequestCancel(xCancelRequested, xCancelCall, 1,
               PathNode!Say("follow_path_result_unverified"), <<>>)
    BY <1>13 DEF PathNode!ResultUnverified
  <2>2. xOutbox' \in Seq(Honest)
    BY <1>3, <1>5, <2>1, CancelHonest
  <2> QED BY <1>2, <1>6, <1>13, <2>1, <2>2 DEF PathNode!ResultUnverified, PathNode!nodeVars
<1>14. CASE PathNode!Feedback
  <2>1. /\ xServer' = xServer /\ xRoute' = xRoute /\ xActive \in Handles
        /\ PathNode!Publish(PathNode!SayOf("follow_path_near_goal", xActive))
    BY <1>1, <1>14 DEF PathNode!Feedback
  <2>2. xOutbox' \in Seq(Honest)
    BY <1>2, <1>4, <1>14, <2>1, PublishHonest DEF PathNode!Feedback
  <2> QED BY <1>2, <1>6, <1>14, <2>1, <2>2 DEF PathNode!Feedback, PathNode!nodeVars
<1>15. ASSUME NEW p \in Paths, PathNode!PathCb(p) PROVE xOutbox' \in Seq(Honest) /\ Driven'
  <2>0. xActive' = xActive
    BY <1>15 DEF PathNode!PathCb
  <2>1. CASE xActive = NoHandle /\ PathNode!TrySend(p, xServer, <<>>)
    BY <2>0, <1>1, <1>2, <1>5, <2>1, TrySendHonest
  <2>2. CASE /\ xServer' = xServer /\ xRoute' = xRoute
             /\ \/ UNCHANGED xOutbox
                \/ PathNode!Publish(PathNode!Say("invalid_path"))
                \/ PathNode!Publish(PathNode!Say("duplicate_path_ignored"))
                \/ PathNode!RequestCancel(xCancelRequested, xCancelCall, 0, <<>>, <<>>)
    <3>1. xOutbox' \in Seq(Honest)
      BY <1>3, <1>5, <2>2, PublishHonest, CancelHonest
    <3> QED BY <1>2, <1>6, <2>0, <2>2, <3>1
  <2> QED BY <1>15, <2>1, <2>2 DEF PathNode!PathCb, PathNode!statusVars
<1>16. ASSUME NEW text, PathNode!StatusCb(text)
       PROVE  xOutbox' \in Seq(Honest) /\ Driven'
  <2>1. /\ xServer' = xServer /\ xRoute' = xRoute
        /\ \/ UNCHANGED xOutbox
           \/ PathNode!RequestCancel(xCancelRequested, xCancelCall, 0, <<>>,
                  PathNode!Say("cancel_requested_due_to_planner_status"))
    BY <1>16 DEF PathNode!StatusCb, PathNode!statusVars
  <2>2. xOutbox' \in Seq(Honest)
    BY <1>3, <1>5, <2>1, CancelHonest
  <2> QED BY <1>2, <1>6, <1>16, <2>1, <2>2 DEF PathNode!StatusCb
<1> QED BY <1>7, <1>8, <1>9, <1>10, <1>11, <1>12, <1>13, <1>14, <1>15, <1>16
        DEF PathNode!Callback

\* The calls that failed are counted, also those of the executor.
LEMMA FaultsCounted ==
    ASSUME NodeIInv, [PathNode!Next]_(PathNode!vars)
    PROVE  faults' = 0 => faults = 0
<1>1. faults \in Nat
  BY DEF NodeIInv, PathNode!TypeOK
<1>2. \A told, srv, p : PathNode!SendFollowPath(p, srv, told) => faults' \in {faults, faults + 1}
  BY DEF PathNode!SendFollowPath, PathNode!Fault
<1>3. \A told, srv, p : PathNode!TrySend(p, srv, told) => faults' \in {faults, faults + 1}
  BY <1>2 DEF PathNode!TrySend
<1>4. \A r, c, b, a : PathNode!RequestCancel(r, c, 0, b, a) => faults' \in {faults, faults + 1}
  BY <1>1 DEF PathNode!RequestCancel
<1>5. \A r, c, b, a : PathNode!RequestCancel(r, c, 1, b, a) => faults' \in {faults + 1, faults + 2}
  BY <1>1 DEF PathNode!RequestCancel
<1>6. CASE PathNode!Callback
  <2>1. faults' \in {faults, faults + 1, faults + 2}
    BY <1>2, <1>3, <1>4, <1>5, <1>6
    DEF PathNode!Callback, PathNode!RetryTimer, PathNode!ResponseUnverified,
        PathNode!ResponseRejected, PathNode!ResponseAccepted, PathNode!CancelResponse,
        PathNode!Result, PathNode!ResultUnverified, PathNode!Feedback, PathNode!Fault
  <2> QED BY <1>1, <2>1
<1>7. CASE PathNode!Controller \/ UNCHANGED PathNode!vars
  BY <1>1, <1>7
  DEF PathNode!Controller, PathNode!Decide, PathNode!Finish, PathNode!Halt,
      PathNode!CancelServed, PathNode!Fault, PathNode!vars
<1>8. CASE PathNode!Planner
  <2>1. faults' \in {faults, faults + 1}
    BY <1>3, <1>4, <1>8 DEF PathNode!Planner, PathNode!PathCb, PathNode!StatusCb
  <2> QED BY <1>1, <2>1
<1> QED BY <1>6, <1>7, <1>8 DEF PathNode!Next

\* What the executor and the topics do is nothing to the bridge.
LEMMA BridgeIdle ==
    ASSUME IInv, UNCHANGED bridgeVars, path' \in Paths \cup {NoPath},
           faults' \in 0 .. MaxFaults, faults' = 0 => faults = 0
    PROVE  IInv'
<1>1. UNCHANGED <<generation, finalGoal, hasPath, latest, window, pendingGoal, deferred, sending,
                  active, requestOf, cancelRequested, observed, unverified, planner>>
  BY DEF bridgeVars, goalVars, sendVars, callVars
<1>2. TypeOK'
  BY <1>1 DEF IInv, TypeOK
<1>3. Owner' /\ Lost'
  BY <1>1 DEF IInv, Owner, Lost, OneRequest, Live
<1>4. Queue'
  BY <1>1 DEF IInv, Queue, QueueIsCurrent, DeferredIsOwed, DeferredHasGoal
<1>5. StaleRequestCancelled'
  BY <1>1 DEF IInv, StaleRequestCancelled, Outdated
<1> QED BY <1>2, <1>3, <1>4, <1>5 DEF IInv

\* Nor is what the bridge and the topics do anything to the executor.
LEMMA NodeIdle ==
    ASSUME NodeIInv, UNCHANGED xNodeVars, faults' \in 0 .. MaxFaults
    PROVE  NodeIInv'
<1>1. UNCHANGED <<xSending, xActive, xRoute, xPending, xCancelRequested, xCancelCall,
                  xCancelWhenAccepted, xUnverified, xNearGoal, xObserved, xServer, xRevoked>>
  BY DEF xNodeVars
<1>2. PathNode!TypeOK'
  BY <1>1 DEF NodeIInv, PathNode!TypeOK
<1>3. PathNode!Ownership' /\ NodeLost'
  BY <1>1 DEF NodeIInv, PathNode!Ownership, NodeLost, PathNode!OneGoal, PathNode!Live
<1> QED BY <1>2, <1>3 DEF NodeIInv

\* The initial state of both nodes.
LEMMA PipeInitial == PipeInit => PipeInv
<1> SUFFICES ASSUME PipeInit PROVE PipeInv
  OBVIOUS
<1>1. IInv /\ NodeIInv
  BY Initial, NodeInitial DEF PipeInit
<1>2. xOutbox \in Seq(Honest)
  BY Plain DEF PipeInit, PathNode!Init, Texts, Reports
<1>3. Driven /\ PlanIsCurrent
  BY DEF PipeInit, PathNode!Init, Init, Driven, PlanIsCurrent
<1> QED BY <1>1, <1>2, <1>3 DEF PipeInv

\* The plan of the bridge: a path is published for the goal of its request,
\* and a new goal forgets the plan of the one before.
LEMMA PlanStaysCurrent ==
    ASSUME IInv, PlanIsCurrent, BridgeStep
    PROVE  PlanIsCurrent'
<1>1. CASE UNCHANGED <<generation, latest>>
  BY <1>1 DEF PlanIsCurrent
<1>2. CASE latest' = NoPath
  BY <1>2, NodeConstants DEF PlanIsCurrent
<1>3. ASSUME NEW p \in Paths, GoalOf[p] = requestOf[active], ResultPath(p)
      PROVE  PlanIsCurrent'
  BY <1>3 DEF ResultPath, Outdated, PlanIsCurrent
<1>4. CASE UNCHANGED goalVars
  BY <1>4, <1>1 DEF goalVars
<1> QED BY <1>2, <1>3, <1>4
        DEF BridgeStep, RetryTimer, ReplanTimer, ResponseUnverified, ResponseRejected,
            ResponseAccepted, ResultUnverified, ResultDropped, PlannerServer, Decide, Plan, Serve,
            User, GoalAccepted, GoalRefused, ForgetGoal

\* A callback of the executor keeps the invariant of the chain.
LEMMA NodeSteps ==
    ASSUME PipeInv, PathNode!Next, UNCHANGED bridgeVars, path' \in Paths \cup {NoPath},
           reached' = reached,
           \/ PathNode!Callback
           \/ \E p \in Paths : PathNode!PathCb(p)
           \/ \E text \in PathNode!DangerPrefixes : PathNode!StatusCb(text)
    PROVE  PipeInv'
<1>1. NodeIInv' /\ (faults' = 0 => faults = 0)
  BY NodeInductive, FaultsCounted DEF PipeInv
<1>2. faults' \in 0 .. MaxFaults
  BY <1>1 DEF NodeIInv, PathNode!TypeOK
<1>3. IInv'
  BY <1>1, <1>2, BridgeIdle DEF PipeInv
<1>4. xOutbox' \in Seq(Honest) /\ Driven'
  BY NodeHonest DEF PipeInv
<1>5. xOutbox' \in Seq(Honest)' /\ PlanIsCurrent'
  BY <1>4 DEF PipeInv, Honest, PlanIsCurrent, bridgeVars, goalVars
<1> QED BY <1>1, <1>3, <1>4, <1>5 DEF PipeInv

\* Every step of either node, of a server or of a topic keeps the invariant.
LEMMA PipeInductive == PipeInv /\ [PipeNext]_pipeVars => PipeInv'
<1> SUFFICES ASSUME PipeInv, [PipeNext]_pipeVars PROVE PipeInv'
  OBVIOUS
<1>0. IInv /\ NodeIInv /\ xOutbox \in Seq(Honest) /\ Driven /\ PlanIsCurrent
  BY DEF PipeInv
<1>a. faults \in 0 .. MaxFaults /\ path \in Paths \cup {NoPath}
  BY <1>0 DEF IInv, TypeOK
<1>1. CASE BridgeStep
  <2>1. Next
    BY <1>1 DEF BridgeStep, Next, Callback
  <2>2. IInv'
    BY <1>0, <2>1, Inductive
  <2>3. UNCHANGED <<xNodeVars, xOutbox, reached>>
    BY <1>1 DEF BridgeStep
  <2>4. NodeIInv'
    BY <1>0, <2>2, <2>3, NodeIdle DEF IInv, TypeOK
  <2>5. xOutbox' \in Seq(Honest)' /\ Driven'
    BY <1>0, <2>3 DEF xNodeVars, Driven, Honest
  <2> QED BY <1>0, <1>1, <2>2, <2>4, <2>5, PlanStaysCurrent DEF PipeInv
<1>2. CASE ExecutorStep
  <2>1. /\ PathNode!Next /\ PathNode!Callback
        /\ UNCHANGED bridgeVars /\ path' = path /\ reached' = reached
    BY <1>2 DEF ExecutorStep, PathNode!Next
  <2> QED BY <1>a, <2>1, NodeSteps
<1>3. CASE DeliverPath
  <2>1. /\ PathNode!PathCb(path) /\ path \in Paths
        /\ UNCHANGED bridgeVars /\ path' = NoPath /\ reached' = reached
    BY <1>a, <1>3 DEF DeliverPath
  <2>2. PathNode!Next
    BY <2>1 DEF PathNode!Next, PathNode!Planner
  <2> QED BY <2>1, <2>2, NodeSteps
<1>4. CASE DeliverPlannerStatus
  <2>1. UNCHANGED bridgeVars /\ path' = path /\ reached' = reached
    BY <1>4 DEF DeliverPlannerStatus
  <2>2. ASSUME NEW text \in PathNode!DangerPrefixes, PathNode!StatusCb(text)
        PROVE  PipeInv'
    <3>1. PathNode!StatusCb("A* fail")
      BY <2>2 DEF PathNode!StatusCb, PathNode!DangerPrefixes
    <3>2. PathNode!Next
      BY <3>1 DEF PathNode!Next, PathNode!Planner
    <3> QED BY <1>a, <2>1, <2>2, <3>2, NodeSteps
  <2>3. CASE UNCHANGED <<xNodeVars, xOutbox, faults>>
    <3>1. IInv'
      BY <1>0, <1>a, <2>1, <2>3, BridgeIdle
    <3>2. NodeIInv'
      BY <1>0, <1>a, <2>3, NodeIdle
    <3>3. xOutbox' \in Seq(Honest)' /\ Driven' /\ PlanIsCurrent'
      BY <1>0, <2>1, <2>3 DEF xNodeVars, Driven, Honest, PlanIsCurrent, bridgeVars, goalVars
    <3> QED BY <3>1, <3>2, <3>3 DEF PipeInv
  <2> QED BY <1>4, <2>2, <2>3 DEF DeliverPlannerStatus
<1>5. CASE ControllerStep
  <2>1. /\ PathNode!Controller /\ UNCHANGED bridgeVars /\ path' = path
        /\ reached' = reached \cup {GoalOf[xRoute[h]] :
                 h \in {g \in Handles : xServer[g] # "succeeded" /\ xServer'[g] = "succeeded"}}
    BY <1>5 DEF ControllerStep
  <2>2. PathNode!Next
    BY <2>1 DEF PathNode!Next
  <2>3. NodeIInv' /\ (faults' = 0 => faults = 0)
    BY <1>0, <2>2, NodeInductive, FaultsCounted
  <2>4. faults' \in 0 .. MaxFaults
    BY <2>3 DEF NodeIInv, PathNode!TypeOK
  <2>5. IInv'
    BY <1>0, <1>a, <2>1, <2>3, <2>4, BridgeIdle
  <2>6. xOutbox' = xOutbox /\ xRoute' = xRoute /\ xActive' = xActive
    BY <2>1
    DEF PathNode!nodeVars, PathNode!Controller, PathNode!Decide, PathNode!Finish, PathNode!Halt,
                PathNode!CancelServed, PathNode!Serve, PathNode!statusVars
  <2>7. \A h \in Handles : xServer'[h] # "free" <=> xServer[h] # "free"
    BY <1>0, <2>1 DEF PathNode!Controller, PathNode!Decide, PathNode!Finish, PathNode!Halt,
       PathNode!CancelServed, PathNode!Serve, PathNode!Terminal, NodeIInv, PathNode!TypeOK
  <2>8. Honest \subseteq Honest'
    BY <2>1 DEF Honest
  <2>9. xOutbox' \in Seq(Honest)'
    BY <1>0, <2>6, <2>8, SeqMonotonic
  <2>10. Driven'
    BY <1>0, <2>1, <2>6, <2>7 DEF Driven, NodeIInv, PathNode!TypeOK
  <2>11. PlanIsCurrent'
    BY <1>0, <2>1 DEF PlanIsCurrent, bridgeVars, goalVars
  <2> QED BY <2>3, <2>5, <2>9, <2>10, <2>11 DEF PipeInv
<1>6. CASE DeliverExecutorStatus
  <2>1. PICK i \in 1 .. Len(xOutbox) : xOutbox' = Take(xOutbox, i) /\ OnExecutorStatus(xOutbox[i])
    BY <1>6 DEF DeliverExecutorStatus
  <2>2. UNCHANGED <<xNodeVars, reached>>
    BY <1>6 DEF DeliverExecutorStatus
  <2>3. xOutbox[i] \in Honest
    BY <1>0, <2>1, ElementOfSeq
  <2>4. Next \/ UNCHANGED vars
    <3>1. xOutbox[i].text \in Reports => xOutbox[i].path \in Paths
      BY <2>3 DEF Honest
    <3> QED BY <2>1, <3>1 DEF OnExecutorStatus, Next, Executor, Reports
  <2>5. IInv'
    BY <1>0, <2>4, Inductive
  <2>6. NodeIInv'
    BY <1>0, <2>2, <2>5, NodeIdle DEF IInv, TypeOK
  <2>7. xOutbox' \in Seq(Honest)'
    <3>1. xOutbox' \in Seq(Honest)
      BY <1>0, <2>1, SubSeqProperties, ElementOfSeq, LenProperties DEF Take
    <3> QED BY <2>2, <3>1 DEF Honest
  <2>8. Driven'
    BY <1>0, <2>2 DEF Driven, xNodeVars
  <2>9. PlanIsCurrent'
    BY <1>0, <2>1, NodeConstants
    DEF OnExecutorStatus, NearGoal, FollowAborted, FollowSucceeded, ForgetGoal, PlanIsCurrent,
        vars
  <2> QED BY <2>5, <2>6, <2>7, <2>8, <2>9 DEF PipeInv
<1>7. CASE UNCHANGED pipeVars
  <2>1. UNCHANGED <<bridgeVars, path, faults, xNodeVars, xOutbox, reached>>
    BY <1>7 DEF pipeVars, vars, bridgeVars, goalVars, sendVars, callVars
  <2>2. IInv' /\ NodeIInv'
    BY <1>0, <1>a, <2>1, BridgeIdle, NodeIdle
  <2>3. xOutbox' \in Seq(Honest)' /\ Driven' /\ PlanIsCurrent'
    BY <1>0, <2>1 DEF xNodeVars, Driven, Honest, PlanIsCurrent, bridgeVars, goalVars
  <2> QED BY <2>2, <2>3 DEF PipeInv
<1> QED BY <1>1, <1>2, <1>3, <1>4, <1>5, <1>6, <1>7 DEF PipeNext

\* The invariant of the composition holds in every behaviour of the chain.
THEOREM PipeInvariance == PipeSpec => []PipeInv
  BY PipeInitial, PipeInductive, PTL DEF PipeSpec

\* Joined by topics that lose messages, each node still holds at most one goal
\* at its server: neither relies on what the other one says.
THEOREM OneOfEach == PipeSpec => [](OneRequest /\ PathNode!OneGoal)
<1>1. PipeInv => OneRequest /\ PathNode!OneGoal
  BY DEF PipeInv, IInv, NodeIInv, Owner, Lost, OneRequest, PathNode!Ownership, NodeLost,
         PathNode!OneGoal
<1> QED BY <1>1, PipeInvariance, PTL

\* The bridge gives up a final goal only when the controller has driven to it,
\* however late, repeated or lost the statuses of older goals are
\* (_executor_status_callback:151).
THEOREM EndsOnArrival == PipeSpec => OnlySuccessEndsGoal
<1>1. ASSUME PipeInv, PipeNext, finalGoal, ~finalGoal', generation' = generation
      PROVE  generation \in reached
  <2>1. generation \in Nat
    BY <1>1 DEF PipeInv, IInv, TypeOK
  <2>2. finalGoal' # finalGoal /\ finalGoal' # TRUE
    BY <1>1
  <2>3. generation' # generation + 1
    BY <1>1, <2>1
  <2>4. ~(GoalAccepted \/ \E text \in BadGoals : GoalRefused(text))
    BY <2>2, <2>3 DEF GoalAccepted, GoalRefused
  <2>5. ~BridgeStep
    BY <2>2, <2>4
    DEF BridgeStep, goalVars, RetryTimer, ReplanTimer, ResponseUnverified, ResponseRejected,
        ResponseAccepted, ResultUnverified, ResultDropped, ResultPath, PlannerServer, Decide, Plan,
        Serve, User
  <2>6. DeliverExecutorStatus
    BY <1>1, <2>2, <2>5
    DEF PipeNext, ExecutorStep, ControllerStep, DeliverPath, DeliverPlannerStatus, bridgeVars,
        goalVars
  <2>7. PICK i \in 1 .. Len(xOutbox) : OnExecutorStatus(xOutbox[i])
    BY <2>6 DEF DeliverExecutorStatus
  <2>8. xOutbox[i].text = "follow_path_succeeded" /\ xOutbox[i].path = latest
    BY <1>1, <2>7 DEF OnExecutorStatus, NearGoal, FollowAborted, FollowSucceeded, vars
  <2>9. xOutbox[i] \in Honest
    BY <1>1, <2>7, ElementOfSeq DEF PipeInv
  <2>10. latest \in Paths /\ GoalOf[latest] \in reached
    BY <2>8, <2>9 DEF Honest, Reports
  <2> QED BY <1>1, <2>10 DEF PipeInv, PlanIsCurrent
<1>2. PipeInv /\ [PipeNext]_pipeVars
      => [finalGoal /\ ~finalGoal' /\ generation' = generation => generation \in reached]_pipeVars
  BY <1>1
<1> QED BY <1>2, PipeInvariance, PTL DEF PipeSpec, OnlySuccessEndsGoal
=============================================================================

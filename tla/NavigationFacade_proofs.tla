----------------------- MODULE NavigationFacade_proofs -----------------------
(* What TLAPS proves about NavigationFacade, for any number of inner goals,  *)
(* replan failures and faults, with and without replanning, polygon and      *)
(* stationary completion: the types, that the controller never holds two     *)
(* FollowPaths (OneFollow), that a free slot leaves no inner goal behind     *)
(* (SlotCoversInner), and that the outer goal succeeds only after its last   *)
(* FollowPath did or without one (SuccessIsFollowed), that its clients see a *)
(* NavigationSlot (ImplementsSlot), and that two runs of execute can meet    *)
(* only after the boundary watch stopped a goal.                             *)
(*   All follow from one invariant, IInv.  The coroutine may be suspended at *)
(* any of its awaits while every callback runs, so IInv says what execute and*)
(* its helpers rely on across an await: where the stack can be (Shape), which*)
(* goals the coroutine refers to (Named), which goals the session has tracked*)
(* and what it knows of them (Ledger), who waits for a reply (InFlight), where*)
(* a FollowPath may still be running (Follows), what a held slot covers      *)
(* (Held), and where it takes a cancel to be (Canceled).                     *)
(*   It is proved for one coroutine step at a time: what a step pushes, pops *)
(* and replaces (BaseGoto and its like), then each label, then the callbacks,*)
(* which move only what the coroutine does not rely on.                      *)
EXTENDS NavigationFacade, FiniteSetTheorems, SequenceTheorems, TLAPS

\* The bounds are numbers.
LEMMA Bounds ==
    /\ MaxGoals \in Nat /\ MaxGoals > 0
    /\ MaxReplanFailures \in Nat /\ MaxReplanFailures > 0
    /\ MaxFaults \in Nat
    /\ Polygons \subseteq BOOLEAN
  BY FacadeAssumption DEF FacadeAssumption

USE Bounds

-----------------------------------------------------------------------------
(* The labels of the coroutine, by what can be on top of them.               *)

\* Where execute goes on after _send_goal, and those that sent a FollowPath.
FollowSends == {"E_FollowSent", "S_RetrySent", "S_ReplaceSent"}
SendBacks == FollowSends \cup {"E_PlanSent", "R_Sent", "W_Sent"}

\* After _wait_inner_result, _cancel_and_confirm and _await_inner_terminal.
WaitBacks == {"E_PlanDone", "R_Done"}
CancelBacks == {"F_Canceled", "F_Unverified", "F_StopCancel", "F_Stop", "S_Late", "W_Canceled",
                "W_LateCancel", "W_Await", "W_Replace", "X_Cancel"}
AwaitBacks == {"Z_abort", "F_CancelAwaited", "W_Stopped", "W_NotStopped", "W_Ended"}

\* No FollowPath sent yet; one active; one ended and the next not sent yet.
PlanBases == {"E_Init", "E_Start", "E_Snapshot", "E_Plan", "E_PlanSent", "E_PlanDone",
              "E_Validate", "E_Validated", "E_PathRejected", "E_Follow"}
FollowBases == {"F_Loop", "F_Wait", "F_Canceled", "F_Unverified", "F_StopCancel", "F_Stop",
                "F_CancelAwaited", "V_Active", "V_Kept", "V_Unsafe", "W_Start", "W_Sent", "W_Loop",
                "W_Wait", "W_Validate", "W_Validated", "W_None", "W_Canceled", "W_Stopped",
                "W_NotStopped", "W_LateCancel", "W_Await", "W_Replace", "W_Ended", "W_Ret"}
RetryBases == {"R_Start", "R_Sent", "R_Done", "R_Validate", "R_None", "S_Retry", "S_Replace"}
EndBases == {"S_Fail", "S_Late", "G_Guard", "Z_succeed", "Z_cancel", "Z_abort", "X_Handle",
             "X_Cancel"}
Bases == FollowBases \cup PlanBases \cup RetryBases \cup FollowSends \cup EndBases

\* Those of the helper coroutines.
SendLabels == {"D_Start", "D_Wait", "D_Await"}
WaitLabels == {"I_Start", "I_Wait", "I_Canceled"}
AwaitLabels == {"A_Start", "A_Loop", "A_Wait", "A_Cancel"}
CancelLabels == {"C_Start", "C_Response", "C_Result"}
Labels == Bases \cup SendLabels \cup WaitLabels \cup AwaitLabels \cup CancelLabels

Depth == Len(stack)
Base == IF stack = <<>> THEN "idle" ELSE stack[Len(stack)]

-----------------------------------------------------------------------------
(* The inductive invariant.                                                  *)

\* execute awaits at most two helpers, and only where the code does.
Fits(label, back) ==
    \/ label \in SendLabels /\ back \in SendBacks
    \/ label \in WaitLabels /\ back \in WaitBacks
    \/ label \in AwaitLabels /\ back \in AwaitBacks
    \/ label \in CancelLabels /\ back \in CancelBacks
FitsInner(back, base) ==
    \/ back = "D_Await" /\ base = "W_Sent"
    \/ back = "I_Canceled" /\ base \in WaitBacks
    \/ back = "A_Cancel" /\ base \in AwaitBacks
Shape ==
    /\ stack \in Seq(Labels) /\ Depth \in 0 .. 3
    /\ Depth = 1 => Top \in Bases
    /\ Depth = 2 => Fits(Top, Base)
    /\ Depth = 3 => Top \in CancelLabels /\ FitsInner(Caller, Base)

SessionType ==
    [cancelRequested : BOOLEAN, terminal : BOOLEAN, stage : {"PLANNING", "FOLLOWING"},
     wake : {"none", "armed"} \cup Reasons, planner : 0 .. MaxGoals, follow : 0 .. MaxGoals,
     replanPending : BOOLEAN, replanInFlight : BOOLEAN, failures : 0 .. MaxReplanFailures + 1,
     unverified : BOOLEAN]
ServerStates == {"none", "sent", "rejected"} \cup Live \cup Terminal
ResultStates == {"none", "requested", "error"} \cup Terminal
GoalType ==
    [kind : {"none", "plan", "follow"}, server : ServerStates, result : ResultStates,
     tracked : BOOLEAN, confirmed : BOOLEAN, watched : BOOLEAN, cancel : BOOLEAN]

TypedSlot ==
    /\ {busy, reserved, pendingCancel, polygon, yielded} \subseteq BOOLEAN
    /\ outer \in {"none", "executing", "canceling"} \cup Terminal
TypedGoals ==
    /\ session \in SessionType
    /\ goal \in [Goals -> GoalType]
    /\ {victim, sending} \subseteq 0 .. MaxGoals
    /\ attempted \subseteq Goals
    /\ faults \in 0 .. MaxFaults
    /\ reply \in {"none", "accepted", "rejected", "nohandle", "error"}
    /\ cancelCall \in {"none", "sent", "accepted", "refused", "error"}

\* The goals of the session are numbered as they are sent.  A result is the
\* server's, and a goal the server may execute is known to the session.
Ledger ==
    \A g \in Goals :
        /\ goal[g].kind # "none" <=> g <= Latest
        /\ goal[g].kind = "none" => goal[g].server = "none" /\ ~goal[g].tracked
        /\ goal[g].result \in Terminal => goal[g].server = goal[g].result
        /\ goal[g].result # "none" => goal[g].tracked
        /\ goal[g].server \in Owned => goal[g].tracked \/ sending = g \/ session.unverified

\* _send_goal awaits the reply to the latest goal, _cancel_and_confirm that to
\* its request.
InFlight ==
    /\ sending # NoGoal <=> Top \in {"D_Wait", "D_Await"} \/ Caller = "D_Await"
    /\ sending # NoGoal => sending = Latest /\ ~goal[sending].tracked
    /\ reply # "none" => sending # NoGoal
    /\ reply = "rejected" => goal[sending].server = "rejected"
    /\ Top = "D_Start" => Latest < MaxGoals
    /\ cancelCall # "none" <=> Top = "C_Response"

\* The goals that execute refers to are ones it has tracked.
Tracked(g) == g \in Goals /\ goal[g].tracked
Named ==
    /\ Top \in SendBacks /\ rv = "accepted" => Tracked(Latest) /\ goal[Latest].result = "none"
    /\ Top \in WaitLabels \/ Caller = "I_Canceled" => Tracked(session.planner)
    /\ Top = "I_Start" => goal[session.planner].result = "none"
    /\ Base \in FollowBases => Tracked(session.follow)
    /\ Top \in CancelLabels => Tracked(victim)
    /\ Top \in CancelLabels /\ Base = "W_Replace" => victim = session.follow

\* The slot is taken while execute runs and freed only over inner actions that
\* have all ended.
Held ==
    /\ reserved => busy /\ stack = <<>>
    /\ ~busy \/ reserved => InnerTerminal
    /\ stack # <<>> => busy \/ session.terminal
    /\ stack # <<>> /\ session.terminal => Base \in {"X_Handle", "X_Cancel", "Z_abort"}
    /\ stack # <<>> \/ reserved => outer \in {"executing", "canceling"}

\* One FollowPath at a time, and none where the next may be sent.
Follows ==
    /\ \A f, h \in OwnedFollows : f = h
    /\ Base \in PlanBases \cup RetryBases => OwnedFollows = {}
    /\ Base \in FollowSends => OwnedFollows \subseteq {Latest}
    /\ Base \in FollowSends /\ Top = "D_Start" => OwnedFollows = {}
    /\ Base \in FollowBases => OwnedFollows \subseteq {session.follow}
    /\ Base = "W_Ret" /\ rv = "candidate" => OwnedFollows = {}
    /\ Top = "W_Replace" /\ rv = "true" => Result(session.follow) = "canceled"
    /\ Base \in {"G_Guard", "Z_succeed"} => OwnedFollows = {}

\* execute goes on to succeed only over a FollowPath that did.
Reached ==
    \/ StationaryCompletion /\ Latest = 0
    \/ session.follow \in Goals /\ goal[session.follow].server = "succeeded"
Evidence ==
    /\ Base \in {"E_Init", "E_Start"} => Latest = 0
    /\ Base \in {"G_Guard", "Z_succeed"} => Reached
    /\ outer = "succeeded" /\ ~reserved => Reached
    /\ Base = "W_Ret" /\ rv = "OUTER_SUCCEEDED" => Result(session.follow) = "succeeded"

\* The replan failures stay within their limit.
CountedBases ==
    (FollowBases \ {"F_StopCancel", "F_Stop", "V_Active", "V_Kept", "V_Unsafe"})
        \cup RetryBases \cup {"S_RetrySent"}
Counted ==
    /\ Base \in CountedBases => session.failures <= MaxReplanFailures
    /\ Base = "R_Start" => session.failures < MaxReplanFailures

\* execute is on its way to a canceled outer goal only after a cancel.
CanceledBases ==
    {"Z_cancel", "F_Canceled", "F_StopCancel", "S_Late", "W_Canceled", "W_Stopped", "W_LateCancel"}
Confirms ==
    \/ Top = "I_Canceled" \/ Caller = "I_Canceled"
    \/ Top = "E_PlanDone" /\ rv = "confirmed"
Canceled ==
    /\ session.wake = "CANCEL" => session.cancelRequested
    /\ Base \in CanceledBases => session.cancelRequested
    /\ Base = "W_Ret" /\ rv = "OUTER_CANCELED" => session.cancelRequested
    /\ Confirms => session.cancelRequested

IInv ==
    /\ TypedSlot /\ TypedGoals
    /\ Shape /\ Ledger /\ InFlight /\ Named /\ Held /\ Follows /\ Evidence
    /\ Counted /\ Canceled

-----------------------------------------------------------------------------
(* The coroutine's stack.                                                    *)

\* A sequence with a new head.
LEMMA Pushed ==
    ASSUME NEW S, NEW top \in S, NEW rest \in Seq(S), NEW pushed, pushed = <<top>> \o rest
    PROVE  /\ pushed \in Seq(S) /\ Len(pushed) = Len(rest) + 1
           /\ pushed # <<>> /\ Head(pushed) = top /\ pushed[1] = top
           /\ \A i \in 1 .. Len(rest) : pushed[i + 1] = rest[i]
<1>1. <<top>> \in Seq(S)
  OBVIOUS
<1>2. Len(<<top>>) = 1 /\ <<top>>[1] = top
  OBVIOUS
<1>3. /\ pushed \in Seq(S) /\ Len(pushed) = Len(rest) + 1
      /\ \A i \in 1 .. Len(rest) + 1 : pushed[i] = IF i <= 1 THEN top ELSE rest[i - 1]
  BY <1>1, <1>2, ConcatProperties
<1>4. Len(rest) \in Nat
  BY LenProperties
<1>5. pushed[1] = top /\ \A i \in 1 .. Len(rest) : pushed[i + 1] = rest[i]
  BY <1>3, <1>4
<1>6. pushed # <<>>
  BY <1>3, <1>4, EmptySeq
<1>7. Head(pushed) = pushed[1]
  BY <1>3, <1>6
<1> QED BY <1>3, <1>5, <1>6, <1>7

\* The labels of a stack, by its length.
LEMMA Heads ==
    ASSUME NEW s \in Seq(Labels)
    PROVE  /\ Len(s) \in Nat /\ (s = <<>> <=> Len(s) = 0)
           /\ s # <<>> => Head(s) = s[1]
  BY EmptySeq, LenProperties

\* What each move of the coroutine does to the labels on its stack.
LEMMA GotoMoves ==
    ASSUME Shape, Depth > 0, NEW label \in Labels,
           stack' = <<label>> \o Tail(stack)
    PROVE  /\ stack' \in Seq(Labels) /\ Depth' = Depth /\ stack # <<>> /\ stack' # <<>>
           /\ Top' = label /\ Caller' = Caller
           /\ Base' = IF Depth = 1 THEN label ELSE Base
<1>1. stack \in Seq(Labels) /\ Len(stack) \in 1 .. 3 /\ stack # <<>>
  BY Heads DEF Shape, Depth
<1> DEFINE rest == Tail(stack)
<1>2. /\ rest \in Seq(Labels) /\ Len(rest) = Len(stack) - 1
      /\ \A i \in 1 .. Len(rest) : rest[i] = stack[i + 1]
  BY <1>1, HeadTailProperties
<1>3. stack' = <<label>> \o rest
  OBVIOUS
<1> HIDE DEF rest
<1>4. /\ stack' \in Seq(Labels) /\ Len(stack') = Len(stack)
      /\ stack' # <<>> /\ Head(stack') = label /\ stack'[1] = label
      /\ \A i \in 1 .. Len(rest) : stack'[i + 1] = rest[i]
  BY <1>1, <1>2, <1>3, Pushed
<1>5. \A i \in 1 .. Len(stack) - 1 : stack'[i + 1] = stack[i + 1]
  BY <1>2, <1>4
<1>6. Top' = label /\ Depth' = Depth
  BY <1>4 DEF Top, Depth
<1>7. Caller' = Caller
  BY <1>1, <1>4, <1>5 DEF Caller
<1>8. Base' = IF Depth = 1 THEN label ELSE Base
  <2>1. Base' = stack'[Len(stack)] /\ Base = stack[Len(stack)]
    BY <1>1, <1>4 DEF Base
  <2>2. CASE Len(stack) = 1
    BY <1>4, <2>1, <2>2 DEF Depth
  <2>3. CASE Len(stack) # 1
    <3>1. PICK n \in 1 .. Len(stack) - 1 : n + 1 = Len(stack)
      BY <1>1, <2>3
    <3>2. stack'[n + 1] = stack[n + 1]
      BY <1>5
    <3> QED BY <1>1, <2>1, <2>3, <3>1, <3>2 DEF Depth
  <2> QED BY <2>2, <2>3
<1> QED BY <1>1, <1>4, <1>6, <1>7, <1>8

LEMMA CallMoves ==
    ASSUME Shape, Depth \in {1, 2}, NEW label \in Labels, NEW back \in Labels, Call(label, back)
    PROVE  /\ stack' \in Seq(Labels) /\ Depth' = Depth + 1 /\ stack # <<>> /\ stack' # <<>>
           /\ Top' = label /\ Caller' = back
           /\ Base' = IF Depth = 1 THEN back ELSE Base
           /\ rv' = rv
<1>1. stack \in Seq(Labels) /\ Len(stack) \in 1 .. 2 /\ stack # <<>>
  BY Heads DEF Shape, Depth
<1> DEFINE rest == Tail(stack)
           pair == <<label, back>>
<1>2. /\ rest \in Seq(Labels) /\ Len(rest) = Len(stack) - 1
      /\ \A i \in 1 .. Len(rest) : rest[i] = stack[i + 1]
  BY <1>1, HeadTailProperties
<1>3. pair \in Seq(Labels) /\ Len(pair) = 2 /\ pair[1] = label /\ pair[2] = back
  OBVIOUS
<1>4. stack' = pair \o rest /\ rv' = rv
  BY DEF Call
<1> HIDE DEF rest, pair
<1>5. /\ stack' \in Seq(Labels) /\ Len(stack') = Len(stack) + 1
      /\ \A i \in 1 .. Len(stack) + 1 : stack'[i] = IF i <= 2 THEN pair[i] ELSE rest[i - 2]
  <2>1. /\ stack' \in Seq(Labels) /\ Len(stack') = Len(pair) + Len(rest)
        /\ \A i \in 1 .. Len(pair) + Len(rest) :
              stack'[i] = IF i <= Len(pair) THEN pair[i] ELSE rest[i - Len(pair)]
    BY <1>2, <1>3, <1>4, ConcatProperties
  <2>2. Len(pair) = 2 /\ Len(pair) + Len(rest) = Len(stack) + 1
    BY <1>1, <1>2, <1>3
  <2> QED BY <2>1, <2>2
<1>6. /\ stack' # <<>> /\ Head(stack') = label
      /\ stack'[2] = back /\ (Len(stack) = 2 => stack'[3] = stack[2])
  <2>1. stack' # <<>> /\ Head(stack') = stack'[1]
    BY <1>1, <1>5, Heads
  <2>2. stack'[1] = pair[1] /\ stack'[2] = pair[2]
    BY <1>1, <1>5
  <2>3. Len(stack) = 2 => stack'[3] = rest[3 - 2] /\ rest[1] = stack[1 + 1]
    BY <1>1, <1>2, <1>5
  <2> QED BY <1>3, <2>1, <2>2, <2>3
<1>7. Top' = label /\ Depth' = Depth + 1 /\ Caller' = back
  BY <1>1, <1>5, <1>6 DEF Top, Depth, Caller
<1>8. Base' = IF Depth = 1 THEN back ELSE Base
  <2>1. Base' = stack'[Len(stack) + 1] /\ Base = stack[Len(stack)]
    BY <1>1, <1>5, <1>6 DEF Base
  <2>2. CASE Len(stack) = 1
    BY <1>6, <2>1, <2>2 DEF Depth
  <2>3. CASE Len(stack) = 2
    BY <1>6, <2>1, <2>3 DEF Depth
  <2> QED BY <1>1, <2>2, <2>3
<1> QED BY <1>1, <1>4, <1>5, <1>6, <1>7, <1>8

LEMMA ReturnMoves ==
    ASSUME Shape, Depth \in {2, 3}, NEW value, Return(value)
    PROVE  /\ stack' \in Seq(Labels) /\ Depth' = Depth - 1 /\ stack # <<>> /\ stack' # <<>>
           /\ Top' = Caller /\ Caller' = IF Depth = 2 THEN "none" ELSE Base
           /\ Base' = Base
           /\ rv' = value
<1>1. stack \in Seq(Labels) /\ Len(stack) \in 2 .. 3 /\ stack # <<>>
  BY Heads DEF Shape, Depth
<1>2. stack' = Tail(stack) /\ rv' = value
  BY DEF Return
<1>3. /\ stack' \in Seq(Labels) /\ Len(stack') = Len(stack) - 1
      /\ \A i \in 1 .. Len(stack') : stack'[i] = stack[i + 1]
  BY <1>1, <1>2, HeadTailProperties
<1>4. stack' # <<>> /\ Head(stack') = stack'[1]
  BY <1>1, <1>3, Heads
<1>5. stack'[1] = stack[1 + 1] /\ (Len(stack) = 3 => stack'[2] = stack[2 + 1])
  BY <1>1, <1>3
<1>6. Base' = stack'[Len(stack) - 1] /\ Base = stack[Len(stack)]
  BY <1>1, <1>3, <1>4 DEF Base
<1>7. Top' = Caller /\ Depth' = Depth - 1
  BY <1>1, <1>3, <1>4, <1>5 DEF Top, Depth, Caller
<1>8. Base' = Base
  <2>1. CASE Len(stack) = 2
    BY <1>5, <1>6, <2>1
  <2>2. CASE Len(stack) = 3
    BY <1>5, <1>6, <2>2
  <2> QED BY <1>1, <2>1, <2>2
<1>9. Caller' = IF Depth = 2 THEN "none" ELSE Base
  BY <1>1, <1>3, <1>5, <1>6 DEF Caller, Depth
<1> QED BY <1>1, <1>2, <1>3, <1>4, <1>7, <1>8, <1>9

LEMMA OneLabel ==
    ASSUME NEW label \in Labels, stack' = <<label>>
    PROVE  /\ stack' \in Seq(Labels) /\ Depth' = 1 /\ stack' # <<>>
           /\ Top' = label /\ Caller' = "none" /\ Base' = label
<1>1. <<>> \in Seq(Labels) /\ Len(<<>>) = 0
  BY EmptySeq
<1>2. <<label>> = <<label>> \o <<>>
  OBVIOUS
<1>3. /\ stack' \in Seq(Labels) /\ Len(stack') = 1
      /\ stack' # <<>> /\ Head(stack') = label /\ stack'[1] = label
  BY <1>1, <1>2, Pushed
<1> QED BY <1>3 DEF Top, Depth, Caller, Base

\* What the depth says of the labels.
LEMMA Depths ==
    ASSUME Shape
    PROVE  /\ Depth \in 0 .. 3
           /\ Depth = 0 <=> stack = <<>>
           /\ Depth = 0 => Top = "idle" /\ Base = "idle"
           /\ Depth \in {0, 1} => Top = Base /\ Caller = "none"
           /\ Depth = 2 => Caller = Base
<1>1. /\ Len(stack) \in 0 .. 3 /\ (stack = <<>> <=> Len(stack) = 0)
      /\ stack # <<>> => Head(stack) = stack[1]
  BY Heads DEF Shape, Depth
<1>2. stack = <<>> => Top = "idle" /\ Base = "idle"
  BY DEF Top, Base
<1>3. stack # <<>> => Top = stack[1] /\ Base = stack[Len(stack)]
  BY <1>1 DEF Top, Base
<1>4. Caller = IF Len(stack) < 2 THEN "none" ELSE stack[2]
  BY DEF Caller
<1>5. Len(stack) = 0 => Caller = "none" /\ Top = "idle" /\ Base = "idle"
  BY <1>1, <1>2, <1>4
<1>6. Len(stack) = 1 => Top = Base /\ Caller = "none"
  BY <1>1, <1>3, <1>4
<1>7. Len(stack) = 2 => Caller = Base
  BY <1>1, <1>3, <1>4
<1> QED BY <1>1, <1>5, <1>6, <1>7 DEF Depth

\* Where the coroutine is, by the label on top.
LEMMA AtBase ==
    ASSUME Shape, Top \in Bases
    PROVE  Depth = 1 /\ Base = Top /\ Caller = "none"
<1>1. Depth # 0
  BY Depths DEF Bases, FollowBases, PlanBases, RetryBases, FollowSends, EndBases
<1>2. Top \notin SendLabels \cup WaitLabels \cup AwaitLabels \cup CancelLabels
  BY DEF Bases, FollowBases, PlanBases, RetryBases, FollowSends, EndBases,
         SendLabels, WaitLabels, AwaitLabels, CancelLabels
<1> QED BY <1>1, <1>2, Depths DEF Shape, Fits

LEMMA AtHelper ==
    ASSUME Shape, Top \in SendLabels \cup WaitLabels \cup AwaitLabels
    PROVE  Depth = 2 /\ Caller = Base /\ Fits(Top, Base)
<1>1. Depth # 0
  BY Depths DEF SendLabels, WaitLabels, AwaitLabels
<1>2. Top \notin Bases \cup CancelLabels
  BY DEF Bases, FollowBases, PlanBases, RetryBases, FollowSends, EndBases,
         SendLabels, WaitLabels, AwaitLabels, CancelLabels
<1> QED BY <1>1, <1>2, Depths DEF Shape

LEMMA AtCancel ==
    ASSUME Shape, Top \in CancelLabels
    PROVE  \/ Depth = 2 /\ Caller = Base /\ Base \in CancelBacks
           \/ Depth = 3 /\ FitsInner(Caller, Base)
<1>1. Depth # 0
  BY Depths DEF CancelLabels
<1>2. Top \notin Bases \cup SendLabels \cup WaitLabels \cup AwaitLabels
  BY DEF Bases, FollowBases, PlanBases, RetryBases, FollowSends, EndBases,
         SendLabels, WaitLabels, AwaitLabels, CancelLabels
<1> QED BY <1>1, <1>2, Depths DEF Shape, Fits

\* Execute goes on, or calls a helper.
LEMMA BaseGoto ==
    ASSUME Shape, Top \in Bases, NEW label \in Bases, Goto(label)
    PROVE  /\ Shape' /\ stack # <<>> /\ stack' # <<>>
           /\ Top' = label /\ Base' = label /\ Caller' = "none" /\ rv' = rv
<1>1. label \in Labels
  BY DEF Labels
<1>2. Depth = 1 /\ Caller = "none" /\ Base = Top
  BY AtBase
<1> QED BY <1>1, <1>2, GotoMoves DEF Shape, Goto

LEMMA BaseCall ==
    ASSUME Shape, Top \in Bases, NEW label, NEW back, Fits(label, back), Call(label, back)
    PROVE  /\ Shape' /\ stack # <<>> /\ stack' # <<>>
           /\ Top' = label /\ Base' = back /\ Caller' = back /\ rv' = rv
<1>1. label \in Labels /\ back \in Labels
  BY DEF Labels, Fits, SendBacks, WaitBacks, AwaitBacks, CancelBacks,
         Bases, FollowBases, PlanBases, RetryBases, FollowSends, EndBases
<1>2. Depth = 1 /\ Caller = "none" /\ Base = Top
  BY AtBase
<1> QED BY <1>1, <1>2, CallMoves DEF Shape

LEMMA BaseReturns ==
    ASSUME Shape, Top \in Bases, NEW value, WhileReturn(value)
    PROVE  /\ Shape' /\ stack # <<>> /\ stack' # <<>>
           /\ Top' = "W_Ret" /\ Base' = "W_Ret" /\ Caller' = "none" /\ rv' = value
<1>1. Depth = 1 /\ stack # <<>>
  BY AtBase, Depths
<1>2. "W_Ret" \in Bases /\ "W_Ret" \in Labels
  BY DEF Bases, FollowBases, Labels
<1>3. stack' = <<"W_Ret">> \o Tail(stack) /\ rv' = value
  BY DEF WhileReturn
<1> QED BY <1>1, <1>2, <1>3, AtBase, GotoMoves DEF Shape

LEMMA Raises ==
    ASSUME Shape, Raise
    PROVE  /\ Shape' /\ stack' # <<>>
           /\ Top' = "X_Handle" /\ Base' = "X_Handle" /\ Caller' = "none" /\ rv' = rv
<1>1. "X_Handle" \in Bases /\ "X_Handle" \in Labels
  BY DEF Bases, EndBases, Labels
<1>2. stack' = <<"X_Handle">> /\ rv' = rv
  BY DEF Raise
<1> QED BY <1>1, <1>2, OneLabel DEF Shape

\* A helper goes on, calls _cancel_and_confirm, or returns.
Same(from, to) ==
    \E helper \in {SendLabels, WaitLabels, AwaitLabels, CancelLabels} :
        from \in helper /\ to \in helper

LEMMA HelperGoto ==
    ASSUME Shape, NEW label, Same(Top, label), Goto(label)
    PROVE  /\ Shape' /\ stack # <<>> /\ stack' # <<>>
           /\ Top' = label /\ Base' = Base /\ Caller' = Caller /\ rv' = rv
<1>1. label \in Labels
  BY DEF Labels, Same
<1>2. CASE Top \in SendLabels \cup WaitLabels \cup AwaitLabels
  <2>1. Depth = 2 /\ Fits(Top, Base)
    BY <1>2, AtHelper
  <2>2. Fits(label, Base)
    <3>1. Top \in SendLabels => label \in SendLabels
      BY DEF Same, SendLabels, WaitLabels, AwaitLabels, CancelLabels
    <3>2. Top \in WaitLabels => label \in WaitLabels
      BY DEF Same, SendLabels, WaitLabels, AwaitLabels, CancelLabels
    <3>3. Top \in AwaitLabels => label \in AwaitLabels
      BY DEF Same, SendLabels, WaitLabels, AwaitLabels, CancelLabels
    <3>4. Top \notin CancelLabels
      BY <1>2 DEF Same, SendLabels, WaitLabels, AwaitLabels, CancelLabels
    <3> QED BY <2>1, <3>1, <3>2, <3>3, <3>4 DEF Fits
  <2> QED BY <1>1, <2>1, <2>2, GotoMoves DEF Shape, Goto
<1>3. CASE Top \in CancelLabels
  <2>1. label \in CancelLabels
    BY <1>3 DEF Same, SendLabels, WaitLabels, AwaitLabels, CancelLabels
  <2>2. \/ Depth = 2 /\ Caller = Base /\ Base \in CancelBacks
        \/ Depth = 3 /\ FitsInner(Caller, Base)
    BY <1>3, AtCancel
  <2> QED BY <1>1, <2>1, <2>2, GotoMoves DEF Shape, Goto, Fits
<1> QED BY <1>2, <1>3 DEF Same

LEMMA HelperCall ==
    ASSUME Shape, Top \in SendLabels \cup WaitLabels \cup AwaitLabels,
           NEW label \in CancelLabels, NEW back, FitsInner(back, Base), Call(label, back)
    PROVE  /\ Shape' /\ stack # <<>> /\ stack' # <<>>
           /\ Top' = label /\ Base' = Base /\ Caller' = back /\ rv' = rv
<1>1. label \in Labels /\ back \in Labels
  BY DEF Labels, FitsInner, SendLabels, WaitLabels, AwaitLabels
<1>2. Depth = 2
  BY AtHelper
<1> QED BY <1>1, <1>2, CallMoves DEF Shape

LEMMA HelperReturn ==
    ASSUME Shape, NEW value, Return(value),
           Top \in SendLabels \cup WaitLabels \cup AwaitLabels \cup CancelLabels
    PROVE  /\ Shape' /\ stack # <<>> /\ stack' # <<>>
           /\ Top' = Caller /\ Base' = Base /\ rv' = value
           /\ Caller' = IF Caller = Base THEN "none" ELSE Base
<1>1. SendBacks \cup WaitBacks \cup AwaitBacks \cup CancelBacks \subseteq Bases
  BY DEF SendBacks, WaitBacks, AwaitBacks, CancelBacks,
         Bases, FollowBases, PlanBases, RetryBases, FollowSends, EndBases
<1>2. CASE Depth = 2 /\ Fits(Top, Base) /\ Caller = Base
  <2>1. Base \in Bases
    BY <1>1, <1>2 DEF Fits
  <2> QED BY <1>2, <2>1, ReturnMoves DEF Shape
<1>3. CASE Depth = 3 /\ FitsInner(Caller, Base)
  <2>1. Fits(Caller, Base) /\ Caller # Base
    BY <1>3 DEF Fits, FitsInner, SendLabels, WaitLabels, AwaitLabels, SendBacks, WaitBacks,
                AwaitBacks
  <2> QED BY <1>3, <2>1, ReturnMoves DEF Shape
<1> QED BY <1>2, <1>3, AtHelper, AtCancel DEF Fits

-----------------------------------------------------------------------------
(* The goals of the session.                                                 *)

\* The number of goals that were sent, when they are numbered as sent.
LEMMA Count ==
    ASSUME NEW gs, NEW n \in 0 .. MaxGoals,
           \A g \in Goals : gs[g].kind # "none" <=> g <= n
    PROVE  Cardinality({g \in Goals : gs[g].kind # "none"}) = n
<1>1. {g \in Goals : gs[g].kind # "none"} = 1 .. n
  BY DEF Goals
<1>2. Cardinality(1 .. n) = IF 1 > n THEN 0 ELSE n - 1 + 1
  BY FS_Interval
<1> QED BY <1>1, <1>2

LEMMA LatestType == Latest \in 0 .. MaxGoals
<1>1. IsFiniteSet(Goals) /\ Cardinality(Goals) = MaxGoals
  BY FS_Interval DEF Goals
<1>2. {g \in Goals : goal[g].kind # "none"} \subseteq Goals
  OBVIOUS
<1> QED BY <1>1, <1>2, FS_Subset, FS_CardinalityType DEF Latest

\* A step that sends no goal and tracks none: the server only goes on with
\* the goals it has, and a result is asked for only of a tracked one.
Quiet ==
    /\ goal' \in [Goals -> GoalType]
    /\ \A g \in Goals :
        /\ goal'[g].kind = goal[g].kind /\ goal'[g].tracked = goal[g].tracked
        /\ goal[g].server \notin Owned => goal'[g].server = goal[g].server
        /\ goal[g].result \in Terminal => goal'[g].result = goal[g].result
        /\ goal'[g].result \in Terminal /\ goal'[g].result # goal[g].result
             => goal'[g].server = goal'[g].result
        /\ goal'[g].result # "none" => goal[g].result # "none" \/ goal[g].tracked

LEMMA Disjoint ==
    /\ \A s \in Terminal : s \notin Owned /\ s # "none" /\ s # "error" /\ s # "requested"
    /\ "none" \notin Owned /\ "rejected" \notin Owned
    /\ "none" \notin Terminal /\ "rejected" \notin Terminal
  BY DEF Terminal, Owned, Live

LEMMA QuietGoals ==
    ASSUME Ledger, Quiet, sending' = sending, session'.unverified = session.unverified
    PROVE  /\ Ledger' /\ Latest' = Latest
           /\ OwnedFollows' \subseteq OwnedFollows /\ ActiveInner' \subseteq ActiveInner
           /\ InnerTerminal => InnerTerminal'
           /\ \A g : Tracked(g)' <=> Tracked(g)
           /\ \A g \in Goals : goal[g].server = "succeeded" => goal'[g].server = "succeeded"
           /\ \A g \in Goals : goal[g].result \in Terminal => goal'[g].result = goal[g].result
<1>1. Latest' = Latest
  BY DEF Quiet, Latest
<1>2. OwnedFollows' \subseteq OwnedFollows
  BY DEF Quiet, OwnedFollows
<1>3. ActiveInner' \subseteq ActiveInner
  BY DEF Quiet, ActiveInner
<1>4. InnerTerminal => InnerTerminal'
  BY <1>3 DEF InnerTerminal, InnerTerminalOf
<1>5. \A g : Tracked(g)' <=> Tracked(g)
  BY DEF Quiet, Tracked
<1>6. \A g \in Goals : goal[g].server = "succeeded" => goal'[g].server = "succeeded"
  BY DEF Quiet, Owned, Live
<1>7. Ledger'
  <2> SUFFICES ASSUME NEW g \in Goals
               PROVE  /\ goal'[g].kind # "none" <=> g <= Latest'
                      /\ goal'[g].kind = "none" => goal'[g].server = "none" /\ ~goal'[g].tracked
                      /\ goal'[g].result \in Terminal => goal'[g].server = goal'[g].result
                      /\ goal'[g].result # "none" => goal'[g].tracked
                      /\ goal'[g].server \in Owned
                           => goal'[g].tracked \/ sending' = g \/ session'.unverified
    BY DEF Ledger
  <2>1. /\ goal'[g].kind = goal[g].kind /\ goal'[g].tracked = goal[g].tracked
        /\ goal[g].server \notin Owned => goal'[g].server = goal[g].server
        /\ goal[g].result \in Terminal => goal'[g].result = goal[g].result
        /\ goal'[g].result \in Terminal /\ goal'[g].result # goal[g].result
             => goal'[g].server = goal'[g].result
        /\ goal'[g].result # "none" => goal[g].result # "none" \/ goal[g].tracked
    BY DEF Quiet
  <2>2. /\ goal[g].kind # "none" <=> g <= Latest
        /\ goal[g].kind = "none" => goal[g].server = "none" /\ ~goal[g].tracked
        /\ goal[g].result \in Terminal => goal[g].server = goal[g].result
        /\ goal[g].result # "none" => goal[g].tracked
        /\ goal[g].server \in Owned => goal[g].tracked \/ sending = g \/ session.unverified
    BY DEF Ledger
  <2>3. goal'[g].kind # "none" <=> g <= Latest'
    BY <1>1, <2>1, <2>2
  <2>4. goal'[g].kind = "none" => goal'[g].server = "none" /\ ~goal'[g].tracked
    BY <2>1, <2>2, Disjoint
  <2>5. goal'[g].result \in Terminal => goal'[g].server = goal'[g].result
    BY <2>1, <2>2, Disjoint
  <2>6. goal'[g].result # "none" => goal'[g].tracked
    BY <2>1, <2>2
  <2>7. goal'[g].server \in Owned => goal'[g].tracked \/ sending' = g \/ session'.unverified
    BY <2>1, <2>2
  <2> QED BY <2>3, <2>4, <2>5, <2>6, <2>7
<1> QED BY <1>1, <1>2, <1>3, <1>4, <1>5, <1>6, <1>7 DEF Quiet

LEMMA SameGoals == goal \in [Goals -> GoalType] /\ goal' = goal => Quiet
  BY DEF Quiet

-----------------------------------------------------------------------------
(* The callbacks.                                                            *)

\* What of the session every callback leaves alone.
Steady ==
    /\ session' \in SessionType
    /\ session'.planner = session.planner /\ session'.follow = session.follow
    /\ session'.unverified = session.unverified /\ session'.terminal = session.terminal
    /\ session'.failures = session.failures
    /\ session.cancelRequested => session'.cancelRequested
    /\ session'.wake = "CANCEL" => session'.cancelRequested

LEMMA SameSession == IInv /\ session' = session => Steady
  BY DEF IInv, TypedGoals, Canceled, Steady

LEMMA SameStack == stack' = stack =>
    Depth' = Depth /\ Top' = Top /\ Caller' = Caller /\ Base' = Base /\ (Shape => Shape')
  BY DEF Depth, Top, Caller, Base, Shape, Fits, FitsInner

\* Where the coroutine is suspended, what it knows stays true.
LEMMA Suspended ==
    ASSUME IInv, Quiet, Steady, UNCHANGED <<stack, rv, victim, sending>>,
           \A g \in Goals : goal[g].result = "none" => goal'[g].result = "none"
    PROVE  /\ Shape' /\ Ledger' /\ Named' /\ Follows' /\ Counted' /\ Canceled'
           /\ Latest' = Latest /\ (Reached => Reached') /\ (InnerTerminal => InnerTerminal')
           /\ UNCHANGED <<Top, Caller, Base>>
<1>1. /\ TypedGoals /\ Shape /\ Ledger /\ Named /\ Follows /\ Counted
  BY DEF IInv
<1>2. UNCHANGED <<Depth, Top, Caller, Base, rv, victim, sending>> /\ Shape'
  BY <1>1, SameStack
<1>3. /\ Ledger' /\ Latest' = Latest
      /\ OwnedFollows' \subseteq OwnedFollows
      /\ \A g : Tracked(g)' <=> Tracked(g)
      /\ \A g \in Goals : goal[g].server = "succeeded" => goal'[g].server = "succeeded"
      /\ \A g \in Goals : goal[g].result \in Terminal => goal'[g].result = goal[g].result
  BY <1>1, QuietGoals DEF Steady
<1>4. InnerTerminal => InnerTerminal'
  BY <1>1, QuietGoals DEF Steady
<1>5. Reached => Reached'
  BY <1>3 DEF Reached, Steady
<1>6. Named'
  BY <1>1, <1>2, <1>3 DEF Named, Steady, Tracked, WaitLabels
<1>7. Follows'
  <2>1. \A f, h \in OwnedFollows' : f = h
    BY <1>1, <1>3 DEF Follows
  <2>2. Top = "W_Replace" => session.follow \in Goals
    <3>1. "W_Replace" \in Bases /\ "W_Replace" \in FollowBases
      BY DEF Bases, FollowBases
    <3> QED BY <1>1, <3>1, AtBase DEF Named, Tracked
  <2>3. Top' = "W_Replace" /\ rv' = "true" => Result(session.follow)' = "canceled"
    BY <1>1, <1>2, <1>3, <2>2 DEF Follows, Result, Steady, Terminal
  <2> QED BY <1>1, <1>2, <1>3, <2>1, <2>3 DEF Follows, Steady
<1>8. Counted'
  BY <1>1, <1>2 DEF Counted, Steady
<1>9. Canceled'
  BY <1>2 DEF IInv, Canceled, Confirms, Steady
<1> QED BY <1>2, <1>3, <1>4, <1>5, <1>6, <1>7, <1>8, <1>9

\* A callback that leaves the slot alone.
LEMMA SuspendedSlot ==
    ASSUME IInv, Quiet, Steady, UNCHANGED <<stack, rv, victim, sending>>,
           \A g \in Goals : goal[g].result = "none" => goal'[g].result = "none",
           UNCHANGED <<busy, reserved, outer>>
    PROVE  Held' /\ Evidence'
<1>1. /\ Latest' = Latest /\ (Reached => Reached') /\ (InnerTerminal => InnerTerminal')
      /\ UNCHANGED <<Top, Caller, Base>>
  BY Suspended
<1>2. Held'
  BY <1>1 DEF IInv, Held, Steady
<1>3. Base = "W_Ret" /\ rv = "OUTER_SUCCEEDED" => Result(session.follow)' = "succeeded"
  <2>1. Base = "W_Ret" => session.follow \in Goals
    BY DEF IInv, Named, Tracked, FollowBases
  <2>2. \A g \in Goals : goal[g].result \in Terminal => goal'[g].result = goal[g].result
    BY DEF Quiet
  <2>3. Base = "W_Ret" /\ rv = "OUTER_SUCCEEDED" => goal[session.follow].result = "succeeded"
    BY DEF IInv, Evidence, Result
  <2> QED BY <2>1, <2>2, <2>3 DEF Result, Steady, Terminal
<1>4. Evidence'
  BY <1>1, <1>3 DEF IInv, Evidence
<1> QED BY <1>2, <1>4

\* A callback that leaves the awaited replies alone.
LEMMA SuspendedReplies ==
    ASSUME IInv, Quiet, Steady, UNCHANGED <<stack, rv, victim, sending>>,
           \A g \in Goals : goal[g].result = "none" => goal'[g].result = "none",
           reply' = reply, cancelCall' # "none" <=> cancelCall # "none"
    PROVE  InFlight'
<1>1. Latest' = Latest /\ UNCHANGED <<Top, Caller, Base>>
  BY Suspended
<1>2. sending # NoGoal => sending \in Goals
  BY Bounds DEF IInv, TypedGoals, Goals, NoGoal
<1>3. /\ sending # NoGoal => ~goal'[sending].tracked
      /\ reply = "rejected" => goal'[sending].server = "rejected"
  BY <1>2, Disjoint DEF IInv, InFlight, Quiet
<1> QED BY <1>1, <1>3 DEF IInv, InFlight


LEMMA WokenType ==
    \A w \in {"none", "armed"} \cup Reasons, r \in Reasons :
        /\ Woken(w, r) \in {"none", "armed"} \cup Reasons
        /\ Woken(w, r) = "CANCEL" => w = "CANCEL" \/ r = "CANCEL"
  BY DEF Woken

\* The outer clients, the timer and the boundary watch.
LEMMA ClientSteps ==
    ASSUME IInv, AcceptGoal \/ OuterCancel \/ BoundaryLost \/ RequestReplan, yielded' = yielded
    PROVE  IInv'
<1>1. TypedSlot /\ TypedGoals
  BY DEF IInv
<1>2. UNCHANGED <<stack, rv, victim, attempted, goal, sending, reply, cancelCall, faults>>
  BY DEF AcceptGoal, OuterCancel, BoundaryLost, RequestReplan, control, locals, transport
<1>3. Quiet /\ \A g \in Goals : goal[g].result = "none" => goal'[g].result = "none"
  BY <1>1, <1>2, SameGoals DEF TypedGoals
<1>4. Steady
  <2>1. /\ session \in SessionType /\ session.wake \in {"none", "armed"} \cup Reasons
        /\ session.wake = "CANCEL" => session.cancelRequested
    BY <1>1 DEF TypedGoals, SessionType, IInv, Canceled
  <2>2. CASE UNCHANGED session
    BY <2>1, <2>2, SameSession
  <2>3. CASE WakeCancel
    <3>1. Woken(session.wake, "CANCEL") \in {"none", "armed"} \cup Reasons
      BY <2>1, WokenType DEF Reasons
    <3> QED BY <2>1, <2>3, <3>1 DEF WakeCancel, Steady, SessionType
  <2>4. CASE RequestReplan
    <3>1. /\ Woken(session.wake, "REPLAN") \in {"none", "armed"} \cup Reasons
          /\ Woken(session.wake, "REPLAN") = "CANCEL" => session.cancelRequested
      BY <2>1, WokenType DEF Reasons
    <3> QED BY <2>1, <2>4, <3>1 DEF RequestReplan, Steady, SessionType
  <2> QED BY <2>2, <2>3, <2>4 DEF AcceptGoal, OuterCancel, BoundaryLost
<1>5. /\ Shape' /\ Ledger' /\ Named' /\ Follows' /\ Counted' /\ Canceled'
      /\ Latest' = Latest /\ (Reached => Reached') /\ (InnerTerminal => InnerTerminal')
      /\ UNCHANGED <<Top, Caller, Base>>
  BY <1>2, <1>3, <1>4, Suspended
<1>6. InFlight'
  BY <1>2, <1>3, <1>4, SuspendedReplies
<1>7. TypedGoals'
  BY <1>1, <1>2, <1>4 DEF TypedGoals, Steady
<1>8. TypedSlot' /\ Held' /\ Evidence'
  <2>1. CASE AcceptGoal
    <3>1. /\ busy' = TRUE /\ reserved' = TRUE /\ outer' = "executing" /\ polygon' \in BOOLEAN
          /\ pendingCancel' = pendingCancel /\ ~busy /\ stack = <<>>
      BY <2>1 DEF AcceptGoal
    <3>2. TypedSlot'
      BY <1>1, <3>1 DEF TypedSlot
    <3>3. Held'
      BY <1>2, <1>5, <3>1 DEF IInv, Held
    <3>4. Base = "idle"
      BY <3>1 DEF Base
    <3>5. Evidence'
      BY <1>5, <3>1, <3>4 DEF Evidence
    <3> QED BY <3>2, <3>3, <3>5
  <2>2. CASE OuterCancel
    <3>1. /\ UNCHANGED <<busy, reserved, polygon>> /\ outer = "executing" /\ outer' = "canceling"
          /\ pendingCancel' \in BOOLEAN
      BY <1>1, <2>2 DEF OuterCancel, TypedSlot
    <3>2. TypedSlot'
      BY <1>1, <3>1 DEF TypedSlot
    <3>3. Held'
      BY <1>2, <1>4, <1>5, <3>1 DEF IInv, Held, Steady
    <3>4. Evidence'
      <4>1. Base = "W_Ret" /\ rv = "OUTER_SUCCEEDED" => Result(session.follow)' = "succeeded"
        BY <1>2, <1>4 DEF IInv, Evidence, Result, Steady
      <4> QED BY <1>2, <1>5, <3>1, <4>1 DEF IInv, Evidence
    <3> QED BY <3>2, <3>3, <3>4
  <2>3. CASE UNCHANGED slot
    <3>1. UNCHANGED <<busy, reserved, pendingCancel, outer, polygon>>
      BY <2>3 DEF slot
    <3> QED BY <1>1, <1>2, <1>3, <1>4, <3>1, SuspendedSlot DEF TypedSlot
  <2> QED BY <2>1, <2>2, <2>3 DEF BoundaryLost, RequestReplan
<1> QED BY <1>5, <1>6, <1>7, <1>8 DEF IInv

\* execute starts with a new session and no goals.
LEMMA ExecuteKeeps ==
    ASSUME IInv, Execute, yielded' = yielded
    PROVE  IInv'
<1>1. /\ TypedSlot /\ TypedGoals /\ reserved /\ stack = <<>> /\ InnerTerminal /\ busy
      /\ outer \in {"executing", "canceling"}
  BY DEF IInv, Execute, Held
<1>2. /\ reserved' = FALSE /\ pendingCancel' = FALSE /\ session' = NewSession(pendingCancel)
      /\ stack' = <<"E_Init">> /\ rv' = "none" /\ victim' = NoGoal /\ attempted' = {}
      /\ goal' = [g \in Goals |-> Unused] /\ faults' = 0
      /\ UNCHANGED <<busy, outer, polygon, sending, reply, cancelCall>>
  BY DEF Execute
<1>3. "E_Init" \in Labels /\ "E_Init" \in Bases /\ "E_Init" \in PlanBases
  BY DEF Labels, Bases, PlanBases
<1>4. /\ Shape' /\ stack' # <<>> /\ Top' = "E_Init" /\ Caller' = "none" /\ Base' = "E_Init"
  BY <1>2, <1>3, OneLabel DEF Shape
<1>5. sending = NoGoal /\ reply = "none" /\ cancelCall = "none"
  <2>1. sending = NoGoal
    BY <1>1 DEF InnerTerminal, InnerTerminalOf
  <2>2. Top = "idle"
    BY <1>1 DEF Top
  <2> QED BY <2>1, <2>2 DEF IInv, InFlight
<1>6. \A g \in Goals : goal'[g] = Unused
  BY <1>2
<1>7. Unused \in GoalType
  BY DEF Unused, GoalType, ServerStates, ResultStates
<1>8. /\ session' \in SessionType /\ session'.unverified = FALSE /\ session'.terminal = FALSE
      /\ session'.failures = 0
  BY <1>1, <1>2 DEF NewSession, SessionType, TypedSlot, NoGoal
<1>9. TypedGoals'
  <2>1. goal' \in [Goals -> GoalType]
    BY <1>2, <1>7
  <2> QED BY <1>1, <1>2, <1>8, <2>1 DEF TypedGoals, NoGoal
<1>10. TypedSlot'
  BY <1>1, <1>2 DEF TypedSlot
<1>11. Latest' = 0
  <2>1. \A g \in Goals : goal'[g].kind # "none" <=> g <= 0
    BY <1>6 DEF Unused, Goals
  <2> QED BY <2>1, Count DEF Latest
<1>12. Ledger'
  BY <1>6, <1>11, Disjoint DEF Ledger, Unused, Goals
<1>13. OwnedFollows' = {} /\ ActiveInner' = {}
  BY <1>6, Disjoint DEF OwnedFollows, ActiveInner, Unused
<1>14. InFlight'
  BY <1>2, <1>4, <1>5 DEF InFlight
<1>15. Named'
  BY <1>2, <1>4 DEF Named, SendBacks, FollowSends, WaitLabels, CancelLabels, FollowBases
<1>16. Held'
  BY <1>1, <1>2, <1>4, <1>8 DEF Held
<1>17. Follows'
  BY <1>4, <1>13 DEF Follows, FollowSends, FollowBases
<1>18. Evidence'
  BY <1>1, <1>2, <1>4, <1>11 DEF Evidence
<1>19. Counted'
  BY <1>4, <1>8 DEF Counted, CountedBases, FollowBases, RetryBases
<1>20. Canceled'
  BY <1>2, <1>4 DEF Canceled, Confirms, CanceledBases, NewSession
<1> QED BY <1>4, <1>9, <1>10, <1>12, <1>14, <1>15, <1>16, <1>17, <1>18, <1>19, <1>20 DEF IInv

\* The reply to a goal request.
LEMMA ReplyKeeps ==
    ASSUME IInv, ReplyArrives, yielded' = yielded
    PROVE  IInv'
<1>1. TypedSlot /\ TypedGoals
  BY DEF IInv
<1>2. /\ UNCHANGED <<busy, reserved, pendingCancel, outer, polygon>>
      /\ UNCHANGED <<stack, rv, victim, attempted, goal, sending, cancelCall>>
      /\ sending # NoGoal /\ faults' \in 0 .. MaxFaults
      /\ reply' \in {"accepted", "rejected", "nohandle", "error"}
      /\ reply' = "rejected" => goal[sending].server = "rejected"
  BY <1>1 DEF ReplyArrives, slot, control, locals, TypedGoals
<1>3. Quiet /\ \A g \in Goals : goal[g].result = "none" => goal'[g].result = "none"
  BY <1>1, <1>2, SameGoals DEF TypedGoals
<1>4. Steady
  <2>1. /\ session \in SessionType /\ session.wake \in {"none", "armed"} \cup Reasons
        /\ session.wake = "CANCEL" => session.cancelRequested
    BY <1>1 DEF TypedGoals, SessionType, IInv, Canceled
  <2>2. (Woken(session.wake, "RESULT") \in {"none", "armed"} \cup Reasons)
          /\ (Woken(session.wake, "RESULT") = "CANCEL" => session.cancelRequested)
    BY <2>1, WokenType DEF Reasons
  <2> QED BY <2>1, <2>2 DEF ReplyArrives, Steady, SessionType
<1>5. /\ Shape' /\ Ledger' /\ Named' /\ Follows' /\ Counted' /\ Canceled'
      /\ Latest' = Latest /\ UNCHANGED <<Top, Caller, Base>>
  BY <1>2, <1>3, <1>4, Suspended
<1>6. Held' /\ Evidence'
  BY <1>2, <1>3, <1>4, SuspendedSlot
<1>7. InFlight'
  BY <1>2, <1>5 DEF IInv, InFlight
<1>8. TypedSlot' /\ TypedGoals'
  BY <1>1, <1>2, <1>4 DEF TypedSlot, TypedGoals, Steady
<1> QED BY <1>5, <1>6, <1>7, <1>8 DEF IInv

\* A result frees the slot of an ended session when it was the last one.
LEMMA ResultKeeps ==
    ASSUME IInv, NEW g \in Goals, ResultArrives(g), yielded' = yielded
    PROVE  IInv'
<1>1. TypedSlot /\ TypedGoals
  BY DEF IInv
<1> DEFINE rest == InnerTerminalOf(session.unverified, sending, ActiveInner \ {g})
<1>2. /\ UNCHANGED <<reserved, pendingCancel, outer, polygon>>
      /\ UNCHANGED <<stack, rv, victim, attempted, sending, reply, cancelCall, faults>>
      /\ goal[g].result = "requested" /\ goal[g].server \in Terminal
      /\ goal' = [goal EXCEPT ![g].result = goal[g].server]
      /\ busy' = SlotAfter(rest)
  BY DEF ResultArrives, control, locals
<1>3. \A h \in Goals : h # g => goal'[h] = goal[h]
  BY <1>1, <1>2 DEF TypedGoals
<1>4. /\ goal'[g] \in GoalType /\ goal'[g].result = goal[g].server
      /\ goal'[g].kind = goal[g].kind /\ goal'[g].tracked = goal[g].tracked
      /\ goal'[g].server = goal[g].server
  BY <1>1, <1>2 DEF TypedGoals, GoalType, ResultStates
<1>5. Quiet
  <2>1. goal' \in [Goals -> GoalType]
    BY <1>1, <1>2, <1>4 DEF TypedGoals
  <2> QED BY <1>2, <1>3, <1>4, <2>1, Disjoint DEF Quiet
<1>6. \A h \in Goals : goal[h].result = "none" => goal'[h].result = "none"
  BY <1>2, <1>3
<1>7. Steady
  <2>1. /\ session \in SessionType /\ session.wake \in {"none", "armed"} \cup Reasons
        /\ session.wake = "CANCEL" => session.cancelRequested
    BY <1>1 DEF TypedGoals, SessionType, IInv, Canceled
  <2>2. (Woken(session.wake, "RESULT") \in {"none", "armed"} \cup Reasons)
          /\ (Woken(session.wake, "RESULT") = "CANCEL" => session.cancelRequested)
    BY <2>1, WokenType DEF Reasons
  <2> QED BY <2>1, <2>2 DEF ResultArrives, Steady, SessionType
<1>8. /\ Shape' /\ Ledger' /\ Named' /\ Follows' /\ Counted' /\ Canceled'
      /\ Latest' = Latest /\ (Reached => Reached') /\ (InnerTerminal => InnerTerminal')
      /\ UNCHANGED <<Top, Caller, Base>>
  BY <1>2, <1>5, <1>6, <1>7, Suspended
<1>9. InFlight'
  BY <1>2, <1>5, <1>6, <1>7, SuspendedReplies
<1>10. ActiveInner' \subseteq ActiveInner \ {g}
  BY <1>2, <1>3, <1>4 DEF ActiveInner
<1>11. rest => InnerTerminal'
  BY <1>2, <1>7, <1>10 DEF InnerTerminal, InnerTerminalOf, Steady
<1>12. ~InnerTerminal
  BY <1>2, Disjoint DEF IInv, Ledger, InnerTerminal, InnerTerminalOf, ActiveInner
<1>13. ~reserved /\ busy
  BY <1>12 DEF IInv, Held
<1>14. busy' \in BOOLEAN /\ (~busy' => session.terminal /\ InnerTerminal')
  <2> HIDE DEF rest
  <2> QED BY <1>1, <1>2, <1>11, <1>13 DEF SlotAfter, TypedSlot
<1>15. Held'
  BY <1>2, <1>7, <1>8, <1>13, <1>14 DEF IInv, Held, Steady
<1>16. Evidence'
  <2>1. Base = "W_Ret" /\ rv = "OUTER_SUCCEEDED" => Result(session.follow)' = "succeeded"
    <3>1. Base = "W_Ret" => session.follow \in Goals
      BY DEF IInv, Named, Tracked, FollowBases
    <3> QED BY <1>2, <1>3, <1>7, <3>1 DEF IInv, Evidence, Result, Steady
  <2> QED BY <1>2, <1>8, <2>1 DEF IInv, Evidence
<1>17. TypedSlot' /\ TypedGoals'
  BY <1>1, <1>2, <1>5, <1>7, <1>14 DEF TypedSlot, TypedGoals, Quiet, Steady
<1> QED BY <1>8, <1>9, <1>15, <1>16, <1>17 DEF IInv

\* The servers, their cancel answers and a result that is lost.
LEMMA ServerKeeps ==
    ASSUME IInv, yielded' = yielded,
           \/ CancelHandled
           \/ \E g \in Goals : \/ ResultLost(g) \/ ServerDecides(g) \/ ServerEnds(g)
                               \/ ServerCanceledByOther(g) \/ QueuedCancelHandled(g)
    PROVE  IInv'
<1>1. TypedSlot /\ TypedGoals
  BY DEF IInv
<1>2. /\ UNCHANGED <<busy, reserved, pendingCancel, outer, polygon>>
      /\ UNCHANGED <<stack, rv, victim, attempted, sending, reply>>
  BY DEF CancelHandled, ResultLost, ServerDecides, ServerEnds, ServerCanceledByOther,
         QueuedCancelHandled, slot, control, locals
<1>3. /\ Quiet /\ \A g \in Goals : goal[g].result = "none" => goal'[g].result = "none"
      /\ faults' \in 0 .. MaxFaults
      /\ cancelCall' \in {"none", "sent", "accepted", "refused", "error"}
      /\ cancelCall' # "none" <=> cancelCall # "none"
  <2>1. CASE CancelHandled
    <3>1. victim \in Goals
      <4>1. Top \in CancelLabels
        BY <2>1 DEF CancelHandled, IInv, InFlight, CancelLabels
      <4> QED BY <4>1 DEF IInv, Named, Tracked
    <3>2. \/ goal' = goal
          \/ goal[victim].server = "running" /\ goal' = [goal EXCEPT ![victim].server = "canceling"]
      <4>1. ASSUME NEW s, s = goal[victim].server, goal' = [goal EXCEPT ![victim].server = s]
            PROVE  goal' = goal
        BY <1>1, <3>1, <4>1 DEF TypedGoals, GoalType
      <4> QED BY <2>1, <4>1 DEF CancelHandled
    <3>3. /\ faults' \in 0 .. MaxFaults
          /\ cancelCall = "sent" /\ cancelCall' \in {"accepted", "refused", "error"}
      BY <1>1, <2>1 DEF CancelHandled, TypedGoals
    <3>4. CASE goal' = goal
      BY <1>1, <3>3, <3>4, SameGoals DEF TypedGoals
    <3>5. CASE /\ goal[victim].server = "running"
               /\ goal' = [goal EXCEPT ![victim].server = "canceling"]
      BY <1>1, <3>1, <3>3, <3>5 DEF Quiet, TypedGoals, GoalType, ServerStates, Live, Owned
    <3> QED BY <3>2, <3>4, <3>5
  <2>2. ASSUME NEW g \in Goals, ResultLost(g) \/ ServerDecides(g) \/ ServerEnds(g)
                               \/ ServerCanceledByOther(g) \/ QueuedCancelHandled(g)
        PROVE  /\ Quiet /\ \A h \in Goals : goal[h].result = "none" => goal'[h].result = "none"
               /\ faults' \in 0 .. MaxFaults /\ cancelCall' = cancelCall
    <3>1. cancelCall' = cancelCall /\ faults' \in 0 .. MaxFaults
      BY <1>1, <2>2 DEF ResultLost, ServerDecides, ServerEnds, ServerCanceledByOther,
                        QueuedCancelHandled, TypedGoals
    <3>2. goal \in [Goals -> GoalType] /\ goal[g] \in GoalType
      BY <1>1 DEF TypedGoals
    <3>3. CASE ResultLost(g)
      BY <3>1, <3>2, <3>3 DEF ResultLost, Quiet, GoalType, ResultStates, Terminal
    <3>4. CASE ServerDecides(g)
      <4>1. PICK s \in {"running", "rejected"} :
              goal[g].server = "sent" /\ goal' = [goal EXCEPT ![g].server = s]
        BY <3>4 DEF ServerDecides
      <4>2. s \in ServerStates /\ "sent" \in Owned
        BY DEF ServerStates, Live, Owned
      <4>3. goal[g].result \notin Terminal
        BY <3>2, <4>1 DEF IInv, Ledger, Terminal
      <4> QED BY <3>1, <3>2, <4>1, <4>2, <4>3 DEF Quiet, GoalType
    <3>5. CASE ServerEnds(g)
      <4>1. PICK s \in Terminal : goal[g].server \in Live /\ goal' = [goal EXCEPT ![g].server = s]
        BY <3>5 DEF ServerEnds
      <4>2. s \in ServerStates /\ Live \subseteq Owned
        BY DEF ServerStates, Live, Owned
      <4> QED BY <3>1, <3>2, <4>1, <4>2 DEF Quiet, GoalType
    <3>6. CASE ServerCanceledByOther(g)
      BY <3>1, <3>2, <3>6 DEF ServerCanceledByOther, Quiet, GoalType, ServerStates, Live, Owned
    <3>7. CASE QueuedCancelHandled(g)
      <4>1. PICK s : /\ s \in {goal[g].server,
                               IF goal[g].server = "running" THEN "canceling" ELSE goal[g].server}
                     /\ goal' = [goal EXCEPT ![g].cancel = FALSE, ![g].server = s]
        BY <3>7 DEF QueuedCancelHandled
      <4>2. s \in ServerStates /\ (s # goal[g].server => goal[g].server \in Owned)
        BY <3>2, <4>1 DEF GoalType, ServerStates, Live, Owned
      <4> QED BY <3>1, <3>2, <4>1, <4>2 DEF Quiet, GoalType
    <3> QED BY <2>2, <3>3, <3>4, <3>5, <3>6, <3>7
  <2>3. cancelCall \in {"none", "sent", "accepted", "refused", "error"}
    BY <1>1 DEF TypedGoals
  <2>4. CASE \E g \in Goals : \/ ResultLost(g) \/ ServerDecides(g) \/ ServerEnds(g)
                              \/ ServerCanceledByOther(g) \/ QueuedCancelHandled(g)
    BY <2>2, <2>3, <2>4
  <2> QED BY <2>1, <2>4
<1>4. Steady
  <2>1. /\ session \in SessionType /\ session.wake \in {"none", "armed"} \cup Reasons
        /\ session.wake = "CANCEL" => session.cancelRequested
    BY <1>1 DEF TypedGoals, SessionType, IInv, Canceled
  <2>2. CASE UNCHANGED session
    BY <2>1, <2>2, SameSession
  <2>3. ASSUME NEW g \in Goals, ResultLost(g) PROVE Steady
    <3>1. (Woken(session.wake, "RESULT") \in {"none", "armed"} \cup Reasons)
          /\ (Woken(session.wake, "RESULT") = "CANCEL" => session.cancelRequested)
      BY <2>1, WokenType DEF Reasons
    <3> QED BY <2>1, <2>3, <3>1 DEF ResultLost, Steady, SessionType
  <2> QED BY <2>2, <2>3 DEF CancelHandled, ServerDecides, ServerEnds, ServerCanceledByOther,
                            QueuedCancelHandled
<1>5. Shape' /\ Ledger' /\ Named' /\ Follows' /\ Counted' /\ Canceled'
  BY <1>2, <1>3, <1>4, Suspended
<1>6. Held' /\ Evidence' /\ InFlight'
  BY <1>2, <1>3, <1>4, SuspendedSlot, SuspendedReplies
<1>7. TypedSlot' /\ TypedGoals'
  BY <1>1, <1>2, <1>3, <1>4 DEF TypedSlot, TypedGoals, Quiet, Steady
<1> QED BY <1>5, <1>6, <1>7 DEF IInv

\* Every callback keeps the invariant.
LEMMA CallbackKeeps ==
    ASSUME IInv, Callback
    PROVE  IInv'
<1>1. Environment /\ yielded' = yielded
  BY DEF Callback
<1> QED BY <1>1, ClientSteps, ExecuteKeeps, ReplyKeeps, ResultKeeps, ServerKeeps
        DEF Environment

-----------------------------------------------------------------------------
(* The helper coroutines.                                                    *)

\* While execute runs the slot is taken by an open goal.
LEMMA Running ==
    ASSUME IInv, stack # <<>>
    PROVE  ~reserved /\ outer \in {"executing", "canceling"} /\ outer # "succeeded"
  BY DEF IInv, Held

\* What a helper leaves execute with, when it sends and tracks nothing.
LEMMA HelperKeeps ==
    ASSUME IInv, Quiet, Steady, UNCHANGED <<busy, reserved, outer, sending>>,
           stack # <<>>, stack' # <<>>, Base' = Base, Base # "W_Ret", Top' # "D_Start",
           Top' = "W_Replace" /\ rv' = "true" => Result(session.follow)' = "canceled",
           Confirms' => session.cancelRequested
    PROVE  /\ Ledger' /\ Held' /\ Follows' /\ Evidence' /\ Counted' /\ Canceled'
           /\ Latest' = Latest /\ \A g : Tracked(g)' <=> Tracked(g)
<1>1. ~reserved /\ outer # "succeeded"
  BY Running
<1>2. /\ Ledger' /\ Latest' = Latest
      /\ OwnedFollows' \subseteq OwnedFollows
      /\ \A g : Tracked(g)' <=> Tracked(g)
      /\ \A g \in Goals : goal[g].server = "succeeded" => goal'[g].server = "succeeded"
  BY QuietGoals DEF IInv, Steady
<1>3. InnerTerminal => InnerTerminal'
  BY QuietGoals DEF IInv, Steady
<1>4. Held'
  BY <1>1, <1>3 DEF IInv, Held, Steady
<1>5. Follows'
  <2>1. \A f, h \in OwnedFollows' : f = h
    BY <1>2 DEF IInv, Follows
  <2> QED BY <1>2, <2>1 DEF IInv, Follows, Steady
<1>6. Evidence'
  <2>1. Reached => Reached'
    BY <1>2 DEF Reached, Steady
  <2> QED BY <1>1, <1>2, <2>1 DEF IInv, Evidence
<1>7. Counted'
  BY DEF IInv, Counted, Steady
<1>8. Canceled'
  BY DEF IInv, Canceled, Steady
<1> QED BY <1>2, <1>4, <1>5, <1>6, <1>7, <1>8

LEMMA TypesKept ==
    ASSUME TypedSlot, TypedGoals, UNCHANGED slot, yielded' \in BOOLEAN,
           session' \in SessionType, goal' \in [Goals -> GoalType],
           {victim', sending'} \subseteq 0 .. MaxGoals, attempted' \subseteq Goals,
           faults' \in 0 .. MaxFaults,
           reply' \in {"none", "accepted", "rejected", "nohandle", "error"},
           cancelCall' \in {"none", "sent", "accepted", "refused", "error"}
    PROVE  TypedSlot' /\ TypedGoals'
  BY DEF TypedSlot, TypedGoals, slot

\* The labels _cancel_and_confirm returns to.
LEMMA CancelReturns ==
    ASSUME IInv, Top \in CancelLabels
    PROVE  /\ stack # <<>> /\ Base # "W_Ret" /\ victim \in Goals /\ goal[victim].tracked
           /\ Caller \notin SendBacks \cup (WaitLabels \ {"I_Canceled"})
           /\ Caller \notin CancelLabels \cup {"D_Start", "D_Wait"}
           /\ Caller = "W_Replace" => victim = session.follow
           /\ Caller = Base => Caller # "D_Await" /\ Caller # "I_Canceled"
           /\ Caller # Base => Caller # "W_Replace"
           /\ Caller # "E_PlanDone" /\ Base # "I_Canceled"
<1>1. \/ Depth = 2 /\ Caller = Base /\ Base \in CancelBacks
      \/ Depth = 3 /\ FitsInner(Caller, Base)
  BY AtCancel DEF IInv
<1>2. stack # <<>>
  BY <1>1, Depths DEF IInv
<1>3. victim \in Goals /\ goal[victim].tracked
  BY DEF IInv, Named, Tracked
<1>4. Base = "W_Replace" => victim = session.follow
  BY DEF IInv, Named
<1>5. CASE Caller = Base /\ Base \in CancelBacks
  BY <1>2, <1>3, <1>4, <1>5 DEF CancelBacks, SendBacks, FollowSends, WaitLabels, CancelLabels
<1>6. CASE FitsInner(Caller, Base)
  BY <1>2, <1>3, <1>4, <1>6
  DEF FitsInner, WaitBacks, AwaitBacks, SendBacks, FollowSends, WaitLabels, CancelLabels
<1> QED BY <1>1, <1>5, <1>6

\* _cancel_and_confirm.
LEMMA CancelKeeps ==
    ASSUME IInv, CancelStart \/ CancelResponse \/ CancelResult, yielded' \in BOOLEAN
    PROVE  IInv'
<1>1. TypedSlot /\ TypedGoals /\ Shape
  BY DEF IInv
<1>2. Top \in CancelLabels
  BY DEF CancelStart, CancelResponse, CancelResult, At, CancelLabels
<1>3. /\ stack # <<>> /\ Base # "W_Ret" /\ victim \in Goals /\ goal[victim].tracked
      /\ Caller \notin SendBacks \cup (WaitLabels \ {"I_Canceled"})
      /\ Caller \notin CancelLabels \cup {"D_Start", "D_Wait"}
      /\ Caller = "W_Replace" => victim = session.follow
      /\ Caller = Base => Caller # "D_Await" /\ Caller # "I_Canceled"
      /\ Caller # Base => Caller # "W_Replace"
      /\ Caller # "E_PlanDone" /\ Base # "I_Canceled"
  BY <1>2, CancelReturns
<1>4. UNCHANGED <<slot, session, victim, attempted, sending, reply, faults>>
  BY DEF CancelStart, CancelResponse, CancelResult, locals
<1>5. UNCHANGED <<busy, reserved, outer>>
  BY <1>4 DEF slot
<1>6. Steady
  BY <1>1, <1>4, SameSession DEF TypedGoals
<1>7. Quiet
  <2>1. goal \in [Goals -> GoalType] /\ goal[victim] \in GoalType
    BY <1>1, <1>3 DEF TypedGoals
  <2>2. CASE goal' = goal
    BY <2>1, <2>2, SameGoals
  <2>3. CASE goal' = [goal EXCEPT ![victim].result = IF @ = "none" THEN "requested" ELSE @]
    BY <1>3, <2>1, <2>3 DEF Quiet, GoalType, ResultStates, Terminal
  <2>4. CASE goal' = [goal EXCEPT ![victim].confirmed = TRUE]
    BY <2>1, <2>4 DEF Quiet, GoalType
  <2> QED BY <2>2, <2>3, <2>4 DEF CancelStart, CancelResponse, CancelResult
<1>8. /\ Shape' /\ stack' # <<>> /\ Base' = Base
      /\ \/ Top' \in CancelLabels /\ Caller' = Caller
         \/ Top' = Caller /\ Caller' = (IF Caller = Base THEN "none" ELSE Base)
      /\ cancelCall' # "none" <=> Top' = "C_Response"
      /\ Top' = "W_Replace" /\ rv' = "true" => goal'[victim].result = "canceled"
      /\ cancelCall' \in {"none", "sent"}
  <2>1. ASSUME NEW value, Return(value), cancelCall' = "none", goal' = goal \/ value = "false"
                 \/ goal' = [goal EXCEPT ![victim].confirmed = TRUE],
               value = "true" => goal[victim].result = "canceled"
        PROVE  /\ Shape' /\ stack' # <<>> /\ Base' = Base
               /\ Top' = Caller /\ Caller' = (IF Caller = Base THEN "none" ELSE Base)
               /\ cancelCall' # "none" <=> Top' = "C_Response"
               /\ Top' = "W_Replace" /\ rv' = "true" => goal'[victim].result = "canceled"
    <3>1. /\ Shape' /\ stack' # <<>> /\ Base' = Base /\ rv' = value
          /\ Top' = Caller /\ Caller' = (IF Caller = Base THEN "none" ELSE Base)
      BY <1>1, <1>2, <2>1, HelperReturn
    <3>2. Top' # "C_Response"
      BY <1>3, <3>1 DEF CancelLabels
    <3>3. rv' = "true" => goal'[victim].result = "canceled"
      BY <1>1, <1>3, <2>1, <3>1 DEF TypedGoals, GoalType
    <3> QED BY <2>1, <3>1, <3>2, <3>3
  <2>2. ASSUME NEW label \in CancelLabels, Goto(label)
        PROVE  /\ Shape' /\ stack' # <<>> /\ Base' = Base
               /\ Top' = label /\ Caller' = Caller
    BY <1>1, <1>2, <2>2, HelperGoto DEF Same
  <2>3. CASE CancelStart
    <3>1. CASE goal[victim].confirmed
      <4>1. /\ Return(IF goal[victim].result = "canceled" THEN "true" ELSE "false")
            /\ cancelCall' = cancelCall /\ goal' = goal /\ Top = "C_Start"
        BY <2>3, <3>1 DEF CancelStart, Result, At
      <4>2. cancelCall' = "none"
        BY <4>1 DEF IInv, InFlight
      <4> QED BY <2>1, <4>1, <4>2
    <3>2. CASE ~goal[victim].confirmed
      <4>1. cancelCall' = "sent" /\ Goto("C_Response") /\ "C_Response" \in CancelLabels
        BY <2>3, <3>2 DEF CancelStart, CancelLabels
      <4> QED BY <2>2, <4>1
    <3> QED BY <3>1, <3>2
  <2>4. CASE CancelResponse
    <3>1. CASE cancelCall = "accepted"
      <4>1. cancelCall' = "none" /\ Goto("C_Result") /\ "C_Result" \in CancelLabels
        BY <2>4, <3>1 DEF CancelResponse, CancelLabels
      <4> QED BY <2>2, <4>1
    <3>2. CASE cancelCall # "accepted"
      <4>1. cancelCall' = "none" /\ Return("false")
        BY <2>4, <3>2 DEF CancelResponse
      <4> QED BY <2>1, <4>1
    <3> QED BY <3>1, <3>2
  <2>5. CASE CancelResult
    <3>1. Top = "C_Result" /\ cancelCall' = cancelCall
      BY <2>5 DEF CancelResult, At
    <3>2. cancelCall' = "none"
      BY <3>1 DEF IInv, InFlight
    <3>3. \/ /\ goal[victim].result = "canceled" /\ Return("true")
             /\ goal' = [goal EXCEPT ![victim].confirmed = TRUE]
          \/ Return("false")
      BY <2>5 DEF CancelResult, Result
    <3> QED BY <2>1, <3>2, <3>3
  <2> QED BY <2>3, <2>4, <2>5
<1>9. Top' # "D_Start" /\ (Top' = "W_Replace" /\ rv' = "true" => Result(session.follow)' = "canceled")
  BY <1>3, <1>4, <1>8 DEF CancelLabels, Result
<1>10. /\ Ledger' /\ Held' /\ Follows' /\ Evidence' /\ Counted' /\ Canceled'
       /\ Latest' = Latest /\ \A g : Tracked(g)' <=> Tracked(g)
  <2>1. Confirms' => Confirms
    BY <1>3, <1>8 DEF Confirms, CancelLabels
  <2>2. Confirms' => session.cancelRequested
    BY <2>1 DEF IInv, Canceled
  <2> QED BY <1>3, <1>4, <1>5, <1>6, <1>7, <1>8, <1>9, <2>2, HelperKeeps
<1>11. InFlight'
  <2>1. sending # NoGoal <=> Caller = "D_Await"
    BY <1>2 DEF IInv, InFlight, CancelLabels
  <2>2. Top' \in {"D_Wait", "D_Await"} \/ Caller' = "D_Await" <=> Caller = "D_Await"
    <3>1. Base # "D_Await"
      <4>1. Base \in CancelBacks \/ FitsInner(Caller, Base)
        BY <1>1, <1>2, AtCancel
      <4> QED BY <4>1 DEF CancelBacks, FitsInner, WaitBacks, AwaitBacks
    <3> QED BY <1>3, <1>8, <3>1 DEF CancelLabels
  <2>3. sending # NoGoal => sending \in Goals
    BY <1>1 DEF TypedGoals, Goals, NoGoal
  <2>4. /\ sending # NoGoal => ~goal'[sending].tracked
        /\ reply = "rejected" => goal'[sending].server = "rejected"
    BY <1>7, <2>3, Disjoint DEF IInv, InFlight, Quiet
  <2> QED BY <1>4, <1>8, <1>9, <1>10, <2>1, <2>2, <2>4 DEF IInv, InFlight
<1>12. Named'
  <2>1. Top' \notin SendBacks /\ Top' # "I_Start"
    BY <1>3, <1>8 DEF CancelLabels, SendBacks, FollowSends, WaitLabels
  <2>2. Top' \in WaitLabels \/ Caller' = "I_Canceled" => Caller = "I_Canceled"
    <3>1. Base # "I_Canceled"
      <4>1. Base \in CancelBacks \/ FitsInner(Caller, Base)
        BY <1>1, <1>2, AtCancel
      <4> QED BY <4>1 DEF CancelBacks, FitsInner, WaitBacks, AwaitBacks
    <3> QED BY <1>3, <1>8, <3>1 DEF CancelLabels, WaitLabels
  <2> QED BY <1>2, <1>3, <1>4, <1>7, <1>8, <2>1, <2>2 DEF IInv, Named, Tracked, Quiet
<1>13. TypedSlot' /\ TypedGoals'
  BY <1>1, <1>4, <1>7, <1>8, TypesKept DEF TypedGoals, Quiet
<1> QED BY <1>8, <1>10, <1>11, <1>12, <1>13 DEF IInv

\* Nothing is in flight, and nothing is sent.
LEMMA NoneInFlight ==
    ASSUME IInv, UNCHANGED <<sending, reply>>, cancelCall' = cancelCall,
           Top \notin {"D_Wait", "D_Await", "C_Response"}, Caller # "D_Await",
           Top' \notin {"D_Wait", "D_Await", "C_Response"}, Caller' # "D_Await",
           Top' = "D_Start" => Latest' < MaxGoals
    PROVE  InFlight'
  BY DEF IInv, InFlight

\* _await_inner_terminal.
LEMMA AwaitKeeps ==
    ASSUME IInv, AwaitTerminalLoop \/ AwaitTerminalCancel, yielded' \in BOOLEAN
    PROVE  IInv'
<1>1. TypedSlot /\ TypedGoals /\ Shape
  BY DEF IInv
<1>2. Top \in AwaitLabels
  BY DEF AwaitTerminalLoop, AwaitTerminalCancel, At, AwaitLabels
<1>3. Depth = 2 /\ Caller = Base /\ Base \in AwaitBacks
  <2>1. Depth = 2 /\ Caller = Base /\ Fits(Top, Base)
    BY <1>1, <1>2, AtHelper
  <2> QED BY <1>2, <2>1 DEF Fits, SendLabels, WaitLabels, AwaitLabels, CancelLabels
<1>4. stack # <<>>
  BY <1>1, <1>3, Depths
<1>5. UNCHANGED <<slot, goal, sending, reply, cancelCall, faults>>
  BY DEF AwaitTerminalLoop, AwaitTerminalCancel, transport
<1>6. Quiet
  BY <1>1, <1>5, SameGoals DEF TypedGoals
<1>7. Steady
  <2>1. CASE AwaitTerminalLoop
    <3>1. session' = session \/ \E w \in {"none", "armed"} \cup Reasons :
                                    /\ session' = [session EXCEPT !.wake = w]
                                    /\ w = "CANCEL" => session.cancelRequested
      BY <2>1 DEF AwaitTerminalLoop, Reasons
    <3> QED BY <1>1, <3>1, SameSession DEF TypedGoals, SessionType, Steady
  <2>2. CASE AwaitTerminalCancel
    BY <1>1, <2>2, SameSession DEF AwaitTerminalCancel, TypedGoals
  <2> QED BY <2>1, <2>2
<1>8. /\ Shape' /\ stack' # <<>> /\ Base' = Base
      /\ attempted' \subseteq Goals /\ victim' \in 0 .. MaxGoals
      /\ \/ Top' \in AwaitLabels /\ Caller' = Base
         \/ Top' = Base /\ Caller' = "none"
         \/ Top' = "C_Start" /\ Caller' = "A_Cancel" /\ victim' \in Goals /\ goal[victim'].tracked
  <2>1. ASSUME NEW label \in AwaitLabels, Goto(label)
        PROVE  /\ Shape' /\ stack' # <<>> /\ Base' = Base
               /\ Top' \in AwaitLabels /\ Caller' = Base
    BY <1>1, <1>2, <1>3, <2>1, HelperGoto DEF Same
  <2>2. CASE AwaitTerminalLoop
    <3>1. attempted' \subseteq Goals /\ victim' = victim
      BY <1>1, <2>2 DEF AwaitTerminalLoop, TypedGoals
    <3>2. CASE Return("none")
      BY <1>1, <1>2, <1>3, <3>1, <3>2, HelperReturn DEF TypedGoals
    <3>3. CASE \E label \in AwaitLabels : Goto(label)
      BY <1>1, <2>1, <3>1, <3>3 DEF TypedGoals
    <3>4. Return("none") \/ \E label \in AwaitLabels : Goto(label)
      BY <2>2 DEF AwaitTerminalLoop, AwaitLabels
    <3> QED BY <3>2, <3>3, <3>4
  <2>3. CASE AwaitTerminalCancel
    <3>1. CASE Goto("A_Loop") /\ UNCHANGED locals
      BY <1>1, <2>1, <3>1 DEF AwaitLabels, locals, TypedGoals
    <3>2. ASSUME NEW g \in ActiveInner, Call("C_Start", "A_Cancel"), victim' = g,
                 attempted' = attempted \union {g}
          PROVE  /\ Shape' /\ stack' # <<>> /\ Base' = Base
                 /\ attempted' \subseteq Goals /\ victim' \in 0 .. MaxGoals
                 /\ Top' = "C_Start" /\ Caller' = "A_Cancel"
                 /\ victim' \in Goals /\ goal[victim'].tracked
      <4>1. g \in Goals /\ goal[g].tracked
        BY DEF ActiveInner
      <4>2. "C_Start" \in CancelLabels /\ FitsInner("A_Cancel", Base)
        BY <1>3 DEF CancelLabels, FitsInner
      <4> QED BY <1>1, <1>2, <3>2, <4>1, <4>2, HelperCall DEF TypedGoals, Goals
    <3>3. \/ Goto("A_Loop") /\ UNCHANGED locals
          \/ \E g \in ActiveInner : /\ Call("C_Start", "A_Cancel") /\ victim' = g
                                    /\ attempted' = attempted \union {g}
      BY <2>3 DEF AwaitTerminalCancel
    <3> QED BY <3>1, <3>2, <3>3
  <2> QED BY <2>2, <2>3
<1>9. /\ Base \notin {"W_Ret", "W_Replace", "D_Start", "D_Wait", "D_Await", "C_Response", "I_Canceled",
                      "E_PlanDone"}
      /\ Base \notin SendBacks \cup WaitLabels \cup CancelLabels
  BY <1>3 DEF AwaitBacks, SendBacks, FollowSends, WaitLabels, CancelLabels
<1>10. /\ Top \notin {"D_Wait", "D_Await", "C_Response"}
       /\ Top' \notin {"W_Replace", "D_Start", "D_Wait", "D_Await", "C_Response"}
       /\ Caller # "D_Await" /\ Caller' # "D_Await" /\ Caller' # "I_Canceled"
       /\ Top' \notin SendBacks \cup WaitLabels
       /\ Top' \in CancelLabels => Top' = "C_Start" /\ victim' \in Goals /\ goal[victim'].tracked
  BY <1>2, <1>3, <1>8, <1>9 DEF AwaitLabels, CancelLabels, SendBacks, FollowSends, WaitLabels
<1>11. /\ Ledger' /\ Held' /\ Follows' /\ Evidence' /\ Counted' /\ Canceled'
       /\ Latest' = Latest /\ \A g : Tracked(g)' <=> Tracked(g)
  <2>1. UNCHANGED <<busy, reserved, outer, sending>>
    BY <1>5 DEF slot
  <2>2. ~Confirms'
    BY <1>8, <1>9, <1>10 DEF Confirms, AwaitLabels
  <2> QED BY <1>4, <1>6, <1>7, <1>8, <1>9, <1>10, <2>1, <2>2, HelperKeeps
<1>12. InFlight'
  BY <1>5, <1>10, NoneInFlight
<1>13. Named'
  <2>1. "I_Start" \in WaitLabels
    BY DEF WaitLabels
  <2> QED BY <1>5, <1>7, <1>8, <1>9, <1>10, <2>1 DEF IInv, Named, Tracked, Steady
<1>14. TypedSlot' /\ TypedGoals'
  BY <1>1, <1>5, <1>7, <1>8, TypesKept DEF TypedGoals, Steady
<1> QED BY <1>8, <1>11, <1>12, <1>13, <1>14 DEF IInv

\* _wait_inner_result.
LEMMA WaitInnerKeeps ==
    ASSUME IInv, WaitInner \/ WaitInnerWoken \/ WaitInnerCanceled, yielded' \in BOOLEAN
    PROVE  IInv'
<1>1. TypedSlot /\ TypedGoals /\ Shape
  BY DEF IInv
<1>2. Top \in WaitLabels
  BY DEF WaitInner, WaitInnerWoken, WaitInnerCanceled, At, WaitLabels
<1>3. Depth = 2 /\ Caller = Base /\ Base \in WaitBacks
  <2>1. Depth = 2 /\ Caller = Base /\ Fits(Top, Base)
    BY <1>1, <1>2, AtHelper
  <2> QED BY <1>2, <2>1 DEF Fits, SendLabels, WaitLabels, AwaitLabels, CancelLabels
<1>4. stack # <<>> /\ session.planner \in Goals /\ goal[session.planner].tracked
  BY <1>1, <1>2, <1>3, Depths DEF IInv, Named, Tracked
<1>5. /\ UNCHANGED <<slot, sending, reply, cancelCall, faults>> /\ attempted' = attempted
      /\ victim' \in {victim, session.planner}
  BY DEF WaitInner, WaitInnerWoken, WaitInnerCanceled, OnlyControl, locals, transport, Cancel
<1>6. Steady
  <2>1. session' = session \/ \E w \in {"none", "armed"} \cup Reasons :
                                  /\ session' = [session EXCEPT !.wake = w]
                                  /\ w = "CANCEL" => session.cancelRequested
    BY DEF WaitInner, WaitInnerWoken, WaitInnerCanceled, OnlyControl, Reasons
  <2> QED BY <1>1, <2>1, SameSession DEF TypedGoals, SessionType, Steady
<1>7. Quiet
  <2>1. goal \in [Goals -> GoalType] /\ goal[session.planner] \in GoalType
    BY <1>1, <1>4 DEF TypedGoals
  <2>2. CASE goal' = goal
    BY <2>1, <2>2, SameGoals
  <2>3. CASE WaitInner
    <3>1. /\ session.cancelRequested \in BOOLEAN
          /\ goal' = [goal EXCEPT ![session.planner].result = "requested",
                                  ![session.planner].watched = ~session.cancelRequested]
      BY <1>1, <2>3 DEF WaitInner, TypedGoals, SessionType
    <3>2. goal[session.planner].result = "none"
      BY <2>3 DEF WaitInner, At, IInv, Named
    <3> QED BY <1>4, <2>1, <3>1, <3>2 DEF Quiet, GoalType, ResultStates, Terminal
  <2> QED BY <2>2, <2>3 DEF WaitInnerWoken, WaitInnerCanceled, OnlyControl, transport
<1>8. /\ Shape' /\ stack' # <<>> /\ Base' = Base
      /\ \/ Top' = "I_Wait" /\ Caller' = Base
         \/ Top' = Base /\ Caller' = "none"
         \/ Top' = "C_Start" /\ Caller' = "I_Canceled" /\ victim' = session.planner
  <2>1. CASE Goto("I_Wait")
    <3>1. Same(Top, "I_Wait")
      BY <1>2 DEF Same, WaitLabels
    <3> QED BY <1>1, <1>3, <2>1, <3>1, HelperGoto
  <2>2. ASSUME NEW value, Return(value)
        PROVE  Shape' /\ stack' # <<>> /\ Base' = Base /\ Top' = Base /\ Caller' = "none"
    BY <1>1, <1>2, <1>3, <2>2, HelperReturn
  <2>3. CASE Cancel(session.planner, "I_Canceled")
    <3>1. Call("C_Start", "I_Canceled") /\ victim' = session.planner
      BY <2>3 DEF Cancel
    <3>2. "C_Start" \in CancelLabels /\ FitsInner("I_Canceled", Base)
      BY <1>3 DEF CancelLabels, FitsInner
    <3> QED BY <1>1, <1>2, <3>1, <3>2, HelperCall
  <2> QED BY <2>1, <2>2, <2>3 DEF WaitInner, WaitInnerWoken, WaitInnerCanceled
<1>9. /\ Base \notin {"W_Ret", "W_Replace", "D_Start", "D_Wait", "D_Await", "C_Response", "I_Canceled"}
      /\ Base \notin SendBacks \cup WaitLabels \cup CancelLabels
  BY <1>3 DEF WaitBacks, SendBacks, FollowSends, WaitLabels, CancelLabels
<1>10. /\ Top \notin {"D_Wait", "D_Await", "C_Response"}
       /\ Top' \notin {"W_Replace", "D_Start", "D_Wait", "D_Await", "C_Response", "I_Start"}
       /\ Caller # "D_Await" /\ Caller' # "D_Await"
       /\ Top' \notin SendBacks
       /\ Top' \in CancelLabels => victim' = session.planner
  BY <1>2, <1>3, <1>8, <1>9 DEF WaitLabels, CancelLabels, SendBacks, FollowSends
<1>11. /\ Ledger' /\ Held' /\ Follows' /\ Evidence' /\ Counted' /\ Canceled'
       /\ Latest' = Latest /\ \A g : Tracked(g)' <=> Tracked(g)
  <2>1. UNCHANGED <<busy, reserved, outer, sending>>
    BY <1>5 DEF slot
  <2>2. Confirms' => session.cancelRequested
    <3>1. CASE WaitInner
      <4>1. Top' = "I_Wait" /\ Caller' = Base
        BY <1>1, <1>2, <1>3, <3>1, HelperGoto DEF WaitInner, Same, WaitLabels
      <4> QED BY <1>9, <4>1 DEF Confirms
    <3>2. CASE WaitInnerWoken
      <4>1. \/ session.wake = "CANCEL" \/ session.cancelRequested
            \/ \E value \in Terminal \cup {"error"} : Return(value)
        BY <3>2 DEF WaitInnerWoken
      <4>2. ASSUME NEW value \in Terminal \cup {"error"}, Return(value) PROVE ~Confirms'
        <5>1. Top' = Base /\ Caller' = "none" /\ rv' = value
          BY <1>1, <1>2, <1>3, <4>2, HelperReturn
        <5> QED BY <1>9, <5>1 DEF Confirms, Terminal
      <4> QED BY <4>1, <4>2 DEF IInv, Canceled
    <3>3. CASE WaitInnerCanceled
      BY <3>3 DEF WaitInnerCanceled, At, IInv, Canceled, Confirms
    <3> QED BY <3>1, <3>2, <3>3
  <2> QED BY <1>4, <1>6, <1>7, <1>8, <1>9, <1>10, <2>1, <2>2, HelperKeeps
<1>12. InFlight'
  BY <1>5, <1>10, NoneInFlight
<1>13. Named'
  BY <1>4, <1>6, <1>7, <1>8, <1>9, <1>10 DEF IInv, Named, Tracked, Steady, Quiet
<1>14. TypedSlot' /\ TypedGoals'
  <2>1. victim' \in 0 .. MaxGoals
    BY <1>1, <1>4, <1>5 DEF TypedGoals, Goals
  <2> QED BY <1>1, <1>5, <1>6, <1>7, <2>1, TypesKept DEF TypedGoals, Steady, Quiet
<1> QED BY <1>8, <1>11, <1>12, <1>13, <1>14 DEF IInv

-----------------------------------------------------------------------------
(* _send_goal.                                                               *)

\* execute is suspended in _send_goal, with the slot taken.
LEMMA SendFacts ==
    ASSUME IInv, Top \in SendLabels
    PROVE  /\ stack # <<>> /\ Depth = 2 /\ Caller = Base /\ Base \in SendBacks
           /\ ~reserved /\ ~session.terminal /\ busy /\ outer \in {"executing", "canceling"}
<1>1. Depth = 2 /\ Caller = Base /\ Fits(Top, Base)
  BY AtHelper DEF IInv
<1>2. Base \in SendBacks
  BY <1>1 DEF Fits, SendLabels, WaitLabels, AwaitLabels, CancelLabels
<1>3. stack # <<>>
  BY <1>1, Depths DEF IInv
<1>4. Base \notin {"X_Handle", "X_Cancel", "Z_abort"}
  BY <1>2 DEF SendBacks, FollowSends
<1> QED BY <1>1, <1>2, <1>3, <1>4 DEF IInv, Held

LEMMA SendBackFacts ==
    ASSUME NEW back \in SendBacks
    PROVE  /\ back \notin {"W_Ret", "W_Replace", "D_Start", "D_Wait", "D_Await", "C_Response",
                           "I_Start", "I_Canceled", "E_PlanDone", "E_Init", "E_Start", "G_Guard", "Z_succeed"}
           /\ back \notin SendLabels \cup WaitLabels \cup CancelLabels
           /\ back \in FollowSends => back \notin PlanBases \cup RetryBases \cup FollowBases
  BY DEF SendBacks, FollowSends, SendLabels, WaitLabels, CancelLabels, PlanBases, RetryBases,
         FollowBases

\* _send_goal returns without a goal, or raises, when nothing was sent.
LEMMA UnsentKeeps ==
    ASSUME IInv, Top \in SendLabels, Raise,
           UNCHANGED <<busy, reserved, outer, rv>>, session' = [session EXCEPT !.unverified = TRUE],
           goal' = goal, sending' = NoGoal, reply' = "none", cancelCall' = cancelCall
    PROVE  /\ Shape' /\ Ledger' /\ InFlight' /\ Named' /\ Held' /\ Follows' /\ Evidence' /\ Counted'
           /\ Canceled'
<1>1. TypedGoals /\ Shape
  BY DEF IInv
<1>2. /\ ~reserved /\ busy /\ outer \in {"executing", "canceling"} /\ outer # "succeeded"
  BY SendFacts
<1>3. /\ Shape' /\ stack' # <<>> /\ Top' = "X_Handle" /\ Base' = "X_Handle" /\ Caller' = "none"
  BY <1>1, Raises
<1>4. Latest' = Latest /\ OwnedFollows' = OwnedFollows
  BY DEF Latest, OwnedFollows
<1>5. Ledger'
  <2>1. session'.unverified = TRUE
    BY <1>1 DEF TypedGoals, SessionType
  <2> QED BY <1>4, <2>1 DEF IInv, Ledger
<1>6. InFlight'
  <2>1. cancelCall = "none"
    BY DEF IInv, InFlight, SendLabels
  <2> QED BY <1>3, <2>1 DEF InFlight
<1>7. Named'
  BY <1>3 DEF Named, SendBacks, FollowSends, WaitLabels, CancelLabels, FollowBases
<1>8. Held'
  BY <1>2, <1>3 DEF Held
<1>9. Follows'
  BY <1>3, <1>4 DEF IInv, Follows, FollowSends, PlanBases, RetryBases, FollowBases
<1>10. Evidence'
  BY <1>2, <1>3 DEF Evidence
<1>11. Counted'
  BY <1>3 DEF Counted, CountedBases, FollowBases, RetryBases
<1>12. Canceled'
  <2>1. session'.wake = session.wake /\ session'.cancelRequested = session.cancelRequested
    BY <1>1 DEF TypedGoals, SessionType
  <2> QED BY <1>3, <2>1 DEF IInv, Canceled, Confirms, CanceledBases
<1> QED BY <1>3, <1>5, <1>6, <1>7, <1>8, <1>9, <1>10, <1>11, <1>12

\* A goal is sent: it is the latest, and a FollowPath only where none is active.
LEMMA SentKeeps ==
    ASSUME IInv, At("D_Start"), Goto("D_Wait"), UNCHANGED <<busy, reserved, outer, victim>>,
           sending' = Latest + 1, UNCHANGED <<reply, cancelCall>>,
           goal' = [goal EXCEPT ![Latest + 1].kind = IF SendsFollow THEN "follow" ELSE "plan",
                                ![Latest + 1].server = "sent"],
           session' = [session EXCEPT !.wake = "armed"]
    PROVE  /\ Shape' /\ Ledger' /\ InFlight' /\ Named' /\ Held' /\ Follows' /\ Evidence' /\ Counted'
           /\ Canceled'
           /\ goal' \in [Goals -> GoalType] /\ session' \in SessionType /\ sending' \in 0 .. MaxGoals
<1>1. TypedGoals /\ Shape /\ Ledger /\ InFlight
  BY DEF IInv
<1>2. Top = "D_Start" /\ Top \in SendLabels
  BY DEF At, SendLabels
<1>3. /\ stack # <<>> /\ Depth = 2 /\ Caller = Base /\ Base \in SendBacks
      /\ ~reserved /\ ~session.terminal /\ busy /\ outer \in {"executing", "canceling"}
      /\ outer # "succeeded"
  BY <1>2, SendFacts
<1>4. /\ Base \notin {"W_Ret", "W_Replace", "D_Start", "D_Wait", "D_Await", "C_Response",
                      "I_Start", "I_Canceled", "E_PlanDone", "E_Init", "E_Start", "G_Guard", "Z_succeed"}
      /\ Base \notin SendLabels \cup WaitLabels \cup CancelLabels
      /\ Base \in FollowSends => Base \notin PlanBases \cup RetryBases \cup FollowBases
  BY <1>3, SendBackFacts
<1>5. Shape' /\ stack' # <<>> /\ Top' = "D_Wait" /\ Base' = Base /\ Caller' = Base /\ rv' = rv
  <2>1. Same(Top, "D_Wait")
    BY <1>2 DEF Same, SendLabels
  <2> QED BY <1>1, <1>3, <2>1, HelperGoto
<1>6. sending = NoGoal /\ reply = "none" /\ cancelCall = "none" /\ Latest < MaxGoals
  BY <1>1, <1>2, <1>3, <1>4 DEF InFlight
<1> DEFINE n == Latest + 1
<1>7. Latest \in 0 .. MaxGoals /\ n \in Goals /\ n # NoGoal
  BY <1>6, LatestType DEF Goals, NoGoal
<1>8. /\ goal[n].kind = "none" /\ goal[n].server = "none" /\ ~goal[n].tracked
      /\ goal[n].result = "none"
  BY <1>1, <1>7 DEF Ledger
<1> DEFINE kind == IF SendsFollow THEN "follow" ELSE "plan"
<1>9. /\ goal'[n].kind = kind /\ goal'[n].server = "sent" /\ ~goal'[n].tracked
      /\ goal'[n].result = "none"
      /\ \A g \in Goals : g # n => goal'[g] = goal[g]
      /\ goal' \in [Goals -> GoalType]
  <2>1. goal \in [Goals -> GoalType] /\ goal[n] \in GoalType
    BY <1>1, <1>7 DEF TypedGoals
  <2>2. kind \in {"none", "plan", "follow"} /\ "sent" \in ServerStates
    BY DEF ServerStates
  <2> DEFINE sent == [[goal[n] EXCEPT !.kind = kind] EXCEPT !.server = "sent"]
  <2>3. goal' = [goal EXCEPT ![n] = sent]
    BY <2>1 DEF GoalType
  <2> HIDE DEF kind, n
  <2>4. /\ sent \in GoalType
        /\ sent.kind = kind /\ sent.server = "sent"
        /\ sent.tracked = goal[n].tracked /\ sent.result = goal[n].result
    BY <2>1, <2>2 DEF GoalType
  <2> HIDE DEF sent
  <2> QED BY <1>7, <1>8, <2>1, <2>3, <2>4
<1>10. kind # "none" /\ (kind = "follow" <=> Base \in FollowSends)
  BY <1>3 DEF SendsFollow, FollowSends
<1> HIDE DEF kind
<1>11. Latest' = n
  <2>1. \A g \in Goals : goal'[g].kind # "none" <=> g <= n
    BY <1>1, <1>7, <1>9, <1>10 DEF Ledger, Goals
  <2>2. n \in 0 .. MaxGoals
    BY <1>7 DEF Goals
  <2> HIDE DEF n
  <2>3. Cardinality({g \in Goals : goal'[g].kind # "none"}) = n
    BY <2>1, <2>2, Count
  <2> QED BY <2>3 DEF Latest
<1>12. sending' = n /\ session'.unverified = session.unverified
       /\ session'.follow = session.follow /\ session'.planner = session.planner
       /\ session'.failures = session.failures /\ session'.terminal = session.terminal
       /\ session' \in SessionType
  BY <1>1 DEF TypedGoals, SessionType
<1>13. Ledger'
  <2> SUFFICES ASSUME NEW g \in Goals
               PROVE  /\ goal'[g].kind # "none" <=> g <= Latest'
                      /\ goal'[g].kind = "none" => goal'[g].server = "none" /\ ~goal'[g].tracked
                      /\ goal'[g].result \in Terminal => goal'[g].server = goal'[g].result
                      /\ goal'[g].result # "none" => goal'[g].tracked
                      /\ goal'[g].server \in Owned
                           => goal'[g].tracked \/ sending' = g \/ session'.unverified
    BY DEF Ledger
  <2>1. CASE g = n
    BY <1>9, <1>10, <1>11, <1>12, <2>1, Disjoint DEF Goals
  <2>2. CASE g # n
    <3>1. g # NoGoal
      BY DEF Goals, NoGoal
    <3> QED BY <1>1, <1>6, <1>7, <1>9, <1>11, <1>12, <2>2, <3>1 DEF Ledger, Goals
  <2> QED BY <2>1, <2>2
<1>14. InFlight'
  <2> HIDE DEF n
  <2> QED BY <1>5, <1>6, <1>7, <1>9, <1>11, <1>12 DEF InFlight
<1>15. \A g : Tracked(g) => Tracked(g)'
  BY <1>8, <1>9 DEF Tracked
<1>16. Named'
  <2>1. "D_Wait" \notin SendBacks \cup WaitLabels \cup CancelLabels
    BY DEF SendBacks, FollowSends, WaitLabels, CancelLabels
  <2> QED BY <1>1, <1>4, <1>5, <1>12, <1>15, <2>1 DEF IInv, Named, Tracked, WaitLabels
<1>17. Held'
  BY <1>3, <1>5, <1>12 DEF Held
<1>18. Follows'
  <2>1. OwnedFollows' \subseteq OwnedFollows \cup (IF Base \in FollowSends THEN {n} ELSE {})
    BY <1>7, <1>9, <1>10 DEF OwnedFollows
  <2>2. CASE Base \in FollowSends
    <3>1. OwnedFollows = {}
      BY <1>2, <2>2 DEF IInv, Follows
    <3> HIDE DEF n
    <3> QED BY <1>4, <1>5, <1>11, <2>1, <2>2, <3>1 DEF Follows
  <2>3. CASE Base \notin FollowSends
    BY <1>4, <1>5, <1>12, <2>1, <2>3 DEF IInv, Follows
  <2> QED BY <2>2, <2>3
<1>19. Evidence'
  BY <1>3, <1>4, <1>5 DEF Evidence
<1>20. Counted'
  BY <1>5, <1>12 DEF IInv, Counted
<1>21. Canceled'
  <2>1. session'.wake = "armed" /\ session'.cancelRequested = session.cancelRequested
    BY <1>1 DEF TypedGoals, SessionType
  <2> QED BY <1>4, <1>5, <2>1 DEF IInv, Canceled, Confirms
<1> QED
  BY <1>5, <1>7, <1>9, <1>12, <1>13, <1>14, <1>16, <1>17, <1>18, <1>19, <1>20, <1>21 DEF Goals

LEMMA DispatchKeeps ==
    ASSUME IInv, Dispatch, yielded' \in BOOLEAN
    PROVE  IInv'
<1>1. TypedSlot /\ TypedGoals /\ Shape
  BY DEF IInv
<1>2. Top = "D_Start" /\ Top \in SendLabels
  BY DEF Dispatch, At, SendLabels
<1>3. /\ stack # <<>> /\ Depth = 2 /\ Caller = Base /\ Base \in SendBacks
      /\ ~reserved /\ ~session.terminal /\ busy
  BY <1>2, SendFacts
<1>4. /\ Base \notin {"W_Ret", "W_Replace", "D_Start", "D_Wait", "D_Await", "C_Response",
                      "I_Start", "I_Canceled", "E_PlanDone", "E_Init", "E_Start", "G_Guard", "Z_succeed"}
      /\ Base \notin SendLabels \cup WaitLabels \cup CancelLabels
  BY <1>3, SendBackFacts
<1>5. UNCHANGED <<slot, busy, reserved, outer, victim, attempted>>
  BY DEF Dispatch, slot, locals
<1>6. sending = NoGoal /\ reply = "none"
  BY <1>2, <1>3, <1>4 DEF IInv, InFlight
<1>7. CASE Return("none") /\ UNCHANGED <<session, transport>>
  <2>1. /\ UNCHANGED <<goal, sending, reply, cancelCall, faults>>
    BY <1>7 DEF transport
  <2>2. Shape' /\ stack' # <<>> /\ Top' = Base /\ Base' = Base /\ Caller' = "none" /\ rv' = "none"
    BY <1>1, <1>2, <1>3, <1>7, HelperReturn
  <2>3. Quiet /\ Steady
    BY <1>1, <1>7, <2>1, SameGoals, SameSession DEF TypedGoals
  <2>4. Ledger' /\ Held' /\ Follows' /\ Evidence' /\ Counted' /\ Canceled'
    <3>1. ~Confirms'
      BY <1>4, <2>2 DEF Confirms
    <3> QED BY <1>3, <1>4, <1>5, <2>1, <2>2, <2>3, <3>1, HelperKeeps
  <2>5. InFlight'
    BY <1>2, <1>3, <1>4, <2>1, <2>2, NoneInFlight
  <2>6. Named'
    BY <1>4, <1>7, <2>1, <2>2 DEF IInv, Named, Tracked
  <2>7. TypedSlot' /\ TypedGoals'
    BY <1>1, <1>5, <1>7, <2>1, TypesKept DEF TypedGoals
  <2> QED BY <2>2, <2>4, <2>5, <2>6, <2>7 DEF IInv
<1>8. CASE /\ sending' = Latest + 1
           /\ goal' = [goal EXCEPT ![Latest + 1].kind =
                            IF SendsFollow THEN "follow" ELSE "plan",
                          ![Latest + 1].server = "sent"]
           /\ session' = [session EXCEPT !.wake = "armed"]
           /\ Goto("D_Wait")
           /\ UNCHANGED <<reply, cancelCall, faults>>
  <2>1. At("D_Start")
    BY <1>2 DEF At
  <2>2. /\ Shape' /\ Ledger' /\ InFlight' /\ Named' /\ Held' /\ Follows' /\ Evidence' /\ Counted'
           /\ Canceled'
        /\ goal' \in [Goals -> GoalType] /\ session' \in SessionType /\ sending' \in 0 .. MaxGoals
    BY <1>5, <1>8, <2>1, SentKeeps
  <2>3. TypedSlot' /\ TypedGoals'
    BY <1>1, <1>5, <1>8, <2>2, TypesKept DEF TypedGoals
  <2> QED BY <2>2, <2>3 DEF IInv
<1>9. CASE /\ faults < MaxFaults /\ faults' = faults + 1
           /\ session' = [session EXCEPT !.unverified = TRUE]
           /\ Raise
           /\ UNCHANGED <<goal, sending, reply, cancelCall>>
  <2>1. rv' = rv
    BY <1>9 DEF Raise
  <2>2. /\ Shape' /\ Ledger' /\ InFlight' /\ Named' /\ Held' /\ Follows' /\ Evidence' /\ Counted'
           /\ Canceled'
    BY <1>2, <1>5, <1>6, <1>9, <2>1, UnsentKeeps
  <2>3. session' \in SessionType
    BY <1>1, <1>9 DEF TypedGoals, SessionType
  <2>4. faults' \in 0 .. MaxFaults
    BY <1>1, <1>9 DEF TypedGoals
  <2>5. TypedSlot' /\ TypedGoals'
    BY <1>1, <1>5, <1>9, <2>3, <2>4, TypesKept DEF TypedGoals
  <2> QED BY <2>2, <2>5 DEF IInv
<1> QED BY <1>7, <1>8, <1>9 DEF Dispatch

LEMMA DispatchWokenKeeps ==
    ASSUME IInv, DispatchWoken, yielded' \in BOOLEAN
    PROVE  IInv'
<1>1. TypedSlot /\ TypedGoals /\ Shape
  BY DEF IInv
<1>2. Top = "D_Wait" /\ Top \in SendLabels
  BY DEF DispatchWoken, At, SendLabels
<1>3. stack # <<>> /\ Depth = 2 /\ Caller = Base /\ Base \in SendBacks
  BY <1>2, SendFacts
<1>4. /\ Base \notin {"W_Ret", "W_Replace", "D_Start", "D_Wait", "D_Await", "C_Response",
                      "I_Start", "I_Canceled", "E_PlanDone", "E_Init", "E_Start", "G_Guard", "Z_succeed"}
      /\ Base \notin SendLabels \cup WaitLabels \cup CancelLabels
  BY <1>3, SendBackFacts
<1>5. /\ UNCHANGED <<slot, busy, reserved, outer, goal, sending, reply, cancelCall, faults>>
      /\ attempted' = attempted /\ session' = [session EXCEPT !.wake = "none"]
  BY DEF DispatchWoken, slot, transport, locals, Cancel
<1>6. Quiet /\ Steady
  <2>1. Quiet
    BY <1>1, <1>5, SameGoals DEF TypedGoals
  <2>2. Steady
    BY <1>1, <1>5 DEF TypedGoals, SessionType, Steady
  <2> QED BY <2>1, <2>2
<1>7. /\ Shape' /\ stack' # <<>> /\ Base' = Base
      /\ \/ Top' = "D_Await" /\ Caller' = Base /\ victim' = victim
         \/ /\ Top' = "C_Start" /\ Caller' = "D_Await"
            /\ victim' = session.follow /\ Tracked(session.follow)
  <2>1. CASE Goto("D_Await") /\ UNCHANGED locals
    <3>1. Same(Top, "D_Await") /\ victim' = victim
      BY <1>2, <2>1 DEF Same, SendLabels, locals
    <3> QED BY <1>1, <1>3, <2>1, <3>1, HelperGoto
  <2>2. CASE Cancel(session.follow, "D_Await") /\ Caller = "W_Sent"
    <3>1. Call("C_Start", "D_Await") /\ victim' = session.follow
      BY <2>2 DEF Cancel
    <3>2. "C_Start" \in CancelLabels /\ FitsInner("D_Await", Base)
      BY <1>3, <2>2 DEF CancelLabels, FitsInner
    <3>3. Tracked(session.follow)
      BY <1>3, <2>2 DEF IInv, Named, FollowBases
    <3> QED BY <1>1, <1>2, <3>1, <3>2, <3>3, HelperCall
  <2> QED BY <2>1, <2>2 DEF DispatchWoken
<1>8. Top' \notin {"D_Start", "W_Replace", "C_Response", "I_Start"} /\ Top' \notin SendBacks
  BY <1>7 DEF SendBacks, FollowSends
<1>9. /\ Ledger' /\ Held' /\ Follows' /\ Evidence' /\ Counted' /\ Canceled'
      /\ Latest' = Latest /\ \A g : Tracked(g)' <=> Tracked(g)
  <2>1. ~Confirms'
    BY <1>4, <1>7 DEF Confirms
  <2> QED BY <1>3, <1>4, <1>5, <1>6, <1>7, <1>8, <2>1, HelperKeeps
<1>10. InFlight'
  BY <1>2, <1>3, <1>5, <1>7, <1>8, <1>9 DEF IInv, InFlight
<1>11. Named'
  <2>1. Top' \notin WaitLabels /\ Caller' # "I_Canceled"
    BY <1>4, <1>7 DEF WaitLabels
  <2>2. Top' \in CancelLabels => victim' = session.follow /\ Tracked(session.follow)
    BY <1>7 DEF CancelLabels
  <2> QED BY <1>4, <1>5, <1>6, <1>7, <1>8, <2>1, <2>2 DEF IInv, Named, Tracked, Steady
<1>12. TypedSlot' /\ TypedGoals'
  <2>1. victim' \in 0 .. MaxGoals
    BY <1>1, <1>7 DEF TypedGoals, Tracked, Goals
  <2> QED BY <1>1, <1>5, <1>6, <2>1, TypesKept DEF TypedGoals, Steady
<1> QED BY <1>7, <1>9, <1>10, <1>11, <1>12 DEF IInv

\* The reply: an accepted goal is tracked from here on.
LEMMA AnsweredKeeps ==
    ASSUME IInv, At("D_Await"), reply # "none", NEW value, Return(value),
           UNCHANGED <<busy, reserved, outer, victim, cancelCall>>,
           sending' = NoGoal, reply' = "none",
           goal' \in [Goals -> GoalType],
           \A g \in Goals : /\ goal'[g].kind = goal[g].kind /\ goal'[g].server = goal[g].server
                            /\ goal'[g].result = goal[g].result
                            /\ g # sending => goal'[g].tracked = goal[g].tracked,
           goal[sending].server \in Owned => goal'[sending].tracked \/ session'.unverified,
           value = "accepted" => goal'[sending].tracked,
           session' = session \/ session' = [session EXCEPT !.unverified = TRUE]
    PROVE  /\ Shape' /\ Ledger' /\ InFlight' /\ Named' /\ Held' /\ Follows' /\ Evidence' /\ Counted'
           /\ Canceled'
           /\ session' \in SessionType
<1>1. TypedGoals /\ Shape /\ Ledger /\ InFlight
  BY DEF IInv
<1>2. Top = "D_Await" /\ Top \in SendLabels
  BY DEF At, SendLabels
<1>3. /\ stack # <<>> /\ Depth = 2 /\ Caller = Base /\ Base \in SendBacks
      /\ ~reserved /\ ~session.terminal /\ busy /\ outer \in {"executing", "canceling"}
      /\ outer # "succeeded"
  BY <1>2, SendFacts
<1>4. /\ Base \notin {"W_Ret", "W_Replace", "D_Start", "D_Wait", "D_Await", "C_Response",
                      "I_Start", "I_Canceled", "E_PlanDone", "E_Init", "E_Start", "G_Guard", "Z_succeed"}
      /\ Base \notin SendLabels \cup WaitLabels \cup CancelLabels
      /\ Base \in FollowSends => Base \notin PlanBases \cup RetryBases \cup FollowBases
  BY <1>3, SendBackFacts
<1>5. Shape' /\ stack' # <<>> /\ Top' = Base /\ Base' = Base /\ Caller' = "none" /\ rv' = value
  BY <1>1, <1>2, <1>3, HelperReturn
<1>6. sending # NoGoal /\ sending = Latest /\ ~goal[sending].tracked /\ cancelCall = "none"
  BY <1>1, <1>2 DEF InFlight
<1>7. sending \in Goals
  BY <1>1, <1>6 DEF TypedGoals, Goals, NoGoal
<1>8. goal[sending].result = "none" /\ goal[sending].kind # "none"
  BY <1>1, <1>6, <1>7 DEF Ledger, Goals
<1>9. Latest' = Latest /\ OwnedFollows' = OwnedFollows
  BY DEF Latest, OwnedFollows
<1>10. /\ session'.follow = session.follow /\ session'.planner = session.planner
       /\ session'.failures = session.failures /\ session'.terminal = session.terminal
       /\ session.unverified => session'.unverified
       /\ session' \in SessionType
  BY <1>1 DEF TypedGoals, SessionType
<1>11. Ledger'
  <2> SUFFICES ASSUME NEW g \in Goals
               PROVE  /\ goal'[g].kind # "none" <=> g <= Latest'
                      /\ goal'[g].kind = "none" => goal'[g].server = "none" /\ ~goal'[g].tracked
                      /\ goal'[g].result \in Terminal => goal'[g].server = goal'[g].result
                      /\ goal'[g].result # "none" => goal'[g].tracked
                      /\ goal'[g].server \in Owned
                           => goal'[g].tracked \/ sending' = g \/ session'.unverified
    BY DEF Ledger
  <2>1. CASE g = sending
    BY <1>1, <1>7, <1>8, <1>9, <2>1, Disjoint DEF Ledger
  <2>2. CASE g # sending
    BY <1>1, <1>9, <1>10, <2>2 DEF Ledger
  <2> QED BY <2>1, <2>2
<1>12. InFlight'
  BY <1>4, <1>5, <1>6 DEF InFlight
<1>13. \A g : Tracked(g) => Tracked(g)'
  BY <1>6 DEF Tracked
<1>14. Named'
  <2>1. value = "accepted" =>
            Latest \in Goals /\ goal'[Latest].tracked /\ goal'[Latest].result = "none"
    BY <1>6, <1>7, <1>8
  <2>2. Tracked(session.follow) => Tracked(session.follow)'
    BY <1>10, <1>13 DEF Tracked
  <2>3. Top' \notin WaitLabels \cup CancelLabels /\ Top' # "I_Start" /\ Caller' # "I_Canceled"
    BY <1>4, <1>5
  <2>4. Tracked(Latest)' <=> Latest' \in Goals /\ goal'[Latest'].tracked
    BY DEF Tracked
  <2>5. value = "accepted" => Tracked(Latest)' /\ goal'[Latest'].result = "none"
    BY <1>9, <2>1, <2>4
  <2> QED BY <1>4, <1>5, <2>2, <2>3, <2>5 DEF IInv, Named
<1>15. Held'
  BY <1>3, <1>5, <1>10 DEF Held
<1>16. Follows'
  BY <1>4, <1>5, <1>9, <1>10 DEF IInv, Follows
<1>17. Evidence'
  BY <1>3, <1>4, <1>5 DEF Evidence
<1>18. Counted'
  BY <1>5, <1>10 DEF IInv, Counted
<1>19. Canceled'
  <2>1. session'.wake = session.wake /\ session'.cancelRequested = session.cancelRequested
    BY <1>1 DEF TypedGoals, SessionType
  <2> QED BY <1>4, <1>5, <2>1 DEF IInv, Canceled, Confirms
<1> QED BY <1>5, <1>10, <1>11, <1>12, <1>14, <1>15, <1>16, <1>17, <1>18, <1>19

LEMMA DispatchAnsweredKeeps ==
    ASSUME IInv, DispatchAnswered, yielded' \in BOOLEAN
    PROVE  IInv'
<1>1. TypedSlot /\ TypedGoals /\ Shape
  BY DEF IInv
<1>2. /\ At("D_Await") /\ Top = "D_Await" /\ Top \in SendLabels /\ reply # "none"
      /\ sending' = NoGoal /\ reply' = "none"
      /\ UNCHANGED <<slot, busy, reserved, outer, victim, attempted, cancelCall, faults>>
  BY DEF DispatchAnswered, At, SendLabels, slot, locals
<1>3. sending \in Goals /\ goal[sending] \in GoalType /\ goal \in [Goals -> GoalType]
  BY <1>1, <1>2 DEF IInv, InFlight, TypedGoals, Goals, NoGoal
<1>4. /\ Shape' /\ Ledger' /\ InFlight' /\ Named' /\ Held' /\ Follows' /\ Evidence' /\ Counted'
           /\ Canceled'
      /\ session' \in SessionType /\ goal' \in [Goals -> GoalType]
  <2>1. CASE /\ goal' = [goal EXCEPT ![sending].tracked = TRUE]
             /\ Return("accepted") /\ UNCHANGED session
    <3>1. /\ goal' \in [Goals -> GoalType] /\ goal'[sending].tracked
          /\ \A g \in Goals : /\ goal'[g].kind = goal[g].kind /\ goal'[g].server = goal[g].server
                              /\ goal'[g].result = goal[g].result
                              /\ g # sending => goal'[g].tracked = goal[g].tracked
      BY <1>3, <2>1 DEF GoalType
    <3> QED BY <1>2, <2>1, <3>1, AnsweredKeeps
  <2>2. CASE reply = "rejected" /\ Return("rejected") /\ UNCHANGED <<session, goal>>
    <3>1. goal[sending].server \notin Owned
      BY <2>2, Disjoint DEF IInv, InFlight
    <3> QED BY <1>2, <1>3, <2>2, <3>1, AnsweredKeeps
  <2>3. CASE /\ session' = [session EXCEPT !.unverified = TRUE]
             /\ Return("none") /\ UNCHANGED goal
    <3>1. session'.unverified
      BY <1>1, <2>3 DEF TypedGoals, SessionType
    <3> QED BY <1>2, <1>3, <2>3, <3>1, AnsweredKeeps
  <2>4. CASE /\ session' = [session EXCEPT !.unverified = TRUE]
             /\ Raise /\ UNCHANGED goal
    <3>1. rv' = rv
      BY <2>4 DEF Raise
    <3>2. session' \in SessionType
      BY <1>1, <2>4 DEF TypedGoals, SessionType
    <3> QED BY <1>2, <1>3, <2>4, <3>1, <3>2, UnsentKeeps
  <2> QED BY <2>1, <2>2, <2>3, <2>4 DEF DispatchAnswered
<1>5. TypedSlot' /\ TypedGoals'
  <2>1. sending' \in 0 .. MaxGoals
    BY <1>2 DEF NoGoal
  <2> QED BY <1>1, <1>2, <1>4, <2>1, TypesKept DEF TypedGoals
<1> QED BY <1>4, <1>5 DEF IInv

-----------------------------------------------------------------------------
(* execute itself.                                                           *)

\* What its steps share: they neither send nor track a goal and leave the slot
\* and the replies alone.
Plain ==
    /\ Quiet /\ UNCHANGED <<slot, sending, reply, cancelCall, faults>>
    /\ session' \in SessionType
    /\ session'.unverified = session.unverified /\ session'.terminal = session.terminal
    /\ session'.cancelRequested = session.cancelRequested
    /\ session'.wake = "CANCEL" => session.wake = "CANCEL" \/ session.cancelRequested
    /\ victim' \in 0 .. MaxGoals /\ attempted' \subseteq Goals
    /\ yielded' \in BOOLEAN

\* Where a step may leave execute.
MayReach(g) ==
    /\ OwnedFollows = {}
    /\ \/ StationaryCompletion /\ Latest = 0
       \/ g \in Goals /\ goal[g].server = "succeeded"
Closing == {"X_Handle", "X_Cancel", "Z_abort"}
May(to) ==
    /\ to \in FollowBases => Tracked(session'.follow) /\ OwnedFollows \subseteq {session'.follow}
    /\ to \in PlanBases \cup RetryBases \cup FollowSends => OwnedFollows = {}
    /\ to \in {"E_Init", "E_Start"} => Latest = 0
    /\ to \in {"G_Guard", "Z_succeed"} => MayReach(session'.follow)
    /\ to \in CountedBases => session'.failures <= MaxReplanFailures
    /\ to = "R_Start" => session'.failures < MaxReplanFailures
    /\ to \in Closing \/ ~session.terminal
    /\ to \in CanceledBases => session.cancelRequested

\* The next base is as it may be.
LEMMA Left ==
    ASSUME IInv, Top \in Bases, Plain, NEW to, May(to), Shape', stack' # <<>>,
           Base' = to, Top' \in {to, "D_Start", "I_Start", "A_Start", "C_Start"},
           Caller' \in {"none", to}, to \in Bases,
           to = "W_Ret" /\ rv' = "candidate" => OwnedFollows = {},
           to = "W_Ret" /\ rv' = "OUTER_SUCCEEDED" =>
               session'.follow \in Goals /\ Result(session'.follow) = "succeeded",
           to = "W_Ret" /\ rv' = "OUTER_CANCELED" => session.cancelRequested,
           Top' = to => to \notin SendBacks /\ to # "W_Replace" /\ to # "E_PlanDone",
           Top' = "D_Start" => Latest < MaxGoals,
           Top' = "I_Start" => Tracked(session'.planner) /\ goal'[session'.planner].result = "none",
           Top' = "C_Start" => Tracked(victim') /\ (to = "W_Replace" => victim' = session'.follow)
    PROVE  IInv'
<1>1. /\ TypedSlot /\ TypedGoals /\ Shape /\ Ledger /\ InFlight /\ Held
  BY DEF IInv
<1>2. /\ stack # <<>> /\ Top = Base /\ Caller = "none"
  BY <1>1, AtBase, Depths
<1>3. ~reserved /\ outer \in {"executing", "canceling"} /\ outer # "succeeded"
  BY <1>2, Running
<1>4. /\ Quiet /\ UNCHANGED <<busy, reserved, outer, sending, reply, cancelCall>>
      /\ session' \in SessionType
      /\ session'.unverified = session.unverified /\ session'.terminal = session.terminal
      /\ session'.cancelRequested = session.cancelRequested
      /\ session'.wake = "CANCEL" => session.wake = "CANCEL" \/ session.cancelRequested
  BY DEF Plain, slot
<1>5. /\ Ledger' /\ Latest' = Latest
      /\ OwnedFollows' \subseteq OwnedFollows
      /\ \A g : Tracked(g)' <=> Tracked(g)
      /\ \A g \in Goals : goal[g].server = "succeeded" => goal'[g].server = "succeeded"
      /\ \A g \in Goals : goal[g].result \in Terminal => goal'[g].result = goal[g].result
  BY <1>1, <1>4, QuietGoals
<1>6. InnerTerminal => InnerTerminal'
  BY <1>1, <1>4, QuietGoals
<1>7. /\ Bases \cap (SendLabels \cup WaitLabels \cup AwaitLabels \cup CancelLabels) = {}
      /\ {"D_Wait", "D_Await", "I_Canceled"} \subseteq SendLabels \cup WaitLabels
      /\ {"D_Start"} \subseteq SendLabels /\ {"A_Start"} \subseteq AwaitLabels
      /\ {"I_Start"} \subseteq WaitLabels /\ {"C_Response", "C_Start"} \subseteq CancelLabels
      /\ FollowBases \cup PlanBases \cup RetryBases \cup FollowSends \cup SendBacks \subseteq Bases
  BY DEF Bases, FollowBases, PlanBases, RetryBases, FollowSends, EndBases, SendBacks,
         SendLabels, WaitLabels, AwaitLabels, CancelLabels
<1>8. /\ Top \notin {"D_Wait", "D_Await", "C_Response"} /\ Caller # "D_Await"
      /\ Top' \notin {"D_Wait", "D_Await", "C_Response"}
      /\ Caller' # "D_Await" /\ Caller' # "I_Canceled" /\ to # "D_Start"
      /\ Top' \in WaitLabels => Top' = "I_Start"
      /\ Top' \in CancelLabels => Top' = "C_Start"
      /\ Top' \notin SendBacks /\ Top' # "W_Replace" /\ Top' # "I_Canceled" /\ Top' # "E_PlanDone"
  <2>1. CASE Top' = to
    BY <1>2, <1>7, <2>1
  <2>2. CASE Top' # to
    BY <1>2, <1>7, <2>2 DEF WaitLabels, CancelLabels, SendBacks, FollowSends
  <2> QED BY <2>1, <2>2
<1>9. InFlight'
  BY <1>4, <1>5, <1>8, NoneInFlight
<1>10. Named'
  <2>1. \A g : g \in Goals /\ goal'[g].tracked <=> Tracked(g)
    BY <1>5 DEF Tracked
  <2> QED BY <1>8, <2>1 DEF May, Named, Tracked
<1>11. Held'
  <2>1. session'.terminal => Base' \in Closing
    BY <1>4 DEF May
  <2> QED BY <1>1, <1>2, <1>3, <1>4, <1>6, <2>1 DEF Held, Closing
<1>12. Follows'
  <2>1. \A f, h \in OwnedFollows' : f = h
    BY <1>5 DEF IInv, Follows
  <2>2. to \in {"G_Guard", "Z_succeed"} => OwnedFollows = {}
    BY DEF May, MayReach
  <2> QED BY <1>5, <1>8, <2>1, <2>2 DEF May, Follows
<1>13. Evidence'
  <2>1. to \in {"G_Guard", "Z_succeed"} => Reached'
    BY <1>5 DEF May, MayReach, Reached
  <2>2. to = "W_Ret" /\ rv' = "OUTER_SUCCEEDED" => Result(session.follow)' = "succeeded"
    BY <1>5, Disjoint DEF Result, Terminal
  <2> QED BY <1>3, <1>4, <1>5, <2>1, <2>2 DEF May, Evidence
<1>14. Counted'
  BY DEF May, Counted
<1>15. TypedSlot' /\ TypedGoals'
  <2>1. sending \in 0 .. MaxGoals
    BY <1>1 DEF TypedGoals
  <2>2. /\ UNCHANGED <<slot, sending, reply, cancelCall, faults>> /\ goal' \in [Goals -> GoalType]
        /\ victim' \in 0 .. MaxGoals /\ attempted' \subseteq Goals /\ yielded' \in BOOLEAN
    BY DEF Plain, Quiet
  <2> QED BY <1>1, <1>4, <2>1, <2>2, TypesKept DEF TypedGoals
<1>16. Canceled'
  BY <1>4, <1>8 DEF IInv, Canceled, Confirms, May
<1> QED BY <1>5, <1>9, <1>10, <1>11, <1>12, <1>13, <1>14, <1>15, <1>16 DEF IInv

\* execute goes on.
LEMMA BaseGoes ==
    ASSUME IInv, Top \in Bases, Plain, NEW to, May(to), Goto(to),
           to \in Bases \ (SendBacks \cup {"W_Replace", "W_Ret", "E_PlanDone"})
    PROVE  IInv'
<1>1. /\ Shape' /\ stack' # <<>> /\ Top' = to /\ Base' = to /\ Caller' = "none"
  BY BaseGoto DEF IInv
<1>2. to \notin {"D_Start", "I_Start", "A_Start", "C_Start"}
  BY DEF Bases, FollowBases, PlanBases, RetryBases, FollowSends, EndBases
<1> QED BY <1>1, <1>2, Left

\* _plan_while_following returns.
LEMMA BaseHandsBack ==
    ASSUME IInv, Top \in Bases, Plain, NEW value, WhileReturn(value), May("W_Ret"),
           value = "candidate" => OwnedFollows = {},
           value = "OUTER_CANCELED" => session.cancelRequested,
           value = "OUTER_SUCCEEDED" =>
               session'.follow \in Goals /\ Result(session'.follow) = "succeeded"
    PROVE  IInv'
<1>1. /\ Shape' /\ stack' # <<>> /\ Top' = "W_Ret" /\ Base' = "W_Ret" /\ Caller' = "none"
      /\ rv' = value
  BY BaseReturns DEF IInv
<1>2. "W_Ret" \in Bases /\ "W_Ret" \notin SendBacks \cup {"W_Replace", "E_PlanDone"}
  BY DEF Bases, FollowBases, SendBacks, FollowSends
<1> QED BY <1>1, <1>2, Left

\* execute awaits a helper.
LEMMA BaseSends ==
    ASSUME IInv, Top \in Bases, Plain, NEW to \in SendBacks, May(to), Call("D_Start", to),
           Latest < MaxGoals
    PROVE  IInv'
<1>1. Fits("D_Start", to) /\ to \in Bases /\ to # "W_Ret" /\ to # "D_Start"
  BY DEF Fits, SendLabels, SendBacks, FollowSends, Bases, PlanBases, RetryBases, FollowBases
<1>2. /\ Shape' /\ stack' # <<>> /\ Top' = "D_Start" /\ Base' = to /\ Caller' = to
  BY <1>1, BaseCall DEF IInv
<1> QED BY <1>1, <1>2, Left

LEMMA BaseWaits ==
    ASSUME IInv, Top \in Bases, Plain, NEW to \in WaitBacks, May(to), Call("I_Start", to),
           Tracked(session'.planner), goal'[session'.planner].result = "none"
    PROVE  IInv'
<1>1. Fits("I_Start", to) /\ to \in Bases /\ to # "W_Ret" /\ to # "I_Start"
  BY DEF Fits, WaitLabels, WaitBacks, Bases, PlanBases, RetryBases
<1>2. /\ Shape' /\ stack' # <<>> /\ Top' = "I_Start" /\ Base' = to /\ Caller' = to
  BY <1>1, BaseCall DEF IInv
<1> QED BY <1>1, <1>2, Left

LEMMA BaseAwaits ==
    ASSUME IInv, Top \in Bases, Plain, NEW to \in AwaitBacks, May(to), Call("A_Start", to)
    PROVE  IInv'
<1>1. Fits("A_Start", to) /\ to \in Bases /\ to # "W_Ret" /\ to # "A_Start"
  BY DEF Fits, AwaitLabels, AwaitBacks, Bases, FollowBases, EndBases
<1>2. /\ Shape' /\ stack' # <<>> /\ Top' = "A_Start" /\ Base' = to /\ Caller' = to
  BY <1>1, BaseCall DEF IInv
<1> QED BY <1>1, <1>2, Left

LEMMA BaseCancels ==
    ASSUME IInv, Top \in Bases, Plain, NEW to \in CancelBacks, May(to), Call("C_Start", to),
           Tracked(victim'), to = "W_Replace" => victim' = session'.follow
    PROVE  IInv'
<1>1. Fits("C_Start", to) /\ to \in Bases /\ to # "W_Ret" /\ to # "C_Start"
  BY DEF Fits, CancelLabels, CancelBacks, Bases, FollowBases, EndBases
<1>2. /\ Shape' /\ stack' # <<>> /\ Top' = "C_Start" /\ Base' = to /\ Caller' = to
  BY <1>1, BaseCall DEF IInv
<1> QED BY <1>1, <1>2, Left

\* Steps that leave all but the coroutine, and those that also change some of
\* the session, are plain.
LEMMA PlainSession ==
    ASSUME IInv, UNCHANGED <<slot, transport>>, session' \in SessionType, yielded' \in BOOLEAN,
           session'.unverified = session.unverified, session'.terminal = session.terminal,
           session'.cancelRequested = session.cancelRequested,
           session'.wake = "CANCEL" => session.wake = "CANCEL" \/ session.cancelRequested,
           victim' \in 0 .. MaxGoals, attempted' \subseteq Goals
    PROVE  Plain /\ goal' = goal
<1>1. UNCHANGED <<goal, sending, reply, cancelCall, faults>>
  BY DEF transport
<1> QED BY <1>1, SameGoals DEF Plain, IInv, TypedGoals

LEMMA PlainControl ==
    ASSUME IInv, OnlyControl, yielded' \in BOOLEAN
    PROVE  Plain /\ UNCHANGED <<session, victim, attempted, goal>>
<1>1. UNCHANGED <<slot, session, victim, attempted, transport>>
  BY DEF OnlyControl, locals
<1> QED BY <1>1, PlainSession DEF IInv, TypedGoals

\* Where execute may go, by the kind of label.
Ends == {"S_Fail", "S_Late", "Z_cancel", "Z_abort"}
LEMMA MayEnd ==
    ASSUME ~session.terminal, NEW to \in Ends \cup Closing,
           to \in CanceledBases => session.cancelRequested
    PROVE  May(to)
  BY DEF May, Ends, Closing, FollowBases, PlanBases, RetryBases, FollowSends, CountedBases

LEMMA MayGuard ==
    ASSUME ~session.terminal, NEW to \in {"G_Guard", "Z_succeed"}, MayReach(session'.follow)
    PROVE  May(to)
  BY DEF May, FollowBases, PlanBases, RetryBases, FollowSends, CountedBases, CanceledBases

LEMMA MayFollow ==
    ASSUME ~session.terminal, NEW to \in FollowBases,
           Tracked(session'.follow), OwnedFollows \subseteq {session'.follow},
           to \in CountedBases => session'.failures <= MaxReplanFailures,
           to \in CanceledBases => session.cancelRequested
    PROVE  May(to)
  BY DEF May, FollowBases, PlanBases, RetryBases, FollowSends

LEMMA MayPlan ==
    ASSUME ~session.terminal, OwnedFollows = {},
           NEW to \in (PlanBases \ {"E_Init", "E_Start"}) \cup RetryBases \cup FollowSends,
           to \in RetryBases \cup {"S_RetrySent"} => session'.failures <= MaxReplanFailures,
           to = "R_Start" => session'.failures < MaxReplanFailures
    PROVE  May(to)
  BY DEF May, FollowBases, PlanBases, RetryBases, FollowSends, CountedBases, CanceledBases

\* What execute knows where it is.
LEMMA BaseFacts ==
    ASSUME IInv, Top \in Bases
    PROVE  /\ stack # <<>> /\ Base = Top /\ Depth = 1
           /\ session \in SessionType /\ goal \in [Goals -> GoalType]
           /\ Top \notin Closing => ~session.terminal
           /\ Top \in CanceledBases => session.cancelRequested
<1>1. Base = Top /\ Depth = 1 /\ stack # <<>>
  BY AtBase, Depths DEF IInv
<1> QED BY <1>1 DEF IInv, Held, TypedGoals, Closing, Canceled

LEMMA PlanFacts ==
    ASSUME IInv, Top \in PlanBases \cup RetryBases \cup FollowSends
    PROVE  /\ Top \in Bases /\ ~session.terminal
           /\ Top \in PlanBases \cup RetryBases => OwnedFollows = {}
           /\ Top \in RetryBases \cup {"S_RetrySent"} => session.failures <= MaxReplanFailures
<1>1. Top \in Bases /\ Top \notin Closing
  BY DEF Bases, PlanBases, RetryBases, FollowSends, Closing
<1> QED BY <1>1, BaseFacts DEF IInv, Follows, Counted, CountedBases

LEMMA FollowFacts ==
    ASSUME IInv, Top \in FollowBases
    PROVE  /\ Top \in Bases /\ ~session.terminal
           /\ session.follow \in Goals /\ Tracked(session.follow)
           /\ OwnedFollows \subseteq {session.follow}
           /\ Top \in CountedBases => session.failures <= MaxReplanFailures
           /\ Result(session.follow) \in Terminal => OwnedFollows = {}
           /\ Result(session.follow) = "succeeded" => MayReach(session.follow)
<1>1. Top \in Bases /\ Top \notin Closing
  BY DEF Bases, FollowBases, Closing
<1>2. ~session.terminal /\ Base = Top
  BY <1>1, BaseFacts
<1>3. Tracked(session.follow) /\ OwnedFollows \subseteq {session.follow} /\ session.follow \in Goals
  BY <1>2 DEF IInv, Named, Follows, Tracked
<1>4. Top \in CountedBases => session.failures <= MaxReplanFailures
  BY <1>2 DEF IInv, Counted
<1>5. Result(session.follow) \in Terminal =>
        goal[session.follow].server = Result(session.follow)
  BY <1>3 DEF IInv, Ledger, Result
<1>6. Result(session.follow) \in Terminal => OwnedFollows = {}
  BY <1>3, <1>5, Disjoint DEF OwnedFollows
<1>7. Result(session.follow) = "succeeded" => MayReach(session.follow)
  BY <1>3, <1>5, <1>6 DEF MayReach, Terminal
<1> QED BY <1>1, <1>2, <1>3, <1>4, <1>6, <1>7

LEMMA ExternalKeeps ==
    ASSUME IInv, ExternalAwait, yielded' \in BOOLEAN
    PROVE  IInv'
<1>1. Plain /\ session' = session
  BY PlainControl DEF ExternalAwait
<1>2. PICK label \in External[Top] : Goto(label)
  BY DEF ExternalAwait
<1>3. \/ Top = "E_Init" /\ label \in {"E_Start", "X_Handle"}
      \/ Top = "E_Snapshot" /\ label \in {"E_Plan", "X_Handle"}
      \/ Top = "E_Validate" /\ label \in {"E_Validated", "E_PathRejected"}
      \/ Top = "R_Validate" /\ label \in {"S_Retry", "R_None"}
      \/ Top = "W_Validate" /\ label \in {"W_Validated", "W_None"}
      \/ Top = "V_Active" /\ label \in {"V_Kept", "V_Unsafe"}
      \/ Top = "G_Guard" /\ label \in {"Z_succeed", "Z_abort"}
  <2>1. Top \in {"E_Init", "E_Snapshot", "E_Validate", "R_Validate", "W_Validate", "V_Active",
                 "G_Guard"}
    BY DEF ExternalAwait, External
  <2> QED BY <1>2, <2>1 DEF External
<1>4. Top \in Bases /\ label \in Bases \ (SendBacks \cup {"W_Replace", "W_Ret", "E_PlanDone"})
  BY <1>3 DEF Bases, PlanBases, RetryBases, FollowBases, EndBases, SendBacks, FollowSends
<1>5. ~session.terminal /\ Base = Top
  <2>1. Top \notin Closing
    BY <1>3 DEF Closing
  <2> QED BY <1>4, <2>1, BaseFacts
<1>6. May(label)
  <2>1. CASE label \in Closing
    BY <1>5, <2>1, MayEnd DEF Closing, CanceledBases
  <2>2. CASE label = "E_Start"
    <3>1. Top = "E_Init" /\ Latest = 0
      BY <1>3, <1>5, <2>2 DEF IInv, Evidence
    <3>2. OwnedFollows = {}
      BY <3>1, PlanFacts DEF PlanBases
    <3> QED
      BY <1>5, <2>2, <3>1, <3>2 DEF May, FollowBases, CountedBases, RetryBases, CanceledBases
  <2>3. CASE Top \in PlanBases \cup RetryBases /\ label # "E_Start" /\ label \notin Closing
    <3>1. label \in (PlanBases \ {"E_Init", "E_Start"}) \cup RetryBases /\ label # "R_Start"
      BY <1>3, <2>3 DEF PlanBases, RetryBases, Closing
    <3>2. label \in RetryBases \cup {"S_RetrySent"} => Top \in RetryBases
      BY <1>3, <2>3 DEF RetryBases
    <3> QED BY <1>1, <1>5, <2>3, <3>1, <3>2, PlanFacts, MayPlan
  <2>4. CASE Top \in FollowBases
    <3>1. /\ label \in FollowBases /\ label \notin CanceledBases
          /\ label \in CountedBases => Top \in CountedBases
      BY <1>3, <2>4 DEF FollowBases, CountedBases, RetryBases, CanceledBases
    <3> QED BY <1>1, <1>5, <2>4, <3>1, FollowFacts, MayFollow
  <2>5. CASE label = "Z_succeed"
    <3>1. Top = "G_Guard"
      BY <1>3, <2>5
    <3>2. MayReach(session.follow)
      BY <1>5, <3>1 DEF IInv, Evidence, Follows, Reached, MayReach
    <3> QED BY <1>1, <1>5, <2>5, <3>2, MayGuard
  <2> QED BY <1>3, <2>1, <2>2, <2>3, <2>4, <2>5 DEF PlanBases, RetryBases, FollowBases, Closing
<1> QED BY <1>1, <1>2, <1>4, <1>6, BaseGoes

\* execute up to the first FollowPath.
LEMMA StartKeeps ==
    ASSUME IInv, Start, yielded' \in BOOLEAN
    PROVE  IInv'
<1>1. Plain /\ session' = session /\ Top = "E_Start"
  BY PlainControl DEF Start, At
<1>2. Top \in PlanBases
  BY <1>1 DEF PlanBases
<1>3. Top \in Bases /\ ~session.terminal /\ OwnedFollows = {}
  BY <1>1, <1>2, PlanFacts DEF FollowSends
<1>4. Base = Top /\ Latest = 0
  BY <1>1, <1>3, BaseFacts DEF IInv, Evidence
<1>5. PICK label \in {"Z_cancel", "G_Guard", "E_Snapshot", "E_Plan"} :
        /\ Goto(label) /\ (label = "G_Guard" => StationaryCompletion)
        /\ label = "Z_cancel" => session.cancelRequested
  BY DEF Start
<1>6. label \in Bases \ (SendBacks \cup {"W_Replace", "W_Ret", "E_PlanDone"})
  BY <1>5 DEF Bases, PlanBases, EndBases, SendBacks, FollowSends
<1>7. May(label)
  <2>1. CASE label = "Z_cancel"
    BY <1>3, <1>5, <2>1, MayEnd DEF Ends
  <2>2. CASE label = "G_Guard"
    BY <1>3, <1>4, <1>5, <2>2, MayGuard DEF MayReach
  <2>3. CASE label \in {"E_Snapshot", "E_Plan"}
    BY <1>3, <2>3, MayPlan DEF PlanBases, RetryBases
  <2> QED BY <1>5, <2>1, <2>2, <2>3
<1> QED BY <1>1, <1>3, <1>5, <1>6, <1>7, BaseGoes

LEMMA PlanKeeps ==
    ASSUME IInv, Plan, yielded' \in BOOLEAN
    PROVE  IInv'
<1>1. Plain /\ session' = session
  BY PlainControl DEF Plan
<1>2. Top \in PlanBases
  BY DEF Plan, At, PlanBases
<1>3. Top \in Bases /\ ~session.terminal /\ OwnedFollows = {}
  BY <1>2, PlanFacts DEF FollowSends, PlanBases
<1>4. ASSUME NEW label \in {"Z_abort", "Z_cancel", "E_Validate", "E_Follow"}, Goto(label),
             label = "Z_cancel" => session.cancelRequested
      PROVE  IInv'
  <2>1. label \in Bases \ (SendBacks \cup {"W_Replace", "W_Ret", "E_PlanDone"})
    BY <1>4 DEF Bases, PlanBases, EndBases, SendBacks, FollowSends
  <2>2. May(label)
    <3>1. CASE label \in Ends
      BY <1>3, <1>4, <3>1, MayEnd DEF Ends, CanceledBases
    <3>2. CASE label \notin Ends
      BY <1>3, <1>4, <3>2, MayPlan DEF PlanBases, RetryBases, Ends
    <3> QED BY <3>1, <3>2
  <2> QED BY <1>1, <1>3, <1>4, <2>1, <2>2, BaseGoes
<1>5. ASSUME CanSend, Call("D_Start", "E_PlanSent")
      PROVE  IInv'
  <2>1. "E_PlanSent" \in SendBacks /\ May("E_PlanSent")
    BY <1>3, MayPlan DEF SendBacks, PlanBases, RetryBases
  <2> QED BY <1>1, <1>3, <1>5, <2>1, BaseSends DEF CanSend
<1>6. At("E_PlanDone") /\ rv = "confirmed" => session.cancelRequested
  BY DEF At, IInv, Canceled, Confirms
<1> QED BY <1>4, <1>5, <1>6 DEF Plan

LEMMA PlanAcceptedKeeps ==
    ASSUME IInv, PlanAccepted, yielded' \in BOOLEAN
    PROVE  IInv'
<1>1. /\ Top = "E_PlanSent" /\ rv = "accepted" /\ session' = [session EXCEPT !.planner = Latest]
      /\ Call("I_Start", "E_PlanDone") /\ UNCHANGED <<slot, locals, transport>>
  BY DEF PlanAccepted, At
<1>2. Top \in Bases /\ ~session.terminal /\ OwnedFollows = {}
  BY <1>1, PlanFacts DEF FollowSends, PlanBases
<1>3. Tracked(Latest) /\ goal[Latest].result = "none"
  BY <1>1 DEF IInv, Named, SendBacks
<1>4. /\ session' \in SessionType /\ session'.planner = Latest
      /\ session'.unverified = session.unverified /\ session'.terminal = session.terminal
      /\ session'.cancelRequested = session.cancelRequested /\ session'.wake = session.wake
  BY <1>1, LatestType DEF IInv, TypedGoals, SessionType
<1>5. Plain /\ goal' = goal
  BY <1>1, <1>4, PlainSession DEF IInv, TypedGoals, locals
<1>6. "E_PlanDone" \in WaitBacks /\ May("E_PlanDone")
  BY <1>2, MayPlan DEF WaitBacks, PlanBases, RetryBases
<1>7. Tracked(session'.planner) /\ goal'[session'.planner].result = "none"
  BY <1>3, <1>4, <1>5
<1> QED BY <1>1, <1>2, <1>5, <1>6, <1>7, BaseWaits

LEMMA FollowSendKeeps ==
    ASSUME IInv, FollowSend, yielded' \in BOOLEAN
    PROVE  IInv'
<1>1. /\ Top = "E_Follow" /\ CanSend /\ session' = [session EXCEPT !.stage = "FOLLOWING"]
      /\ Call("D_Start", "E_FollowSent") /\ UNCHANGED <<slot, locals, transport>>
  BY DEF FollowSend, At
<1>2. Top \in Bases /\ ~session.terminal /\ OwnedFollows = {}
  BY <1>1, PlanFacts DEF FollowSends, PlanBases
<1>3. /\ session' \in SessionType
      /\ session'.unverified = session.unverified /\ session'.terminal = session.terminal
      /\ session'.cancelRequested = session.cancelRequested /\ session'.wake = session.wake
  BY <1>1 DEF IInv, TypedGoals, SessionType
<1>4. Plain
  BY <1>1, <1>3, PlainSession DEF IInv, TypedGoals, locals
<1>5. "E_FollowSent" \in SendBacks /\ May("E_FollowSent")
  BY <1>2, MayPlan DEF SendBacks, FollowSends, RetryBases
<1> QED BY <1>1, <1>2, <1>4, <1>5, BaseSends DEF CanSend

\* execute goes on to its end, to follow, or to the arrival proof.
LEMMA EndGoes ==
    ASSUME IInv, Top \in Bases, Plain, ~session.terminal,
           NEW to \in {"Z_cancel", "Z_abort", "S_Fail"}, Goto(to),
           to = "Z_cancel" => session.cancelRequested
    PROVE  IInv'
<1>1. to \in Bases \ (SendBacks \cup {"W_Replace", "W_Ret", "E_PlanDone"})
  BY DEF Bases, EndBases, SendBacks, FollowSends
<1>2. May(to)
  BY MayEnd DEF Ends, CanceledBases
<1> QED BY <1>1, <1>2, BaseGoes

LEMMA EndAwaits ==
    ASSUME IInv, Top \in Bases, Plain, ~session.terminal, Call("A_Start", "Z_abort")
    PROVE  IInv'
<1>1. May("Z_abort") /\ "Z_abort" \in AwaitBacks
  BY MayEnd DEF Ends, AwaitBacks, CanceledBases
<1> QED BY <1>1, BaseAwaits

LEMMA GuardGoes ==
    ASSUME IInv, Top \in Bases, Plain, ~session.terminal, MayReach(session'.follow),
           Goto("G_Guard")
    PROVE  IInv'
<1>1. "G_Guard" \in Bases \ (SendBacks \cup {"W_Replace", "W_Ret", "E_PlanDone"})
  BY DEF Bases, EndBases, SendBacks, FollowSends
<1>2. May("G_Guard")
  BY MayGuard
<1> QED BY <1>1, <1>2, BaseGoes

LEMMA FollowGoes ==
    ASSUME IInv, Top \in Bases, Plain, ~session.terminal,
           NEW to \in FollowBases \ ({"W_Sent", "W_Replace", "W_Ret"} \cup CanceledBases), Goto(to),
           Tracked(session'.follow), OwnedFollows \subseteq {session'.follow},
           to \in CountedBases => session'.failures <= MaxReplanFailures
    PROVE  IInv'
<1>1. to \in Bases \ (SendBacks \cup {"W_Replace", "W_Ret", "E_PlanDone"})
  BY DEF Bases, FollowBases, SendBacks, FollowSends
<1>2. May(to)
  BY MayFollow
<1> QED BY <1>1, <1>2, BaseGoes

LEMMA FollowCancels ==
    ASSUME IInv, Top \in FollowBases, Plain, session'.follow = session.follow,
           NEW to \in CancelBacks \cap (FollowBases \cup {"S_Late"}), Cancel(session.follow, to),
           to \in CountedBases => session'.failures <= MaxReplanFailures,
           to \in CanceledBases => session.cancelRequested
    PROVE  IInv'
<1>1. /\ Top \in Bases /\ ~session.terminal /\ Tracked(session.follow)
      /\ OwnedFollows \subseteq {session.follow}
  BY FollowFacts
<1>2. Call("C_Start", to) /\ victim' = session.follow
  BY DEF Cancel
<1>3. May(to)
  BY <1>1, MayFollow, MayEnd DEF Ends
<1>4. Tracked(victim')
  BY <1>1, <1>2
<1> QED BY <1>1, <1>2, <1>3, <1>4, BaseCancels

\* An accepted FollowPath is the one that is followed from here on.
LEMMA AcceptedGoes ==
    ASSUME IInv, Top \in FollowSends, rv = "accepted", Goto("F_Loop"), Plain,
           session'.follow = Latest, session'.failures <= MaxReplanFailures
    PROVE  IInv'
<1>1. Top \in Bases /\ ~session.terminal
  BY PlanFacts
<1>2. Base = Top
  BY <1>1, BaseFacts
<1>3. Tracked(Latest) /\ OwnedFollows \subseteq {Latest}
  BY <1>2 DEF IInv, Named, Follows, SendBacks
<1> QED BY <1>1, <1>3, FollowGoes DEF FollowBases, CanceledBases

LEMMA FollowSentKeeps ==
    ASSUME IInv, FollowSent, yielded' \in BOOLEAN
    PROVE  IInv'
<1>1. /\ Top = "E_FollowSent" /\ UNCHANGED <<slot, locals, transport>>
      /\ \/ /\ rv = "accepted" /\ Goto("F_Loop")
            /\ session' = [session EXCEPT !.follow = Latest, !.failures = 0]
         \/ /\ UNCHANGED session
            /\ \/ Goto("Z_cancel") /\ session.cancelRequested
               \/ Goto("Z_abort") \/ Call("A_Start", "Z_abort")
  BY DEF FollowSent, At
<1>2. Top \in FollowSends /\ Top \in Bases /\ ~session.terminal
  BY <1>1, PlanFacts DEF FollowSends
<1>3. /\ session' \in SessionType
      /\ session'.unverified = session.unverified /\ session'.terminal = session.terminal
      /\ session'.cancelRequested = session.cancelRequested
      /\ session'.wake = "CANCEL" => session.wake = "CANCEL" \/ session.cancelRequested
  <2>1. session \in SessionType /\ Latest \in 0 .. MaxGoals
    BY LatestType DEF IInv, TypedGoals
  <2>2. CASE session' = [session EXCEPT !.follow = Latest, !.failures = 0]
    <3>1. 0 \in 0 .. MaxReplanFailures + 1
      OBVIOUS
    <3>2. session' \in SessionType
      BY <2>1, <2>2, <3>1 DEF SessionType
    <3>3. /\ session'.unverified = session.unverified /\ session'.terminal = session.terminal
          /\ session'.cancelRequested = session.cancelRequested /\ session'.wake = session.wake
      BY <2>1, <2>2 DEF SessionType
    <3> QED BY <3>2, <3>3
  <2> QED BY <1>1, <2>1, <2>2
<1>4. Plain
  BY <1>1, <1>3, PlainSession DEF IInv, TypedGoals, locals
<1>5. CASE /\ rv = "accepted" /\ Goto("F_Loop")
           /\ session' = [session EXCEPT !.follow = Latest, !.failures = 0]
  <2>1. session'.follow = Latest /\ session'.failures <= MaxReplanFailures
    BY <1>5 DEF IInv, TypedGoals, SessionType
  <2> QED BY <1>2, <1>4, <1>5, <2>1, AcceptedGoes
<1> QED BY <1>1, <1>2, <1>4, <1>5, EndGoes, EndAwaits

\* Changes of a goal that concern neither its server nor its result.
LEMMA Marked ==
    ASSUME IInv, goal' \in [Goals -> GoalType],
           \A g \in Goals :
               /\ goal'[g].kind = goal[g].kind /\ goal'[g].tracked = goal[g].tracked
               /\ goal'[g].server = goal[g].server
               /\ \/ goal'[g].result = goal[g].result
                  \/ goal[g].result = "none" /\ goal[g].tracked /\ goal'[g].result = "requested"
    PROVE  Quiet
  BY DEF Quiet, Terminal

\* _follow_with_replanning.
LEMMA FollowLoopKeeps ==
    ASSUME IInv, FollowLoop, yielded' \in BOOLEAN
    PROVE  IInv'
<1> DEFINE f == session.follow
           wake == IF session.cancelRequested THEN "CANCEL"
                   ELSE IF session.replanPending THEN "REPLAN"
                   ELSE IF Done(f) THEN "RESULT" ELSE "armed"
<1>1. /\ Top = "F_Loop" /\ Goto("F_Wait")
      /\ session' = [session EXCEPT !.wake = wake, !.stage = "FOLLOWING"]
      /\ goal' = [goal EXCEPT
             ![f].result = IF @ = "none" THEN "requested" ELSE @,
             ![f].watched = @ \/ wake = "armed"]
      /\ UNCHANGED <<slot, victim, attempted, sending, reply, cancelCall, faults>>
  BY DEF FollowLoop, At, locals
<1>2. Top \in FollowBases /\ Top \in CountedBases
  BY <1>1 DEF FollowBases, CountedBases
<1>3. /\ Top \in Bases /\ ~session.terminal /\ f \in Goals /\ Tracked(f)
      /\ OwnedFollows \subseteq {f} /\ session.failures <= MaxReplanFailures
  BY <1>2, FollowFacts
<1>4. /\ wake \in {"none", "armed"} \cup Reasons
      /\ goal \in [Goals -> GoalType] /\ session \in SessionType /\ goal[f] \in GoalType
      /\ wake = "CANCEL" => session.cancelRequested
  BY <1>3 DEF IInv, TypedGoals, Reasons
<1>5. Quiet
  <2>1. goal[f].tracked
    BY <1>3 DEF Tracked
  <2>2. /\ goal[f].result \in ResultStates /\ "requested" \in ResultStates
        /\ (goal[f].watched \/ wake = "armed") \in BOOLEAN
    BY <1>4 DEF GoalType, ResultStates
  <2> HIDE DEF wake, f
  <2>3. goal' \in [Goals -> GoalType]
    BY <1>1, <1>3, <1>4, <2>2 DEF GoalType
  <2>4. \A g \in Goals :
            /\ goal'[g].kind = goal[g].kind /\ goal'[g].tracked = goal[g].tracked
            /\ goal'[g].server = goal[g].server
            /\ \/ goal'[g].result = goal[g].result
               \/ goal[g].result = "none" /\ goal[g].tracked /\ goal'[g].result = "requested"
    BY <1>1, <1>3, <1>4, <2>1 DEF GoalType
  <2> QED BY <2>3, <2>4, Marked
<1>6. /\ session' \in SessionType /\ session'.follow = f /\ session'.failures = session.failures
      /\ session'.unverified = session.unverified /\ session'.terminal = session.terminal
      /\ session'.cancelRequested = session.cancelRequested
      /\ session'.wake = "CANCEL" => session.wake = "CANCEL" \/ session.cancelRequested
  <2> HIDE DEF wake
  <2> QED BY <1>1, <1>4 DEF SessionType
<1>7. Plain
  BY <1>1, <1>5, <1>6 DEF Plain, IInv, TypedGoals
<1> QED BY <1>1, <1>3, <1>6, <1>7, FollowGoes DEF FollowBases, CanceledBases

LEMMA FollowCancelingKeeps ==
    ASSUME IInv, FollowCanceling, yielded' \in BOOLEAN
    PROVE  IInv'
<1>1. /\ Top = "F_Wait" /\ session' = [session EXCEPT !.wake = "none"]
      /\ UNCHANGED <<slot, transport>>
      /\ \/ /\ Result(session.follow) = "succeeded" /\ Goto("G_Guard") /\ UNCHANGED locals
         \/ Cancel(session.follow, "F_Canceled")
      /\ session.cancelRequested
  BY DEF FollowCanceling, At, IInv, Canceled
<1>2. Top \in FollowBases /\ Top \in CountedBases
  BY <1>1 DEF FollowBases, CountedBases
<1>3. /\ Top \in Bases /\ ~session.terminal /\ session.follow \in Goals
      /\ session.failures <= MaxReplanFailures
      /\ Result(session.follow) = "succeeded" => MayReach(session.follow)
  BY <1>2, FollowFacts
<1>4. /\ session' \in SessionType
      /\ session'.follow = session.follow /\ session'.failures = session.failures
      /\ session'.unverified = session.unverified /\ session'.terminal = session.terminal
      /\ session'.cancelRequested = session.cancelRequested
      /\ session'.wake = "CANCEL" => session.wake = "CANCEL" \/ session.cancelRequested
  BY <1>1 DEF IInv, TypedGoals, SessionType
<1>5. Plain
  <2>1. victim' \in 0 .. MaxGoals /\ attempted' \subseteq Goals
    BY <1>1, <1>3 DEF IInv, TypedGoals, locals, Cancel, Goals
  <2> QED BY <1>1, <1>4, <2>1, PlainSession
<1>6. "F_Canceled" \in CancelBacks \cap (FollowBases \cup {"S_Late"})
  BY DEF CancelBacks, FollowBases
<1>7. CASE Result(session.follow) = "succeeded" /\ Goto("G_Guard")
  BY <1>3, <1>4, <1>5, <1>7, GuardGoes
<1>8. CASE Cancel(session.follow, "F_Canceled")
  BY <1>1, <1>2, <1>3, <1>4, <1>5, <1>6, <1>8, FollowCancels
<1> QED BY <1>1, <1>7, <1>8

LEMMA FollowEndedKeeps ==
    ASSUME IInv, FollowEnded, yielded' \in BOOLEAN
    PROVE  IInv'
<1>1. /\ Top = "F_Wait" /\ session' = [session EXCEPT !.wake = "none"]
      /\ UNCHANGED <<slot, transport>>
      /\ \/ Cancel(session.follow, "F_Unverified")
         \/ /\ Result(session.follow) = "succeeded" /\ Goto("G_Guard") /\ UNCHANGED locals
         \/ /\ Result(session.follow) = "aborted" /\ RetriesLeft /\ Goto("R_Start")
            /\ UNCHANGED locals
         \/ Goto("Z_abort") /\ UNCHANGED locals
         \/ Goto("F_Loop") /\ UNCHANGED locals
  BY DEF FollowEnded, At
<1>2. Top \in FollowBases /\ Top \in CountedBases
  BY <1>1 DEF FollowBases, CountedBases
<1>3. /\ Top \in Bases /\ ~session.terminal /\ session.follow \in Goals /\ Tracked(session.follow)
      /\ OwnedFollows \subseteq {session.follow} /\ session.failures <= MaxReplanFailures
      /\ Result(session.follow) \in Terminal => OwnedFollows = {}
      /\ Result(session.follow) = "succeeded" => MayReach(session.follow)
  BY <1>2, FollowFacts
<1>4. /\ session' \in SessionType
      /\ session'.follow = session.follow /\ session'.failures = session.failures
      /\ session'.unverified = session.unverified /\ session'.terminal = session.terminal
      /\ session'.cancelRequested = session.cancelRequested
      /\ session'.wake = "CANCEL" => session.wake = "CANCEL" \/ session.cancelRequested
  BY <1>1 DEF IInv, TypedGoals, SessionType
<1>5. Plain
  <2>1. victim' \in 0 .. MaxGoals /\ attempted' \subseteq Goals
    BY <1>1, <1>3 DEF IInv, TypedGoals, locals, Cancel, Goals
  <2> QED BY <1>1, <1>4, <2>1, PlainSession
<1>6. CASE Cancel(session.follow, "F_Unverified")
  <2>1. /\ "F_Unverified" \in CancelBacks \cap (FollowBases \cup {"S_Late"})
        /\ "F_Unverified" \notin CanceledBases
    BY DEF CancelBacks, FollowBases, CanceledBases
  <2> QED BY <1>2, <1>3, <1>4, <1>5, <1>6, <2>1, FollowCancels
<1>7. CASE Result(session.follow) = "succeeded" /\ Goto("G_Guard")
  BY <1>3, <1>4, <1>5, <1>7, GuardGoes
<1>8. CASE Result(session.follow) = "aborted" /\ RetriesLeft /\ Goto("R_Start")
  <2>1. OwnedFollows = {} /\ session'.failures < MaxReplanFailures
    BY <1>3, <1>4, <1>8 DEF Terminal, RetriesLeft
  <2>2. session.failures \in Nat
    BY DEF IInv, TypedGoals, SessionType
  <2>3. May("R_Start")
    BY <1>3, <1>4, <2>1, <2>2, MayPlan DEF RetryBases
  <2>4. "R_Start" \in Bases \ (SendBacks \cup {"W_Replace", "W_Ret", "E_PlanDone"})
    BY DEF Bases, RetryBases, SendBacks, FollowSends
  <2> QED BY <1>3, <1>5, <1>8, <2>3, <2>4, BaseGoes
<1>9. CASE Goto("Z_abort")
  BY <1>3, <1>5, <1>9, EndGoes
<1>10. CASE Goto("F_Loop")
  BY <1>3, <1>4, <1>5, <1>10, FollowGoes DEF FollowBases, CanceledBases
<1> QED BY <1>1, <1>6, <1>7, <1>8, <1>9, <1>10

LEMMA FollowReplanKeeps ==
    ASSUME IInv, FollowReplan, yielded' \in BOOLEAN
    PROVE  IInv'
<1>1. /\ Top = "F_Wait" /\ Goto("W_Start") /\ UNCHANGED <<slot, locals, transport>>
      /\ session' = [session EXCEPT !.wake = "none", !.replanPending = FALSE,
                                    !.replanInFlight = TRUE, !.stage = "PLANNING"]
  BY DEF FollowReplan, At
<1>2. Top \in FollowBases /\ Top \in CountedBases
  BY <1>1 DEF FollowBases, CountedBases
<1>3. /\ Top \in Bases /\ ~session.terminal /\ Tracked(session.follow)
      /\ OwnedFollows \subseteq {session.follow} /\ session.failures <= MaxReplanFailures
  BY <1>2, FollowFacts
<1>4. /\ session' \in SessionType
      /\ session'.follow = session.follow /\ session'.failures = session.failures
      /\ session'.unverified = session.unverified /\ session'.terminal = session.terminal
      /\ session'.cancelRequested = session.cancelRequested
      /\ session'.wake = "CANCEL" => session.wake = "CANCEL" \/ session.cancelRequested
  BY <1>1 DEF IInv, TypedGoals, SessionType
<1>5. Plain
  BY <1>1, <1>4, PlainSession DEF IInv, TypedGoals, locals
<1> QED BY <1>1, <1>3, <1>4, <1>5, FollowGoes DEF FollowBases, CanceledBases

LEMMA FollowStoppedKeeps ==
    ASSUME IInv, FollowStopped, yielded' \in BOOLEAN
    PROVE  IInv'
<1>1. Plain /\ UNCHANGED session
  BY PlainControl DEF FollowStopped
<1>2. /\ Top \in {"F_Canceled", "F_StopCancel", "F_Stop", "F_Unverified", "F_CancelAwaited", "S_Late"}
      /\ Top \in Bases /\ Top \notin Closing
  BY DEF FollowStopped, At, Bases, FollowBases, EndBases, Closing
<1>3. ~session.terminal /\ (Top \in CanceledBases => session.cancelRequested)
  BY <1>2, BaseFacts
<1>4. CASE (Goto("Z_cancel") /\ session.cancelRequested) \/ Goto("Z_abort")
  BY <1>1, <1>2, <1>3, <1>4, EndGoes
<1>5. CASE Call("A_Start", "Z_abort")
  BY <1>1, <1>2, <1>3, <1>5, EndAwaits
<1>6. CASE At("F_Canceled") /\ Call("A_Start", "F_CancelAwaited")
  <2>1. Top \in FollowBases /\ Top \in CountedBases
    BY <1>6 DEF At, FollowBases, CountedBases
  <2>2. May("F_CancelAwaited") /\ "F_CancelAwaited" \in AwaitBacks
    BY <1>1, <1>3, <2>1, FollowFacts, MayFollow DEF FollowBases, AwaitBacks, CanceledBases
  <2> QED BY <1>1, <1>2, <1>6, <2>2, BaseAwaits
<1>7. CASE At("F_CancelAwaited") /\ Result(session.follow) = "succeeded" /\ Goto("G_Guard")
  <2>1. Top \in FollowBases
    BY <1>7 DEF At, FollowBases
  <2>2. MayReach(session'.follow)
    BY <1>1, <1>7, <2>1, FollowFacts
  <2> QED BY <1>1, <1>2, <1>3, <1>7, <2>2, GuardGoes
<1>8. Top \in {"F_Canceled", "F_StopCancel", "S_Late"} => session.cancelRequested
  BY <1>3 DEF CanceledBases
<1> QED BY <1>4, <1>5, <1>6, <1>7, <1>8 DEF FollowStopped, At

\* _plan_retry and _submit_follow.
LEMMA RetryGoes ==
    ASSUME IInv, Top \in RetryBases, Plain, session'.failures <= MaxReplanFailures,
           NEW to \in {"R_None", "R_Validate"}, Goto(to)
    PROVE  IInv'
<1>1. Top \in Bases /\ ~session.terminal /\ OwnedFollows = {}
  BY PlanFacts
<1>2. to \in Bases \ (SendBacks \cup {"W_Replace", "W_Ret", "E_PlanDone"})
  BY DEF Bases, RetryBases, SendBacks, FollowSends
<1>3. May(to)
  BY <1>1, MayPlan DEF RetryBases
<1> QED BY <1>1, <1>2, <1>3, BaseGoes

LEMMA PlanRetryKeeps ==
    ASSUME IInv, PlanRetry, yielded' \in BOOLEAN
    PROVE  IInv'
<1>1. /\ Top = "R_Start" /\ UNCHANGED <<slot, locals, transport>>
      /\ session' = [session EXCEPT !.stage = "PLANNING", !.failures = session.failures + 1]
      /\ Goto("R_None") \/ (CanSend /\ Call("D_Start", "R_Sent"))
  BY DEF PlanRetry, At
<1>2. Top \in RetryBases
  BY <1>1 DEF RetryBases
<1>3. Top \in Bases /\ ~session.terminal /\ OwnedFollows = {}
  BY <1>2, PlanFacts
<1>4. session.failures < MaxReplanFailures
  BY <1>1, <1>3, BaseFacts DEF IInv, Counted
<1>5. /\ session \in SessionType /\ session.failures \in 0 .. MaxReplanFailures + 1
  BY DEF IInv, TypedGoals, SessionType
<1>6. session.failures + 1 \in 0 .. MaxReplanFailures + 1
  BY <1>4, <1>5
<1>7. session' \in SessionType
  BY <1>1, <1>5, <1>6 DEF SessionType
<1>8. /\ session'.failures = session.failures + 1
      /\ session'.unverified = session.unverified /\ session'.terminal = session.terminal
      /\ session'.cancelRequested = session.cancelRequested
      /\ session'.wake = "CANCEL" => session.wake = "CANCEL" \/ session.cancelRequested
  BY <1>1, <1>5 DEF SessionType
<1>9. session'.failures <= MaxReplanFailures
  BY <1>4, <1>5, <1>8
<1>10. Plain
  BY <1>1, <1>7, <1>8, PlainSession DEF IInv, TypedGoals, locals
<1>11. CASE Goto("R_None")
  BY <1>2, <1>9, <1>10, <1>11, RetryGoes
<1>12. CASE CanSend /\ Call("D_Start", "R_Sent")
  <2>1. "R_Sent" \in SendBacks /\ May("R_Sent")
    BY <1>3, <1>9, MayPlan DEF SendBacks, RetryBases
  <2> QED BY <1>3, <1>10, <1>12, <2>1, BaseSends DEF CanSend
<1> QED BY <1>1, <1>11, <1>12

LEMMA PlanRetrySentKeeps ==
    ASSUME IInv, PlanRetrySent, yielded' \in BOOLEAN
    PROVE  IInv'
<1>1. /\ Top = "R_Sent" /\ UNCHANGED <<slot, locals, transport>>
      /\ \/ /\ rv = "accepted" /\ session' = [session EXCEPT !.planner = Latest]
            /\ Call("I_Start", "R_Done")
         \/ Goto("R_None") /\ UNCHANGED session
  BY DEF PlanRetrySent, At
<1>2. Top \in RetryBases
  BY <1>1 DEF RetryBases
<1>3. /\ Top \in Bases /\ ~session.terminal /\ OwnedFollows = {}
      /\ session.failures <= MaxReplanFailures
  BY <1>2, PlanFacts
<1>4. session \in SessionType /\ Latest \in 0 .. MaxGoals
  BY LatestType DEF IInv, TypedGoals
<1>5. CASE rv = "accepted" /\ session' = [session EXCEPT !.planner = Latest]
           /\ Call("I_Start", "R_Done")
  <2>1. Tracked(Latest) /\ goal[Latest].result = "none"
    BY <1>1, <1>5 DEF IInv, Named, SendBacks
  <2>2. session' \in SessionType
    BY <1>4, <1>5 DEF SessionType
  <2>3. /\ session'.planner = Latest /\ session'.failures = session.failures
        /\ session'.unverified = session.unverified /\ session'.terminal = session.terminal
        /\ session'.cancelRequested = session.cancelRequested
        /\ session'.wake = "CANCEL" => session.wake = "CANCEL" \/ session.cancelRequested
    BY <1>4, <1>5 DEF SessionType
  <2>4. Plain /\ goal' = goal
    BY <1>1, <2>2, <2>3, PlainSession DEF IInv, TypedGoals, locals
  <2>5. "R_Done" \in WaitBacks /\ May("R_Done")
    BY <1>3, <2>3, MayPlan DEF WaitBacks, RetryBases
  <2>6. Tracked(session'.planner) /\ goal'[session'.planner].result = "none"
    BY <2>1, <2>3, <2>4
  <2> QED BY <1>3, <1>5, <2>4, <2>5, <2>6, BaseWaits
<1>6. CASE Goto("R_None") /\ UNCHANGED session
  <2>1. Plain
    BY <1>1, <1>4, <1>6, PlainSession DEF IInv, TypedGoals, locals
  <2> QED BY <1>2, <1>3, <1>6, <2>1, RetryGoes
<1> QED BY <1>1, <1>5, <1>6

LEMMA PlanRetryDoneKeeps ==
    ASSUME IInv, PlanRetryDone, yielded' \in BOOLEAN
    PROVE  IInv'
<1>1. Plain /\ UNCHANGED session
  BY PlainControl DEF PlanRetryDone
<1>2. Top \in RetryBases
  BY DEF PlanRetryDone, At, RetryBases
<1>3. Top \in Bases /\ ~session.terminal /\ session.failures <= MaxReplanFailures
  BY <1>2, PlanFacts
<1> QED BY <1>1, <1>2, <1>3, RetryGoes, EndGoes DEF PlanRetryDone

LEMMA SubmitFollowKeeps ==
    ASSUME IInv, SubmitFollow, yielded' \in BOOLEAN
    PROVE  IInv'
<1>1. Plain /\ UNCHANGED session
  BY PlainControl DEF SubmitFollow
<1>2. Top \in {"S_Retry", "S_Replace"}
  BY DEF SubmitFollow, At
<1>3. /\ Top \in Bases /\ ~session.terminal /\ session.failures <= MaxReplanFailures
      /\ OwnedFollows = {}
  BY <1>2, PlanFacts DEF RetryBases
<1>4. CASE Goto("S_Fail")
  BY <1>1, <1>3, <1>4, EndGoes
<1>5. ASSUME CanSend, NEW back \in {"S_RetrySent", "S_ReplaceSent"}, Call("D_Start", back)
      PROVE  IInv'
  <2>1. back \in SendBacks /\ May(back)
    BY <1>1, <1>3, MayPlan DEF SendBacks, FollowSends, RetryBases
  <2> QED BY <1>1, <1>3, <1>5, <2>1, BaseSends DEF CanSend
<1> QED BY <1>4, <1>5 DEF SubmitFollow

LEMMA SubmitFollowSentKeeps ==
    ASSUME IInv, SubmitFollowSent, yielded' \in BOOLEAN
    PROVE  IInv'
<1>1. /\ Top \in {"S_RetrySent", "S_ReplaceSent", "S_Fail"} /\ UNCHANGED <<slot, locals, transport>>
      /\ \/ /\ Top # "S_Fail" /\ rv = "accepted" /\ Goto("F_Loop")
            /\ session' = [session EXCEPT !.follow = Latest,
                               !.failures = IF Top = "S_ReplaceSent" THEN 0 ELSE session.failures]
         \/ /\ (Goto("Z_cancel") /\ session.cancelRequested) \/ Goto("Z_abort")
            /\ UNCHANGED session
  BY DEF SubmitFollowSent, At
<1>2. Top \in Bases /\ ~session.terminal
  <2>1. Top \in Bases /\ Top \notin Closing
    BY <1>1 DEF Bases, FollowSends, EndBases, Closing
  <2> QED BY <2>1, BaseFacts
<1>3. session \in SessionType /\ Latest \in 0 .. MaxGoals
  BY LatestType DEF IInv, TypedGoals
<1>4. CASE /\ Top # "S_Fail" /\ rv = "accepted" /\ Goto("F_Loop")
           /\ session' = [session EXCEPT !.follow = Latest,
                              !.failures = IF Top = "S_ReplaceSent" THEN 0 ELSE session.failures]
  <2> DEFINE failures == IF Top = "S_ReplaceSent" THEN 0 ELSE session.failures
  <2>1. failures \in 0 .. MaxReplanFailures + 1
    BY <1>3 DEF SessionType
  <2>2. failures <= MaxReplanFailures
    BY <1>1, <1>4, PlanFacts DEF FollowSends
  <2>3. session' = [session EXCEPT !.follow = Latest, !.failures = failures]
    BY <1>4
  <2> HIDE DEF failures
  <2>4. session' \in SessionType
    BY <1>3, <2>1, <2>3 DEF SessionType
  <2>5. /\ session'.follow = Latest /\ session'.failures = failures
        /\ session'.unverified = session.unverified /\ session'.terminal = session.terminal
        /\ session'.cancelRequested = session.cancelRequested
        /\ session'.wake = "CANCEL" => session.wake = "CANCEL" \/ session.cancelRequested
    BY <1>3, <2>3 DEF SessionType
  <2>6. Plain
    BY <1>1, <2>4, <2>5, PlainSession DEF IInv, TypedGoals, locals
  <2>7. Top \in FollowSends
    BY <1>1, <1>4 DEF FollowSends
  <2> QED BY <1>4, <2>2, <2>5, <2>6, <2>7, AcceptedGoes
<1>5. CASE /\ (Goto("Z_cancel") /\ session.cancelRequested) \/ Goto("Z_abort")
           /\ UNCHANGED session
  <2>1. Plain
    BY <1>1, <1>3, <1>5, PlainSession DEF IInv, TypedGoals, locals
  <2> QED BY <1>2, <1>5, <2>1, EndGoes
<1> QED BY <1>1, <1>4, <1>5

\* _plan_while_following: the active FollowPath is the same throughout.
WhileBases == {"W_Start", "W_Sent", "W_Loop", "W_Wait", "W_Validate", "W_Validated", "W_None",
               "W_Canceled", "W_Stopped", "W_NotStopped", "W_LateCancel", "W_Await", "W_Replace",
               "W_Ended"}
LEMMA WhileFacts ==
    ASSUME IInv, Top \in WhileBases
    PROVE  /\ Top \in FollowBases /\ Top \in CountedBases /\ Top \in Bases /\ ~session.terminal
           /\ session.follow \in Goals /\ Tracked(session.follow)
           /\ OwnedFollows \subseteq {session.follow} /\ session.failures <= MaxReplanFailures
           /\ Result(session.follow) \in Terminal => OwnedFollows = {}
           /\ Top \in CanceledBases => session.cancelRequested
<1>1. Top \in FollowBases /\ Top \in CountedBases
  BY DEF WhileBases, FollowBases, CountedBases
<1> QED BY <1>1, FollowFacts, BaseFacts

LEMMA HandsBack ==
    ASSUME IInv, Top \in WhileBases, Plain,
           session'.follow = session.follow, session'.failures = session.failures,
           NEW value, WhileReturn(value),
           value = "candidate" => OwnedFollows = {},
           value = "OUTER_CANCELED" => session.cancelRequested,
           value = "OUTER_SUCCEEDED" => Result(session.follow) = "succeeded"
    PROVE  IInv'
<1>1. /\ Top \in Bases /\ ~session.terminal
      /\ session.follow \in Goals /\ Tracked(session.follow)
      /\ OwnedFollows \subseteq {session.follow} /\ session.failures <= MaxReplanFailures
  BY WhileFacts
<1>2. May("W_Ret")
  BY <1>1, MayFollow DEF FollowBases, CanceledBases
<1> QED BY <1>1, <1>2, BaseHandsBack

LEMMA WhileGoes ==
    ASSUME IInv, Top \in WhileBases, Plain,
           session'.follow = session.follow, session'.failures = session.failures,
           NEW to \in {"W_Loop", "W_Wait", "W_Validate"}, Goto(to)
    PROVE  IInv'
<1>1. /\ Top \in Bases /\ ~session.terminal /\ Tracked(session.follow)
      /\ OwnedFollows \subseteq {session.follow} /\ session.failures <= MaxReplanFailures
  BY WhileFacts
<1> QED BY <1>1, FollowGoes DEF FollowBases, CanceledBases

LEMMA WhileAwaits ==
    ASSUME IInv, Top \in WhileBases, Plain,
           session'.follow = session.follow, session'.failures = session.failures,
           NEW to \in {"W_Stopped", "W_NotStopped", "W_Ended"}, Call("A_Start", to),
           to = "W_Stopped" => session.cancelRequested
    PROVE  IInv'
<1>1. /\ Top \in Bases /\ ~session.terminal /\ Tracked(session.follow)
      /\ OwnedFollows \subseteq {session.follow} /\ session.failures <= MaxReplanFailures
  BY WhileFacts
<1>2. May(to) /\ to \in AwaitBacks
  BY <1>1, MayFollow DEF FollowBases, AwaitBacks, CanceledBases
<1> QED BY <1>1, <1>2, BaseAwaits

LEMMA WhileCancels ==
    ASSUME IInv, Top \in WhileBases, Plain,
           session'.follow = session.follow, session'.failures = session.failures,
           NEW to \in {"W_Canceled", "W_LateCancel", "W_Await", "W_Replace"},
           Cancel(session.follow, to),
           to \in {"W_Canceled", "W_LateCancel"} => session.cancelRequested
    PROVE  IInv'
<1>1. Top \in FollowBases /\ session.failures <= MaxReplanFailures
  BY WhileFacts
<1>2. /\ to \in CancelBacks \cap (FollowBases \cup {"S_Late"})
      /\ to \in CanceledBases => session.cancelRequested
  BY DEF CancelBacks, FollowBases, CanceledBases
<1> QED BY <1>1, <1>2, FollowCancels

\* planner_handle.cancel_goal_async() changes no goal yet.
LEMMA Drops ==
    ASSUME IInv, DropPlanner
    PROVE  Quiet /\ \A g \in Goals : goal'[g].result = goal[g].result
<1> DEFINE p == session.planner
           cancel == goal[p].cancel \/ ~Done(p)
<1>1. goal \in [Goals -> GoalType] /\ goal' = [goal EXCEPT ![p].cancel = cancel]
  BY DEF IInv, TypedGoals, DropPlanner
<1>2. cancel \in BOOLEAN
  OBVIOUS
<1> HIDE DEF p, cancel
<1>3. \A g \in Goals :
          /\ goal'[g].kind = goal[g].kind /\ goal'[g].tracked = goal[g].tracked
          /\ goal'[g].server = goal[g].server /\ goal'[g].result = goal[g].result
  BY <1>1 DEF GoalType
<1>4. goal' \in [Goals -> GoalType]
  BY <1>1, <1>2 DEF GoalType
<1> QED BY <1>3, <1>4, Marked

LEMMA WhilePlanKeeps ==
    ASSUME IInv, WhilePlan, yielded' \in BOOLEAN
    PROVE  IInv'
<1>1. Plain /\ UNCHANGED session
  BY PlainControl DEF WhilePlan
<1>2. Top \in WhileBases
  BY DEF WhilePlan, At, WhileBases
<1>3. CASE At("W_Start") /\ CanSend /\ Call("D_Start", "W_Sent")
  <2>1. /\ Top \in Bases /\ ~session.terminal /\ Tracked(session.follow)
        /\ OwnedFollows \subseteq {session.follow} /\ session.failures <= MaxReplanFailures
    BY <1>2, WhileFacts
  <2>2. May("W_Sent") /\ "W_Sent" \in SendBacks
    BY <1>1, <2>1, MayFollow DEF FollowBases, SendBacks, CanceledBases
  <2> QED BY <1>1, <1>3, <2>1, <2>2, BaseSends DEF CanSend
<1>4. ASSUME NEW value \in {"none", "OUTER_CANCELED"}, WhileReturn(value),
             value = "OUTER_CANCELED" => session.cancelRequested
      PROVE  IInv'
  BY <1>1, <1>2, <1>4, HandsBack
<1> QED BY <1>3, <1>4 DEF WhilePlan

LEMMA WhilePlanAcceptedKeeps ==
    ASSUME IInv, WhilePlanAccepted, yielded' \in BOOLEAN
    PROVE  IInv'
<1>1. /\ Top = "W_Sent" /\ rv = "accepted" /\ Goto("W_Loop")
      /\ session' = [session EXCEPT !.planner = Latest]
      /\ goal' = [goal EXCEPT ![Latest].result = "requested"]
      /\ UNCHANGED <<slot, victim, attempted, sending, reply, cancelCall, faults>>
  BY DEF WhilePlanAccepted, At, locals
<1>2. Top \in WhileBases
  BY <1>1 DEF WhileBases
<1>3. Latest \in Goals /\ goal[Latest].tracked /\ goal[Latest].result = "none"
  BY <1>1 DEF IInv, Named, SendBacks, Tracked
<1>4. session \in SessionType /\ goal \in [Goals -> GoalType] /\ Latest \in 0 .. MaxGoals
  BY LatestType DEF IInv, TypedGoals
<1>5. Quiet
  <2>1. goal' \in [Goals -> GoalType]
    BY <1>1, <1>3, <1>4 DEF GoalType, ResultStates
  <2>2. \A g \in Goals :
            /\ goal'[g].kind = goal[g].kind /\ goal'[g].tracked = goal[g].tracked
            /\ goal'[g].server = goal[g].server
            /\ \/ goal'[g].result = goal[g].result
               \/ goal[g].result = "none" /\ goal[g].tracked /\ goal'[g].result = "requested"
    BY <1>1, <1>3, <1>4 DEF GoalType
  <2> QED BY <2>1, <2>2, Marked
<1>6. session' \in SessionType
  BY <1>1, <1>4 DEF SessionType
<1>7. /\ session'.follow = session.follow /\ session'.failures = session.failures
      /\ session'.unverified = session.unverified /\ session'.terminal = session.terminal
      /\ session'.cancelRequested = session.cancelRequested
      /\ session'.wake = "CANCEL" => session.wake = "CANCEL" \/ session.cancelRequested
  BY <1>1, <1>4 DEF SessionType
<1>8. Plain
  BY <1>1, <1>5, <1>6, <1>7 DEF Plain, IInv, TypedGoals
<1> QED BY <1>1, <1>2, <1>7, <1>8, WhileGoes

\* A goal that wakes the session is the same goal.
Watch(gs, p) == [gs EXCEPT ![p].watched = TRUE]

LEMMA WatchedGoals ==
    ASSUME NEW gs \in [Goals -> GoalType], NEW p
    PROVE  /\ Watch(gs, p) \in [Goals -> GoalType]
           /\ \A g \in Goals :
                 /\ Watch(gs, p)[g].kind = gs[g].kind /\ Watch(gs, p)[g].tracked = gs[g].tracked
                 /\ Watch(gs, p)[g].server = gs[g].server /\ Watch(gs, p)[g].result = gs[g].result
<1>1. \A g \in Goals :
          /\ Watch(gs, p)[g].kind = gs[g].kind /\ Watch(gs, p)[g].tracked = gs[g].tracked
          /\ Watch(gs, p)[g].server = gs[g].server /\ Watch(gs, p)[g].result = gs[g].result
  BY DEF GoalType, Watch
<1>2. Watch(gs, p) \in [Goals -> GoalType]
  BY DEF GoalType, Watch
<1> QED BY <1>1, <1>2

LEMMA WhileLoopKeeps ==
    ASSUME IInv, WhileLoop, yielded' \in BOOLEAN
    PROVE  IInv'
<1> DEFINE wake == IF session.cancelRequested THEN "CANCEL"
                   ELSE IF Done(session.planner) \/ Done(session.follow) THEN "RESULT"
                   ELSE "armed"
<1>1. /\ Top = "W_Loop" /\ Goto("W_Wait") /\ session' = [session EXCEPT !.wake = wake]
      /\ goal' = [goal EXCEPT ![session.planner].watched = TRUE,
                              ![session.follow].watched = TRUE]
      /\ UNCHANGED <<slot, victim, attempted, sending, reply, cancelCall, faults>>
  BY DEF WhileLoop, At, locals
<1>2. Top \in WhileBases
  BY <1>1 DEF WhileBases
<1>3. /\ session \in SessionType /\ goal \in [Goals -> GoalType]
      /\ wake \in {"none", "armed"} \cup Reasons
      /\ wake = "CANCEL" => session.cancelRequested
  BY DEF IInv, TypedGoals, Reasons
<1>4. Quiet
  <2> DEFINE first == Watch(goal, session.planner)
  <2>1. /\ first \in [Goals -> GoalType]
        /\ \A g \in Goals :
              /\ first[g].kind = goal[g].kind /\ first[g].tracked = goal[g].tracked
              /\ first[g].server = goal[g].server /\ first[g].result = goal[g].result
    BY <1>3, WatchedGoals
  <2>2. goal' = Watch(first, session.follow)
    BY <1>1 DEF Watch
  <2> HIDE DEF first
  <2>3. /\ goal' \in [Goals -> GoalType]
        /\ \A g \in Goals :
              /\ goal'[g].kind = first[g].kind /\ goal'[g].tracked = first[g].tracked
              /\ goal'[g].server = first[g].server /\ goal'[g].result = first[g].result
    BY <2>1, <2>2, WatchedGoals
  <2> QED BY <2>1, <2>3, Marked
<1> HIDE DEF wake
<1>5. session' \in SessionType
  BY <1>1, <1>3 DEF SessionType
<1>6. /\ session'.follow = session.follow /\ session'.failures = session.failures
      /\ session'.unverified = session.unverified /\ session'.terminal = session.terminal
      /\ session'.cancelRequested = session.cancelRequested
      /\ session'.wake = "CANCEL" => session.wake = "CANCEL" \/ session.cancelRequested
  BY <1>1, <1>3 DEF SessionType
<1>7. Plain
  BY <1>1, <1>4, <1>5, <1>6 DEF Plain, IInv, TypedGoals
<1> QED BY <1>1, <1>2, <1>6, <1>7, WhileGoes

LEMMA WhileWokenKeeps ==
    ASSUME IInv, WhileWoken, yielded' \in BOOLEAN
    PROVE  IInv'
<1>1. /\ Top = "W_Wait" /\ session' = [session EXCEPT !.wake = "none"]
      /\ UNCHANGED <<slot, sending, reply, cancelCall, faults>>
      /\ \/ DropPlanner /\ UNCHANGED locals
         \/ goal' = goal /\ (Cancel(session.follow, "W_Canceled") \/ UNCHANGED locals)
  BY DEF WhileWoken, At
<1>2. Top \in WhileBases
  BY <1>1 DEF WhileBases
<1>3. session.follow \in Goals /\ session \in SessionType /\ goal \in [Goals -> GoalType]
  BY <1>2, WhileFacts DEF IInv, TypedGoals
<1>4. Quiet
  BY <1>1, <1>3, Drops, SameGoals
<1>5. session' \in SessionType
  BY <1>1, <1>3 DEF SessionType
<1>6. /\ session'.follow = session.follow /\ session'.failures = session.failures
      /\ session'.unverified = session.unverified /\ session'.terminal = session.terminal
      /\ session'.cancelRequested = session.cancelRequested
      /\ session'.wake = "CANCEL" => session.wake = "CANCEL" \/ session.cancelRequested
  BY <1>1, <1>3 DEF SessionType
<1>7. Plain
  <2>1. victim' \in 0 .. MaxGoals /\ attempted' \subseteq Goals
    BY <1>1, <1>3 DEF IInv, TypedGoals, locals, Cancel, Goals
  <2> QED BY <1>1, <1>4, <1>5, <1>6, <2>1 DEF Plain
<1>8. CASE session.cancelRequested /\ Cancel(session.follow, "W_Canceled")
  BY <1>2, <1>6, <1>7, <1>8, WhileCancels
<1>9. ASSUME NEW value \in {"OUTER_SUCCEEDED", "OUTER_CANCELED", "OUTER_ABORTED", "none"},
             WhileReturn(value),
             value = "OUTER_CANCELED" => session.cancelRequested,
             value = "OUTER_SUCCEEDED" => Result(session.follow) = "succeeded"
      PROVE  IInv'
  BY <1>2, <1>6, <1>7, <1>9, HandsBack
<1>10. CASE Goto("W_Validate") \/ Goto("W_Loop")
  BY <1>2, <1>6, <1>7, <1>10, WhileGoes
<1>11. \/ session.cancelRequested /\ Cancel(session.follow, "W_Canceled")
       \/ \E value \in {"OUTER_SUCCEEDED", "OUTER_CANCELED", "OUTER_ABORTED", "none"} :
             /\ WhileReturn(value)
             /\ value = "OUTER_CANCELED" => session.cancelRequested
             /\ value = "OUTER_SUCCEEDED" => Result(session.follow) = "succeeded"
       \/ Goto("W_Validate") \/ Goto("W_Loop")
  BY DEF WhileWoken
<1> QED BY <1>8, <1>9, <1>10, <1>11

LEMMA WhileCanceledKeeps ==
    ASSUME IInv, WhileCanceled, yielded' \in BOOLEAN
    PROVE  IInv'
<1>1. /\ Top \in {"W_Canceled", "W_Stopped", "W_NotStopped"}
      /\ UNCHANGED <<slot, session, victim, attempted, sending, reply, cancelCall, faults>>
      /\ \/ /\ At("W_Canceled") /\ DropPlanner
            /\ Call("A_Start", IF rv = "true" THEN "W_Stopped" ELSE "W_NotStopped")
         \/ /\ WhileReturn(IF Result(session.follow) = "succeeded"
                         THEN "OUTER_SUCCEEDED"
                         ELSE IF At("W_Stopped") THEN "OUTER_CANCELED"
                         ELSE "OUTER_ABORTED")
            /\ goal' = goal
  BY DEF WhileCanceled, At, locals
<1>2. Top \in WhileBases
  BY <1>1 DEF WhileBases
<1>3. Plain
  <2>1. Quiet
    BY <1>1, Drops, SameGoals DEF IInv, TypedGoals
  <2> QED BY <1>1, <2>1 DEF Plain, IInv, TypedGoals
<1>4. ASSUME NEW to \in {"W_Stopped", "W_NotStopped"}, Call("A_Start", to),
             to = "W_Stopped" => session.cancelRequested
      PROVE  IInv'
  BY <1>1, <1>2, <1>3, <1>4, WhileAwaits
<1>5. ASSUME NEW value \in {"OUTER_SUCCEEDED", "OUTER_CANCELED", "OUTER_ABORTED"},
             WhileReturn(value),
             value = "OUTER_CANCELED" => session.cancelRequested,
             value = "OUTER_SUCCEEDED" => Result(session.follow) = "succeeded"
      PROVE  IInv'
  BY <1>1, <1>2, <1>3, <1>5, HandsBack
<1>6. At("W_Canceled") \/ At("W_Stopped") => session.cancelRequested
  BY <1>2, WhileFacts DEF At, CanceledBases
<1> QED BY <1>1, <1>4, <1>5, <1>6

LEMMA WhileValidatedKeeps ==
    ASSUME IInv, WhileValidated, yielded' \in BOOLEAN
    PROVE  IInv'
<1>1. /\ Top = "W_Validated" /\ UNCHANGED <<slot, session, transport>>
      /\ \/ \E to \in {"W_LateCancel", "W_Await", "W_Replace"} :
               Cancel(session.follow, to) /\ (to = "W_LateCancel" => session.cancelRequested)
         \/ /\ UNCHANGED locals
            /\ \/ WhileReturn("NO_CHANGE")
               \/ WhileReturn("OUTER_SUCCEEDED") /\ Result(session.follow) = "succeeded"
               \/ WhileReturn("candidate") /\ Result(session.follow) = "aborted"
  BY DEF WhileValidated, At
<1>2. Top \in WhileBases
  BY <1>1 DEF WhileBases
<1>3. /\ session.follow \in Goals
      /\ Result(session.follow) \in Terminal => OwnedFollows = {}
  BY <1>2, WhileFacts
<1>4. Plain
  <2>1. victim' \in {victim, session.follow} /\ attempted' = attempted
    BY <1>1 DEF locals, Cancel
  <2>2. victim' \in 0 .. MaxGoals /\ attempted' \subseteq Goals
    BY <1>3, <2>1 DEF IInv, TypedGoals, Goals
  <2> QED BY <1>1, <2>2, PlainSession DEF IInv, TypedGoals
<1>5. CASE \E to \in {"W_LateCancel", "W_Await", "W_Replace"} :
              Cancel(session.follow, to) /\ (to = "W_LateCancel" => session.cancelRequested)
  BY <1>1, <1>2, <1>4, <1>5, WhileCancels
<1>6. CASE WhileReturn("NO_CHANGE")
  BY <1>1, <1>2, <1>4, <1>6, HandsBack
<1>7. CASE WhileReturn("OUTER_SUCCEEDED") /\ Result(session.follow) = "succeeded"
  BY <1>1, <1>2, <1>4, <1>7, HandsBack
<1>8. CASE WhileReturn("candidate") /\ Result(session.follow) = "aborted"
  BY <1>1, <1>2, <1>3, <1>4, <1>8, HandsBack DEF Terminal
<1> QED BY <1>1, <1>5, <1>6, <1>7, <1>8

LEMMA WhileReplaceKeeps ==
    ASSUME IInv, WhileReplace, yielded' \in BOOLEAN
    PROVE  IInv'
<1>1. Plain /\ UNCHANGED session
  BY PlainControl DEF WhileReplace
<1>2. Top \in WhileBases
  BY DEF WhileReplace, At, WhileBases
<1>3. /\ Result(session.follow) \in Terminal => OwnedFollows = {}
      /\ At("W_LateCancel") => session.cancelRequested
  BY <1>2, WhileFacts DEF At, CanceledBases
<1>4. ASSUME NEW value \in {"OUTER_CANCELED", "OUTER_ABORTED", "none"}, WhileReturn(value),
             value = "OUTER_CANCELED" => session.cancelRequested
      PROVE  IInv'
  BY <1>1, <1>2, <1>4, HandsBack
<1>5. CASE /\ (At("W_Replace") /\ rv = "true") \/ Result(session.follow) = "aborted"
           /\ WhileReturn("candidate")
  <2>1. Result(session.follow) \in {"canceled", "aborted"}
    BY <1>5 DEF At, IInv, Follows
  <2> QED BY <1>1, <1>2, <1>3, <1>5, <2>1, HandsBack DEF Terminal
<1>6. CASE Result(session.follow) = "succeeded" /\ WhileReturn("OUTER_SUCCEEDED")
  BY <1>1, <1>2, <1>6, HandsBack
<1>7. CASE Call("A_Start", "W_Ended")
  BY <1>1, <1>2, <1>7, WhileAwaits
<1> QED BY <1>3, <1>4, <1>5, <1>6, <1>7 DEF WhileReplace

LEMMA ReplannedKeeps ==
    ASSUME IInv, Replanned, yielded' \in BOOLEAN
    PROVE  IInv'
<1> DEFINE f == session.follow
           failed == session.failures + 1
           back == [session EXCEPT !.replanInFlight = FALSE, !.stage = "FOLLOWING"]
<1>1. Top = "W_Ret" /\ UNCHANGED <<slot, transport>>
  BY DEF Replanned, At
<1>2. Top \in FollowBases /\ Top \in CountedBases
  BY <1>1 DEF FollowBases, CountedBases
<1>3. /\ Top \in Bases /\ ~session.terminal /\ f \in Goals /\ Tracked(f)
      /\ OwnedFollows \subseteq {f} /\ session.failures <= MaxReplanFailures
      /\ Result(f) = "succeeded" => MayReach(f)
  BY <1>2, FollowFacts
<1>4. Base = "W_Ret"
  BY <1>1, <1>3, BaseFacts
<1>5. /\ rv = "candidate" => OwnedFollows = {}
      /\ rv = "OUTER_SUCCEEDED" => Result(f) = "succeeded"
      /\ rv = "OUTER_CANCELED" => session.cancelRequested
  BY <1>4 DEF IInv, Follows, Evidence, Canceled
<1>6. session \in SessionType /\ session.failures \in 0 .. MaxReplanFailures + 1
  BY DEF IInv, TypedGoals, SessionType
<1>7. /\ back.cancelRequested = session.cancelRequested /\ back.wake = session.wake
      /\ back \in SessionType /\ back.follow = f /\ back.failures = session.failures
      /\ back.unverified = session.unverified /\ back.terminal = session.terminal
  BY <1>6 DEF SessionType
<1>8. failed \in 0 .. MaxReplanFailures + 1 /\ 0 \in 0 .. MaxReplanFailures + 1
  BY <1>3, <1>6
<1>9. session' = back \/ session' = [back EXCEPT !.failures = 0]
        \/ session' = [back EXCEPT !.failures = failed]
  BY DEF Replanned
<1> HIDE DEF failed, back
<1>10. /\ session' \in SessionType /\ session'.follow = f
       /\ session'.unverified = session.unverified /\ session'.terminal = session.terminal
       /\ session'.cancelRequested = session.cancelRequested
       /\ session'.wake = "CANCEL" => session.wake = "CANCEL" \/ session.cancelRequested
  BY <1>7, <1>8, <1>9 DEF SessionType
<1>11. /\ session' = back => session'.failures <= MaxReplanFailures
       /\ session' = [back EXCEPT !.failures = 0] => session'.failures = 0
       /\ session' = [back EXCEPT !.failures = failed] => session'.failures = failed
  BY <1>3, <1>7 DEF SessionType
<1>12. Plain
  <2>1. victim' \in {victim, f} /\ attempted' = attempted
    BY DEF Replanned, locals, Cancel
  <2>2. victim' \in 0 .. MaxGoals /\ attempted' \subseteq Goals
    BY <1>3, <2>1 DEF IInv, TypedGoals, Goals
  <2> QED BY <1>1, <1>10, <2>2, PlainSession
<1>13. CASE (Goto("Z_cancel") /\ session.cancelRequested) \/ Goto("Z_abort")
  BY <1>3, <1>12, <1>13, EndGoes
<1>14. CASE Result(f) = "succeeded" /\ Goto("G_Guard")
  BY <1>3, <1>10, <1>12, <1>14, GuardGoes
<1>15. CASE Goto("F_Loop") /\ session'.failures <= MaxReplanFailures
  BY <1>3, <1>10, <1>12, <1>15, FollowGoes DEF FollowBases, CanceledBases
<1>16. CASE Goto("V_Active")
  <2>1. /\ "V_Active" \in FollowBases \ ({"W_Sent", "W_Replace", "W_Ret"} \cup CanceledBases)
        /\ "V_Active" \notin CountedBases
    BY DEF FollowBases, CountedBases, RetryBases, CanceledBases
  <2> QED BY <1>3, <1>10, <1>12, <1>16, <2>1, FollowGoes
<1>17. CASE \E to \in {"F_StopCancel", "F_Stop", "S_Late"} :
               Cancel(f, to) /\ (to # "F_Stop" => session.cancelRequested)
  <2>1. \A to \in {"F_StopCancel", "F_Stop", "S_Late"} :
            /\ to \in CancelBacks \cap (FollowBases \cup {"S_Late"}) /\ to \notin CountedBases
            /\ to = "F_Stop" => to \notin CanceledBases
    BY DEF CancelBacks, FollowBases, CountedBases, RetryBases, CanceledBases
  <2> QED BY <1>2, <1>10, <1>12, <1>17, <2>1, FollowCancels
<1>18. CASE OwnedFollows = {} /\ Goto("S_Replace") /\ session'.failures <= MaxReplanFailures
  <2>1. May("S_Replace")
    BY <1>3, <1>18, MayPlan DEF RetryBases
  <2>2. "S_Replace" \in Bases \ (SendBacks \cup {"W_Replace", "W_Ret", "E_PlanDone"})
    BY DEF Bases, RetryBases, SendBacks, FollowSends
  <2> QED BY <1>3, <1>12, <1>18, <2>1, <2>2, BaseGoes
<1>19. CASE rv \in {"OUTER_SUCCEEDED", "OUTER_CANCELED", "OUTER_ABORTED"}
  <2>1. Goto(CASE rv = "OUTER_SUCCEEDED" -> "G_Guard"
               [] rv = "OUTER_CANCELED" -> "Z_cancel"
               [] OTHER -> "Z_abort")
    BY <1>19 DEF Replanned
  <2>2. CASE rv = "OUTER_SUCCEEDED"
    BY <1>5, <1>14, <2>1, <2>2
  <2>3. CASE rv = "OUTER_CANCELED"
    BY <1>5, <1>13, <2>1, <2>3
  <2>4. CASE rv = "OUTER_ABORTED"
    BY <1>13, <2>1, <2>4
  <2> QED BY <1>19, <2>2, <2>3, <2>4
<1>20. CASE rv = "NO_CHANGE"
  <2>1. Goto("F_Loop") /\ session' = [back EXCEPT !.failures = 0]
    BY <1>20 DEF Replanned, back
  <2> QED BY <1>11, <1>15, <2>1
<1>21. CASE rv = "none"
  <2>1. /\ session' = [back EXCEPT !.failures = failed]
        /\ \/ \E to \in {"F_StopCancel", "F_Stop"} :
                 Cancel(f, to) /\ (to # "F_Stop" => session.cancelRequested)
           \/ Goto("V_Active")
           \/ /\ failed >= MaxReplanFailures => Result(f) = "succeeded"
              /\ Goto(IF failed >= MaxReplanFailures THEN "G_Guard" ELSE "F_Loop")
    BY <1>21 DEF Replanned, back, failed
  <2>2. session'.failures = failed
    BY <1>11, <2>1
  <2>3. ~(failed >= MaxReplanFailures) => failed <= MaxReplanFailures
    BY <1>8
  <2> QED BY <1>14, <1>15, <1>16, <1>17, <2>1, <2>2, <2>3
<1>22. CASE rv = "candidate"
  <2>1. /\ session' = back
        /\ (Cancel(f, "S_Late") /\ session.cancelRequested) \/ Goto("S_Replace")
    BY <1>22 DEF Replanned, back
  <2> QED BY <1>5, <1>11, <1>17, <1>18, <1>22, <2>1
<1> QED BY <1>19, <1>20, <1>21, <1>22 DEF Replanned

LEMMA RevalidatedKeeps ==
    ASSUME IInv, Revalidated, yielded' \in BOOLEAN
    PROVE  IInv'
<1>1. /\ Top \in {"V_Kept", "V_Unsafe"} /\ UNCHANGED <<slot, transport>>
      /\ \/ session' = [session EXCEPT !.failures = 0] /\ Goto("F_Loop") /\ UNCHANGED locals
         \/ Cancel(session.follow, "F_Stop") /\ UNCHANGED session
  BY DEF Revalidated, At
<1>2. Top \in FollowBases
  BY <1>1 DEF FollowBases
<1>3. /\ Top \in Bases /\ ~session.terminal /\ session.follow \in Goals
      /\ Tracked(session.follow) /\ OwnedFollows \subseteq {session.follow}
  BY <1>2, FollowFacts
<1>4. session \in SessionType /\ 0 \in 0 .. MaxReplanFailures + 1
  BY DEF IInv, TypedGoals
<1>5. CASE session' = [session EXCEPT !.failures = 0] /\ Goto("F_Loop") /\ UNCHANGED locals
  <2>1. session' \in SessionType
    BY <1>4, <1>5 DEF SessionType
  <2>2. /\ session'.follow = session.follow /\ session'.failures = 0
        /\ session'.unverified = session.unverified /\ session'.terminal = session.terminal
        /\ session'.cancelRequested = session.cancelRequested
        /\ session'.wake = "CANCEL" => session.wake = "CANCEL" \/ session.cancelRequested
    BY <1>4, <1>5 DEF SessionType
  <2>3. Plain
    BY <1>1, <1>5, <2>1, <2>2, PlainSession DEF IInv, TypedGoals, locals
  <2> QED BY <1>3, <1>5, <2>2, <2>3, FollowGoes DEF FollowBases, CanceledBases
<1>6. CASE Cancel(session.follow, "F_Stop") /\ UNCHANGED session
  <2>1. victim' = session.follow /\ attempted' = attempted
    BY <1>6 DEF Cancel
  <2>2. victim' \in 0 .. MaxGoals /\ attempted' \subseteq Goals
    BY <1>3, <2>1 DEF IInv, TypedGoals, Goals
  <2>3. Plain
    BY <1>1, <1>4, <1>6, <2>2, PlainSession
  <2>4. "F_Stop" \in CancelBacks \cap (FollowBases \cup {"S_Late"}) /\ "F_Stop" \notin CountedBases
        /\ "F_Stop" \notin CanceledBases
    BY DEF CancelBacks, FollowBases, CountedBases, RetryBases, CanceledBases
  <2> QED BY <1>2, <1>6, <2>3, <2>4, FollowCancels
<1> QED BY <1>1, <1>5, <1>6

\* The except branch: once the session is terminal only this is left.
LEMMA ExceptionKeeps ==
    ASSUME IInv, HandleException, yielded' \in BOOLEAN
    PROVE  IInv'
<1>1. /\ Top \in {"X_Handle", "X_Cancel"} /\ UNCHANGED <<slot, session, transport>>
      /\ \/ \E to \in {"X_Cancel", "Z_abort"} : Goto(to) /\ attempted' = {} /\ victim' = victim
         \/ Call("A_Start", "Z_abort") /\ UNCHANGED locals
         \/ \E g \in ActiveInner : /\ Call("C_Start", "X_Cancel") /\ victim' = g
                                   /\ attempted' = attempted \union {g}
  BY DEF HandleException, At
<1>2. Top \in Bases
  BY <1>1 DEF Bases, EndBases
<1>3. /\ \A g \in ActiveInner : g \in Goals /\ Tracked(g)
      /\ victim \in 0 .. MaxGoals /\ attempted \subseteq Goals /\ session \in SessionType
  BY DEF ActiveInner, Tracked, IInv, TypedGoals
<1>4. Plain
  <2>1. CASE attempted' = {} /\ victim' = victim
    BY <1>1, <1>3, <2>1, PlainSession
  <2>2. CASE UNCHANGED locals
    BY <1>1, <1>3, <2>2, PlainSession DEF locals
  <2>3. ASSUME NEW g \in ActiveInner, victim' = g, attempted' = attempted \union {g}
        PROVE  Plain
    <3>1. g \in Goals
      BY <1>3
    <3>2. victim' \in 0 .. MaxGoals
      BY <2>3, <3>1 DEF Goals
    <3>3. attempted' \subseteq Goals
      BY <1>3, <2>3, <3>1
    <3> QED BY <1>1, <1>3, <3>2, <3>3, PlainSession
  <2> QED BY <1>1, <2>1, <2>2, <2>3
<1>5. \A to \in Closing : May(to)
  BY
  DEF May, Closing, FollowBases, PlanBases, RetryBases, FollowSends, CountedBases, CanceledBases
<1>6. ASSUME NEW to \in {"X_Cancel", "Z_abort"}, Goto(to)
      PROVE  IInv'
  <2>1. to \in Bases \ (SendBacks \cup {"W_Replace", "W_Ret", "E_PlanDone"})
    BY DEF Bases, EndBases, SendBacks, FollowSends
  <2> QED BY <1>2, <1>4, <1>5, <1>6, <2>1, BaseGoes DEF Closing
<1>7. CASE Call("A_Start", "Z_abort")
  BY <1>2, <1>4, <1>5, <1>7, BaseAwaits DEF Closing, AwaitBacks
<1>8. ASSUME NEW g \in ActiveInner, Call("C_Start", "X_Cancel"), victim' = g
      PROVE  IInv'
  BY <1>2, <1>3, <1>4, <1>5, <1>8, BaseCancels DEF Closing, CancelBacks
<1> QED BY <1>1, <1>6, <1>7, <1>8

\* _finish: once it has marked the session terminal, canceled() may raise.
LEMMA RaisesKeeps ==
    ASSUME IInv, FinishRaises, yielded' \in BOOLEAN
    PROVE  IInv'
<1>1. /\ Top = "Z_cancel" /\ ~session.terminal /\ session' = [session EXCEPT !.terminal = TRUE]
      /\ Raise /\ UNCHANGED <<slot, locals, transport>>
  BY DEF FinishRaises, At
<1>2. UNCHANGED <<busy, reserved, outer, victim, attempted, goal, sending, reply, cancelCall, faults>>
  BY <1>1 DEF slot, locals, transport
<1>3. TypedSlot /\ TypedGoals /\ Shape /\ session \in SessionType
  BY DEF IInv, TypedGoals
<1>4. Top \in Bases
  BY <1>1 DEF Bases, EndBases
<1>5. stack # <<>> /\ Base = Top /\ Caller = "none"
  BY <1>3, <1>4, BaseFacts, AtBase
<1>6. ~reserved /\ outer \in {"executing", "canceling"} /\ outer # "succeeded" /\ busy
  BY <1>1, <1>5, Running DEF IInv, Held
<1>7. /\ Shape' /\ stack' # <<>> /\ Top' = "X_Handle" /\ Base' = "X_Handle" /\ Caller' = "none"
  BY <1>1, <1>3, Raises
<1>8. session' \in SessionType /\ session'.unverified = session.unverified
  BY <1>1, <1>3 DEF SessionType
<1>9. Ledger' /\ Latest' = Latest
  BY <1>2, <1>3, <1>8, SameGoals, QuietGoals DEF IInv, TypedGoals
<1>10. OwnedFollows' = OwnedFollows
  BY <1>2 DEF OwnedFollows
<1>11. InFlight'
  BY <1>1, <1>2, <1>5, <1>7, NoneInFlight
<1>12. Named'
  BY <1>7 DEF Named, SendBacks, FollowSends, WaitLabels, CancelLabels, FollowBases
<1>13. Held'
  BY <1>2, <1>6, <1>7 DEF Held
<1>14. Follows'
  BY <1>7, <1>10 DEF IInv, Follows, FollowSends, PlanBases, RetryBases, FollowBases
<1>15. Evidence'
  BY <1>2, <1>6, <1>7 DEF Evidence
<1>16. Counted'
  BY <1>7 DEF Counted, CountedBases, FollowBases, RetryBases
<1>17. TypedSlot' /\ TypedGoals'
  BY <1>1, <1>2, <1>3, <1>8, TypesKept DEF TypedGoals
<1>18. Canceled'
  <2>1. session'.wake = session.wake /\ session'.cancelRequested = session.cancelRequested
    BY <1>1, <1>3 DEF SessionType
  <2> QED BY <1>7, <2>1 DEF IInv, Canceled, Confirms, CanceledBases
<1> QED BY <1>7, <1>9, <1>11, <1>12, <1>13, <1>14, <1>15, <1>16, <1>17, <1>18 DEF IInv

\* execute returns, and frees the slot when every inner action has ended.
LEMMA FinishKeeps ==
    ASSUME IInv, Finish, yielded' \in BOOLEAN
    PROVE  IInv'
<1>1. /\ Top \in {"Z_succeed", "Z_cancel", "Z_abort"}
      /\ session' = [session EXCEPT !.terminal = TRUE] /\ stack' = <<>> /\ busy' = ~InnerTerminal
      /\ UNCHANGED <<reserved, pendingCancel, polygon, rv, victim, attempted,
                     sending, reply, cancelCall, faults>>
  BY DEF Finish, locals
<1>2. outer' \in Terminal /\ (outer' = "succeeded" => Top = "Z_succeed")
  BY <1>1 DEF Finish, At, Terminal
<1>3. TypedSlot /\ TypedGoals /\ Shape /\ session \in SessionType /\ goal \in [Goals -> GoalType]
  BY DEF IInv, TypedGoals
<1>4. Top \in Bases
  BY <1>1 DEF Bases, EndBases
<1>5. stack # <<>> /\ Base = Top /\ Caller = "none"
  BY <1>3, <1>4, BaseFacts, AtBase
<1>6. ~reserved
  BY <1>5, Running
<1>7. Quiet
  <2>1. CASE goal' = goal
    BY <1>3, <2>1, SameGoals
  <2>2. CASE goal' = [g \in Goals |->
                         IF g \in ActiveInner THEN [goal[g] EXCEPT !.cancel = TRUE] ELSE goal[g]]
    <3>1. \A g \in Goals :
              /\ goal'[g] \in GoalType
              /\ goal'[g].kind = goal[g].kind /\ goal'[g].tracked = goal[g].tracked
              /\ goal'[g].server = goal[g].server /\ goal'[g].result = goal[g].result
      BY <1>3, <2>2 DEF GoalType
    <3>2. goal' \in [Goals -> GoalType]
      BY <2>2, <3>1
    <3> QED BY <3>1, <3>2, Marked
  <2> QED BY <2>1, <2>2 DEF Finish
<1>8. /\ session' \in SessionType /\ session'.unverified = session.unverified
      /\ session'.terminal /\ session'.follow = session.follow
  BY <1>1, <1>3 DEF SessionType
<1>9. /\ Ledger' /\ Latest' = Latest /\ OwnedFollows' \subseteq OwnedFollows
      /\ InnerTerminal => InnerTerminal'
      /\ \A g \in Goals : goal[g].server = "succeeded" => goal'[g].server = "succeeded"
  BY <1>1, <1>7, <1>8, QuietGoals DEF IInv
<1>10. /\ Shape' /\ Top' = "idle" /\ Base' = "idle" /\ Caller' = "none"
  <2>1. stack' \in Seq(Labels) /\ Len(stack') = 0
    BY <1>1, EmptySeq
  <2> QED BY <1>1, <2>1 DEF Shape, Depth, Top, Base, Caller
<1>11. InFlight'
  BY <1>1, <1>5, <1>10, NoneInFlight
<1>12. Named'
  BY <1>10 DEF Named, SendBacks, FollowSends, WaitLabels, CancelLabels, FollowBases
<1>13. busy' \in BOOLEAN /\ (~busy' => InnerTerminal')
  BY <1>1, <1>9
<1>14. Held'
  BY <1>1, <1>6, <1>13 DEF Held
<1>15. Follows'
  <2>1. \A f, h \in OwnedFollows' : f = h
    BY <1>9 DEF IInv, Follows
  <2> QED BY <1>10, <2>1 DEF Follows, FollowSends, PlanBases, RetryBases, FollowBases
<1>16. Evidence'
  <2>1. Top = "Z_succeed" => Reached
    BY <1>5 DEF IInv, Evidence
  <2>2. Reached => Reached'
    BY <1>8, <1>9 DEF Reached
  <2> QED BY <1>2, <1>10, <2>1, <2>2 DEF Evidence
<1>17. Counted'
  BY <1>10 DEF Counted, CountedBases, FollowBases, RetryBases
<1>18. TypedSlot'
  BY <1>1, <1>2, <1>3, <1>13 DEF TypedSlot
<1>19. TypedGoals'
  BY <1>1, <1>3, <1>7, <1>8 DEF TypedGoals, Quiet
<1>20. Canceled'
  <2>1. session'.wake = session.wake /\ session'.cancelRequested = session.cancelRequested
    BY <1>1, <1>3 DEF SessionType
  <2> QED BY <1>10, <2>1 DEF IInv, Canceled, Confirms, CanceledBases
<1> QED BY <1>9, <1>10, <1>11, <1>12, <1>14, <1>15, <1>16, <1>17, <1>18, <1>19, <1>20 DEF IInv

-----------------------------------------------------------------------------
(* The theorems.                                                             *)

LEMMA StepKeeps ==
    ASSUME IInv, Step
    PROVE  IInv'
<1>1. Coroutine /\ yielded' \in BOOLEAN
  BY DEF Step, Waiting
<1>2. CASE \/ ExternalAwait
           \/ Dispatch \/ DispatchWoken \/ DispatchAnswered
           \/ CancelStart \/ CancelResponse \/ CancelResult
           \/ AwaitTerminalLoop \/ AwaitTerminalCancel
           \/ WaitInner \/ WaitInnerWoken \/ WaitInnerCanceled
  BY <1>1, <1>2, ExternalKeeps, DispatchKeeps, DispatchWokenKeeps, DispatchAnsweredKeeps,
     CancelKeeps, AwaitKeeps, WaitInnerKeeps
<1>3. CASE \/ Start \/ Plan \/ PlanAccepted \/ FollowSend \/ FollowSent
           \/ FollowLoop \/ FollowCanceling \/ FollowEnded \/ FollowReplan
           \/ FollowStopped
  BY <1>1, <1>3, StartKeeps, PlanKeeps, PlanAcceptedKeeps, FollowSendKeeps, FollowSentKeeps,
     FollowLoopKeeps, FollowCancelingKeeps, FollowEndedKeeps, FollowReplanKeeps,
     FollowStoppedKeeps
<1>4. CASE \/ PlanRetry \/ PlanRetrySent \/ PlanRetryDone
           \/ SubmitFollow \/ SubmitFollowSent
           \/ WhilePlan \/ WhilePlanAccepted \/ WhileLoop \/ WhileWoken
           \/ WhileCanceled \/ WhileValidated \/ WhileReplace
  BY <1>1, <1>4, PlanRetryKeeps, PlanRetrySentKeeps, PlanRetryDoneKeeps, SubmitFollowKeeps,
     SubmitFollowSentKeeps, WhilePlanKeeps, WhilePlanAcceptedKeeps, WhileLoopKeeps,
     WhileWokenKeeps, WhileCanceledKeeps, WhileValidatedKeeps, WhileReplaceKeeps
<1>5. CASE \/ Replanned \/ Revalidated \/ HandleException \/ FinishRaises \/ Finish
  BY <1>1, <1>5, ReplannedKeeps, RevalidatedKeeps, ExceptionKeeps, RaisesKeeps, FinishKeeps
<1> QED BY <1>1, <1>2, <1>3, <1>4, <1>5 DEF Coroutine

LEMMA Initial == Init => IInv
<1> SUFFICES ASSUME Init PROVE IInv
  OBVIOUS
<1>1. /\ busy = FALSE /\ reserved = FALSE /\ pendingCancel = FALSE
      /\ outer = "none" /\ polygon \in BOOLEAN
      /\ session = NewSession(FALSE)
      /\ stack = <<>> /\ rv = "none" /\ yielded = TRUE
      /\ victim = NoGoal /\ attempted = {}
      /\ goal = [g \in Goals |-> Unused]
      /\ sending = NoGoal /\ reply = "none" /\ cancelCall = "none"
      /\ faults = 0
  BY DEF Init
<1>2. \A g \in Goals : goal[g] = Unused
  BY <1>1
<1>3. Unused \in GoalType
  BY DEF Unused, GoalType, ServerStates, ResultStates
<1>4. /\ session \in SessionType /\ ~session.unverified /\ ~session.terminal
  BY <1>1 DEF NewSession, SessionType, NoGoal
<1>5. TypedSlot /\ TypedGoals
  <2>1. goal \in [Goals -> GoalType]
    BY <1>1, <1>3
  <2>2. TypedSlot
    BY <1>1 DEF TypedSlot
  <2>3. TypedGoals
    <3>1. {victim, sending} \subseteq 0 .. MaxGoals /\ faults \in 0 .. MaxFaults
      BY <1>1 DEF NoGoal
    <3>2. attempted \subseteq Goals
      BY <1>1
    <3> QED BY <1>1, <1>4, <2>1, <3>1, <3>2 DEF TypedGoals
  <2> QED BY <2>2, <2>3
<1>6. Shape /\ Top = "idle" /\ Base = "idle" /\ Caller = "none"
  <2>1. stack \in Seq(Labels) /\ Len(stack) = 0
    BY <1>1, EmptySeq
  <2> QED BY <1>1, <2>1 DEF Shape, Depth, Top, Base, Caller
<1>7. Latest = 0
  <2>1. \A g \in Goals : goal[g].kind # "none" <=> g <= 0
    BY <1>2 DEF Unused, Goals
  <2> QED BY <2>1, Count DEF Latest
<1>8. Ledger
  BY <1>2, <1>7, Disjoint DEF Ledger, Unused, Goals
<1>9. OwnedFollows = {} /\ ActiveInner = {}
  BY <1>2, Disjoint DEF OwnedFollows, ActiveInner, Unused
<1>10. InFlight
  BY <1>1, <1>6 DEF InFlight
<1>11. Named
  BY <1>6 DEF Named, SendBacks, FollowSends, WaitLabels, CancelLabels, FollowBases
<1>12. Held
  BY <1>1, <1>4, <1>9 DEF Held, InnerTerminal, InnerTerminalOf
<1>13. Follows
  BY <1>6, <1>9 DEF Follows, FollowSends, PlanBases, RetryBases, FollowBases
<1>14. Evidence
  BY <1>1, <1>6 DEF Evidence
<1>15. Counted
  BY <1>6 DEF Counted, CountedBases, FollowBases, RetryBases
<1>16. Canceled
  BY <1>1, <1>6 DEF Canceled, Confirms, CanceledBases, NewSession
<1> QED BY <1>5, <1>6, <1>8, <1>10, <1>11, <1>12, <1>13, <1>14, <1>15, <1>16 DEF IInv

LEMMA Inductive == IInv /\ [Next]_vars => IInv'
<1> SUFFICES ASSUME IInv, [Next]_vars PROVE IInv'
  OBVIOUS
<1>1. CASE Step
  BY <1>1, StepKeeps
<1>2. CASE Callback
  BY <1>2, CallbackKeeps
<1>3. CASE UNCHANGED vars
  <2>1. UNCHANGED <<busy, reserved, pendingCancel, outer, polygon, session, stack, rv, yielded,
                    victim, attempted, goal, sending, reply, cancelCall, faults>>
    BY <1>3 DEF vars, slot, control, locals, transport
  <2>2. Quiet /\ Steady
    BY <2>1, SameGoals, SameSession DEF IInv, TypedGoals
  <2>3. Shape' /\ Ledger' /\ Named' /\ Follows' /\ Counted' /\ Canceled'
    BY <2>1, <2>2, Suspended
  <2>4. Held' /\ Evidence' /\ InFlight'
    BY <2>1, <2>2, SuspendedSlot, SuspendedReplies
  <2>5. TypedSlot' /\ TypedGoals'
    BY <2>1 DEF IInv, TypedSlot, TypedGoals
  <2> QED BY <2>3, <2>4, <2>5 DEF IInv
<1> QED BY <1>1, <1>2, <1>3 DEF Next

\* The inductive invariant holds in every state of every run of the facade.
THEOREM Invariance == Spec => []IInv
<1>1. Init => IInv
  BY Initial
<1>2. IInv /\ [Next]_vars => IInv'
  BY Inductive
<1> QED BY <1>1, <1>2, PTL DEF Spec

\* Every variable of the runtime, its session and its inner goals keeps its
\* type; so the replan failures never pass their limit by more than one
\* (_replan_failures against max_replan_failures).
THEOREM TypeCorrect == Spec => []TypeOK
<1>1. IInv => TypeOK
  BY DEF IInv, TypedSlot, TypedGoals, TypeOK, SessionType, GoalType, ServerStates, ResultStates
<1> QED BY <1>1, Invariance, PTL

\* At most one FollowPath is in the hands of the controller, however cancels,
\* ticks, results and replies interleave (_plan_while_following, _submit_follow).
THEOREM OneFollowAtATime == Spec => []OneFollow
<1>1. IInv => OneFollow
  <2> SUFFICES ASSUME IInv PROVE Cardinality(OwnedFollows) <= 1
    BY DEF OneFollow
  <2>1. \A f, h \in OwnedFollows : f = h
    BY DEF IInv, Follows
  <2>2. CASE OwnedFollows = {}
    BY <2>2, FS_EmptySet
  <2>3. ASSUME NEW f \in OwnedFollows PROVE Cardinality(OwnedFollows) <= 1
    <3>1. OwnedFollows = {f}
      BY <2>1, <2>3
    <3>2. Cardinality({f}) = 1
      BY FS_Singleton
    <3> QED BY <3>1, <3>2
  <2> QED BY <2>2, <2>3
<1> QED BY <1>1, Invariance, PTL

\* The slot is free only over inner goals that no server may still execute:
\* what execute leaves behind keeps it closed, and only the last result of a
\* tracked goal opens it (_finish, _observe_inner_terminal).
THEOREM SlotCovers == Spec => []SlotCoversInner
<1>1. IInv => SlotCoversInner
  <2> SUFFICES ASSUME IInv, ~busy, NEW g \in Goals, goal[g].server \in Owned PROVE FALSE
    BY DEF SlotCoversInner
  <2>1. sending = NoGoal /\ ~session.unverified /\ ActiveInner = {}
    BY DEF IInv, Held, InnerTerminal, InnerTerminalOf
  <2>2. goal[g].tracked
    BY <2>1 DEF IInv, Ledger, Goals, NoGoal
  <2>3. goal[g].result \notin Terminal
    BY Disjoint DEF IInv, Ledger
  <2> QED BY <2>1, <2>2, <2>3 DEF ActiveInner
<1> QED BY <1>1, Invariance, PTL

\* The outer goal succeeds only when the last FollowPath did, or when a
\* stationary proof made every inner action unnecessary (_complete_success).
THEOREM SuccessFollowed == Spec => []SuccessIsFollowed
<1>1. IInv => SuccessIsFollowed
  <2> SUFFICES ASSUME IInv, outer = "succeeded", ~reserved
               PROVE  \/ StationaryCompletion /\ Latest = 0
                      \/ session.follow # NoGoal /\ goal[session.follow].server = "succeeded"
    BY DEF SuccessIsFollowed
  <2>1. Reached
    BY DEF IInv, Evidence
  <2> QED BY <2>1 DEF Reached, Goals, NoGoal
<1> QED BY <1>1, Invariance, PTL


-----------------------------------------------------------------------------
(* The refinement of NavigationSlot.                                         *)

\* What the clients see of the inner goals: the controller owns a FollowPath.
LEMMA SameOwned ==
    ASSUME \A g \in Goals : goal'[g].kind = goal[g].kind /\ goal'[g].server = goal[g].server
    PROVE  OwnedFollows' = OwnedFollows
  BY DEF OwnedFollows

LEMMA IdleWhenEnded == IInv /\ InnerTerminal => OwnedFollows = {}
<1> SUFFICES ASSUME IInv, InnerTerminal, NEW g \in Goals, goal[g].server \in Owned PROVE FALSE
  BY DEF OwnedFollows
<1>1. sending = NoGoal /\ ~session.unverified /\ ActiveInner = {}
  BY DEF InnerTerminal, InnerTerminalOf
<1>2. goal[g].tracked
  BY <1>1 DEF IInv, Ledger, Goals, NoGoal
<1>3. goal[g].result \notin Terminal
  BY Disjoint DEF IInv, Ledger
<1> QED BY <1>1, <1>2, <1>3 DEF ActiveInner

\* execute is not over after a step of it that does not finish.
Moves ==
    \/ \E label : Goto(label)
    \/ \E label, back : Call(label, back)
    \/ \E value : WhileReturn(value)
    \/ Raise
    \/ /\ Top \in SendLabels \cup WaitLabels \cup AwaitLabels \cup CancelLabels
       /\ \E value : Return(value)
LEMMA NotOver ==
    ASSUME IInv, stack # <<>>, Moves
    PROVE  stack' # <<>>
<1>1. stack \in Seq(Labels) /\ Tail(stack) \in Seq(Labels)
  BY HeadTailProperties DEF IInv, Shape
<1>2. ASSUME NEW label, NEW rest \in Seq(Labels) PROVE <<label>> \o rest # <<>>
  <2> DEFINE S == Labels \cup {label}
  <2>1. rest \in Seq(S)
    OBVIOUS
  <2> HIDE DEF S
  <2>2. label \in S
    BY DEF S
  <2> QED BY <2>1, <2>2, Pushed
<1>3. ASSUME NEW label, NEW back, NEW rest \in Seq(Labels) PROVE <<label, back>> \o rest # <<>>
  <2> DEFINE S == Labels \cup {label, back}
             pair == <<label, back>>
  <2>1. rest \in Seq(S) /\ pair \in Seq(S) /\ Len(pair) = 2
    OBVIOUS
  <2> HIDE DEF S, pair
  <2>2. Len(rest) \in Nat
    BY <2>1, LenProperties
  <2>3. pair \o rest \in Seq(S) /\ Len(pair \o rest) = Len(pair) + Len(rest)
    BY <2>1, ConcatProperties
  <2>4. Len(pair \o rest) > 0
    BY <2>1, <2>2, <2>3
  <2>5. pair \o rest # <<>>
    BY <2>3, <2>4, EmptySeq
  <2> QED BY <2>5 DEF pair
<1>4. CASE \E label : Goto(label)
  BY <1>1, <1>2, <1>4 DEF Goto
<1>5. CASE \E label, back : Call(label, back)
  BY <1>1, <1>3, <1>5 DEF Call
<1>6. CASE \E value : WhileReturn(value)
  BY <1>1, <1>2, <1>6 DEF WhileReturn
<1>7. CASE Raise
  BY <1>7, Raises DEF IInv
<1>8. CASE /\ Top \in SendLabels \cup WaitLabels \cup AwaitLabels \cup CancelLabels
           /\ \E value : Return(value)
  BY <1>8, HelperReturn DEF IInv
<1> QED BY <1>4, <1>5, <1>6, <1>7, <1>8 DEF Moves

\* A step that the clients do not see.
Stays ==
    /\ UNCHANGED slot
    /\ stack # <<>> /\ stack' # <<>>
    /\ session'.terminal = session.terminal
    /\ session'.cancelRequested = session.cancelRequested
    /\ OwnedFollows' = OwnedFollows

\* Only the coroutine moves.
LEMMA ControlStays ==
    ASSUME IInv,
           ExternalAwait \/ WaitInnerCanceled \/ Start \/ Plan \/ FollowStopped \/ PlanRetryDone
             \/ SubmitFollow \/ WhilePlan \/ WhileReplace
    PROVE  Stays
<1>1. UNCHANGED <<slot, session, goal>>
  BY
  DEF ExternalAwait, WaitInnerCanceled, Start, Plan, FollowStopped, PlanRetryDone, SubmitFollow,
         WhilePlan, WhileReplace, OnlyControl, transport
<1>2. OwnedFollows' = OwnedFollows
  BY <1>1, SameOwned
<1>3. Top # "idle"
  BY DEF ExternalAwait, External, WaitInnerCanceled, Start, Plan, FollowStopped, PlanRetryDone,
         SubmitFollow, WhilePlan, WhileReplace, At
<1>4. stack # <<>>
  BY <1>3 DEF Top
<1>5. Moves
  <2>1. CASE ExternalAwait
    BY <2>1 DEF ExternalAwait, Moves
  <2>2. CASE WaitInnerCanceled
    BY <2>2 DEF WaitInnerCanceled, Moves, At, WaitLabels
  <2>3. CASE Start
    BY <2>3 DEF Start, Moves
  <2>4. CASE Plan
    BY <2>4 DEF Plan, Moves
  <2>5. CASE FollowStopped
    BY <2>5 DEF FollowStopped, Moves
  <2>6. CASE PlanRetryDone
    BY <2>6 DEF PlanRetryDone, Moves
  <2>7. CASE SubmitFollow
    BY <2>7 DEF SubmitFollow, Moves
  <2>8. CASE WhilePlan
    BY <2>8 DEF WhilePlan, Moves
  <2>9. CASE WhileReplace
    BY <2>9 DEF WhileReplace, Moves
  <2> QED BY <2>1, <2>2, <2>3, <2>4, <2>5, <2>6, <2>7, <2>8, <2>9
<1>6. stack' # <<>>
  BY <1>4, <1>5, NotOver
<1> QED BY <1>1, <1>2, <1>4, <1>6 DEF Stays

\* The session changes, the inner goals do not.
LEMMA SessionStays ==
    ASSUME IInv,
           DispatchWoken \/ AwaitTerminalLoop \/ AwaitTerminalCancel \/ WaitInnerWoken \/ PlanAccepted
             \/ FollowSend \/ FollowSent \/ FollowCanceling \/ FollowEnded \/ FollowReplan \/ PlanRetry
             \/ PlanRetrySent \/ SubmitFollowSent \/ WhileValidated \/ Replanned \/ Revalidated \/ HandleException
    PROVE  Stays
<1>1. session \in SessionType
  BY DEF IInv, TypedGoals
<1>2. CASE DispatchWoken
  <2>1. UNCHANGED <<slot, goal>> /\ Top # "idle"
    BY <1>2 DEF DispatchWoken, At, transport
  <2>2. session'.terminal = session.terminal /\ session'.cancelRequested = session.cancelRequested
    BY <1>1, <1>2 DEF DispatchWoken, SessionType
  <2>3. Moves
    BY <1>2 DEF DispatchWoken, Moves, Cancel, At, SendLabels
  <2> QED BY <2>1, <2>2, <2>3, SameOwned, NotOver DEF Stays, Top
<1>3. CASE AwaitTerminalLoop
  <2>1. UNCHANGED <<slot, goal>> /\ Top # "idle"
    BY <1>3 DEF AwaitTerminalLoop, At, transport
  <2>2. session'.terminal = session.terminal /\ session'.cancelRequested = session.cancelRequested
    BY <1>1, <1>3 DEF AwaitTerminalLoop, SessionType
  <2>3. Moves
    BY <1>3 DEF AwaitTerminalLoop, Moves, Cancel, At, AwaitLabels
  <2> QED BY <2>1, <2>2, <2>3, SameOwned, NotOver DEF Stays, Top
<1>4. CASE AwaitTerminalCancel
  <2>1. UNCHANGED <<slot, goal>> /\ Top # "idle"
    BY <1>4 DEF AwaitTerminalCancel, At, transport
  <2>2. session'.terminal = session.terminal /\ session'.cancelRequested = session.cancelRequested
    BY <1>1, <1>4 DEF AwaitTerminalCancel, SessionType
  <2>3. Moves
    BY <1>4 DEF AwaitTerminalCancel, Moves, Cancel, At, AwaitLabels
  <2> QED BY <2>1, <2>2, <2>3, SameOwned, NotOver DEF Stays, Top
<1>5. CASE WaitInnerWoken
  <2>1. UNCHANGED <<slot, goal>> /\ Top # "idle"
    BY <1>5 DEF WaitInnerWoken, At, transport
  <2>2. session'.terminal = session.terminal /\ session'.cancelRequested = session.cancelRequested
    BY <1>1, <1>5 DEF WaitInnerWoken, SessionType
  <2>3. Moves
    BY <1>5 DEF WaitInnerWoken, Moves, Cancel, At, WaitLabels
  <2> QED BY <2>1, <2>2, <2>3, SameOwned, NotOver DEF Stays, Top
<1>6. CASE PlanAccepted
  <2>1. UNCHANGED <<slot, goal>> /\ Top # "idle"
    BY <1>6 DEF PlanAccepted, At, transport
  <2>2. session'.terminal = session.terminal /\ session'.cancelRequested = session.cancelRequested
    BY <1>1, <1>6 DEF PlanAccepted, SessionType
  <2>3. Moves
    BY <1>6 DEF PlanAccepted, Moves, Cancel
  <2> QED BY <2>1, <2>2, <2>3, SameOwned, NotOver DEF Stays, Top
<1>7. CASE FollowSend
  <2>1. UNCHANGED <<slot, goal>> /\ Top # "idle"
    BY <1>7 DEF FollowSend, At, transport
  <2>2. session'.terminal = session.terminal /\ session'.cancelRequested = session.cancelRequested
    BY <1>1, <1>7 DEF FollowSend, SessionType
  <2>3. Moves
    BY <1>7 DEF FollowSend, Moves, Cancel
  <2> QED BY <2>1, <2>2, <2>3, SameOwned, NotOver DEF Stays, Top
<1>8. CASE FollowSent
  <2>1. UNCHANGED <<slot, goal>> /\ Top # "idle"
    BY <1>8 DEF FollowSent, At, transport
  <2>2. session'.terminal = session.terminal /\ session'.cancelRequested = session.cancelRequested
    BY <1>1, <1>8 DEF FollowSent, SessionType
  <2>3. Moves
    BY <1>8 DEF FollowSent, Moves, Cancel
  <2> QED BY <2>1, <2>2, <2>3, SameOwned, NotOver DEF Stays, Top
<1>9. CASE FollowCanceling
  <2>1. UNCHANGED <<slot, goal>> /\ Top # "idle"
    BY <1>9 DEF FollowCanceling, At, transport
  <2>2. session'.terminal = session.terminal /\ session'.cancelRequested = session.cancelRequested
    BY <1>1, <1>9 DEF FollowCanceling, SessionType
  <2>3. Moves
    BY <1>9 DEF FollowCanceling, Moves, Cancel
  <2> QED BY <2>1, <2>2, <2>3, SameOwned, NotOver DEF Stays, Top
<1>10. CASE FollowEnded
  <2>1. UNCHANGED <<slot, goal>> /\ Top # "idle"
    BY <1>10 DEF FollowEnded, At, transport
  <2>2. session'.terminal = session.terminal /\ session'.cancelRequested = session.cancelRequested
    BY <1>1, <1>10 DEF FollowEnded, SessionType
  <2>3. Moves
    BY <1>10 DEF FollowEnded, Moves, Cancel
  <2> QED BY <2>1, <2>2, <2>3, SameOwned, NotOver DEF Stays, Top
<1>11. CASE FollowReplan
  <2>1. UNCHANGED <<slot, goal>> /\ Top # "idle"
    BY <1>11 DEF FollowReplan, At, transport
  <2>2. session'.terminal = session.terminal /\ session'.cancelRequested = session.cancelRequested
    BY <1>1, <1>11 DEF FollowReplan, SessionType
  <2>3. Moves
    BY <1>11 DEF FollowReplan, Moves, Cancel
  <2> QED BY <2>1, <2>2, <2>3, SameOwned, NotOver DEF Stays, Top
<1>12. CASE PlanRetry
  <2>1. UNCHANGED <<slot, goal>> /\ Top # "idle"
    BY <1>12 DEF PlanRetry, At, transport
  <2>2. session'.terminal = session.terminal /\ session'.cancelRequested = session.cancelRequested
    BY <1>1, <1>12 DEF PlanRetry, SessionType
  <2>3. Moves
    BY <1>12 DEF PlanRetry, Moves, Cancel
  <2> QED BY <2>1, <2>2, <2>3, SameOwned, NotOver DEF Stays, Top
<1>13. CASE PlanRetrySent
  <2>1. UNCHANGED <<slot, goal>> /\ Top # "idle"
    BY <1>13 DEF PlanRetrySent, At, transport
  <2>2. session'.terminal = session.terminal /\ session'.cancelRequested = session.cancelRequested
    BY <1>1, <1>13 DEF PlanRetrySent, SessionType
  <2>3. Moves
    BY <1>13 DEF PlanRetrySent, Moves, Cancel
  <2> QED BY <2>1, <2>2, <2>3, SameOwned, NotOver DEF Stays, Top
<1>14. CASE SubmitFollowSent
  <2>1. UNCHANGED <<slot, goal>> /\ Top # "idle"
    BY <1>14 DEF SubmitFollowSent, At, transport
  <2>2. session'.terminal = session.terminal /\ session'.cancelRequested = session.cancelRequested
    BY <1>1, <1>14 DEF SubmitFollowSent, SessionType
  <2>3. Moves
    BY <1>14 DEF SubmitFollowSent, Moves, Cancel
  <2> QED BY <2>1, <2>2, <2>3, SameOwned, NotOver DEF Stays, Top
<1>15. CASE WhileValidated
  <2>1. UNCHANGED <<slot, goal>> /\ Top # "idle"
    BY <1>15 DEF WhileValidated, At, transport
  <2>2. session'.terminal = session.terminal /\ session'.cancelRequested = session.cancelRequested
    BY <1>1, <1>15 DEF WhileValidated, SessionType
  <2>3. Moves
    BY <1>15 DEF WhileValidated, Moves, Cancel
  <2> QED BY <2>1, <2>2, <2>3, SameOwned, NotOver DEF Stays, Top
<1>16. CASE Replanned
  <2>1. UNCHANGED <<slot, goal>> /\ Top # "idle"
    BY <1>16 DEF Replanned, At, transport
  <2>2. session'.terminal = session.terminal /\ session'.cancelRequested = session.cancelRequested
    BY <1>1, <1>16 DEF Replanned, SessionType
  <2>3. Moves
    BY <1>16 DEF Replanned, Moves, Cancel
  <2> QED BY <2>1, <2>2, <2>3, SameOwned, NotOver DEF Stays, Top
<1>17. CASE Revalidated
  <2>1. UNCHANGED <<slot, goal>> /\ Top # "idle"
    BY <1>17 DEF Revalidated, At, transport
  <2>2. session'.terminal = session.terminal /\ session'.cancelRequested = session.cancelRequested
    BY <1>1, <1>17 DEF Revalidated, SessionType
  <2>3. Moves
    BY <1>17 DEF Revalidated, Moves, Cancel
  <2> QED BY <2>1, <2>2, <2>3, SameOwned, NotOver DEF Stays, Top
<1>18. CASE HandleException
  <2>1. UNCHANGED <<slot, goal>> /\ Top # "idle"
    BY <1>18 DEF HandleException, At, transport
  <2>2. session'.terminal = session.terminal /\ session'.cancelRequested = session.cancelRequested
    BY <1>1, <1>18 DEF HandleException, SessionType
  <2>3. Moves
    BY <1>18 DEF HandleException, Moves, Cancel
  <2> QED BY <2>1, <2>2, <2>3, SameOwned, NotOver DEF Stays, Top
<1> QED
  BY <1>2, <1>3, <1>4, <1>5, <1>6, <1>7, <1>8, <1>9, <1>10, <1>11, <1>12, <1>13, <1>14, <1>15,
     <1>16, <1>17, <1>18

\* What the coroutine notes of an inner goal is not what its server does.
LEMMA NotesStay ==
    ASSUME IInv,
           DispatchAnswered \/ CancelStart \/ CancelResponse \/ CancelResult \/ WaitInner
             \/ FollowLoop \/ WhilePlanAccepted \/ WhileLoop \/ WhileWoken \/ WhileCanceled
    PROVE  Stays
<1>1. session \in SessionType /\ goal \in [Goals -> GoalType]
  BY DEF IInv, TypedGoals
<1> DEFINE Served == \A g \in Goals : goal'[g].kind = goal[g].kind /\ goal'[g].server = goal[g].server
<1>2. CASE DispatchAnswered
  <2>1. UNCHANGED slot /\ Top # "idle"
    BY <1>2 DEF DispatchAnswered, At
  <2>2. session'.terminal = session.terminal /\ session'.cancelRequested = session.cancelRequested
    BY <1>1, <1>2 DEF DispatchAnswered, SessionType
  <2>3. Moves
    BY <1>2 DEF DispatchAnswered, Moves, Cancel, At, SendLabels
  <2>4. Served
    BY <1>1, <1>2 DEF DispatchAnswered, GoalType
  <2> QED BY <2>1, <2>2, <2>3, <2>4, SameOwned, NotOver DEF Stays, Top
<1>3. CASE CancelStart
  <2>1. UNCHANGED slot /\ Top # "idle"
    BY <1>3 DEF CancelStart, At
  <2>2. session'.terminal = session.terminal /\ session'.cancelRequested = session.cancelRequested
    BY <1>1, <1>3 DEF CancelStart, SessionType
  <2>3. Moves
    BY <1>3 DEF CancelStart, Moves, Cancel, At, CancelLabels
  <2>4. Served
    BY <1>1, <1>3 DEF CancelStart, GoalType
  <2> QED BY <2>1, <2>2, <2>3, <2>4, SameOwned, NotOver DEF Stays, Top
<1>4. CASE CancelResponse
  <2>1. UNCHANGED slot /\ Top # "idle"
    BY <1>4 DEF CancelResponse, At
  <2>2. session'.terminal = session.terminal /\ session'.cancelRequested = session.cancelRequested
    BY <1>1, <1>4 DEF CancelResponse, SessionType
  <2>3. Moves
    BY <1>4 DEF CancelResponse, Moves, Cancel, At, CancelLabels
  <2>4. Served
    BY <1>1, <1>4 DEF CancelResponse, GoalType
  <2> QED BY <2>1, <2>2, <2>3, <2>4, SameOwned, NotOver DEF Stays, Top
<1>5. CASE CancelResult
  <2>1. UNCHANGED slot /\ Top # "idle"
    BY <1>5 DEF CancelResult, At
  <2>2. session'.terminal = session.terminal /\ session'.cancelRequested = session.cancelRequested
    BY <1>1, <1>5 DEF CancelResult, SessionType
  <2>3. Moves
    BY <1>5 DEF CancelResult, Moves, Cancel, At, CancelLabels
  <2>4. Served
    BY <1>1, <1>5 DEF CancelResult, GoalType
  <2> QED BY <2>1, <2>2, <2>3, <2>4, SameOwned, NotOver DEF Stays, Top
<1>6. CASE WaitInner
  <2>1. UNCHANGED slot /\ Top # "idle"
    BY <1>6 DEF WaitInner, At
  <2>2. session'.terminal = session.terminal /\ session'.cancelRequested = session.cancelRequested
    BY <1>1, <1>6 DEF WaitInner, SessionType
  <2>3. Moves
    BY <1>6 DEF WaitInner, Moves, Cancel, At, WaitLabels
  <2>4. Served
    BY <1>1, <1>6 DEF WaitInner, GoalType
  <2> QED BY <2>1, <2>2, <2>3, <2>4, SameOwned, NotOver DEF Stays, Top
<1>7. CASE FollowLoop
  <2>1. UNCHANGED slot /\ Top # "idle"
    BY <1>7 DEF FollowLoop, At
  <2>2. session'.terminal = session.terminal /\ session'.cancelRequested = session.cancelRequested
    BY <1>1, <1>7 DEF FollowLoop, SessionType
  <2>3. Moves
    BY <1>7 DEF FollowLoop, Moves, Cancel
  <2>4. Served
    BY <1>1, <1>7 DEF FollowLoop, GoalType
  <2> QED BY <2>1, <2>2, <2>3, <2>4, SameOwned, NotOver DEF Stays, Top
<1>8. CASE WhilePlanAccepted
  <2>1. UNCHANGED slot /\ Top # "idle"
    BY <1>8 DEF WhilePlanAccepted, At
  <2>2. session'.terminal = session.terminal /\ session'.cancelRequested = session.cancelRequested
    BY <1>1, <1>8 DEF WhilePlanAccepted, SessionType
  <2>3. Moves
    BY <1>8 DEF WhilePlanAccepted, Moves, Cancel
  <2>4. Served
    BY <1>1, <1>8 DEF WhilePlanAccepted, GoalType
  <2> QED BY <2>1, <2>2, <2>3, <2>4, SameOwned, NotOver DEF Stays, Top
<1>9. CASE WhileLoop
  <2>1. UNCHANGED slot /\ Top # "idle"
    BY <1>9 DEF WhileLoop, At
  <2>2. session'.terminal = session.terminal /\ session'.cancelRequested = session.cancelRequested
    BY <1>1, <1>9 DEF WhileLoop, SessionType
  <2>3. Moves
    BY <1>9 DEF WhileLoop, Moves, Cancel
  <2>4. Served
    BY <1>1, <1>9 DEF WhileLoop, GoalType
  <2> QED BY <2>1, <2>2, <2>3, <2>4, SameOwned, NotOver DEF Stays, Top
<1>10. CASE WhileWoken
  <2>1. UNCHANGED slot /\ Top # "idle"
    BY <1>10 DEF WhileWoken, At
  <2>2. session'.terminal = session.terminal /\ session'.cancelRequested = session.cancelRequested
    BY <1>1, <1>10 DEF WhileWoken, SessionType
  <2>3. Moves
    BY <1>10 DEF WhileWoken, Moves, Cancel
  <2>4. Served
    BY <1>1, <1>10 DEF WhileWoken, GoalType, DropPlanner
  <2> QED BY <2>1, <2>2, <2>3, <2>4, SameOwned, NotOver DEF Stays, Top
<1>11. CASE WhileCanceled
  <2>1. UNCHANGED slot /\ Top # "idle"
    BY <1>11 DEF WhileCanceled, At
  <2>2. session'.terminal = session.terminal /\ session'.cancelRequested = session.cancelRequested
    BY <1>1, <1>11 DEF WhileCanceled, SessionType
  <2>3. Moves
    BY <1>11 DEF WhileCanceled, Moves, Cancel
  <2>4. Served
    BY <1>1, <1>11 DEF WhileCanceled, GoalType, DropPlanner
  <2> QED BY <2>1, <2>2, <2>3, <2>4, SameOwned, NotOver DEF Stays, Top
<1> QED BY <1>2, <1>3, <1>4, <1>5, <1>6, <1>7, <1>8, <1>9, <1>10, <1>11

\* While execute runs, a client that cancelled has been heard; a session that was
\* told to stop although its client did not ask has a polygon; and only such a
\* session has ended before execute has.  An execute that is over has ended the
\* goal.
Settled ==
    /\ IF reserved THEN pendingCancel <=> outer = "canceling" ELSE ~pendingCancel
    /\ stack # <<>> =>
          /\ outer = "canceling" => session.cancelRequested
          /\ session.cancelRequested => polygon \/ outer = "canceling"
          /\ session.terminal => session.cancelRequested /\ outer = "executing"
    /\ stack = <<>> /\ ~reserved => outer \in Terminal \cup {"none"}
    /\ outer = "none" => ~busy

SlotStep == Slot!SlotNext \/ UNCHANGED Slot!slotVars

LEMMA SameStop ==
    ASSUME UNCHANGED <<reserved, outer>>, session'.cancelRequested = session.cancelRequested
    PROVE  StoppedByWatch' = StoppedByWatch
  BY DEF StoppedByWatch

LEMMA StaysUnseen ==
    ASSUME Settled, Stays
    PROVE  Settled' /\ SlotStep
<1>1. UNCHANGED <<busy, reserved, pendingCancel, outer, polygon, OwnedFollows>>
  BY DEF Stays, slot
<1>2. Settled'
  BY <1>1 DEF Settled, Stays
<1>3. StoppedByWatch' = StoppedByWatch
  BY <1>1, SameStop DEF Stays
<1> QED BY <1>1, <1>2, <1>3 DEF SlotStep, Slot!slotVars

\* _send_goal hands the first FollowPath, or the next one, to the controller.
LEMMA DispatchSeen ==
    ASSUME IInv, Settled, Dispatch
    PROVE  Settled' /\ SlotStep
<1>1. /\ session \in SessionType /\ goal \in [Goals -> GoalType]
      /\ Top = "D_Start" /\ UNCHANGED slot
  BY DEF IInv, TypedGoals, Dispatch, At
<1>2. Top \in SendLabels
  BY <1>1 DEF SendLabels
<1>3. stack # <<>> /\ Caller = Base /\ busy /\ outer \in {"executing", "canceling"}
  BY <1>2, SendFacts
<1>4. UNCHANGED <<busy, reserved, pendingCancel, outer, polygon>>
  BY <1>1 DEF slot
<1>5. CASE Return("none") /\ UNCHANGED <<session, transport>>
  <2>1. Moves /\ UNCHANGED <<session, goal>>
    BY <1>2, <1>5 DEF Moves, transport
  <2>2. Stays
    BY <1>1, <1>3, <2>1, SameOwned, NotOver DEF Stays
  <2> QED BY <2>2, StaysUnseen
<1>6. CASE /\ session' = [session EXCEPT !.unverified = TRUE]
           /\ Raise /\ UNCHANGED goal
  <2>1. Moves
    BY <1>6 DEF Moves
  <2>2. session'.terminal = session.terminal /\ session'.cancelRequested = session.cancelRequested
    BY <1>1, <1>6 DEF SessionType
  <2>3. Stays
    BY <1>1, <1>3, <1>6, <2>1, <2>2, SameOwned, NotOver DEF Stays
  <2> QED BY <2>3, StaysUnseen
<1>7. ASSUME MayDispatch, sending' = Latest + 1,
             goal' = [goal EXCEPT ![Latest + 1].kind = IF SendsFollow THEN "follow" ELSE "plan",
                                  ![Latest + 1].server = "sent"],
             session' = [session EXCEPT !.wake = "armed"],
             Goto("D_Wait")
      PROVE  Settled' /\ SlotStep
  <2> DEFINE n == Latest + 1
  <2>1. n \in Goals /\ goal[n].kind = "none"
    <3>1. Latest \in 0 .. MaxGoals /\ Latest < MaxGoals
      BY <1>1, LatestType DEF IInv, InFlight
    <3>2. n \in Goals /\ ~(n <= Latest)
      BY <3>1 DEF Goals
    <3> QED BY <3>2 DEF IInv, Ledger
  <2> HIDE DEF n
  <2>2. /\ goal'[n].kind = (IF SendsFollow THEN "follow" ELSE "plan")
        /\ \A g \in Goals \ {n} : goal'[g] = goal[g]
    BY <1>1, <1>7, <2>1 DEF n, GoalType
  <2>3. Moves
    BY <1>7 DEF Moves
  <2>4. /\ session'.terminal = session.terminal
        /\ session'.cancelRequested = session.cancelRequested
    BY <1>1, <1>7 DEF SessionType
  <2>5. stack' # <<>> /\ outer = "executing" /\ Settled'
    <3>1. stack' # <<>>
      BY <1>3, <2>3, NotOver
    <3>2. outer = "executing"
      BY <1>3, <1>7 DEF Settled, MayDispatch
    <3> QED BY <1>3, <1>4, <2>4, <3>1, <3>2 DEF Settled
  <2>6. StoppedByWatch = FALSE /\ StoppedByWatch' = FALSE
    BY <1>7, <2>4 DEF StoppedByWatch, MayDispatch
  <2>7. CASE SendsFollow
    <3>1. Base \in FollowSends
      BY <1>3, <2>7 DEF SendsFollow, FollowSends
    <3>2. OwnedFollows = {}
      BY <1>1, <3>1 DEF IInv, Follows
    <3>3. SlotStep
      BY <1>3, <1>4, <2>5, <2>6, <3>2 DEF SlotStep, Slot!SlotNext, Slot!Submit, Slot!slotVars
    <3> QED BY <2>5, <3>3
  <2>8. CASE ~SendsFollow
    <3>1. OwnedFollows' = OwnedFollows
      BY <2>1, <2>2, <2>8 DEF OwnedFollows
    <3>2. Stays
      BY <1>1, <1>3, <2>4, <2>5, <3>1 DEF Stays
    <3> QED BY <3>2, StaysUnseen
  <2> QED BY <2>7, <2>8
<1> QED BY <1>5, <1>6, <1>7 DEF Dispatch, transport

\* canceled() raises on a goal that only the boundary watch has stopped.
LEMMA RaisesSeen ==
    ASSUME IInv, Settled, FinishRaises
    PROVE  Settled' /\ SlotStep
<1>1. /\ Top = "Z_cancel" /\ outer = "executing"
      /\ session' = [session EXCEPT !.terminal = TRUE]
      /\ UNCHANGED <<busy, reserved, pendingCancel, outer, polygon, goal>>
  BY DEF FinishRaises, At, slot, transport
<1>2. Top \in Bases
  BY <1>1 DEF Bases, EndBases
<1>3. stack # <<>> /\ Base = Top
  BY <1>2, BaseFacts, AtBase DEF IInv
<1>4. session.cancelRequested /\ ~reserved
  BY <1>1, <1>3 DEF IInv, Canceled, CanceledBases, Held
<1>5. stack' # <<>>
  <2>1. Moves
    BY DEF FinishRaises, Moves
  <2> QED BY <1>3, <2>1, NotOver
<1>6. session'.cancelRequested = session.cancelRequested
  BY <1>1 DEF IInv, TypedGoals, SessionType
<1>7. Settled'
  BY <1>1, <1>3, <1>4, <1>5, <1>6 DEF Settled
<1>8. OwnedFollows' = OwnedFollows /\ StoppedByWatch' = StoppedByWatch
  BY <1>1, <1>6, SameOwned, SameStop
<1> QED BY <1>1, <1>7, <1>8 DEF SlotStep, Slot!slotVars

\* _finish ends the goal that is open, and frees the slot over an idle
\* controller only.
LEMMA FinishSeen ==
    ASSUME IInv, Settled, Finish
    PROVE  Settled' /\ SlotStep
<1>1. /\ Top \in {"Z_succeed", "Z_cancel", "Z_abort"}
      /\ stack' = <<>> /\ busy' = ~InnerTerminal
      /\ UNCHANGED <<reserved, pendingCancel, polygon>>
  BY DEF Finish
<1>2. Shape /\ goal \in [Goals -> GoalType] /\ Top \in Bases
  BY <1>1 DEF IInv, TypedGoals, Bases, EndBases
<1>3. stack # <<>> /\ Base = Top
  BY <1>2, BaseFacts, AtBase DEF IInv
<1>4. /\ ~reserved /\ outer \in {"executing", "canceling"} /\ (busy \/ session.terminal)
      /\ outer = "canceling" => session.cancelRequested
      /\ session.terminal => session.cancelRequested /\ outer = "executing" /\ Top = "Z_abort"
  BY <1>1, <1>3 DEF IInv, Held, Settled
<1>5. Top = "Z_cancel" => outer = "canceling"
  BY <1>1, <1>4 DEF Finish, At
<1>6. outer' = (CASE At("Z_succeed") -> "succeeded"
                  [] At("Z_cancel")  -> "canceled"
                  [] At("Z_abort")   -> "aborted")
  BY DEF Finish
<1>7. /\ outer' \in Terminal
      /\ outer' = "canceled" => Top = "Z_cancel"
      /\ outer' = "succeeded" => Top = "Z_succeed"
  BY <1>1, <1>6 DEF At, Terminal
<1>8. Settled'
  BY <1>1, <1>4, <1>7 DEF Settled, Terminal
<1>9. OwnedFollows' = OwnedFollows
  <2>1. CASE goal' = goal
    BY <2>1, SameOwned
  <2>2. CASE goal' = [g \in Goals |->
                         IF g \in ActiveInner THEN [goal[g] EXCEPT !.cancel = TRUE] ELSE goal[g]]
    <3>1. \A g \in Goals : goal'[g].kind = goal[g].kind /\ goal'[g].server = goal[g].server
      BY <1>2, <2>2 DEF GoalType
    <3> QED BY <3>1, SameOwned
  <2> QED BY <2>1, <2>2 DEF Finish
<1>10. Top = "Z_succeed" => OwnedFollows = {}
  BY <1>3 DEF IInv, Follows
<1>11. InnerTerminal => OwnedFollows = {}
  BY IdleWhenEnded
<1>12. /\ busy' \in {busy, busy /\ OwnedFollows # {}}
       /\ busy \/ StoppedByWatch
  <2>1. ~busy => InnerTerminal
    BY DEF IInv, Held
  <2>2. busy \in BOOLEAN
    BY DEF IInv, TypedSlot
  <2>3. busy \/ StoppedByWatch
    BY <1>4 DEF StoppedByWatch
  <2>4. CASE InnerTerminal
    BY <1>1, <1>11, <2>2, <2>3, <2>4
  <2>5. CASE ~InnerTerminal
    BY <1>1, <2>1, <2>2, <2>3, <2>5
  <2> QED BY <2>4, <2>5
<1>13. Slot!Finish
  <2>1. outer \in Slot!Open /\ outer' \in Slot!Ended
    BY <1>4, <1>7 DEF Slot!Open, Slot!Ended, Terminal
  <2>2. outer' = "canceled" => outer = "canceling"
    BY <1>5, <1>7
  <2>3. outer' = "succeeded" => OwnedFollows = {}
    BY <1>7, <1>10
  <2>4. StoppedByWatch' = FALSE
    BY <1>7 DEF StoppedByWatch, Terminal
  <2> QED BY <1>1, <1>9, <1>12, <2>1, <2>2, <2>3, <2>4 DEF Slot!Finish
<1> QED BY <1>8, <1>13 DEF SlotStep, Slot!SlotNext

LEMMA StepSeen ==
    ASSUME IInv, Settled, Step
    PROVE  Settled' /\ SlotStep
<1>1. Coroutine
  BY DEF Step
<1>2. CASE \/ ExternalAwait \/ WaitInnerCanceled \/ Start \/ Plan \/ FollowStopped \/ PlanRetryDone
           \/ SubmitFollow \/ WhilePlan \/ WhileReplace
  BY <1>2, ControlStays, StaysUnseen
<1>3. CASE \/ DispatchWoken \/ AwaitTerminalLoop \/ AwaitTerminalCancel \/ WaitInnerWoken
           \/ PlanAccepted \/ FollowSend \/ FollowSent \/ FollowCanceling \/ FollowEnded
           \/ FollowReplan \/ PlanRetry \/ PlanRetrySent \/ SubmitFollowSent \/ WhileValidated
           \/ Replanned \/ Revalidated \/ HandleException
  BY <1>3, SessionStays, StaysUnseen
<1>4. CASE \/ DispatchAnswered \/ CancelStart \/ CancelResponse \/ CancelResult \/ WaitInner
           \/ FollowLoop \/ WhilePlanAccepted \/ WhileLoop \/ WhileWoken \/ WhileCanceled
  BY <1>4, NotesStay, StaysUnseen
<1>5. CASE Dispatch
  BY <1>5, DispatchSeen
<1>6. CASE Finish
  BY <1>6, FinishSeen
<1>7. CASE FinishRaises
  BY <1>7, RaisesSeen
<1> QED BY <1>1, <1>2, <1>3, <1>4, <1>5, <1>6, <1>7 DEF Coroutine

\* The clients, the timer and the executor.
LEMMA ClientsSeen ==
    ASSUME IInv, Settled, AcceptGoal \/ Execute \/ OuterCancel \/ RequestReplan \/ ReplyArrives
    PROVE  Settled' /\ SlotStep
<1>1. session \in SessionType /\ Shape
  BY DEF IInv, TypedGoals
<1>2. CASE AcceptGoal
  <2>1. /\ ~busy /\ stack = <<>> /\ busy' = TRUE /\ reserved' = TRUE /\ outer' = "executing"
        /\ polygon' \in Polygons /\ UNCHANGED <<pendingCancel, stack, goal>>
    BY <1>2 DEF AcceptGoal, control, transport
  <2>2. ~reserved /\ InnerTerminal
    BY <2>1 DEF IInv, Held
  <2>3. OwnedFollows = {} /\ OwnedFollows' = OwnedFollows
    BY <2>1, <2>2, IdleWhenEnded, SameOwned
  <2>4. Settled'
    BY <1>2, <2>1, <2>2 DEF Settled, IInv, AcceptGoal
  <2>5. polygon' \in BOOLEAN /\ StoppedByWatch' = FALSE
    BY <2>1, Bounds DEF StoppedByWatch
  <2>6. Slot!Accept
    BY <2>1, <2>3, <2>5 DEF Slot!Accept
  <2> QED BY <2>4, <2>6 DEF SlotStep, Slot!SlotNext
<1>3. CASE Execute
  <2>1. /\ reserved /\ ~reserved' /\ ~pendingCancel' /\ session' = NewSession(pendingCancel)
        /\ goal' = [g \in Goals |-> Unused] /\ UNCHANGED <<busy, outer, polygon>>
    BY <1>3 DEF Execute
  <2>2. busy /\ InnerTerminal /\ outer \in {"executing", "canceling"}
    BY <2>1 DEF IInv, Held
  <2>3. OwnedFollows = {} /\ OwnedFollows' = {}
    BY <2>1, <2>2, IdleWhenEnded, Disjoint DEF OwnedFollows, Unused
  <2>4. ~session'.terminal /\ session'.cancelRequested = pendingCancel /\ stack' # <<>>
    <3>1. stack' = <<"E_Init">> /\ "E_Init" \in Labels
      BY <1>3 DEF Execute, Labels, Bases, PlanBases
    <3> QED BY <2>1, <3>1, OneLabel DEF NewSession
  <2>5. Settled'
    BY <2>1, <2>2, <2>4 DEF Settled
  <2>6. StoppedByWatch' = StoppedByWatch
    BY <2>1, <2>4 DEF Settled, StoppedByWatch
  <2> QED BY <2>1, <2>3, <2>5, <2>6 DEF SlotStep, Slot!slotVars
<1>4. CASE OuterCancel
  <2>1. /\ outer = "executing" /\ outer' = "canceling"
        /\ UNCHANGED <<busy, reserved, polygon, stack, goal>>
    BY <1>4 DEF OuterCancel, control, transport
  <2>2. OwnedFollows' = OwnedFollows
    BY <2>1, SameOwned
  <2>5. StoppedByWatch' = FALSE
    BY <2>1 DEF StoppedByWatch
  <2>3. CASE reserved /\ pendingCancel' = TRUE /\ UNCHANGED session
    <3>1. stack = <<>>
      BY <2>3 DEF IInv, Held
    <3>2. Settled'
      BY <2>1, <2>3, <3>1 DEF Settled
    <3>3. busy
      BY <2>3 DEF IInv, Held
    <3> QED BY <2>1, <2>2, <2>5, <3>2, <3>3 DEF SlotStep, Slot!SlotNext, Slot!RequestCancel
  <2>4. CASE HasSession /\ ~session.terminal /\ WakeCancel /\ UNCHANGED pendingCancel
    <3>1. session'.terminal = session.terminal /\ session'.cancelRequested
      BY <1>1, <2>4 DEF WakeCancel, SessionType
    <3>2. ~reserved /\ stack # <<>>
      BY <2>1, <2>4 DEF HasSession, Settled, Terminal
    <3>3. Settled'
      BY <2>1, <2>4, <3>1, <3>2 DEF Settled
    <3>4. busy
      BY <2>4 DEF HasSession
    <3> QED BY <2>1, <2>2, <2>5, <3>3, <3>4 DEF SlotStep, Slot!SlotNext, Slot!RequestCancel
  <2> QED BY <1>4, <2>3, <2>4 DEF OuterCancel
<1>5. CASE RequestReplan \/ ReplyArrives
  <2>1. UNCHANGED <<busy, reserved, pendingCancel, outer, polygon, stack, goal>>
    BY <1>5 DEF RequestReplan, ReplyArrives, slot, control, transport
  <2>2. session'.terminal = session.terminal /\ session'.cancelRequested = session.cancelRequested
    BY <1>1, <1>5 DEF RequestReplan, ReplyArrives, SessionType
  <2>3. OwnedFollows' = OwnedFollows
    BY <2>1, SameOwned
  <2>4. Settled' /\ StoppedByWatch' = StoppedByWatch
    BY <2>1, <2>2, SameStop DEF Settled
  <2> QED BY <2>1, <2>3, <2>4 DEF SlotStep, Slot!slotVars
<1> QED BY <1>2, <1>3, <1>4, <1>5

\* The boundary watch stops a session that its client did not; a goal without a
\* boundary it leaves alone.
LEMMA BoundarySeen ==
    ASSUME IInv, Settled, BoundaryLost
    PROVE  Settled' /\ SlotStep
<1>1. /\ polygon = TRUE /\ busy /\ ~reserved /\ ~session.cancelRequested /\ ~session.terminal
      /\ UNCHANGED <<busy, reserved, pendingCancel, outer, polygon, stack, goal>>
  BY DEF BoundaryLost, HasSession, slot, control, transport, IInv, TypedSlot
<1>2. session'.cancelRequested /\ session'.terminal = session.terminal
  BY DEF BoundaryLost, WakeCancel, IInv, TypedGoals, SessionType
<1>3. Settled' /\ OwnedFollows' = OwnedFollows
  BY <1>1, <1>2, SameOwned DEF Settled
<1>4. StoppedByWatch = FALSE
  BY <1>1 DEF StoppedByWatch
<1>5. CASE outer = "executing"
  <2>1. StoppedByWatch' = TRUE
    BY <1>1, <1>2, <1>5 DEF StoppedByWatch
  <2> QED
    BY <1>1, <1>3, <1>4, <1>5, <2>1 DEF SlotStep, Slot!SlotNext, Slot!LoseBoundary
<1>6. CASE outer # "executing"
  <2>1. StoppedByWatch' = FALSE
    BY <1>1, <1>6 DEF StoppedByWatch
  <2> QED BY <1>1, <1>3, <1>4, <2>1 DEF SlotStep, Slot!slotVars
<1> QED BY <1>5, <1>6

\* A result, or its loss, is news to the session and not to the server; the
\* last result of a session that has ended frees the slot.
LEMMA ResultsSeen ==
    ASSUME IInv, IInv', Settled, NEW g \in Goals, ResultArrives(g) \/ ResultLost(g)
    PROVE  Settled' /\ SlotStep
<1>1. session \in SessionType /\ goal \in [Goals -> GoalType]
  BY DEF IInv, TypedGoals
<1>2. UNCHANGED <<reserved, pendingCancel, outer, polygon, stack>>
  BY DEF ResultArrives, ResultLost, slot, control
<1>3. session'.terminal = session.terminal /\ session'.cancelRequested = session.cancelRequested
  <2>1. CASE ResultArrives(g)
    BY <1>1, <2>1 DEF ResultArrives, SessionType
  <2>2. CASE ResultLost(g)
    BY <1>1, <2>2 DEF ResultLost, SessionType
  <2> QED BY <2>1, <2>2
<1>4. OwnedFollows' = OwnedFollows
  <2>1. \A h \in Goals : goal'[h].kind = goal[h].kind /\ goal'[h].server = goal[h].server
    BY <1>1 DEF ResultArrives, ResultLost, GoalType
  <2> QED BY <2>1, SameOwned
<1>5. busy' = busy \/ (~busy' /\ busy /\ session.terminal)
  BY DEF ResultArrives, ResultLost, SlotAfter, slot, IInv, TypedSlot
<1>6. Settled' /\ StoppedByWatch' = StoppedByWatch
  BY <1>2, <1>3, <1>5, SameStop DEF Settled
<1>7. CASE busy' = busy
  BY <1>2, <1>4, <1>6, <1>7 DEF SlotStep, Slot!slotVars
<1>8. CASE ~busy' /\ busy /\ session.terminal
  <2>1. ~reserved /\ OwnedFollows' = {}
    <3>1. ~reserved' /\ InnerTerminal'
      BY <1>8 DEF IInv, Held
    <3>2. (IInv /\ InnerTerminal => OwnedFollows = {})'
      BY IdleWhenEnded, PTL
    <3> QED BY <1>2, <3>1, <3>2
  <2>2. outer \in Slot!Ended \/ StoppedByWatch
    <3>1. CASE stack = <<>>
      BY <1>8, <2>1, <3>1 DEF Settled, Slot!Ended, Terminal
    <3>2. CASE stack # <<>>
      BY <1>8, <2>1, <3>2 DEF Settled, StoppedByWatch
    <3> QED BY <3>1, <3>2
  <2>3. busy' = FALSE
    BY <1>8 DEF IInv, TypedSlot
  <2>4. Slot!Free
    BY <1>2, <1>4, <1>6, <1>8, <2>1, <2>2, <2>3 DEF Slot!Free
  <2> QED BY <1>6, <2>4 DEF SlotStep, Slot!SlotNext
<1> QED BY <1>5, <1>7, <1>8

KeepsEnded ==
    \A g \in Goals : /\ goal'[g].kind = goal[g].kind
                     /\ goal[g].server \notin Owned => goal'[g].server = goal[g].server

\* A server never takes up again a goal that it has ended.
LEMMA ServersSeen ==
    ASSUME IInv, Settled,
           \/ CancelHandled
           \/ \E g \in Goals : \/ ServerDecides(g) \/ ServerEnds(g)
                               \/ ServerCanceledByOther(g) \/ QueuedCancelHandled(g)
    PROVE  Settled' /\ SlotStep
<1>1. goal \in [Goals -> GoalType]
  BY DEF IInv, TypedGoals
<1>2. UNCHANGED <<busy, reserved, pendingCancel, outer, polygon, session, stack>>
  BY DEF CancelHandled, ServerDecides, ServerEnds, ServerCanceledByOther, QueuedCancelHandled,
         slot, control
<1>3. KeepsEnded
  <2>1. CASE CancelHandled
    BY <1>1, <2>1 DEF KeepsEnded, CancelHandled, GoalType, Owned, Live
  <2>2. ASSUME NEW h \in Goals, ServerDecides(h) \/ ServerEnds(h)
        PROVE  KeepsEnded
    BY <1>1, <2>2 DEF KeepsEnded, ServerDecides, ServerEnds, GoalType, Owned, Live
  <2>3. ASSUME NEW h \in Goals, ServerCanceledByOther(h) \/ QueuedCancelHandled(h)
        PROVE  KeepsEnded
    BY <1>1, <2>3
    DEF KeepsEnded, ServerCanceledByOther, QueuedCancelHandled, GoalType, Owned, Live
  <2> QED BY <2>1, <2>2, <2>3
<1>4. OwnedFollows' \subseteq OwnedFollows
  BY <1>3 DEF KeepsEnded, OwnedFollows
<1>5. Settled' /\ StoppedByWatch' = StoppedByWatch
  BY <1>2, SameStop DEF Settled
<1>6. SlotStep
  BY <1>2, <1>4, <1>5 DEF SlotStep, Slot!SlotNext, Slot!Stop, Slot!slotVars
<1> QED BY <1>5, <1>6

LEMMA CallbackSeen ==
    ASSUME IInv, IInv', Settled, Callback
    PROVE  Settled' /\ SlotStep
<1>1. CASE BoundaryLost
  BY <1>1, BoundarySeen
<1>2. CASE AcceptGoal \/ Execute \/ OuterCancel \/ RequestReplan \/ ReplyArrives
  BY <1>2, ClientsSeen
<1>3. CASE \E g \in Goals : ResultArrives(g) \/ ResultLost(g)
  BY <1>3, ResultsSeen
<1>4. CASE \/ CancelHandled
           \/ \E g \in Goals : \/ ServerDecides(g) \/ ServerEnds(g)
                               \/ ServerCanceledByOther(g) \/ QueuedCancelHandled(g)
  BY <1>4, ServersSeen
<1> QED BY <1>1, <1>2, <1>3, <1>4 DEF Callback, Environment

LEMMA SettledFirst == Init => Slot!SlotInit /\ Settled
<1> SUFFICES ASSUME Init PROVE Slot!SlotInit /\ Settled
  OBVIOUS
<1>1. /\ ~busy /\ ~reserved /\ ~pendingCancel /\ outer = "none" /\ polygon \in BOOLEAN
      /\ stack = <<>> /\ busy = FALSE /\ goal = [g \in Goals |-> Unused]
  BY Bounds DEF Init
<1>2. OwnedFollows = {}
  BY <1>1, Disjoint DEF OwnedFollows, Unused
<1>3. StoppedByWatch = FALSE
  BY <1>1 DEF StoppedByWatch
<1> QED BY <1>1, <1>2, <1>3 DEF Slot!SlotInit, Settled

LEMMA SettledNext == IInv /\ IInv' /\ Settled /\ [Next]_vars => Settled' /\ SlotStep
<1> SUFFICES ASSUME IInv, IInv', Settled, [Next]_vars
             PROVE  Settled' /\ SlotStep
  OBVIOUS
<1>1. CASE Step
  BY <1>1, StepSeen
<1>2. CASE Callback
  BY <1>2, CallbackSeen
<1>3. CASE UNCHANGED vars
  <2>1. UNCHANGED <<busy, reserved, pendingCancel, outer, polygon, session, stack, goal>>
    BY <1>3 DEF vars, slot, control, transport
  <2>2. OwnedFollows' = OwnedFollows /\ StoppedByWatch' = StoppedByWatch
    BY <2>1, SameOwned, SameStop
  <2> QED BY <2>1, <2>2 DEF Settled, SlotStep, Slot!slotVars
<1> QED BY <1>1, <1>2, <1>3 DEF Next

\* The clients see a single slot: every step of the runtime is one of
\* NavigationSlot or changes nothing they see.  So no FollowPath is sent for a
\* goal whose cancel was recorded or whose boundary was lost (_send_goal), an
\* outer goal is ended once and canceled only when its client asked, it succeeds
\* only over an idle controller (_finish), the boundary watch stops only goals
\* that have a boundary, and the slot is free only over an ended goal or one
\* that has lost its boundary (_observe_inner_terminal).
THEOREM SlotImplemented == Spec => ImplementsSlot
<1>1. Init => Slot!SlotInit /\ Settled
  BY SettledFirst
<1>2. IInv /\ IInv' /\ Settled /\ [Next]_vars => Settled' /\ [Slot!SlotNext]_(Slot!slotVars)
  BY SettledNext DEF SlotStep
<1> QED BY <1>1, <1>2, Invariance, PTL DEF Spec, ImplementsSlot, Slot!SlotSpec

\* Two runs of execute can share the runtime only after the boundary watch
\* stopped a polygon goal: in every other state the slot is free only when the
\* coroutine has returned (_busy, _session).
THEOREM OneExecuteUnlessLost == Spec => [](OneExecute \/ (polygon /\ StoppedByWatch))
<1>1. Init => Settled
  BY SettledFirst
<1>2. IInv /\ IInv' /\ Settled /\ [Next]_vars => Settled'
  BY SettledNext
<1>3. IInv /\ Settled => OneExecute \/ (polygon /\ StoppedByWatch)
  BY DEF IInv, Held, Settled, OneExecute, StoppedByWatch
<1> QED BY <1>1, <1>2, <1>3, Invariance, PTL DEF Spec
=============================================================================

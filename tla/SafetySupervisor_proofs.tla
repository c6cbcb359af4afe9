---------------------- MODULE SafetySupervisor_proofs ----------------------
(***************************************************************************)
(* Proofs about the safety gate, for any executions, velocities, limits and *)
(* timeouts.                                                                *)
(***************************************************************************)
EXTENDS SafetySupervisor, TLAPS

USE NullAssumption, TwistAssumption, ParameterAssumption

-----------------------------------------------------------------------------
(* _limit_twist.                                                            *)

\* Whatever the candidate, _limit_twist returns a command within both linear
\* limits and the angular one.
LEMMA LimitTwistInRange ==
    ASSUME NEW t \in [vx : Int, wz : Int]
    PROVE  /\ LimitTwist(t) \in Command
           /\ LimitTwist(t).vx \in -MaxReverse .. MaxForward
           /\ Abs(LimitTwist(t).wz) <= MaxAngular * LimitTwist(t).per
<1> DEFINE vx  == Clamp(t.vx, -MaxReverse, MaxForward)
           per == IF t.vx = 0 THEN 1 ELSE Abs(t.vx)
           num == t.wz * Abs(vx)
           lim == MaxAngular * per
<1>1. vx \in -MaxReverse .. MaxForward
  BY DEF Clamp
<1>2. per \in Nat \ {0}
  BY DEF Abs
<1>3. num \in Int
  <2>1. Abs(vx) \in Int
    BY <1>1 DEF Abs
  <2> HIDE DEF vx
  <2> QED BY <2>1
<1>4. lim \in Nat
  <2> HIDE DEF per
  <2> QED BY <1>2
<1>5. /\ Clamp(num, -lim, lim) \in Int
      /\ Abs(Clamp(num, -lim, lim)) <= lim
  <2> HIDE DEF num, lim
  <2> QED BY <1>3, <1>4 DEF Clamp, Abs
<1>6. LimitTwist(t) = [vx |-> vx, wz |-> Clamp(num, -lim, lim), per |-> per]
  BY DEF LimitTwist
<1> HIDE DEF vx, per, num
<1> QED BY <1>1, <1>2, <1>5, <1>6 DEF Command

\* A limited command never turns tighter than its candidate: its curvature
\* (wz / per) / vx is at most the candidate's wz / vx.
THEOREM LimitKeepsCurvature ==
    ASSUME NEW t \in [vx : Int, wz : Int]
    PROVE  Abs(LimitTwist(t).wz) * Abs(t.vx)
             <= (Abs(t.wz) * Abs(LimitTwist(t).vx)) * LimitTwist(t).per
<1> DEFINE vx  == Clamp(t.vx, -MaxReverse, MaxForward)
           per == IF t.vx = 0 THEN 1 ELSE Abs(t.vx)
           num == t.wz * Abs(vx)
           lim == MaxAngular * per
           out == Abs(Clamp(num, -lim, lim))
           bound == Abs(t.wz) * Abs(vx)
<1>1. /\ vx \in Int /\ per \in Nat /\ Abs(vx) \in Nat /\ Abs(t.vx) \in Nat
      /\ Abs(t.vx) <= per
  BY DEF Clamp, Abs
<1>2. num \in Int /\ bound \in Nat /\ Abs(num) = bound
  <2> DEFINE a == Abs(vx)
  <2>1. a \in Nat
    BY <1>1
  <2> HIDE DEF a
  <2>2. t.wz * a \in Int /\ Abs(t.wz) * a \in Nat
    BY <2>1 DEF Abs
  <2>3. CASE t.wz < 0
    <3>1. t.wz * a <= 0 /\ (-t.wz) * a = -(t.wz * a)
      BY <2>1, <2>3
    <3> QED BY <2>1, <2>2, <2>3, <3>1 DEF a, Abs
  <2>4. CASE t.wz >= 0
    <3>1. t.wz * a >= 0
      BY <2>1, <2>4
    <3> QED BY <2>1, <2>2, <2>4, <3>1 DEF a, Abs
  <2> QED BY <2>3, <2>4
<1>3. lim \in Nat
  <2> HIDE DEF per
  <2> QED BY <1>1
<1>4. out \in Nat /\ out <= bound
  <2>1. /\ Abs(Clamp(num, -lim, lim)) \in Nat
        /\ Abs(Clamp(num, -lim, lim)) <= Abs(num)
    <3> HIDE DEF num, lim
    <3> QED BY <1>2, <1>3 DEF Clamp, Abs
  <2> QED BY <1>2, <2>1
<1>5. out * Abs(t.vx) <= bound * per
  <2> DEFINE v == Abs(t.vx)
  <2>1. v \in Nat /\ v <= per /\ per \in Nat /\ out \in Nat /\ bound \in Nat
    BY <1>1, <1>2, <1>4
  <2> HIDE DEF v, per, out, bound
  <2>2. out * v <= bound * v /\ bound * v <= bound * per
    BY <1>4, <2>1
  <2> QED BY <2>1, <2>2 DEF v
<1> HIDE DEF out, bound
<1> QED BY <1>5 DEF LimitTwist, out, bound

-----------------------------------------------------------------------------
(* Safety.                                                                  *)

\* The inductive invariant.  The parts need one another: a nonzero command is
\* only published when autonomous is enabled, an enabled state has an owner or
\* a timer, and a candidate outlives a change of owner in no callback.
IInv ==
    /\ TypeOK
    /\ AuthorityIsBounded
    /\ LastCommandIsAuthorized
    /\ CandidateOfThisLease
    /\ CommandWithinLimits

LEMMA ZeroCommand ==
    /\ Zero \in Command
    /\ ~Moving(Zero)
    /\ Zero.vx \in -MaxReverse .. MaxForward
    /\ Abs(Zero.wz) <= MaxAngular * Zero.per
BY DEF Zero, Command, Moving, Abs

LEMMA InitEstablishes == Init => IInv
<1> SUFFICES ASSUME Init PROVE IInv
  OBVIOUS
<1>1. cmdVel \in Command /\ LastCommandIsAuthorized /\ CommandWithinLimits
  BY ZeroCommand DEF Init, LastCommandIsAuthorized, CommandWithinLimits
<1>2. TypeOK
  <2>1. receivedUnder \in Authorities
    BY DEF Init, Authorities
  <2>2. candidateAge \in CandidateAges /\ candidateRosAge \in RosAges
    BY DEF Init, CandidateAges, RosAges
  <2> QED BY <1>1, <2>1, <2>2 DEF Init, TypeOK
<1>3. AuthorityIsBounded /\ CandidateOfThisLease
  BY DEF Init, AuthorityIsBounded, CandidateOfThisLease
<1> QED BY <1>1, <1>2, <1>3 DEF IInv

LEMMA StepPreserves == IInv /\ [Next]_vars => IInv'
<1> SUFFICES ASSUME IInv, [Next]_vars PROVE IInv'
  OBVIOUS
<1> USE DEF IInv, TypeOK, AuthorityIsBounded, LastCommandIsAuthorized,
            CandidateOfThisLease, CommandWithinLimits,
            TimerAges, CandidateAges, RosAges, Authorities,
            interlocks, authority, candidateVars,
            InvalidateCandidate, DisableAutonomous
<1>1. ASSUME NEW t \in Twists, CandidateReceived(t) PROVE IInv'
  BY <1>1 DEF CandidateReceived, CurrentAuthority
<1>2. CASE InvalidCandidateReceived
  BY <1>2, ZeroCommand DEF InvalidCandidateReceived
<1>3. CASE EmergencyStop
  BY <1>3, ZeroCommand DEF EmergencyStop
<1>4. ASSUME NEW e \in Executions, AcquireLease(e) PROVE IInv'
  BY <1>4 DEF AcquireLease
<1>5. ASSUME NEW e \in Executions, ReleaseLease(e) PROVE IInv'
  BY <1>5, ZeroCommand DEF ReleaseLease
<1>6. CASE ResetEmergencyStop
  BY <1>6, ZeroCommand DEF ResetEmergencyStop
<1>7. CASE EnableSimulationMotion
  BY <1>7, ZeroCommand DEF EnableSimulationMotion
<1>8. CASE DisableSimulationMotion
  BY <1>8, ZeroCommand DEF DisableSimulationMotion
<1>9. CASE EnableAutonomous
  BY <1>9 DEF EnableAutonomous
<1>10. CASE RefuseAutonomous
  BY <1>10, ZeroCommand DEF RefuseAutonomous
<1>11. CASE CommandTimer
  <2>1. ASSUME cmdVel' = Zero,
               UNCHANGED <<interlocks, leaseOwner>>,
               \/ DisableAutonomous /\ InvalidateCandidate
               \/ UNCHANGED <<authority, candidateVars>>
        PROVE  IInv'
    <3>1. /\ cmdVel' \in Command
          /\ LastCommandIsAuthorized' /\ CommandWithinLimits'
      BY <2>1, ZeroCommand
    <3>2. CASE DisableAutonomous /\ InvalidateCandidate
      BY <2>1, <3>1, <3>2
    <3>3. CASE UNCHANGED <<authority, candidateVars>>
      BY <2>1, <3>1, <3>3
    <3> QED BY <2>1, <3>2, <3>3
  <2>2. ASSUME candidate # NoTwist, autonomousEnabled,
               cmdVel' = LimitTwist(candidate),
               UNCHANGED <<interlocks, authority, candidateVars>>
        PROVE  IInv'
    BY <2>2, LimitTwistInRange
  <2>3. CASE emergencyStop
    <3>1. /\ cmdVel' = Zero
          /\ UNCHANGED <<interlocks, leaseOwner>>
          /\ \/ DisableAutonomous /\ InvalidateCandidate
             \/ UNCHANGED <<authority, candidateVars>>
      BY <1>11, <2>3 DEF CommandTimer
    <3> QED BY <2>1, <3>1
  <2>4. CASE ~emergencyStop /\ ~blockAll /\ TimedOut
    BY <1>11, <2>1, <2>4 DEF CommandTimer
  <2>5. CASE ~emergencyStop /\ (blockAll \/ ~TimedOut)
    <3>1. /\ UNCHANGED <<interlocks, authority, candidateVars>>
          /\ \/ cmdVel' = Zero
             \/ /\ candidate # NoTwist /\ autonomousEnabled
                /\ cmdVel' = LimitTwist(candidate)
      BY <1>11, <2>5 DEF CommandTimer
    <3> QED BY <2>1, <2>2, <3>1
  <2> QED BY <2>3, <2>4, <2>5
<1>12. CASE Tick
  BY <1>12 DEF Tick, Older
<1>13. CASE RosClock
  BY <1>13 DEF RosClock
<1>14. CASE UNCHANGED vars
  BY <1>14 DEF vars
<1> QED BY <1>1, <1>2, <1>3, <1>4, <1>5, <1>6, <1>7, <1>8, <1>9, <1>10,
           <1>11, <1>12, <1>13, <1>14 DEF Next

THEOREM Safety == Spec => []IInv
<1> QED BY InitEstablishes, StepPreserves, PTL DEF Spec

\* Every variable of the node keeps its type.
THEOREM TypeCorrect == Spec => []TypeOK
<1>1. IInv => TypeOK
  BY DEF IInv
<1> QED BY <1>1, Safety, PTL

\* No permission to move outlives an interlock or lacks an owner and a timer.
THEOREM AuthorityBounded == Spec => []AuthorityIsBounded
<1>1. IInv => AuthorityIsBounded
  BY DEF IInv
<1> QED BY <1>1, Safety, PTL

\* A nonzero last command always has a permission behind it.
THEOREM CommandAuthorized == Spec => []LastCommandIsAuthorized
<1>1. IInv => LastCommandIsAuthorized
  BY DEF IInv
<1> QED BY <1>1, Safety, PTL

\* A stored candidate was received under the lease in force.
THEOREM CandidateOwned == Spec => []CandidateOfThisLease
<1>1. IInv => CandidateOfThisLease
  BY DEF IInv
<1> QED BY <1>1, Safety, PTL

\* Every published command is within the limits.
THEOREM CommandLimited == Spec => []CommandWithinLimits
<1>1. IInv => CommandWithinLimits
  BY DEF IInv
<1> QED BY <1>1, Safety, PTL
-----------------------------------------------------------------------------
(* Refinement.                                                              *)

\* What the refinement shows of the gate.
authorityMap == IF ~autonomousEnabled THEN NoOwner
                ELSE IF leaseOwner # NoOwner THEN leaseOwner ELSE Operator
movingMap == Moving(cmdVel)

\* Every callback of the gate is a step of MotionAuthority or changes nothing
\* of it.
LEMMA StepRefines == IInv /\ [Next]_vars => [Promise!Next]_(Promise!vars)
<1> SUFFICES ASSUME IInv, [Next]_vars
             PROVE  [Promise!Next]_(Promise!vars)
  OBVIOUS
<1> USE DEF interlocks, authority, candidateVars,
            InvalidateCandidate, DisableAutonomous
<1>a. /\ emergencyStop \in BOOLEAN /\ blockAll \in BOOLEAN
      /\ leaseOwner \in Executions \union {NoOwner}
      /\ autonomousEnabled => ~emergencyStop /\ ~blockAll
      /\ leaseOwner # NoOwner => ~emergencyStop /\ ~blockAll
      /\ movingMap => autonomousEnabled
      /\ movingMap \in BOOLEAN
      /\ IInv'
  BY StepPreserves DEF IInv, TypeOK, AuthorityIsBounded,
     LastCommandIsAuthorized, movingMap, Moving
<1>b. movingMap' \in BOOLEAN /\ (movingMap' => autonomousEnabled')
  BY <1>a DEF IInv, LastCommandIsAuthorized, movingMap, Moving
<1>c. cmdVel' = Zero => movingMap' = FALSE
  BY ZeroCommand DEF movingMap, Moving, Zero
<1>d. cmdVel' = cmdVel => movingMap' = movingMap
  BY DEF movingMap, Moving
<1>h. ASSUME UNCHANGED <<interlocks, autonomousEnabled, leaseOwner, cmdVel>>
      PROVE  UNCHANGED Promise!vars
  BY <1>d, <1>h DEF Promise!vars, movingMap
<1>i. ASSUME cmdVel' = Zero, autonomousEnabled' = FALSE
      PROVE  Promise!Interlock
  BY <1>a, <1>c, <1>i DEF Promise!Interlock, movingMap, IInv, TypeOK
<1>j. ASSUME cmdVel' = Zero, UNCHANGED <<interlocks, autonomousEnabled, leaseOwner>>
      PROVE  Promise!Command
  BY <1>c, <1>j DEF Promise!Command, movingMap
<1>1. ASSUME NEW t \in Twists, CandidateReceived(t) PROVE UNCHANGED Promise!vars
  BY <1>1, <1>h DEF CandidateReceived
<1>2. CASE InvalidCandidateReceived
  BY <1>2, <1>j DEF InvalidCandidateReceived, Promise!Next
<1>3. CASE EmergencyStop
  BY <1>3, <1>i DEF EmergencyStop, Promise!Next
<1>4. ASSUME NEW e \in Executions, AcquireLease(e) PROVE Promise!Grant(e)
  <2>1. movingMap' = movingMap
    BY <1>4, <1>d DEF AcquireLease
  <2>2. authorityMap' = e
    BY <1>4, NullAssumption DEF AcquireLease, authorityMap
  <2>3. authorityMap \in {NoOwner, Operator, e}
    BY <1>4 DEF AcquireLease, authorityMap
  <2> QED BY <1>4, <1>a, <2>1, <2>2, <2>3
          DEF AcquireLease, Promise!Grant, authorityMap, movingMap
<1>5. ASSUME NEW e \in Executions, ReleaseLease(e) PROVE Promise!Interlock
  BY <1>5, <1>i DEF ReleaseLease
<1>6. CASE ResetEmergencyStop
  BY <1>6, <1>i DEF ResetEmergencyStop, Promise!Next
<1>7. CASE EnableSimulationMotion
  <2>1. CASE autonomousEnabled
    BY <1>7, <1>a, <1>j, <2>1 DEF EnableSimulationMotion, Promise!Next
  <2>2. CASE ~autonomousEnabled
    <3>1. autonomousEnabled' = FALSE
      BY <1>7, <2>2, <1>a DEF EnableSimulationMotion, IInv, TypeOK
    <3> QED BY <1>7, <1>i, <3>1 DEF EnableSimulationMotion, Promise!Next
  <2> QED BY <2>1, <2>2
<1>8. CASE DisableSimulationMotion
  BY <1>8, <1>i DEF DisableSimulationMotion, Promise!Next
<1>9. CASE EnableAutonomous
  <2>1. CASE leaseOwner = NoOwner
    <3>1. authorityMap' = Operator /\ authorityMap \in {NoOwner, Operator}
      BY <1>9, <2>1 DEF EnableAutonomous, authorityMap
    <3>2. Promise!Grant(Operator)
      BY <1>9, <1>a, <1>d, <3>1
      DEF EnableAutonomous, Promise!Grant, authorityMap, movingMap
    <3> QED BY <3>2 DEF Promise!Next
  <2>2. CASE leaseOwner # NoOwner
    <3>1. authorityMap' = leaseOwner /\ authorityMap \in {NoOwner, leaseOwner}
      BY <1>9, <2>2 DEF EnableAutonomous, authorityMap
    <3>2. Promise!Grant(leaseOwner)
      BY <1>9, <1>a, <1>d, <3>1
      DEF EnableAutonomous, Promise!Grant, authorityMap, movingMap
    <3> QED BY <1>a, <2>2, <3>2 DEF Promise!Next
  <2> QED BY <2>1, <2>2
<1>10. CASE RefuseAutonomous
  BY <1>10, <1>i DEF RefuseAutonomous, Promise!Next
<1>11. CASE CommandTimer
  <2>1. \/ cmdVel' = Zero /\ autonomousEnabled' = FALSE
        \/ UNCHANGED <<interlocks, autonomousEnabled, leaseOwner>>
    BY <1>11 DEF CommandTimer
  <2>2. ASSUME UNCHANGED <<interlocks, autonomousEnabled, leaseOwner>>
        PROVE  Promise!Command
    <3>1. authorityMap' = authorityMap
      BY <2>2 DEF authorityMap
    <3>2. movingMap' => authorityMap # NoOwner
      BY <1>a, <1>b, <2>2, NullAssumption DEF authorityMap
    <3> QED BY <1>b, <2>2, <3>1, <3>2
            DEF Promise!Command, authorityMap, movingMap
  <2> QED BY <1>i, <2>1, <2>2 DEF Promise!Next
<1>12. CASE Tick
  BY <1>12, <1>h DEF Tick
<1>13. CASE RosClock
  BY <1>13, <1>h DEF RosClock
<1>14. CASE UNCHANGED vars
  BY <1>14, <1>h DEF vars
<1> QED BY <1>1, <1>2, <1>3, <1>4, <1>5, <1>6, <1>7, <1>8, <1>9, <1>10,
           <1>11, <1>12, <1>13, <1>14 DEF Next, Promise!Next

\* The gate implements MotionAuthority.
THEOREM Refinement == Spec => ImplementsMotionAuthority
<1>1. Init => Promise!Init
  <2> SUFFICES ASSUME Init PROVE Promise!Init
    OBVIOUS
  <2> QED BY ZeroCommand DEF Init, Promise!Init
<1> QED BY <1>1, StepRefines, Safety, PTL
        DEF Spec, Promise!Spec, ImplementsMotionAuthority
=============================================================================

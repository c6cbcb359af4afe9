-------------------------- MODULE SafetySupervisor --------------------------
(***************************************************************************)
(* The safety gate, cleannav_safety_supervisor/safety_supervisor_node.py.   *)
(* It is the only publisher of /cmd_vel: candidate velocities go through it *)
(* when nothing forbids it, anything else is answered with a zero command.  *)
(*                                                                         *)
(* One SingleThreadedExecutor runs every callback (main), so a callback is  *)
(* one atomic action.  The two clocks the node reads are kept as ages: a    *)
(* monotonic one that Tick advances, and the ROS clock, which a simulator   *)
(* can stop or set back.  Counters and the status texts only report and are *)
(* left out; a request the node refuses changes nothing and is no action.   *)
(***************************************************************************)
EXTENDS Integers

CONSTANTS
    Executions,         \* execution ids that ask for the lease
    NoOwner,            \* _lease_owner_execution_id is None
    NoTimer,            \* _autonomous_start_time is None
    Operator,           \* stands for the timed permission in MotionAuthority
    NoTwist,            \* _last_candidate_twist is None
    Twists,             \* the candidate velocities, records [vx, wz]
    CandidateTimeout,   \* candidate_timeout_sec, in ticks
    AutonomousTimeout,  \* autonomous_timeout_sec, in ticks
    MaxForward,         \* max_forward_linear_x
    MaxReverse,         \* max_reverse_linear_x
    MaxAngular,         \* max_angular_z
    SimulationAuthorized \* simulation_motion_authorization and use_sim_time

ASSUME NullAssumption == /\ NoOwner \notin Executions
                         /\ Operator \notin Executions \union {NoOwner}
                         /\ NoTimer \notin Nat
                         /\ NoTwist \notin Twists

ASSUME TwistAssumption == Twists \subseteq [vx : Int, wz : Int]

\* The constructor refuses timeouts that are not positive and negative limits.
ASSUME ParameterAssumption == /\ CandidateTimeout \in Nat \ {0}
                              /\ AutonomousTimeout \in Nat \ {0}
                              /\ MaxForward \in Nat
                              /\ MaxReverse \in Nat
                              /\ MaxAngular \in Nat
                              /\ SimulationAuthorized \in BOOLEAN

VARIABLES
    blockAll,           \* _block_all
    emergencyStop,      \* _emergency_stop
    autonomousEnabled,  \* _autonomous_enabled
    autonomousAge,      \* monotonic time since _autonomous_start_time
    leaseOwner,         \* _lease_owner_execution_id
    candidate,          \* _last_candidate_twist
    candidateAge,       \* monotonic time since the candidate arrived
    candidateRosAge,    \* the same on the ROS clock, negative after a jump back
    cmdVel,             \* the last message published on /cmd_vel
    receivedUnder       \* history: the authority in force when it arrived

interlocks == <<blockAll, emergencyStop>>
authority == <<autonomousEnabled, autonomousAge, leaseOwner>>
candidateVars == <<candidate, candidateAge, candidateRosAge, receivedUnder>>
vars == <<interlocks, authority, candidateVars, cmdVel>>

-----------------------------------------------------------------------------
(* Commands: vx and wz / per, so that a scaled angular speed stays exact.   *)

Command == [vx : Int, wz : Int, per : Nat \ {0}]
Zero == [vx |-> 0, wz |-> 0, per |-> 1]
Moving(c) == c.vx # 0 \/ c.wz # 0

Abs(x) == IF x < 0 THEN -x ELSE x
Clamp(x, lo, hi) == IF x < lo THEN lo ELSE IF x > hi THEN hi ELSE x

\* The forward and reverse limits differ; the angular speed is scaled by the
\* ratio the linear one lost and then clamped.  A turn in place scales to zero.
LimitTwist(t) ==
    LET vx  == Clamp(t.vx, -MaxReverse, MaxForward)
        per == IF t.vx = 0 THEN 1 ELSE Abs(t.vx)
    IN  [vx |-> vx,
         wz |-> Clamp(t.wz * Abs(vx), -(MaxAngular * per), MaxAngular * per),
         per |-> per]

\* Ages stop counting one tick after the last moment that matters.
CandidateAges == 0 .. CandidateTimeout + 1
RosAges == -1 .. CandidateTimeout + 1
TimerAges == 0 .. AutonomousTimeout
Older(age, last) == IF age < last THEN age + 1 ELSE age

Authorities == [autonomous : BOOLEAN, owner : Executions \union {NoOwner}]
CurrentAuthority == [autonomous |-> autonomousEnabled, owner |-> leaseOwner]

TypeOK ==
    /\ blockAll \in BOOLEAN
    /\ emergencyStop \in BOOLEAN
    /\ autonomousEnabled \in BOOLEAN
    /\ autonomousAge \in TimerAges \union {NoTimer}
    /\ leaseOwner \in Executions \union {NoOwner}
    /\ candidate \in Twists \union {NoTwist}
    /\ candidateAge \in CandidateAges
    /\ candidateRosAge \in RosAges
    /\ cmdVel \in Command
    /\ receivedUnder \in Authorities

Init ==
    /\ blockAll \in BOOLEAN
    /\ emergencyStop = FALSE
    /\ autonomousEnabled = FALSE
    /\ autonomousAge = NoTimer
    /\ leaseOwner = NoOwner
    /\ candidate = NoTwist
    /\ candidateAge = 0
    /\ candidateRosAge = 0
    /\ cmdVel = Zero
    /\ receivedUnder = [autonomous |-> FALSE, owner |-> NoOwner]

-----------------------------------------------------------------------------
(* Steps shared by the callbacks.                                           *)

InvalidateCandidate ==
    /\ candidate' = NoTwist
    /\ UNCHANGED <<candidateAge, candidateRosAge, receivedUnder>>

DisableAutonomous ==
    /\ autonomousEnabled' = FALSE
    /\ autonomousAge' = NoTimer

-----------------------------------------------------------------------------
(* Topics.                                                                  *)

CandidateReceived(t) ==
    /\ candidate' = t
    /\ candidateAge' = 0
    /\ candidateRosAge' = 0
    /\ receivedUnder' = CurrentAuthority
    /\ UNCHANGED <<interlocks, authority, cmdVel>>

\* A component is not finite, or one that an Ackermann base cannot follow is
\* not zero.
InvalidCandidateReceived ==
    /\ InvalidateCandidate
    /\ cmdVel' = Zero
    /\ UNCHANGED <<interlocks, authority>>

\* A true message latches the stop; a false one is ignored.
EmergencyStop ==
    /\ emergencyStop' = TRUE
    /\ DisableAutonomous
    /\ leaseOwner' = NoOwner
    /\ InvalidateCandidate
    /\ cmdVel' = Zero
    /\ UNCHANGED blockAll

-----------------------------------------------------------------------------
(* Services.                                                                *)

\* Mutant: the candidate of the previous authority survives the acquisition.
AcquireLeaseKeepingCandidate(e) ==
    /\ ~emergencyStop /\ ~blockAll
    /\ leaseOwner \in {NoOwner, e} /\ leaseOwner' = e
    /\ autonomousEnabled' = TRUE /\ autonomousAge' = NoTimer
    /\ UNCHANGED <<interlocks, cmdVel, candidateVars>>

\* Mutant: the last caller takes the lease.
AcquireLeaseFromOwner(e) ==
    /\ ~emergencyStop /\ ~blockAll
    /\ InvalidateCandidate
    /\ leaseOwner' = e
    /\ autonomousEnabled' = TRUE /\ autonomousAge' = NoTimer
    /\ UNCHANGED <<interlocks, cmdVel>>

AcquireLease(e) ==
    /\ ~emergencyStop
    /\ ~blockAll
    /\ \/ leaseOwner = NoOwner /\ InvalidateCandidate
       \/ leaseOwner = e /\ UNCHANGED candidateVars
    /\ leaseOwner' = e
    /\ autonomousEnabled' = TRUE
    /\ autonomousAge' = NoTimer
    /\ UNCHANGED <<interlocks, cmdVel>>

\* Releasing a lease that nobody holds succeeds and still disables motion.
ReleaseLease(e) ==
    /\ leaseOwner \in {NoOwner, e}
    /\ InvalidateCandidate
    /\ cmdVel' = Zero
    /\ DisableAutonomous
    /\ leaseOwner' = NoOwner
    /\ UNCHANGED interlocks

ResetEmergencyStop ==
    /\ InvalidateCandidate
    /\ cmdVel' = Zero
    /\ emergencyStop' = FALSE
    /\ DisableAutonomous
    /\ leaseOwner' = NoOwner
    /\ UNCHANGED blockAll

EnableSimulationMotion ==
    /\ SimulationAuthorized
    /\ ~emergencyStop
    /\ blockAll' = FALSE
    /\ InvalidateCandidate
    /\ cmdVel' = Zero
    /\ UNCHANGED <<emergencyStop, authority>>

DisableSimulationMotion ==
    /\ blockAll' = TRUE
    /\ InvalidateCandidate
    /\ cmdVel' = Zero
    /\ DisableAutonomous
    /\ leaseOwner' = NoOwner
    /\ UNCHANGED emergencyStop

\* An execution that holds the lease keeps it: the timer is then not looked at.
EnableAutonomous ==
    /\ ~emergencyStop
    /\ ~blockAll
    /\ InvalidateCandidate
    /\ autonomousEnabled' = TRUE
    /\ autonomousAge' = 0
    /\ UNCHANGED <<interlocks, leaseOwner, cmdVel>>

\* The lease owner stays recorded.
RefuseAutonomous ==
    /\ InvalidateCandidate
    /\ cmdVel' = Zero
    /\ DisableAutonomous
    /\ UNCHANGED <<interlocks, leaseOwner>>

-----------------------------------------------------------------------------
(* The command timer, on a steady clock.                                    *)

TimedOut ==
    /\ autonomousEnabled
    /\ leaseOwner = NoOwner
    /\ autonomousAge # NoTimer
    /\ autonomousAge >= AutonomousTimeout

\* Mutant: only the ROS clock is looked at.
StaleOnRosClock == candidateRosAge < 0 \/ candidateRosAge > CandidateTimeout

Stale ==
    \/ candidateRosAge < 0
    \/ candidateRosAge > CandidateTimeout
    \/ candidateAge > CandidateTimeout

CommandTimer ==
    \/ /\ emergencyStop
       /\ IF autonomousEnabled
          THEN DisableAutonomous /\ InvalidateCandidate
          ELSE UNCHANGED <<autonomousEnabled, autonomousAge, candidateVars>>
       /\ cmdVel' = Zero
       /\ UNCHANGED <<interlocks, leaseOwner>>
    \/ /\ ~emergencyStop /\ ~blockAll /\ TimedOut
       /\ DisableAutonomous
       /\ InvalidateCandidate
       /\ cmdVel' = Zero
       /\ UNCHANGED <<interlocks, leaseOwner>>
    \/ /\ ~emergencyStop
       /\ blockAll \/ ~TimedOut
       /\ cmdVel' = IF blockAll \/ Stale \/ candidate = NoTwist \/ ~autonomousEnabled
                    THEN Zero ELSE LimitTwist(candidate)
       /\ UNCHANGED <<interlocks, authority, candidateVars>>

-----------------------------------------------------------------------------
(* Time.                                                                    *)

Tick ==
    /\ candidateAge' = Older(candidateAge, CandidateTimeout + 1)
    /\ autonomousAge' = IF autonomousAge = NoTimer THEN NoTimer
                        ELSE Older(autonomousAge, AutonomousTimeout)
    /\ UNCHANGED <<interlocks, autonomousEnabled, leaseOwner, candidate,
                   candidateRosAge, receivedUnder, cmdVel>>

\* The ROS clock runs on its own: it may stand still, advance or be set back.
RosClock ==
    /\ candidateRosAge' \in RosAges
    /\ UNCHANGED <<interlocks, authority, candidate, candidateAge,
                   receivedUnder, cmdVel>>

Next ==
    \/ \E t \in Twists : CandidateReceived(t)
    \/ InvalidCandidateReceived
    \/ EmergencyStop
    \/ \E e \in Executions : AcquireLease(e) \/ ReleaseLease(e)
    \/ ResetEmergencyStop
    \/ EnableSimulationMotion
    \/ DisableSimulationMotion
    \/ EnableAutonomous
    \/ RefuseAutonomous
    \/ CommandTimer
    \/ Tick
    \/ RosClock

Spec == Init /\ [][Next]_vars

\* Time passes, and the executor's wait set serves a due timer whatever the
\* other callbacks do.  Nothing is assumed of the ROS clock or of any client.
FairSpec == Spec /\ WF_vars(Tick) /\ WF_vars(CommandTimer)

-----------------------------------------------------------------------------
(* Safety.                                                                  *)

\* Permission to move never outlives an interlock, and it always ends by
\* itself or belongs to an execution: _estop_cb, _simulation_motion_cb and the
\* lease services together leave no enabled state without an owner or a timer.
AuthorityIsBounded ==
    /\ autonomousEnabled \/ leaseOwner # NoOwner => ~emergencyStop /\ ~blockAll
    /\ autonomousEnabled => leaseOwner # NoOwner \/ autonomousAge # NoTimer

\* The base is never left with a nonzero last command after its permission was
\* taken away, although only the timer publishes motion: every callback that
\* ends a permission publishes the zero itself.
LastCommandIsAuthorized == Moving(cmdVel) => autonomousEnabled

\* A stored candidate was received under the lease that is in force now, so an
\* execution is never moved by the controller output of another one.
CandidateOfThisLease ==
    candidate # NoTwist => receivedUnder.owner = leaseOwner

\* Every published command respects the configured limits.
CommandWithinLimits ==
    /\ cmdVel.vx \in -MaxReverse .. MaxForward
    /\ Abs(cmdVel.wz) <= MaxAngular * cmdVel.per

\* What _invalidate_candidate says of itself, "Require a newly received
\* candidate after any authority boundary": the timer moves the base only on a
\* candidate that arrived while motion was enabled.
MotionFromEnabledCandidate ==
    [][CommandTimer /\ Moving(cmdVel') => receivedUnder.autonomous]_vars

\* The gate implements the promise of MotionAuthority.
Promise == INSTANCE MotionAuthority
    WITH Timed <- Operator, Nobody <- NoOwner,
         interlocked <- emergencyStop \/ blockAll,
         authority <- IF ~autonomousEnabled THEN NoOwner
                      ELSE IF leaseOwner # NoOwner THEN leaseOwner ELSE Operator,
         moving <- Moving(cmdVel)

ImplementsMotionAuthority == Promise!Spec

-----------------------------------------------------------------------------
(* Liveness.                                                                *)

\* Motion that no new candidate renews ends, also when /clock has stopped: the
\* timer runs on the steady clock and the monotonic age is looked at.  And a
\* timed permission ends by itself however many candidates keep arriving,
\* unless it is granted again or an execution takes the lease.
MotionNeedsRenewal ==
    /\ Moving(cmdVel) /\ candidateAge > 0 ~> ~Moving(cmdVel) \/ candidateAge = 0
    /\ autonomousEnabled /\ leaseOwner = NoOwner /\ autonomousAge > 0
         ~> \/ ~autonomousEnabled
            \/ leaseOwner # NoOwner
            \/ autonomousAge = 0

=============================================================================

# TLA+ models of CleanNav navigation

CleanNav drives an Ackermann robot with ROS 2 and Nav2. This directory holds
TLA+ models of its decision logic, the TLC runs that check them on small
instances, and proofs checked by TLAPS. Paths below are relative to the
repository root.

To check a run: `tlc -config MCFacade.cfg MCNavigationFacade`. To check the
proofs of a module: `tlapm SafetySupervisor_proofs.tla`.

## 1. The system

A goal travels through four parts before the wheels turn:

    user / mission --NavigateToPose--> Navigation Facade --ComputePathToPose--> planner
                                            |
                                            +--FollowPath--> controller --candidate--> Safety
                                                                                     Supervisor --> /cmd_vel

In the legacy launch mode (`cleannav_navigation/launch/`) the Facade is replaced
by a chain of two nodes that talk over topics:

    /goal_pose --> Hybrid planner bridge --path, planner status--> Path Executor --FollowPath--> controller
                          ^-------------------- executor status ---------+

The two modes are exclusive. Every node is spun by one single-threaded executor
(`rclpy.spin`), so one callback, or one piece of a coroutine between two awaits,
is one atomic step; everything that is asynchronous is between nodes, between a
callback and the answer it waits for, and between the coroutine and callbacks.

Around the nodes stands a supervised run. A shell wrapper starts a supervisor and
a watchdog; the supervisor starts the launch as one process group; the launch
starts the nodes in stages, each of which waits for a process before it:

    run_rviz_navigation.sh --+--> navigation_supervisor.py --> ros2 launch (stages, nodes)
                             |           ^  receipts, state files, events of the goal adapter
                             +--> deadline_watchdog.py --signals--> supervisor, launch group

    collision startup --> graph probe --> safety guard, its receipt --> mission

These are processes and threads: a step is one atomic file replacement, one
signal, one scan of `/proc`, one message, or one callback.

| Component (code) | State | Operations | Interacts by | What is hard | Correct when |
|---|---|---|---|---|---|
| Safety Supervisor (`cleannav_safety_supervisor`) | interlocks, enabled flag with its start time, lease owner, last candidate | candidates, emergency stop, lease, enable, simulation interlock, command timer | topics, services | two clocks, three sources of authority, order of hand-over and candidates | no motion without one bounded authority; limits hold |
| Navigation Facade (`navigation_facade_node.py`) | slot, session, wake future, inner goals, coroutine | goal, cancel, execute and its helper coroutines, replan timer, result callbacks | actions both ways | coroutine against callbacks, lost replies, cancels during dispatch | one FollowPath, slot freed last, cancel ends the goal |
| Boundary runtime (`boundary_runtime.py`, `polygon_constraint.py`, C++ layer) | token, armed flag, costmap states | handshake, watch | topics with both costmaps | deadline, freshness, restarted costmaps, cancel races | no goal under another one's boundary; a lost boundary ends the goal |
| Patrol path server (same file as the Facade) | one flag | accept, execute pieces, cancel | FollowPath | shares the controller with the Facade; frees its slot on a cancel answer | no goal left driving that nobody waits for |
| Costmap snapshot, stop proof (same file) | evidence, snapshot request | capture, prove, wait for a stop | services, topics | samples older than the state they prove | a waypoint is reported by a robot that stands |
| Hybrid planner bridge (`hybrid_planner_bridge_node.py`) | final goal, generation, queue, request, completion window | goals, executor statuses, two timers, action answers | topics, ComputePathToPose | answers for old goals, lost answers, lost statuses | one request; paths only for the goal wanted now |
| Path Executor (`path_executor_node.py`) | pending, sending and active path | paths, planner statuses, timer, action answers, feedback | topics, FollowPath | replacement during send or cancel, danger before acceptance | one goal; danger stops; newest path served |
| Global planner (`global_planner_node.py`, `a_star_core.py`, `inflation_core.py`, `path_safety.py`) | map, inflation, request key | map, pose, goal, timer | topics | stale inflation, terminal request keys, grid geometry | path is free of obstacles; every request answered |
| Collision startup, safety guard (`tools/rviz_navigation`) | coordinator; receipt queue and thread, lifecycle poll, publisher graph | poll, tick, write, close, stages of the launch | files, services, process exits | a thread behind callbacks, late answers, retries, stale states | a failure is never folded or unsaid; the mission starts on fresh evidence |
| Run supervisor and watchdog (`tools/rviz_navigation`) | phase ledger, deadlines, process group, run directory | phases, signals, receipts | files, signals | three processes stop one group and write one result | the result is true; the group ends |
| Short goal adapter (`tools/rviz_navigation`) | goal, Lease, scope and lifecycle receipts | authorize, submit, accept, observe, revoke | files, topics, interlock service | two writers without a lock, late samples | no Lease without admission; every end stops the robot |
| Demo HIL client (`demo_hil_navigation_client.py`) | cursor, queues, request states | poll, post, submit, cancel, callbacks | HTTP, action | thread against callbacks, retried posts, cancels that overtake | one true end per request |
| Startup smoke, monitors and telemetry | statistics, graph samples | events, polls | topics, processes | – | not modelled but for the publisher graph and the collection of a group |
| Map editor, safe build, simulation scripts, MPPI wrapper, launch files | – | – | – | geometry, I/O | not modelled (section 7) |

## 2. Modules

| Module | Models | Role |
|---|---|---|
| `MotionAuthority` | what the safety gate promises to the vehicle | abstract specification |
| `SafetySupervisor` | `safety_supervisor_node.py` | component; implements `MotionAuthority` |
| `MCSafetySupervisor` | – | two executions and five velocities |
| `SafetySupervisor_proofs` | – | theorems |
| `NavigationSlot` | what the Facade promises its clients and the controller | abstract specification |
| `NavigationFacade` | `NavigationFacadeRuntime` | component; implements `NavigationSlot` |
| `MCNavigationFacade` | – | instance for TLC |
| `NavigationFacade_proofs` | – | theorems |
| `PathExecutor` | `path_executor_node.py` | component |
| `MCPathExecutor` | – | instance for TLC |
| `HybridPlannerBridge` | `hybrid_planner_bridge_node.py` | component |
| `MCHybridPlannerBridge` | – | instance for TLC |
| `PathPipeline` | both of them and the three topics between | composition |
| `MCPathPipeline` | – | paths p1, p2 to the first goal, p3 to the second |
| `PathPipeline_proofs` | – | theorems about both nodes |
| `FacadeNode` | boundary handshake and watch, snapshots, stop proof, patrol server, the controller they share | composition around what the runtime asks of the node |
| `FacadeNode_proofs` | – | theorems |
| `PhaseLedger` | `PhaseLedger` of `supervisor_policy.py` | functions, used by the two sessions |
| `RunSession` | wrapper, supervisor, launch group, watchdog of one no-motion run | composition of three processes |
| `RunSession_proofs` | – | theorems |
| `MotionReceipts` | `short_goal_policy.py`: the receipts and their two writers | component |
| `ShortGoalSession` | supervisor in motion mode, `short_goal_rviz_adapter.py`, Safety Supervisor, Mission | composition; extends `MotionReceipts` and `PhaseLedger` |
| `ShortGoalSession_proofs` | – | theorems |
| `SnapshotLog` | what a reader of the guard's receipt may rely on | abstract specification |
| `GuardReceipts` | `ReceiptWriter` and its reader `wait_ready` | component |
| `CollisionStartup` | the start of the Collision Monitor | component |
| `SafetyGuard` | `navigation_safety_guard.py`, `CMStatePoll`, publisher graph, the gated stages of the launch | composition of the two; implements `SnapshotLog` |
| `SafetyGuard_proofs` | – | theorems, the refinement among them |
| `HilClient` | `demo_hil_navigation_client.py`, the HTTP peer and the action server around it | component |
| `HilClient_proofs` | – | theorem |

`MCFacadeNode`, `MCRunSession`, `MCShortGoalSession`, `MCSafetyGuard` and
`MCHilClient` are the instances for TLC.

An operator whose comment begins with "Mutant" is a plausible mistake in the
code next to it. No specification uses it; replacing the definition it follows or
precedes by it must violate the property `PROJECT.json` names.

### SafetySupervisor

Each subscription and service callback is an action; `CommandTimer` is
`_cmd_timer_cb` with its chain of early returns. Times are kept as ages in
ticks: `Tick` advances the monotonic clock, `RosClock` lets the ROS clock
advance, stop or jump back, which is why `candidateRosAge` may be negative.
`_limit_twist` is `LimitTwist`, on integers: the division is kept as a
denominator (`per`), so that no rounding hides a limit. `receivedUnder` is a
history variable, the authority in force when the candidate arrived.

### NavigationFacade

`execute` and the coroutines it awaits are a stack of program points, named by a
letter for the coroutine (E execute, D `_send_goal`, C `_cancel_and_confirm`, A
`_await_inner_terminal`, I `_wait_inner_result`, F `_follow_with_replanning`, W
`_plan_while_following`, ...). A step of the coroutine is the code between two
awaits. Futures of action clients have no executor, so their callbacks run where
the result arrives; an await of a future that is done does not suspend.
`yielded` says that the coroutine has given the thread back; callbacks (goal,
cancel, replan timer, boundary watch, arrival of a reply or result) run only
then. `sending`, `reply` and `cancelCall` are the messages on the way, `goal` the
inner goals as the servers see them. Checks of poses, paths, distance and
stationarity are choices. `MaxGoals` bounds the inner goals of a session: at the
bound the servers look unavailable, a case the code handles.

### PathExecutor, HybridPlannerBridge

A callback is an action and everything it calls is part of it: a result that
frees the node sends the pending path in the same step. Handles and requests are
identifiers that stand for the code's sequence numbers and handle identities and
are used again once their result has been taken. Calls that raise, answers that
are exceptions and results with no terminal status are guarded by `MaxFaults`.
Both nodes drop a status equal to the one before. `Fresh` is that rule: for the
bridge it runs over all the statuses of one callback, for the executor over the
first, since no later one of its callbacks can repeat the one before. The code compares the sequence number of
each answer with the current one (`_cancel_stale_response`); with one future at a
time the comparison never fails, and that branch is left out.

### PathPipeline

`PathPipeline` extends the bridge and instantiates the executor with variables
of its own. All three topics have depth one: the reader of a topic takes the last
message of the last callback that published, or an earlier one of the same
callback, and what it has not read is overwritten. Topics are not ordered with
respect to each other. `GoalOf` fixes the goal each path leads to.

### FacadeNode

The runtime is `NavigationFacade`; here its session is a program counter with
the waits the node serves: handshake (`init`), start capture, plan, costmap for
the proof (`admit`, `readmit`), FollowPath, stop guard. Goals are numbered and
the number is the token of their boundary. `layer[c]` is the token a costmap
layer has applied, `ack[c]` the one its last fresh and ready state message names;
a state older than a second and a half is the same as one that is not ready. The
number of replans and retries is not bounded. The FollowPath server works on one
goal (`live`); a new one aborts the one before, whoever sent it, which is how the
patrol server and the Facade meet. The robot is still, driven, or coasting after
its command has become zero. `session.alone` remembers that no patrol path was
accepted while the stop was proved.

A replan has four waits. In `tick` the coroutine has been woken, or has found a
tick pending, and has not gone on: what is recorded meanwhile is met where the
planner is asked (`SendsReplan`) or where it refuses (`ReplanIsRejected`). A cancel
met there is `CancelMet`: a client's leaves the session in `left`, ended for its
client with FollowPath driving and the slot held until its result (departure 2);
the watch's own makes `canceled()` raise, and the handler stops FollowPath.
`session.client` tells the two apart. In `replan` the planner works: an aborted
FollowPath there leads to `spin`, in which no callback of the node runs (`Awake`),
neither the watch nor a cancel nor the patrol server (departure 4). `readmit` is
the validation of the new path, and `recheck`, for a goal with a polygon, the one of
the path it has when there is no new one (`NoReplacement`).

### RunSession

Each process has a program counter; a step is what it does between two accesses
to the run directory, to a process or to its clock. `clock` counts the deadlines
that have passed. `file` is the run directory: readiness, launch state, hard
deadline, cleanup, result, completion and exit receipts. The launch group is its
leader and everything else in it (`kids`): SIGINT and SIGTERM oblige it to nothing,
SIGKILL does (`doomed`). The supervisor may hang anywhere. A crash is a SIGKILL of
any process or an exception in the watchdog.

### MotionReceipts and ShortGoalSession

A receipt update reads the file, checks the transition, and replaces the file in
a later step: between them the other writer may do the same. A digest is the
content it was taken from. The supervisor and the adapter see the Safety status
as samples; a sample up to a second old is a sample of an earlier state. The
adapter's faults are one event, `FAULT`, and events the supervisor does not look
at are left out.

### SafetyGuard

`rw` is the `ReceiptWriter`: kept snapshots in a queue, the latest one beside it,
the one the thread has taken, closed, error, alive. A snapshot is what its reader
tells apart: ready for half a second, failed, or neither. `poll` is the lifecycle
poll with its outstanding request and its timeout, `graph` the convergence of the
publishers. A unit of time is a second and passes from tick to tick. What makes
an odometry, scan or command message wrong is one outcome. The four profiles are
the initial states.

### HilClient

The HTTP thread takes results, posts them one by one and polls for events; the
node's thread drains events and runs three callbacks. A post is answered with
success, refused (4xx), or must be repeated; a repeated result may have arrived.
The thread may die.

## 3. Runs

| Run | Distinct states | What it shows |
|---|---|---|
| `safety` | 3.8 thousand | authority, ownership of candidates, refinement of `MotionAuthority`; motion nobody renews ends |
| `facade_replanning` | 268 thousand | planning, following, replans and cancels: success only behind its last FollowPath, cancels end, slot freed |
| `facade_faults` | 907 thousand | plain and polygon goals, stationary completion, one lost message: never two FollowPath goals, slot covers what may run, refinement of `NavigationSlot` |
| `facade_node` | 448 thousand | a costmap that may restart or fall silent, two goals, two patrol paths on one controller: boundary of the own session, no orphan, a reported waypoint is a stop; a lost boundary and cancels end what they should, but for departures 2 and 4, which the run reaches |
| `executor` | 97 thousand | one live FollowPath goal, danger stops, newest path served |
| `bridge` | 57 thousand | one request, stale ones cancelled, deferred replans and queued goals served |
| `pipeline` | 2.4 million | over lossy topics a goal is given up only after the controller drove to it |
| `pipeline_arrival` | 49 thousand | every final goal is driven to |
| `run_session` | 920 thousand | one crash, hang or failed scan anywhere: the result is true, a failure stands, the run and the launch end |
| `short_goal` | 5.8 million | receipts with two writers, late samples, lost calls, emergency stops, phases lost and recovered: no Lease without admission, a pass is witnessed, every end stops the robot, no phase is taken back under an authority |
| `guard` | 456 thousand | collision startup, guard and gate in four profiles: failures are told and saved, snapshots in order, admission on fresh evidence, a lost monitor ends the launch |
| `hil` | 536 thousand | retried posts, crossing cancels, a dying thread: one true end per request, every end and cancel heard of |

Five more configurations, `MCSafetySupervisorRenewal`, `MCFacadeCanceled`,
`MCFacadeBoundary`, `MCFacadeSpins` and `MCPathPipelineWindow`, end in a
counterexample: they show departures 1 to 5 of section 5. One more,
`MCFacadeNodeCostmaps`, checks the safety properties of `facade_node` with two
costmaps (1.1 million states) and passes.

### Bounds

- Safety: two executions are enough for a hand-over, five velocities cover both
  signs, zero, both limits and the angular limit. Timeouts of one and two ticks
  let each expire before and after the other.
- Facade: six inner goals are a plan, a FollowPath, a replan with its
  replacement, and a failed round of both; a failure limit of one lets the
  counter reach its end. The faults run has four goals, one fault anywhere,
  and goals with and without a polygon; with one, every path is validated twice.
- Executor and bridge: two paths make a replacement and a duplicate different;
  two handles make a second goal possible if the code sent one; three
  user goals let an answer of the first reach the third. Two faults are a call
  that raises and the cancel for it that raises too.
- Pipeline: two paths to one goal and one to the next, one planner request and
  one FollowPath goal at a time, which `bridge` and `executor` show to be all
  there are without failures. The arrival run has one path and one goal, and a
  controller that accepts, because a rejection leads to the state
  `MCPathPipelineWindow` shows.
- Facade node: two goals, so that a goal with a polygon precedes or follows one
  without; two patrol paths of up to two pieces, so that what the first left behind
  meets the second; one half second of evidence (`Need`), since more only delays. A
  costmap may restart any number of times. There is one costmap: the facade looks
  at `BoundaryReady` as a whole, and for what must end another costmap is one more
  that may keep it false. That every one of several costmaps must carry the
  boundary is checked by `MCFacadeNodeCostmaps` and proved for any costmaps
  (`InsideBoundary`).
- Run session: one phase, because the ledger is used as a whole (`Advance`,
  `FailAt` and `ReopenFrom` with one phase tell passed, failed and lost apart; the
  order of phases is the business of `short_goal`, where they are also reopened);
  one crash and one failed scan, which may come together.
- Short goal: two phases, an earlier and a later one, and the adapter at most two
  events ahead (`MaxLag`), so that a handler of the supervisor can find a later
  event behind the one it reads.
- Guard: two lifecycle attempts, two equal graph samples and two equal states
  stand for five, five and three: one that counts and one that completes. One kept
  snapshot may wait when the guard writes another one, and the latest beside it.
- HIL: one request, since requests share only the queues and the thread; the proof
  covers any number. Four events are a submit, a cancel, a repetition of either,
  and one more.
- Symmetry is used in `pipeline`, between the two paths to one goal, and in
  `MCFacadeNodeCostmaps`, between the costmaps; their properties do not tell them
  apart and are not liveness properties.
- Deadlock is checked except where the system may stop: when the user sends no
  more goals (bridge, pipeline) and after an unverified submission, which closes
  the Facade's slot for good (`facade_faults`); the runs of sessions end
  (`run_session`, `short_goal`, `guard`), and the users of `facade_node` and `hil`
  stop asking.

### Fairness

- Safety: time passes and the command timer, which runs on the steady clock, is
  served. Nothing is assumed of the ROS clock or of clients.
- Facade: the coroutine runs when its future is done (weak fairness of `Step`).
  Deliveries and the servers' answers are strongly fair, because they can
  happen only while the coroutine has yielded and the executor's wait set serves
  what is ready before it waits again. Servers answer; the user need not cancel.
- Executor and bridge: each callback that is ready runs; servers decide on each
  request, planners finish, and a controller that agreed to cancel stops.
  Nothing makes a controller finish. Properties that a failing call can void
  say so (`faults > 0`).
- Pipeline: in addition, a request sent again and again is once accepted, a plan
  tried again and again once gives a path, and (only in `ArrivalSpec`) a path
  followed again and again is once driven to its end.

- Facade node: what the executor has ready runs, deadlines pass, the watch timer
  fires, the controller answers each owner's request, answers a cancel, and ends a
  goal it was asked to end. No state message of a layer, no zero command and no end
  of a goal nobody cancels is assumed.
- Run session: wrapper and watchdog run and time passes (strong fairness: `Tick`
  waits for start-up steps of at most three seconds and while the watchdog acts,
  both of which end). The supervisor owes nothing but its exit after the completion
  receipt. A group that was sent SIGKILL ends, and init collects orphans.
- Guard: ticks come and time passes (strong fairness, because `MaxQueue` can make a
  tick wait for the thread), the receipt thread runs, a process that has left its
  loop ends and the launch hears of it. The monitor owes nothing.
- HIL: both loops turn; a post or poll that is repeated is at last answered
  (strong fairness), unless the thread has died; the action server answers and ends
  what it agreed to cancel.
- Short goal: none; its properties are safety.

## 4. Properties worth knowing

- `CandidateOfThisLease`, `ImplementsMotionAuthority`, `MotionNeedsRenewal`
  (safety): three services and a timer write the same two fields; permission always
  has an owner or a timer, and one execution's output never moves another's robot.
- `OneFollow`, `SlotCoversInner`, `SuccessIsFollowed` (facade): the inner goals of
  a session against the slot, with a message lost at any point.
- `MotionInsideBoundary`, `NoOrphan`, `WaypointIsAStop` (facade node): three kinds
  of evidence that are all older than the decision made on them. `LostBoundaryEnds`
  and `CancelsEnd` are their other half, and state what the code does not give.
  A polygon goal whose client cancels between a replan tick and its dispatch has
  ended with FollowPath driving: the watch takes the cancel as made, so a boundary
  lost then stops nothing (departure 2). A patrol path that preempts a FollowPath in
  the middle of a replan makes the coroutine spin, and its own cancel is never
  served (departure 4). Without the two exceptions TLC gives these executions.
- `OneGoal`, `DangerStops`, `PendingServed` (executor): replacement and danger
  against sending, acceptance and cancellation.
- `StaleRequestCancelled`, `DeferredIsOwed`, `QueuedIsSent` (bridge): changing
  goals against requests on their way.
- `OnlySuccessEndsGoal`, `GoalReached` (pipeline): both nodes and the topics.
- `ReceiptIsTrue`, `NoFalseAbnormalExit`, `FailureStands` (run session): three
  processes write one result, each on what it read before; `RunEnds` and
  `LaunchEnds` whatever hangs or is killed.
- `ShutdownIsSafe`, `LeaseNeedsAdmission`, `PassIsWitnessed`, `EveryEndStops`
  (short goal): the receipts against the gate itself. `AuthorityNeedsReadiness`,
  a part of `LeaseNeedsAdmission`: phases that come and go against the authority
  that rests on them.
- `FailureIsTold`, `KeepsOrder`, `GateIsWitnessed`, `MonitorLossEndsLaunch`,
  `PassIsManaged` (guard): a writer thread behind the callbacks, and a poll whose
  answer may be old when it counts.
- `ReportIsTrue`, `EndIsReported`, `CancelIsAnswered` (HIL): results, cancels and
  their answers cross.

`TypeOK` of `NavigationFacade`, `RunSession` and `ShortGoalSession`, and
`PhasesInOrder` of `ShortGoalSession`, are proved and belong to no run; they can be
added to their configurations. `ImplementsSlot` is checked where polygons and faults
are (`facade_faults`), with four inner goals; the proof covers any number.

## 5. Where the code departs from what it says

`PROJECT.json` quotes the text and the line of each. The first five have a
configuration of their own (section 3); the others are shown by adding the named
definition to a configuration.

1. `safety_supervisor_node.py:186`: acquiring an owned lease keeps the old
   candidate (`MotionFromEnabledCandidate`).
2. `navigation_facade_node.py:1052,1262,652`: a cancel after a replan tick ends
   the outer goal CANCELED, and FollowPath is not told (`CanceledMeansStopped`). A
   boundary lost after that does not stop it either (`boundary_runtime.py:95`; the
   exception of `LostBoundaryEnds`).
3. `navigation_facade_node.py:1232,1507`: `canceled()` raising after a boundary
   loss leaves the session terminal, and a late result frees the slot under the
   running coroutine (`OneExecute`).
4. `navigation_facade_node.py:1075`: the replan wait is re-armed with a future
   that is done already, and the coroutine spins (`Responsive`). Nothing else on the
   node's thread runs any more, the patrol server included (the exception of
   `CancelsEnd`).
5. `hybrid_planner_bridge_node.py:167`: the completion window survives the end
   of its path when the abort is overwritten by the statuses of a resubmission
   that is rejected (`WindowIsReleased`).
6. `deadline_watchdog.py:577`: a watchdog that fails kills the launch group only
   while its leader lives (`MCRunSession.cfg`, `PROPERTY FailureEndsLaunch`).
7. `supervisor_policy.py:1064`: after a completion receipt the watchdog enforces
   no deadline, whatever the receipt says of the cleanup. `LaunchEnds` excludes
   failed scans for this reason.
8. `short_goal_rviz_adapter.py:346`: the REVOKED receipt may be written while the
   Mission acquires the Lease (`MCShortGoalSession.cfg`,
   `INVARIANT RevokedMeansNoLease`).
9. `short_goal_policy.py:175`: a closed Scope is overwritten by an update that
   read it before (`PROPERTY ScopeStaysClosed`).
10. `navigation_supervisor.py:3119`: a completed short-goal run is reported failed,
    because its stop reason is not among those accepted
    (`INVARIANT SuccessIsReported`).
11. `collision_monitor_lifecycle_startup.py:252`: a lost answer of the manager is
    not reconciled (`MCSafetyGuard.cfg`, `PROPERTY LostAnswerIsReconciled`).
12. `demo_hil_navigation_client.py:794`: a second cancel of a goal that is
    canceling ends in CANCEL_FAILED (`MCHilClient.cfg`,
    `INVARIANT AcceptedCancelIsConfirmed`).
13. `demo_hil_navigation_client.py:411`: one event with an id that is not a number
    stops the whole poll for good. Not modelled: the model's events are well formed.
14. `cleannav_full_sim.launch.py:39`: a failed readiness stage of a motion run
    waits for the global bound too, though the comment says only no-motion runs do
    (`StageFails` in `SafetyGuard`).

A launch that a crash leaves out of the state file is known to nobody and
survives the run: `LaunchEnds` starts when the watchdog has read it. A patrol path
accepted while a waypoint's stop is proved may move the robot before the result
is sent: `WaypointIsAStop` excepts it. A retried post may reorder SUCCEEDED before
GOAL_ACCEPTED, and a restarted HIL client replays the history from its default
cursor.

Also seen while modelling: the late-cancel branch at
`navigation_facade_node.py:1147` and the exception branch at 622 end the outer
goal without waiting for FollowPath (`SlotCoversInner` shows that the slot stays
taken all the same); the bridge's refusal `goal quaternion non-finite`
(`hybrid_planner_bridge_node.py:41`) is not a prefix the executor stops for,
while the two other refusals are.

## 6. Proofs

`SafetySupervisor_proofs` proves, for any executions, velocities, limits and
timeouts, the type invariant, the four safety invariants and the refinement of
`MotionAuthority`. The inductive invariant is their conjunction; the limits rest
on `LimitTwistInRange`, an arithmetic lemma about `_limit_twist`, and
`LimitKeepsCurvature` shows that limiting never tightens a turn. The assumptions
are those the constructor enforces and that the null values are distinct.

`PathPipeline_proofs` holds the proofs of both nodes of the legacy chain. Each is
proved under every input its topics can carry, so neither rests on the other. Of
the executor it proves the type invariant, `Ownership` and `OneGoal` for any paths,
number of goals and number of failing calls; these theorems are about `PathNode`, the
instance of `PathExecutor` in the chain (`PathNode!OneGoal` for the `OneGoal` of the run
`executor`). `OneGoal` is not
inductive: a second goal could be sent while the first is live but forgotten. The
invariant adds `Ownership` (a live goal is the one being sent or the active one,
unless the node closed itself) and, for the closed node, that at most one goal is
live and nothing is outstanding (`Lost`). Each action has one step; sending and
cancelling are lemmas (`SendSafe`, `TrySendSafe`, `RequestCancelSafe`) because
five actions end in them.

Of the planner bridge it proves the type invariant, `OneRequest`,
`QueueIsCurrent`, `DeferredIsOwed` and `StaleRequestCancelled` for any paths,
requests and bounds. The invariant adds `Owner` and `Lost`, which do for the
request what the executor's do for the goal, and `DeferredHasGoal`: without a
final goal `AdvanceQueue` keeps the flag up when nothing is outstanding, so
`DeferredIsOwed` is inductive only when every deferred replan has a goal.
Sending, holding, advancing the queue and scheduling are lemmas; the step proof
has one case for each action.

Of the chain it proves `OnlySuccessEndsGoal`, and that each node keeps its one goal
when the two share their topics and their failing calls (`OneOfEach`). What a goal
ends by is a status that may have been sent long ago; so the invariant (`PipeInv`)
says of every status not yet read that a success names a path to a goal the
controller has driven to (`Honest`), and of the bridge that its last plan leads to
the goal it has (`PlanIsCurrent`).

`FacadeNode_proofs` proves `MotionInsideBoundary`, `NoOrphan` and `WaypointIsAStop`
for any costmaps and any number of goals and patrol paths. The invariant has a part for each owner:
what the Facade (`FacadeOwns`) and the patrol server (`PatrolOwns`) have at the
controller they share, each independent of the other's steps (`FacadeApart`,
`PatrolApart`). `TokenIsOwn` says under which token the layers may be: it needs
that no layer is ahead of the facade, and that an acknowledged layer is not under
another token, otherwise the handshake would prove nothing. The steps of a session
are cases of three lemmas: it goes on, it stops its goal, it sends one.
`WaypointIsAStop` needs an invariant of its own, `Standing`: from the first piece of
evidence of the stop guard on, a session that is alone has no goal at the
controller, the command is zero, and evidence counted after that means a robot
that stands; each part is what the next one rests on.

`SafetyGuard_proofs` proves `FailureIsTold`, `PassIsManaged` and `GateIsWitnessed`
for any attempts, samples and bounds. The first follows the last snapshot handed over (`Final`): once the guard has
failed that snapshot says so and stays the last, and the thread ends only when it
has written everything or given up. The last one bounds, for each place where
evidence of a live monitor may wait (the outstanding request, the poll's state,
the writer, the file), how old it is there (`Witnessed`). `KeepsOrder`, that the
writer implements `SnapshotLog`, is proved step by step: what the thread has
taken, the queue and the latest snapshot are one sequence, and each operation is
one on that sequence.

`RunSession_proofs` proves the type invariant, `ReceiptIsTrue`,
`NoFalseAbnormalExit` and the action property `FailureStands`, for any number of
phases, crashes and failed scans. The invariant relates the program counters of
the three processes (`Stages`), says that whoever claims a verified cleanup has
seen an empty group that stays empty (`Cleanup`), keeps each verdict with what it
was taken from (`Verdicts`), and says for each place of the watchdog what its
decision rests on (`Watching`): before it reports an abnormal exit the supervisor
is gone without a completion receipt, and before it writes its failure the
supervisor can no longer write a PASS.

`ShortGoalSession_proofs` proves the type invariant, `LeaseNeedsAdmission`,
with its part `AuthorityNeedsReadiness`, `ShutdownIsSafe`, `EveryEndStops`,
`PassIsWitnessed` and `PhasesInOrder`, for any number of phases and any lag of the
events. `Asked` is about requests to the interlock that were
given up and are served later: an answer that is heard belongs to the last
request, and then all the others have been served. `OnRecord` is why a success
has its acquisition in the receipts although two writers replace the files
without a lock: the supervisor does not write before it leaves, the adapter
reports the release only after the update that records the acquisition, and when
that update raised, the supervisor finds the fault before the release. `Sealed`,
what a success rests on, is then kept by every step. `Ready` is about the ledger: it
gives `PhasesInOrder`, `AuthorityNeedsReadiness`, and that a failed ledger changes no
more (`FailureStays`), which is why the model can read the code's `failed_at` off the
phases. `OrderKept` says what the three ledger operators do to an ordered ledger; that
the first lost phase exists (`Least`) rests on the library's well-founded ordering of
finite sets, because induction on numbers is out of the prover's reach.

`NavigationFacade_proofs` proves the type invariant, `OneFollow`,
`SlotCoversInner`, `SuccessIsFollowed` and `ImplementsSlot` for any number of inner goals, replan
failures and faults, and every setting of the constants. The coroutine can be
suspended at any of its awaits while every callback runs, so the invariant is about
what the code relies on across an await. `Shape` says where the stack can be:
`execute` awaits at most two helpers, each only from where it is called. `Ledger`
relates what the servers do with a goal to what the session has recorded of it, and
`InFlight` the awaited reply to the goal it is about. `Named` is why the goal a
coroutine holds in a local is one the session tracks. `Follows` says at each place
of `execute` whether a FollowPath may still run: `OneFollow` holds because a
replacement is sent only where the old one has ended. `Held` says what a held slot
covers and what must be over before it is free; with `Ledger` it gives
`SlotCoversInner`. `Evidence` carries the reason of a success from the guard to the
end. The proof has a lemma for each callback and each label of the coroutine; those
of `execute` rest on `Left`, which says once what a step that leaves a label must
establish at the next one.

`ImplementsSlot` says that every step of the runtime is a step of
`NavigationSlot` or changes nothing its clients see. The abstract slot asks of the
code what `IInv` says in other words: `Canceled` (`execute` is on its way to a
canceled goal only when the session was told to cancel) and `Settled`. The boundary
watch may cancel a session whose client has not asked, and such a session may end,
and its slot be free, while `execute` still runs (departure 3). So the slot has a
variable `lost`, `StoppedByWatch` in the code's terms, and `Settled` says that a
session is told to cancel only by its client or, with a polygon, by the watch; that
only a session the watch stopped ends before `execute` does; and that an `execute`
that is over has ended its goal. Steps of the coroutine that send or end nothing are
shown at once to change nothing visible (`Stays`); those that do, and the callbacks,
are cases of their own. `OneExecuteUnlessLost` follows: the slot is free under a
running `execute` in no other case. What a second `execute` would do then is not
modelled (`AcceptGoal`).

`HilClient_proofs` proves `ReportIsTrue` for any set of requests and any length of
the log. A result is in one of three queues before it is told, and may be told
again; so the invariant (`Honest`) is about what has been said, told or waiting.

Only model-checked: liveness, which the prover does not do.

## 7. Not modelled

- Geometry: floating-point path proofs, polygon and map editor, MPPI. A proof of a
  path is a choice of its outcomes.
- The replanning node of the legacy global planner, A* and inflation.
- Facade node: a lost patrol reply, a refused inner cancel of the patrol server,
  and the difference between canceled and aborted outer results (`NavigationFacade`
  has it for its own goals). The planner's request is not followed beyond its
  answer: a goal that ends during a replan frees the slot here at once, in the code
  when that request has ended too. A session ends in one step: that `canceled()`
  raises after it was marked terminal shows only in what the handler does, and the
  second run of execute that departure 3 allows does not exist. Lost replies and
  refused cancels of FollowPath are in `NavigationFacade`. A tick that comes after an
  end that already woke the coroutine is not told from one before it.
- Run session: the motion profiles (`ShortGoalSession` has the short goal; patrol
  and historical motion are left out), how the readiness inputs are evaluated,
  memory limits, parsing of `/proc`.
- Short goal: expiry of the authority, identity mismatches, a crash of the adapter,
  `reset_estop`, the geometry of the typed goal. Sampling and the callback that uses
  the sample are one step. After the session has ended only messages on the way and
  file writes go on.
- Guard: a crash of the monitor's process, the checks before the receipt thread
  starts, the content of reports; steps of the guard do not exist while the launch
  is in its collision stage. What the guard observed is forgotten at its exit. When
  mission data and heartbeats expire is a choice.
- HIL: exceptions of futures, observe-only mode, the start-up health check,
  restart.
- Shutdown and restart of the navigation nodes; logging and diagnostics.
- Monitors and telemetry observe and report; simulation scripts are actors of a
  demo world; safe build measures processes; launch files are declarative. The rest
  of startup smoke starts processes and measures sensors.

## 8. Plan

1. Global planner node with its request keys and terminal statuses; A* and
   inflation as functions checked against reachability.
2. Patrol motion and historical profile of the supervisor; an adapter that crashes.
3. Restart of the HIL client, whose cursor starts at the default again.
4. Proofs about the components of points 1 to 3.

Modules meant for proofs use no RECURSIVE operator; recursion is a recursive
function or a fold.

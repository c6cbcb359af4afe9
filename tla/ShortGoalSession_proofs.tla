---------------------- MODULE ShortGoalSession_proofs ----------------------
(* What TLAPS proves about a session that admits one goal and real motion,   *)
(* for any number of phases and of events on the way: the Lease is for an    *)
(* admitted Mission, a shutdown that is called safe is, every end stops the  *)
(* robot, an execution that passed is one that was witnessed, and no phase   *)
(* of the start is taken back under an authority.                            *)
EXTENDS ShortGoalSession, FiniteSetTheorems, SequenceTheorems, WellFoundedInduction, TLAPS

Loop == {"observe", "open", "openSeen", "receipt", "close", "closeSeen"}
Leaving == {"wait", "revClose", "revSeen", "write", "ended"}

Seen == Samples \cup {NoSample}
Events == {"READY", "CLICK", "FAULT", "ACCEPTED", "ACQUIRED", "RELEASED", "TERMINAL_OK",
           "TERMINAL_BAD"}
Requests == [on : BOOLEAN, live : BOOLEAN]
Adapters ==
    [up : BOOLEAN, goal : BOOLEAN, ready : BOOLEAN, safety : Seen,
     lease : {None, "seen", "released"}, term : {None, "OK", "BAD"}, aware : BOOLEAN,
     ok : BOOLEAN, done : BOOLEAN, deadline : {None, "reply", "task"},
     stopping : BOOLEAN, reply : {None, "pending", "yes", "no", "error"}]
Supervisors ==
    [pc : Loop \cup Leaving, safety : Seen, stage : {"", "OPENING", "ADMITTED"},
     open : BOOLEAN, closed : BOOLEAN, admitted : BOOLEAN, ready : BOOLEAN,
     clicked : BOOLEAN, heard : SUBSET Events, trans : SUBSET Events,
     terminal : {None, "OK", "BAD"}, prior : BOOLEAN]

Scopes == [st : {"ACTIVE", "GOAL_ACCEPTED", "LEASE_ACTIVE", "CLOSED"}, rel : BOOLEAN,
           by : Writers]
Lifecycles ==
    [st : {"AUTHORIZED", "GOAL_ACCEPTED", "LEASE_ACTIVE", "LEASE_RELEASED", "CLOSED"},
     acq : BOOLEAN, rel : BOOLEAN, scope : Scopes, by : Writers]
Revocations ==
    [st : {"REVOKED"}, acq : BOOLEAN, rel : BOOLEAN, scope : Scopes, life : Lifecycles]
Ops ==
    [do : {"scope", "lifecycle", "close", "revoke"},
     to : {"GOAL_ACCEPTED", "LEASE_ACTIVE", "LEASE_RELEASED", "CLOSED", "same", "none"},
     acq : BOOLEAN, rel : BOOLEAN, skip : BOOLEAN]
Jobs ==
    [job : {"none", "acquired", "accepted", "released", "finish", "revoke"},
     todo : Seq(Ops), next : Scopes \cup Lifecycles \cup {Nothing}, raised : BOOLEAN,
     acq : BOOLEAN, rel : BOOLEAN]

TypedGate ==
    /\ gate \in Samples /\ estop \in BOOLEAN /\ calls \in Seq(Requests)
    /\ answer \in {None, "ok", "no"}
TypedMission ==
    /\ mission \in {"idle", "asked", "accepted", "running", "succeeded", "failed"}
    /\ status \in {None, "OK", "BAD"}
TypedAd == ad \in Adapters /\ events \in Seq(Events)
TypedSup ==
    /\ sup \in Supervisors /\ ledger \in Ledgers
    /\ failed \in BOOLEAN /\ execution \in {None, "PASS"} /\ verified \in {None, "yes", "no"}
TypedFiles ==
    /\ admission \in {"none", "OPENING", "ADMITTED", "REVOKED"}
    /\ scope \in Scopes \cup {Nothing} /\ lifecycle \in Lifecycles \cup {Nothing}
    /\ revocation \in Revocations \cup {Nothing} /\ work \in [Writers -> Jobs]
Typed == TypedGate /\ TypedMission /\ TypedAd /\ TypedSup /\ TypedFiles

(* A content is only prepared for a file that was issued and an update that  *)
(* is next; the supervisor updates nothing before its revocation.            *)
Filed ==
    /\ Issued = (lifecycle # Nothing)
    /\ \A w \in Writers : work[w].next # Nothing =>
          /\ Issued /\ work[w].todo # <<>>
          /\ work[w].next \in (IF Head(work[w].todo).do = "scope" THEN Scopes ELSE Lifecycles)
    /\ \A w \in Writers :
          work[w].todo # <<>> /\ ~Issued => Head(work[w].todo).do = "scope"
    /\ sup.pc # "write" => work["supervisor"] = Rest

(* Stage and admission agree; a Mission is asked for after ADMITTED only.    *)
Admitted ==
    /\ Issued = (admission # "none")
    /\ (sup.pc \in (Loop \ {"observe"}) \cup (Leaving \ {"ended"}) \/ sup.stage # "" \/ sup.open)
         => Issued
    /\ admission = "ADMITTED" => sup.stage = "ADMITTED"
    /\ mission # "idle" =>
          ad.goal /\ admission \in {"ADMITTED", "REVOKED"} /\ sup.stage = "ADMITTED"
    /\ gate.owner = "mission" => mission \in {"running", "succeeded", "failed"}

NoneOpens == \A i \in DOMAIN calls : ~calls[i].on
Shut == gate.block /\ gate.owner = None
Stopped == gate.estop \/ estop

(* What is on the way to the interlock, by what the supervisor waits for:    *)
(* an answer that was heard belongs to the last request, and what was asked  *)
(* before it has been served.                                                *)
Asked ==
    /\ sup.pc \in {"observe", "openSeen", "receipt", "closeSeen"} => calls = <<>>
    /\ sup.pc \in {"open", "close", "wait"} => Len(calls) <= 1
    /\ Len(calls) <= 2
    /\ sup.pc = "open" => \/ answer = None /\ \A i \in DOMAIN calls : calls[i].live
                          \/ answer # None /\ calls = <<>>
    /\ sup.pc \in {"close", "revClose"} =>
          \/ /\ answer = None /\ calls # <<>>
             /\ calls[Len(calls)] = [on |-> FALSE, live |-> TRUE]
             /\ \A i \in 1 .. (Len(calls) - 1) : ~calls[i].live
          \/ answer = "ok" /\ calls = <<>> /\ Shut
    /\ sup.pc \in {"closeSeen", "revSeen", "write"} => calls = <<>> /\ Shut
    /\ sup.closed => sup.pc \in Leaving

(* Who leaves the loop has stopped the robot, or finds the interlock shut.   *)
Ended ==
    /\ (sup.pc = "ended") = (verified # None)
    /\ sup.pc \in Leaving \ {"ended"} => Stopped
    /\ sup.pc = "ended" /\ Issued => Stopped \/ (Shut /\ NoneOpens)
    /\ verified = "yes" /\ Issued => Shut /\ NoneOpens

(* Whatever says that the Mission succeeded says so because it did.          *)
Succeeded ==
    /\ status = "OK" \/ ad.ok \/ sup.terminal = "OK" => mission = "succeeded"
    /\ \A i \in DOMAIN events : events[i] = "TERMINAL_OK" => mission = "succeeded"

Closed == scope.st = "CLOSED" /\ lifecycle.st = "CLOSED"

(* Before the supervisor revokes, a revocation is the adapter's last update. *)
AdapterRevoked ==
    revocation # Nothing /\ sup.pc \notin {"write", "ended"} =>
        Closed /\ work["adapter"].next = Nothing

(* The release is reported after the acquisition is on record, or a fault    *)
(* comes before it.                                                          *)
Unreleased ==
    /\ "RELEASED" \notin sup.heard
    /\ \A i \in DOMAIN events : events[i] # "RELEASED"
FaultFirst ==
    /\ "RELEASED" \notin sup.heard
    /\ \E i \in DOMAIN events :
          events[i] = "FAULT" /\ \A j \in 1 .. (i - 1) : events[j] # "RELEASED"

KeepsAcquisition ==
    work["adapter"].next # Nothing /\ Head(work["adapter"].todo).do # "scope"
          /\ lifecycle.acq => work["adapter"].next.acq
RecordsAcquisition ==
    work["adapter"].job = "acquired" =>
       /\ ad.lease = "seen"
       /\ \/ work["adapter"].todo = <<>> /\ (work["adapter"].raised \/ lifecycle.acq)
          \/ work["adapter"].todo = AcquiredJob.todo
          \/ /\ work["adapter"].todo = <<AcquiredJob.todo[2]>>
             /\ work["adapter"].next # Nothing => work["adapter"].next.acq
OnRecord ==
    sup.pc \in Loop =>
       /\ ad.lease # None => Issued
       /\ ad.lease # "released" => Unreleased
       /\ KeepsAcquisition
       /\ ad.lease # None /\ work["adapter"].job # "acquired" => lifecycle.acq \/ FaultFirst
       /\ RecordsAcquisition

(* What a success rests on, and that nobody is about to rewrite it.          *)
Sealed ==
    /\ Closed /\ lifecycle.acq /\ mission = "succeeded"
    /\ revocation.st = "REVOKED" /\ revocation.acq /\ revocation.rel
    /\ \A w \in Writers : work[w].next = Nothing

Passed ==
    /\ sup.pc \in {"close", "closeSeen"} => Sealed
    /\ execution = "PASS" => sup.pc \in Leaving /\ Sealed /\ Shut /\ NoneOpens

---------------------------------------------------------------------------
(* The operators the model is built from. *)

(* What is kept of a queue is about the Lease, and was in the queue. *)
LEMMA LeaseEventsKept ==
    ASSUME NEW queue \in Seq(Events)
    PROVE  /\ OfLease(queue) \in Seq(LeaseEvents)
           /\ \A i \in DOMAIN OfLease(queue) :
                 \E j \in DOMAIN queue : OfLease(queue)[i] = queue[j]
<1> DEFINE kept(e) == IF \E i \in DOMAIN queue : queue[i] = e THEN <<e>> ELSE <<>>
<1>1. /\ kept("ACQUIRED") = <<>> \/ kept("ACQUIRED") = <<"ACQUIRED">>
      /\ kept("RELEASED") = <<>> \/ kept("RELEASED") = <<"RELEASED">>
  OBVIOUS
<1>2. OfLease(queue) \in Seq(LeaseEvents)
  <2>1. kept("ACQUIRED") \in Seq(LeaseEvents) /\ kept("RELEASED") \in Seq(LeaseEvents)
    <3>1. <<>> \in Seq(LeaseEvents) /\ <<"ACQUIRED">> \in Seq(LeaseEvents)
          /\ <<"RELEASED">> \in Seq(LeaseEvents)
      BY DEF LeaseEvents
    <3> HIDE DEF kept
    <3> QED BY <3>1, <1>1
  <2>2. OfLease(queue) = kept("ACQUIRED") \o kept("RELEASED")
    BY DEF OfLease
  <2> HIDE DEF kept
  <2> QED BY <2>1, <2>2, ConcatProperties
<1>3. ASSUME NEW i \in DOMAIN OfLease(queue)
      PROVE  \E j \in DOMAIN queue : OfLease(queue)[i] = queue[j]
  <2>1. \A e \in {"ACQUIRED", "RELEASED"} :
           kept(e) # <<>> => \E j \in DOMAIN queue : queue[j] = e
    OBVIOUS
  <2>2. OfLease(queue) = kept("ACQUIRED") \o kept("RELEASED")
    BY DEF OfLease
  <2>3. /\ OfLease(queue)[i] = "ACQUIRED" => kept("ACQUIRED") # <<>>
        /\ OfLease(queue)[i] = "RELEASED" => kept("RELEASED") # <<>>
        /\ OfLease(queue)[i] \in {"ACQUIRED", "RELEASED"}
    <3> HIDE DEF kept
    <3> QED BY <2>2, <1>1
  <2> QED BY <2>1, <2>3
<1> QED BY <1>2, <1>3

(* What is sent to the supervisor ends the queue; a fault is the last of it  *)
(* until it is found.                                                        *)
LEMMA EventsAdded ==
    ASSUME Typed, NEW more \in Seq(Events), Emit(more)
    PROVE  \E added \in Seq(Events) :
              /\ events' = events \o added
              /\ \A i \in DOMAIN added : \E j \in DOMAIN more : added[i] = more[j]
<1>1. LeaseEvents \subseteq Events
  BY DEF LeaseEvents, Events
<1>2. OfLease(more) \in Seq(Events)
  BY <1>1, LeaseEventsKept, SeqMonotonic
<1>3. events' = events \o <<>> \/ events' = events \o OfLease(more)
      \/ events' = events \o more
  <2>1. CASE sup.pc \in {"revClose", "revSeen", "write", "ended"}
    BY <2>1 DEF Emit
  <2>2. CASE sup.pc \notin {"revClose", "revSeen", "write", "ended"}
    <3>1. CASE sup.pc = "wait" \/ FaultAhead
      BY <3>1, <2>2 DEF Emit
    <3>2. CASE ~(sup.pc = "wait" \/ FaultAhead)
      BY <3>2, <2>2 DEF Emit
    <3> QED BY <3>1, <3>2
  <2> QED BY <2>1, <2>2
<1>4. <<>> \in Seq(Events) /\ DOMAIN <<>> = {}
  OBVIOUS
<1> QED BY <1>2, <1>3, <1>4, LeaseEventsKept

LEMMA FaultAdded ==
    ASSUME Typed, sup.pc \in Loop, Emit(<<"FAULT">>)
    PROVE  events' # <<>> /\ events'[Len(events')] = "FAULT"
<1>1. CASE FaultAhead
  <2>1. OfLease(<<"FAULT">>) = <<>>
    BY DEF OfLease
  <2>2. events' = events \o <<>>
    BY <1>1, <2>1 DEF Emit, Loop
  <2> QED BY <1>1, <2>2 DEF FaultAhead, Typed, TypedAd
<1>2. CASE ~FaultAhead
  <2>1. events' = events \o <<"FAULT">>
    BY <1>2 DEF Emit, Loop
  <2>2. <<"FAULT">> \in Seq(Events) /\ events \in Seq(Events)
    BY DEF Typed, TypedAd, Events
  <2> QED BY <2>1, <2>2
<1> QED BY <1>1, <1>2

LEMMA RestTyped ==
    Rest \in Jobs /\ Rest.next = Nothing /\ Rest.todo = <<>> /\ Rest.job = "none"
BY DEF Rest, Jobs

(* Every job begins with the Scope, and with nothing prepared. *)
Fresh(job) ==
    /\ job \in Jobs /\ job.next = Nothing /\ ~job.raised
    /\ job.todo # <<>> /\ Head(job.todo).do = "scope"

OpensScope(ops) == ops \in Seq(Ops) /\ ops # <<>> /\ Head(ops).do = "scope"

LEMMA JobFresh ==
    ASSUME NEW name \in {"acquired", "accepted", "released", "finish", "revoke"},
           NEW ops, OpensScope(ops), NEW acq \in BOOLEAN, NEW rel \in BOOLEAN
    PROVE  Fresh(Job(name, ops, acq, rel))
BY DEF OpensScope, Fresh, Job, Rest, Jobs

LEMMA JobsFresh ==
    /\ Fresh(AcquiredJob) /\ AcquiredJob.job = "acquired"
    /\ Fresh(ReleasedJob) /\ ReleasedJob.job = "released"
    /\ Fresh(FinishJob) /\ FinishJob.job = "finish"
    /\ Fresh(AcceptedJob) /\ AcceptedJob.job = "accepted"
    /\ Acquired \in BOOLEAN /\ Released \in BOOLEAN => Fresh(RevokeJob)
<1>1. Fresh(AcquiredJob) /\ AcquiredJob.job = "acquired"
  <2> DEFINE a == Op("scope", "LEASE_ACTIVE", TRUE, FALSE, FALSE)
  <2> DEFINE b == Op("lifecycle", "LEASE_ACTIVE", TRUE, FALSE, FALSE)
  <2> DEFINE ops == <<a, b>>
  <2>1. AcquiredJob = Job("acquired", ops, FALSE, FALSE)
    BY DEF AcquiredJob
  <2>2. a.do = "scope" /\ a \in Ops /\ b \in Ops
    BY DEF Op, Ops
  <2> HIDE DEF a, b
  <2>3. OpensScope(ops)
    BY <2>2 DEF OpensScope
  <2> HIDE DEF ops
  <2>4. Fresh(Job("acquired", ops, FALSE, FALSE))
    BY <2>3, JobFresh
  <2>5. Job("acquired", ops, FALSE, FALSE).job = "acquired"
    BY DEF Job
  <2> QED BY <2>1, <2>4, <2>5
<1>2. Fresh(ReleasedJob) /\ ReleasedJob.job = "released"
  <2> DEFINE a == Op("scope", "CLOSED", FALSE, TRUE, FALSE)
  <2> DEFINE b == Op("lifecycle", "LEASE_RELEASED", FALSE, TRUE, FALSE)
  <2> DEFINE c == Op("close", "CLOSED", FALSE, TRUE, FALSE)
  <2> DEFINE d == Op("revoke", "none", FALSE, FALSE, FALSE)
  <2> DEFINE ops == <<a, b, c, d>>
  <2>1. ReleasedJob = Job("released", ops, TRUE, TRUE)
    BY DEF ReleasedJob
  <2>2. a.do = "scope" /\ a \in Ops /\ b \in Ops /\ c \in Ops /\ d \in Ops
    BY DEF Op, Ops
  <2> HIDE DEF a, b, c, d
  <2>3. OpensScope(ops)
    BY <2>2 DEF OpensScope
  <2> HIDE DEF ops
  <2>4. Fresh(Job("released", ops, TRUE, TRUE))
    BY <2>3, JobFresh
  <2>5. Job("released", ops, TRUE, TRUE).job = "released"
    BY DEF Job
  <2> QED BY <2>1, <2>4, <2>5
<1>3. Fresh(FinishJob) /\ FinishJob.job = "finish"
  <2> DEFINE a == Op("scope", "CLOSED", FALSE, FALSE, TRUE)
  <2> DEFINE b == Op("lifecycle", "same", FALSE, FALSE, FALSE)
  <2> DEFINE c == Op("close", "CLOSED", FALSE, TRUE, FALSE)
  <2> DEFINE d == Op("revoke", "none", FALSE, FALSE, FALSE)
  <2> DEFINE ops == <<a, b, c, d>>
  <2>1. FinishJob = Job("finish", ops, FALSE, FALSE)
    BY DEF FinishJob
  <2>2. a.do = "scope" /\ a \in Ops /\ b \in Ops /\ c \in Ops /\ d \in Ops
    BY DEF Op, Ops
  <2> HIDE DEF a, b, c, d
  <2>3. OpensScope(ops)
    BY <2>2 DEF OpensScope
  <2> HIDE DEF ops
  <2>4. Fresh(Job("finish", ops, FALSE, FALSE))
    BY <2>3, JobFresh
  <2>5. Job("finish", ops, FALSE, FALSE).job = "finish"
    BY DEF Job
  <2> QED BY <2>1, <2>4, <2>5
<1>4. Fresh(AcceptedJob) /\ AcceptedJob.job = "accepted"
  <2> DEFINE a == Op("scope", IF HasLease THEN "LEASE_ACTIVE" ELSE "GOAL_ACCEPTED",
                     FALSE, FALSE, FALSE)
  <2> DEFINE b == Op("lifecycle", IF HasLease THEN "LEASE_ACTIVE" ELSE "GOAL_ACCEPTED",
                     FALSE, FALSE, FALSE)
  <2> DEFINE ops == <<a, b>>
  <2>1. AcceptedJob = Job("accepted", ops, FALSE, FALSE)
    BY DEF AcceptedJob
  <2>2. a.do = "scope" /\ a \in Ops /\ b \in Ops
    BY DEF Op, Ops
  <2> HIDE DEF a, b
  <2>3. OpensScope(ops)
    BY <2>2 DEF OpensScope
  <2> HIDE DEF ops
  <2>4. Fresh(Job("accepted", ops, FALSE, FALSE))
    BY <2>3, JobFresh
  <2>5. Job("accepted", ops, FALSE, FALSE).job = "accepted"
    BY DEF Job
  <2> QED BY <2>1, <2>4, <2>5
<1>5. ASSUME Acquired \in BOOLEAN, Released \in BOOLEAN PROVE Fresh(RevokeJob)
  <2> DEFINE a == Op("scope", "CLOSED", FALSE, Acquired /\ Released, TRUE)
  <2> DEFINE b == Op("lifecycle", "same", FALSE, FALSE, TRUE)
  <2> DEFINE c == Op("close", "CLOSED", FALSE, Released, FALSE)
  <2> DEFINE d == Op("revoke", "none", FALSE, FALSE, FALSE)
  <2> DEFINE ops == <<a, b, c, d>>
  <2>1. RevokeJob = Job("revoke", ops, Acquired, Released)
    BY DEF RevokeJob
  <2>2. a.do = "scope" /\ a \in Ops /\ b \in Ops /\ c \in Ops /\ d \in Ops
    BY <1>5 DEF Op, Ops
  <2> HIDE DEF a, b, c, d
  <2>3. OpensScope(ops)
    BY <2>2 DEF OpensScope
  <2> HIDE DEF ops
  <2>4. Fresh(Job("revoke", ops, Acquired, Released))
    BY <2>3, JobFresh, <1>5
  <2> QED BY <2>1, <2>4
<1> QED BY <1>1, <1>2, <1>3, <1>4, <1>5

---------------------------------------------------------------------------
(* What the steps can touch. *)

LEMMA TypesKept ==
    /\ TypedGate /\ UNCHANGED gateVars => TypedGate'
    /\ TypedMission /\ UNCHANGED missionVars => TypedMission'
    /\ TypedAd /\ UNCHANGED adVars => TypedAd'
    /\ TypedSup /\ UNCHANGED supVars => TypedSup'
    /\ TypedFiles /\ UNCHANGED receiptVars => TypedFiles'
BY DEF TypedGate, TypedMission, TypedAd, TypedSup, TypedFiles, gateVars, missionVars, adVars,
       supVars, resultVars, receiptVars

World == EstopArrives \/ InterlockServes \/ MissionAnswers \/ MissionAcquires \/ MissionEnds
            \/ MissionReleases \/ OtherAcquires

LEMMA WorldTyped == ASSUME Typed, World PROVE Typed'
<1>1. CASE EstopArrives
  <2>1. TypedGate'
    BY <1>1 DEF EstopArrives, Samples, Typed, TypedGate
  <2> QED BY <1>1, <2>1, TypesKept DEF EstopArrives, Typed
<1>2. CASE InterlockServes
  <2>1. TypedGate'
    <3>1. gate' \in Samples
      BY <1>2 DEF InterlockServes, Samples, Typed, TypedGate
    <3>2. calls' \in Seq(Requests)
      BY <1>2 DEF InterlockServes, Typed, TypedGate
    <3>3. answer' \in {None, "ok", "no"} /\ estop' \in BOOLEAN
      BY <1>2 DEF InterlockServes, Typed, TypedGate
    <3> QED BY <3>1, <3>2, <3>3 DEF TypedGate
  <2> QED BY <1>2, <2>1, TypesKept DEF InterlockServes, Typed
<1>3. CASE MissionAnswers
  <2>1. TypedAd'
    BY <1>3 DEF MissionAnswers, Adapters, Typed, TypedAd
  <2>2. TypedMission'
    BY <1>3 DEF MissionAnswers, Typed, TypedMission
  <2> QED BY <1>3, <2>1, <2>2, TypesKept DEF MissionAnswers, Typed
<1>4. CASE MissionAcquires
  <2>1. TypedGate' /\ TypedMission'
    BY <1>4 DEF MissionAcquires, Samples, Typed, TypedGate, TypedMission
  <2> QED BY <1>4, <2>1, TypesKept DEF MissionAcquires, Typed
<1>5. CASE MissionEnds
  <2>1. TypedMission'
    BY <1>5 DEF MissionEnds, Typed, TypedMission
  <2> QED BY <1>5, <2>1, TypesKept DEF MissionEnds, Typed
<1>6. CASE MissionReleases
  <2>1. TypedGate'
    BY <1>6 DEF MissionReleases, Samples, Typed, TypedGate
  <2> QED BY <1>6, <2>1, TypesKept DEF MissionReleases, Typed
<1>7. CASE OtherAcquires
  <2>1. TypedGate'
    BY <1>7 DEF OtherAcquires, Samples, Typed, TypedGate
  <2> QED BY <1>7, <2>1, TypesKept DEF OtherAcquires, Typed
<1> QED BY <1>1, <1>2, <1>3, <1>4, <1>5, <1>6, <1>7 DEF World

(* A handler of the adapter leaves the Safety Supervisor, the supervisor     *)
(* and the receipts alone, asks the Mission once, on a valid admission, and  *)
(* takes over the terminal status of the Mission.                            *)
AdapterLeaves ==
    /\ UNCHANGED <<gate, calls, answer, sup, ledger, failed, execution, verified>>
    /\ UNCHANGED <<admission, scope, lifecycle, revocation>>
    /\ estop' \in BOOLEAN /\ (estop => estop')
    /\ \/ mission' = mission
       \/ ~ad.goal /\ ad'.goal /\ mission' = "asked" /\ admission = "ADMITTED"
    /\ status' \in {status, None} /\ (ad.goal => ad'.goal)
    /\ ad' \in Adapters /\ (ad'.ok => ad.ok \/ status = "OK")
(* What it says of the end and of the release is so. *)
AdapterSays ==
    \E added \in Seq(Events) :
       /\ events' = events \o added
       /\ \A i \in DOMAIN added :
             /\ added[i] = "TERMINAL_OK" => ad.ok
             /\ added[i] = "RELEASED" => ad.lease = "seen" /\ ad'.lease = "released"
(* The Lease is seen once and released once; a failed update is a fault. *)
StartsJob(job) == Idle("adapter") /\ work' = [work EXCEPT !["adapter"] = job]
AdapterLeases ==
    \/ ad'.lease = ad.lease /\ work' = work
    \/ ad'.lease = ad.lease /\ \E job \in {AcceptedJob, FinishJob} : StartsJob(job)
    \/ /\ ad.lease = None /\ gate.owner = "mission" /\ ad'.lease = "seen"
       /\ StartsJob(AcquiredJob)
    \/ ad.lease = "seen" /\ ad'.lease = "released" /\ StartsJob(ReleasedJob)
    \/ /\ ad'.lease = ad.lease /\ Finished("adapter")
       /\ work' = [work EXCEPT !["adapter"] = Rest]
       /\ work["adapter"].raised => Emit(<<"FAULT">>)

LEMMA SaysNothing == ASSUME Typed, events' = events PROVE AdapterSays
<1>1. <<>> \in Seq(Events) /\ DOMAIN <<>> = {} /\ events' = events \o <<>>
  BY DEF Typed, TypedAd
<1> QED BY <1>1 DEF AdapterSays

LEMMA SaysMore ==
    ASSUME Typed, NEW more \in Seq(Events), Emit(more),
           \A j \in DOMAIN more :
              /\ more[j] = "TERMINAL_OK" => ad.ok
              /\ more[j] = "RELEASED" => ad.lease = "seen" /\ ad'.lease = "released"
    PROVE  AdapterSays
<1>1. PICK added \in Seq(Events) :
          /\ events' = events \o added
          /\ \A i \in DOMAIN added : \E j \in DOMAIN more : added[i] = more[j]
  BY EventsAdded
<1>2. ASSUME NEW i \in DOMAIN added
      PROVE  /\ added[i] = "TERMINAL_OK" => ad.ok
             /\ added[i] = "RELEASED" => ad.lease = "seen" /\ ad'.lease = "released"
  BY <1>1
<1> QED BY <1>1, <1>2 DEF AdapterSays

LEMMA SaysPlain ==
    ASSUME Typed
    PROVE  /\ Emit(<<"READY">>) => AdapterSays
           /\ Emit(<<"CLICK">>) => AdapterSays
           /\ Emit(<<"FAULT">>) => AdapterSays
           /\ Emit(<<"ACCEPTED">>) => AdapterSays
           /\ Emit(<<"ACQUIRED">>) => AdapterSays
           /\ Emit(<<"CLICK", "FAULT">>) => AdapterSays
           /\ Emit(<<"FAULT", "TERMINAL_BAD">>) => AdapterSays
<1>1. ASSUME NEW e \in Events \ {"TERMINAL_OK", "RELEASED"}, Emit(<<e>>) PROVE AdapterSays
  <2>1. <<e>> \in Seq(Events) /\ \A j \in DOMAIN <<e>> : <<e>>[j] = e
    OBVIOUS
  <2> QED BY <1>1, <2>1, SaysMore
<1>2. ASSUME NEW d \in Events \ {"TERMINAL_OK", "RELEASED"},
             NEW e \in Events \ {"TERMINAL_OK", "RELEASED"}, Emit(<<d, e>>)
      PROVE  AdapterSays
  <2>1. <<d, e>> \in Seq(Events) /\ \A j \in DOMAIN <<d, e>> : <<d, e>>[j] \in {d, e}
    OBVIOUS
  <2> QED BY <1>2, <2>1, SaysMore
<1>3. {"READY", "CLICK", "FAULT", "ACCEPTED", "ACQUIRED", "TERMINAL_BAD"}
        \subseteq Events \ {"TERMINAL_OK", "RELEASED"}
  BY DEF Events
<1> QED BY <1>1, <1>2, <1>3

LEMMA AdapterReach ==
    ASSUME Typed, Adapter PROVE AdapterLeaves /\ AdapterSays /\ AdapterLeases
<1> USE DEF AdOthers, missionVars, supVars, resultVars
<1>0. /\ ad \in Adapters /\ gate \in Samples /\ gate \in Seen /\ estop \in BOOLEAN
      /\ status \in {None, "OK", "BAD"} /\ events \in Seq(Events)
  BY DEF Typed, TypedAd, TypedGate, TypedMission, Seen
<1>s. Sampled \in Adapters /\ Sampled.lease = ad.lease /\ Sampled.goal = ad.goal
      /\ (Sampled.ok => ad.ok)
  BY <1>0 DEF Sampled, UnderEstop, Adapters, Samples
<1>1. CASE AdReportsReady
  <2>1. AdapterLeaves
    BY <1>0, <1>s, <1>1 DEF AdReportsReady, AdapterLeaves, Adapters, Stops
  <2>2. AdapterSays
    BY <1>1, SaysPlain DEF AdReportsReady
  <2>3. AdapterLeases
    BY <1>0, <1>s, <1>1 DEF AdReportsReady, AdapterLeases, Adapters, Starts, Ends, StartsJob, AdIdle
  <2> QED BY <2>1, <2>2, <2>3
<1>2. CASE AdSubmitsGoal
  <2>1. AdapterLeaves
    BY <1>0, <1>s, <1>2 DEF AdSubmitsGoal, AdapterLeaves, Adapters, Stops, GoalMayPass, AdmissionValid
  <2>2. AdapterSays
    BY <1>2, SaysPlain DEF AdSubmitsGoal
  <2>3. AdapterLeases
    BY <1>0, <1>s, <1>2 DEF AdSubmitsGoal, AdapterLeases, Adapters, Starts, Ends, StartsJob, AdIdle
  <2> QED BY <2>1, <2>2, <2>3
<1>3. CASE AdRejectsGoal
  <2>1. AdapterLeaves
    BY <1>0, <1>s, <1>3 DEF AdRejectsGoal, AdapterLeaves, Adapters, Stops, Fails
  <2>2. AdapterSays
    BY <1>3, SaysPlain DEF AdRejectsGoal
  <2>3. AdapterLeases
    BY <1>0, <1>s, <1>3 DEF AdRejectsGoal, AdapterLeases, Adapters, Starts, Ends, StartsJob, AdIdle, Fails
  <2> QED BY <2>1, <2>2, <2>3
<1>4. CASE AdRejectsSecondGoal
  <2>1. AdapterLeaves
    BY <1>0, <1>s, <1>4 DEF AdRejectsSecondGoal, AdapterLeaves, Adapters, Stops
  <2>2. AdapterSays
    BY <1>4, SaysPlain DEF AdRejectsSecondGoal
  <2>3. AdapterLeases
    BY <1>0, <1>s, <1>4 DEF AdRejectsSecondGoal, AdapterLeases, Adapters, Starts, Ends, StartsJob, AdIdle
  <2> QED BY <2>1, <2>2, <2>3
<1>5. CASE AdSeesStatus
  <2>1. AdapterLeaves
    <3>1. /\ status' \in {status, None} /\ estop' = estop /\ mission' = mission
          /\ UNCHANGED <<gate, calls, answer, sup, ledger, failed, execution, verified>>
          /\ UNCHANGED <<admission, scope, lifecycle, revocation>>
      BY <1>5 DEF AdSeesStatus
    <3>2. ad' \in Adapters /\ ad'.goal = ad.goal /\ (ad'.ok => status = "OK")
      BY <1>0, <1>5 DEF AdSeesStatus, Adapters
    <3> QED BY <1>0, <3>1, <3>2 DEF AdapterLeaves
  <2>2. AdapterSays
    BY <1>5, SaysNothing DEF AdSeesStatus
  <2>3. AdapterLeases
    BY <1>0, <1>s, <1>5 DEF AdSeesStatus, AdapterLeases, Adapters, Starts, Ends, StartsJob, AdIdle
  <2> QED BY <2>1, <2>2, <2>3
<1>6. CASE AdSeesOwnerMismatch
  <2>1. AdapterLeaves
    BY <1>0, <1>s, <1>6 DEF AdSeesOwnerMismatch, AdapterLeaves, Adapters, Stops
  <2>2. AdapterSays
    BY <1>6, SaysPlain DEF AdSeesOwnerMismatch
  <2>3. AdapterLeases
    BY <1>0, <1>s, <1>6 DEF AdSeesOwnerMismatch, AdapterLeases, Adapters, Starts, Ends, StartsJob, AdIdle
  <2> QED BY <2>1, <2>2, <2>3
<1>7. CASE AdSeesLease
  <2>1. AdapterLeaves
    BY <1>0, <1>s, <1>7 DEF AdSeesLease, AdapterLeaves, Adapters, Stops, UnderEstop
  <2>2. AdapterSays
    BY <1>7, SaysPlain DEF AdSeesLease
  <2>3. AdapterLeases
    BY <1>0, <1>s, <1>7 DEF AdSeesLease, AdapterLeases, Adapters, Starts, Ends, StartsJob, AdIdle
  <2> QED BY <2>1, <2>2, <2>3
<1>8. CASE AdSeesRelease
  <2>1. AdapterLeaves
    BY <1>0, <1>s, <1>8 DEF AdSeesRelease, AdapterLeaves, Adapters, Stops, UnderEstop
  <2>2. AdapterSays
    <3>1. <<"RELEASED">> \in Seq(Events) /\ ad.lease = "seen" /\ ad'.lease = "released"
      BY <1>0, <1>s, <1>8 DEF AdSeesRelease, Adapters, Events
    <3>2. \A j \in DOMAIN <<"RELEASED">> : <<"RELEASED">>[j] = "RELEASED"
      OBVIOUS
    <3>3. Emit(<<"RELEASED">>)
      BY <1>8 DEF AdSeesRelease
    <3> QED BY <3>1, <3>2, <3>3, SaysMore
  <2>3. AdapterLeases
    BY <1>0, <1>s, <1>8 DEF AdSeesRelease, AdapterLeases, Adapters, Starts, Ends, StartsJob, AdIdle
  <2> QED BY <2>1, <2>2, <2>3
<1>9. CASE AdSeesSafety
  <2>1. AdapterLeaves
    BY <1>0, <1>s, <1>9 DEF AdSeesSafety, AdapterLeaves, Adapters, Stops
  <2>2. AdapterSays
    BY <1>9, SaysNothing DEF AdSeesSafety
  <2>3. AdapterLeases
    BY <1>0, <1>s, <1>9 DEF AdSeesSafety, AdapterLeases, Adapters, Starts, Ends, StartsJob, AdIdle
  <2> QED BY <2>1, <2>2, <2>3
<1>10. CASE AdHearsAcceptance
  <2>1. AdapterLeaves
    BY <1>0, <1>s, <1>10 DEF AdHearsAcceptance, AdapterLeaves, Adapters, Stops
  <2>2. AdapterSays
    BY <1>10, SaysNothing DEF AdHearsAcceptance
  <2>3. AdapterLeases
    BY <1>0, <1>s, <1>10 DEF AdHearsAcceptance, AdapterLeases, Adapters, Starts, Ends, StartsJob, AdIdle
  <2> QED BY <2>1, <2>2, <2>3
<1>11. CASE AdHearsRefusal
  <2>1. AdapterLeaves
    BY <1>0, <1>s, <1>11 DEF AdHearsRefusal, AdapterLeaves, Adapters, Stops, Fails
  <2>2. AdapterSays
    BY <1>11, SaysPlain DEF AdHearsRefusal
  <2>3. AdapterLeases
    BY <1>0, <1>s, <1>11 DEF AdHearsRefusal, AdapterLeases, Adapters, Starts, Ends, StartsJob, AdIdle, Fails
  <2> QED BY <2>1, <2>2, <2>3
<1>12. CASE AdGoalTimesOut
  <2>1. AdapterLeaves
    BY <1>0, <1>s, <1>12 DEF AdGoalTimesOut, AdapterLeaves, Adapters, Stops
  <2>2. AdapterSays
    BY <1>12, SaysPlain DEF AdGoalTimesOut
  <2>3. AdapterLeases
    BY <1>0, <1>s, <1>12 DEF AdGoalTimesOut, AdapterLeases, Adapters, Starts, Ends, StartsJob, AdIdle
  <2> QED BY <2>1, <2>2, <2>3
<1>13. CASE AdStopUnconfirmed
  <2>1. AdapterLeaves
    BY <1>0, <1>s, <1>13 DEF AdStopUnconfirmed, AdapterLeaves, Adapters, Stops
  <2>2. AdapterSays
    BY <1>13, SaysPlain DEF AdStopUnconfirmed
  <2>3. AdapterLeases
    BY <1>0, <1>s, <1>13 DEF AdStopUnconfirmed, AdapterLeases, Adapters, Starts, Ends, StartsJob, AdIdle
  <2> QED BY <2>1, <2>2, <2>3
<1>14. CASE AdFinishes
  <2>1. AdapterLeaves
    BY <1>0, <1>s, <1>14 DEF AdFinishes, AdapterLeaves, Adapters, Stops, MayFinish
  <2>2. AdapterSays
    BY <1>14, SaysNothing DEF AdFinishes
  <2>3. AdapterLeases
    BY <1>0, <1>s, <1>14 DEF AdFinishes, AdapterLeases, Adapters, Starts, Ends, StartsJob, AdIdle
  <2> QED BY <2>1, <2>2, <2>3
<1>15. CASE AdEnds
  <2>1. AdapterLeaves
    BY <1>0, <1>s, <1>15 DEF AdEnds, AdapterLeaves, Adapters, Stops
  <2>2. AdapterSays
    <3>1. /\ <<Terminal(ad)>> \in Seq(Events)
          /\ \A j \in DOMAIN <<Terminal(ad)>> : <<Terminal(ad)>>[j] = Terminal(ad)
          /\ Terminal(ad) # "RELEASED" /\ (Terminal(ad) = "TERMINAL_OK" => ad.ok)
      BY <1>0 DEF Terminal, Events
    <3> QED BY <1>15, <3>1, SaysMore DEF AdEnds
  <2>3. AdapterLeases
    BY <1>0, <1>s, <1>15 DEF AdEnds, AdapterLeases, Adapters, Starts, Ends, StartsJob, AdIdle
  <2> QED BY <2>1, <2>2, <2>3
<1>16. CASE AdFinishesJob
  <2>1. AdapterLeaves
    <3> DEFINE job == work["adapter"].job
               raised == work["adapter"].raised
    <3>1. raised \in BOOLEAN
      BY DEF Typed, TypedFiles, Writers, Jobs
    <3>2. /\ ad' = [ad EXCEPT
                        !.deadline = IF job = "accepted" THEN "task" ELSE @,
                        !.done = @ \/ job = "released" \/ (job = "finish" /\ ~raised),
                        !.ok = @ /\ ~(raised /\ job \in {"released", "finish"})]
          /\ Stops(raised /\ job \in {"acquired", "accepted"})
      BY <1>16 DEF AdFinishesJob
    <3> HIDE DEF job, raised
    <3> DEFINE deadline == IF job = "accepted" THEN "task" ELSE ad.deadline
               done == ad.done \/ job = "released" \/ (job = "finish" /\ ~raised)
               ok == ad.ok /\ ~(raised /\ job \in {"released", "finish"})
    <3>a. ad' = [ad EXCEPT !.deadline = deadline, !.done = done, !.ok = ok]
      BY <3>2
    <3>b. deadline \in {None, "reply", "task"} /\ done \in BOOLEAN /\ ok \in BOOLEAN
          /\ (ok => ad.ok)
      BY <1>0 DEF Adapters
    <3> HIDE DEF deadline, done, ok
    <3>3. ad' \in Adapters /\ (ad'.ok => ad.ok) /\ (ad.goal => ad'.goal)
      BY <1>0, <3>a, <3>b DEF Adapters
    <3>4. estop' \in BOOLEAN /\ (estop => estop')
      BY <1>0, <3>1, <3>2 DEF Stops
    <3> QED BY <1>16, <3>3, <3>4 DEF AdFinishesJob, AdapterLeaves
  <2>2. AdapterSays
    BY <1>16, SaysPlain, SaysNothing DEF AdFinishesJob
  <2>3. AdapterLeases
    BY <1>0, <1>s, <1>16 DEF AdFinishesJob, AdapterLeases, Adapters, Starts, Ends, StartsJob, AdIdle
  <2> QED BY <2>1, <2>2, <2>3
<1> QED BY <1>1, <1>2, <1>3, <1>4, <1>5, <1>6, <1>7, <1>8, <1>9, <1>10, <1>11, <1>12, <1>13, <1>14, <1>15, <1>16 DEF Adapter

LEMMA AdapterTyped == ASSUME Typed, Adapter PROVE Typed'
<1>1. AdapterLeaves /\ AdapterSays /\ AdapterLeases
  BY AdapterReach
<1>2. TypedGate'
  BY <1>1 DEF AdapterLeaves, Typed, TypedGate
<1>3. TypedMission'
  BY <1>1 DEF AdapterLeaves, Typed, TypedMission
<1>4. TypedAd'
  <2>1. PICK added \in Seq(Events) : events' = events \o added
    BY <1>1 DEF AdapterSays
  <2> QED BY <1>1, <2>1 DEF AdapterLeaves, Typed, TypedAd
<1>5. TypedSup'
  BY <1>1 DEF AdapterLeaves, Typed, TypedSup
<1>6. TypedFiles'
  <2>1. work' \in [Writers -> Jobs]
    <3>1. \A job \in {AcceptedJob, FinishJob, AcquiredJob, ReleasedJob, Rest} : job \in Jobs
      BY RestTyped, JobsFresh DEF Fresh
    <3>2. work \in [Writers -> Jobs] /\ "adapter" \in Writers
      BY DEF Typed, TypedFiles, Writers
    <3>3. work' = work \/ \E job \in {AcceptedJob, FinishJob, AcquiredJob, ReleasedJob, Rest} :
             work' = [work EXCEPT !["adapter"] = job]
      BY <1>1 DEF AdapterLeases, StartsJob
    <3> QED BY <3>1, <3>2, <3>3
  <2> QED BY <1>1, <2>1 DEF AdapterLeaves, Typed, TypedFiles
<1> QED BY <1>2, <1>3, <1>4, <1>5, <1>6 DEF Typed

(* An update of the receipts is one of four: the next content is prepared   *)
(* from what was read, the update is left out, it raises, or the file is    *)
(* replaced.  Nothing is prepared for a receipt that is closed.             *)
Doing(w) == Head(work[w].todo)
UpdatePrepared(w) ==
    /\ work[w].next = Nothing /\ work[w].todo # <<>> /\ Issued /\ UNCHANGED revocation
    /\ UNCHANGED <<admission, scope, lifecycle>>
    /\ \E value :
          /\ work' = [work EXCEPT ![w].next = value]
          /\ \/ Doing(w).do = "scope" /\ value \in Scopes /\ scope.st # "CLOSED"
             \/ /\ Doing(w).do # "scope" /\ value \in Lifecycles /\ lifecycle.st # "CLOSED"
                /\ lifecycle.acq \/ (Doing(w).do = "lifecycle" /\ Doing(w).acq) => value.acq
UpdateSkipped(w) ==
    /\ work[w].next = Nothing /\ work[w].todo # <<>> /\ Issued
    /\ work' = [work EXCEPT ![w].todo = Tail(@)]
    /\ Doing(w).skip \/ Doing(w).do \in {"close", "revoke"}
    /\ \/ UNCHANGED revocation
       \/ revocation = Nothing /\ Closed /\ revocation' \in Revocations
    /\ UNCHANGED <<admission, scope, lifecycle>>
UpdateRaises(w) ==
    /\ work[w].todo # <<>>
    /\ work' = [work EXCEPT ![w].todo = <<>>, ![w].next = Nothing, ![w].raised = TRUE]
    /\ UNCHANGED <<admission, scope, lifecycle, revocation>>
UpdateWritten(w) ==
    /\ work[w].next # Nothing /\ work[w].todo # <<>> /\ Issued
    /\ work' = [work EXCEPT ![w].todo = Tail(@), ![w].next = Nothing]
    /\ \/ /\ Doing(w).do = "scope" /\ work[w].next \in Scopes
          /\ scope' = work[w].next /\ UNCHANGED lifecycle
       \/ /\ Doing(w).do # "scope" /\ work[w].next \in Lifecycles
          /\ lifecycle' = work[w].next /\ UNCHANGED scope
    /\ UNCHANGED <<admission, revocation>>

LEMMA UpdateReach ==
    ASSUME Typed, Filed, NEW w \in Writers, Updates(w)
    PROVE  UpdatePrepared(w) \/ UpdateSkipped(w) \/ UpdateRaises(w) \/ UpdateWritten(w)
<1>0. /\ work[w] \in Jobs /\ scope \in Scopes \cup {Nothing}
      /\ lifecycle \in Lifecycles \cup {Nothing} /\ revocation \in Revocations \cup {Nothing}
  BY DEF Typed, TypedFiles
<1>n. Nothing \notin Scopes /\ Nothing \notin Lifecycles /\ Nothing \notin Revocations
      /\ Nothing.st = "none"
  BY DEF Nothing, Scopes, Lifecycles, Revocations
<1>1. CASE Reads(w)
  <2> DEFINE op == Head(work[w].todo)
  <2>1. /\ work[w].todo # <<>> /\ work[w].next = Nothing
        /\ UNCHANGED <<admission, scope, lifecycle>> /\ op = Doing(w)
    BY <1>1 DEF Reads, Doing
  <2>2. op \in Ops
    BY <1>0, <2>1 DEF Jobs
  <2>3. ~Issued => op.do = "scope"
    BY <2>1 DEF Filed
  <2>4. \/ op.do = "scope" /\ ReadsScope(w, op) /\ UNCHANGED revocation
        \/ op.do = "lifecycle" /\ ReadsLifecycle(w, op) /\ UNCHANGED revocation
        \/ op.do = "close" /\ ReadsToClose(w, op) /\ UNCHANGED revocation
        \/ op.do = "revoke" /\ Revokes(w)
    BY <1>1 DEF Reads
  <2> HIDE DEF op
  <2>r. ASSUME Raise(w), UNCHANGED revocation PROVE UpdateRaises(w)
    BY <2>1, <2>r DEF Raise, UpdateRaises
  <2>5. CASE op.do = "scope" /\ ReadsScope(w, op) /\ UNCHANGED revocation
    <3>1. CASE op.skip /\ scope.st = "CLOSED"
      <4>1. Skip(w) /\ Issued
        BY <1>n, <2>5, <3>1 DEF ReadsScope, Issued
      <4> QED BY <2>1, <2>5, <3>1, <4>1 DEF Skip, UpdateSkipped
    <3>2. CASE ~(op.skip /\ scope.st = "CLOSED") /\ ~ScopeMay(op)
      BY <2>5, <2>r, <3>2 DEF ReadsScope
    <3>3. CASE ~(op.skip /\ scope.st = "CLOSED") /\ ScopeMay(op)
      <4> DEFINE value == [st |-> op.to, rel |-> scope.rel \/ op.rel, by |-> w]
      <4>1. work' = [work EXCEPT ![w].next = value]
        BY <2>5, <3>3 DEF ReadsScope, Prepare
      <4>2. scope.st \in {"ACTIVE", "GOAL_ACCEPTED", "LEASE_ACTIVE"}
            /\ op.to \in ScopeNext[scope.st]
        BY <3>3 DEF ScopeMay, ScopeNext
      <4>3. Issued /\ scope.st # "CLOSED" /\ scope.rel \in BOOLEAN
        BY <1>0, <1>n, <4>2 DEF Issued, Scopes
      <4>4. op.to \in {"ACTIVE", "GOAL_ACCEPTED", "LEASE_ACTIVE", "CLOSED"}
        BY <4>2 DEF ScopeNext
      <4>5. value \in Scopes
        BY <2>2, <4>3, <4>4 DEF Scopes, Ops
      <4> HIDE DEF value
      <4> QED BY <2>1, <2>5, <4>1, <4>3, <4>5 DEF UpdatePrepared
    <3> QED BY <3>1, <3>2, <3>3
  <2>6. CASE op.do = "lifecycle" /\ ReadsLifecycle(w, op) /\ UNCHANGED revocation
    <3>i. Issued /\ lifecycle \in Lifecycles /\ scope \in Scopes
      BY <1>0, <2>3, <2>6 DEF Filed, Issued
    <3>1. CASE op.skip /\ lifecycle.st = "CLOSED"
      <4>1. Skip(w)
        BY <2>6, <3>1 DEF ReadsLifecycle
      <4> QED BY <2>1, <2>6, <3>i, <3>1, <4>1 DEF Skip, UpdateSkipped
    <3>2. CASE ~(op.skip /\ lifecycle.st = "CLOSED") /\ ~LifecycleMay(op)
      BY <2>6, <2>r, <3>2 DEF ReadsLifecycle
    <3>3. CASE ~(op.skip /\ lifecycle.st = "CLOSED") /\ LifecycleMay(op)
      <4> DEFINE value == [st |-> LifecycleTo(op), acq |-> lifecycle.acq \/ op.acq,
                           rel |-> lifecycle.rel \/ op.rel, scope |-> scope, by |-> w]
      <4>1. work' = [work EXCEPT ![w].next = value]
        BY <2>6, <3>3 DEF ReadsLifecycle, Prepare
      <4>2. lifecycle.st \in {"AUTHORIZED", "GOAL_ACCEPTED", "LEASE_ACTIVE", "LEASE_RELEASED"}
            /\ LifecycleTo(op) \in LifecycleNext[lifecycle.st]
        BY <3>3 DEF LifecycleMay, LifecycleNext
      <4>3. LifecycleTo(op) \in {"AUTHORIZED", "GOAL_ACCEPTED", "LEASE_ACTIVE",
                                 "LEASE_RELEASED"}
        BY <4>2 DEF LifecycleNext
      <4>4. value \in Lifecycles /\ (lifecycle.acq \/ op.acq => value.acq)
        BY <2>2, <3>i, <4>3 DEF Lifecycles, Ops
      <4>5. lifecycle.st # "CLOSED"
        BY <4>2
      <4> HIDE DEF value
      <4> QED BY <2>1, <2>6, <3>i, <4>1, <4>4, <4>5 DEF UpdatePrepared
    <3> QED BY <3>1, <3>2, <3>3
  <2>7. CASE op.do = "close" /\ ReadsToClose(w, op) /\ UNCHANGED revocation
    <3>i. Issued /\ lifecycle \in Lifecycles
      BY <1>0, <2>3, <2>7 DEF Filed, Issued
    <3>1. CASE lifecycle.st = "CLOSED"
      <4>1. Skip(w)
        BY <2>7, <3>1 DEF ReadsToClose
      <4> QED BY <2>1, <2>7, <3>i, <4>1 DEF Skip, UpdateSkipped
    <3>2. CASE lifecycle.st # "CLOSED" /\ lifecycle.acq /\ ~op.rel
      BY <2>7, <2>r, <3>2 DEF ReadsToClose
    <3>3. CASE lifecycle.st # "CLOSED" /\ ~(lifecycle.acq /\ ~op.rel)
      <4> DEFINE value == [lifecycle EXCEPT !.st = "CLOSED", !.by = w]
      <4>1. work' = [work EXCEPT ![w].next = value]
        BY <2>7, <3>3 DEF ReadsToClose, Prepare
      <4>2. value \in Lifecycles /\ value.acq = lifecycle.acq
        BY <3>i DEF Lifecycles
      <4> HIDE DEF value
      <4> QED BY <2>1, <2>7, <3>i, <3>3, <4>1, <4>2 DEF UpdatePrepared
    <3> QED BY <3>1, <3>2, <3>3
  <2>8. CASE op.do = "revoke" /\ Revokes(w)
    <3>i. Issued /\ lifecycle \in Lifecycles /\ scope \in Scopes
      BY <1>0, <2>3, <2>8 DEF Filed, Issued
    <3>1. CASE Raise(w) /\ UNCHANGED revocation
      BY <2>r, <3>1
    <3>2. CASE /\ Closed /\ revocation = Nothing /\ Skip(w)
               /\ revocation' = [st |-> "REVOKED", acq |-> work[w].acq, rel |-> work[w].rel,
                                 scope |-> scope, life |-> lifecycle]
      <4>1. revocation' \in Revocations
        BY <1>0, <3>i, <3>2 DEF Revocations, Jobs
      <4> QED BY <2>1, <2>8, <3>i, <3>2, <4>1 DEF Skip, UpdateSkipped
    <3> QED BY <2>8, <3>1, <3>2 DEF Revokes, Closed
  <2> QED BY <2>4, <2>5, <2>6, <2>7, <2>8
<1>2. CASE Writes(w)
  BY <1>2 DEF Writes, Filed, UpdateWritten, Doing
<1>3. CASE Collides(w)
  BY <1>3 DEF Collides, Raise, UpdateRaises, Filed
<1> QED BY <1>1, <1>2, <1>3 DEF Updates

LEMMA ReceiptsTyped == ASSUME Typed, Filed, Receipts PROVE Typed'
<1>1. PICK w \in Writers : Updates(w)
  BY DEF Receipts
<1>2. work \in [Writers -> Jobs] /\ work[w].todo \in Seq(Ops)
  BY DEF Typed, TypedFiles, Jobs
<1>3. work[w].todo # <<>> => Tail(work[w].todo) \in Seq(Ops)
  BY <1>2
<1>4. TypedFiles'
  <2>1. CASE UpdatePrepared(w)
    <3>1. PICK value \in Scopes \cup Lifecycles : work' = [work EXCEPT ![w].next = value]
      BY <2>1 DEF UpdatePrepared
    <3>2. work' \in [Writers -> Jobs]
      BY <1>2, <3>1 DEF Jobs
    <3> QED BY <2>1, <3>2 DEF UpdatePrepared, Typed, TypedFiles
  <2>2. CASE UpdateSkipped(w)
    <3>1. work' \in [Writers -> Jobs]
      <4>1. work[w] \in Jobs /\ work[w].todo # <<>>
        BY <1>2, <2>2 DEF UpdateSkipped
      <4>2. [work[w] EXCEPT !.todo = Tail(@)] \in Jobs
        BY <1>3, <4>1 DEF Jobs
      <4>3. work' = [work EXCEPT ![w] = [work[w] EXCEPT !.todo = Tail(@)]]
        BY <1>2, <2>2 DEF UpdateSkipped
      <4> QED BY <1>2, <4>2, <4>3
    <3> QED BY <2>2, <3>1 DEF UpdateSkipped, Typed, TypedFiles
  <2>3. CASE UpdateRaises(w)
    <3>a. work[w] \in Jobs /\ <<>> \in Seq(Ops)
      BY <1>2
    <3>b. [work[w] EXCEPT !.todo = <<>>, !.next = Nothing, !.raised = TRUE] \in Jobs
      BY <3>a DEF Jobs
    <3>c. work' = [work EXCEPT ![w] = [work[w] EXCEPT !.todo = <<>>, !.next = Nothing,
                                                      !.raised = TRUE]]
      BY <1>2, <2>3 DEF UpdateRaises
    <3>1. work' \in [Writers -> Jobs]
      BY <1>2, <3>b, <3>c
    <3> QED BY <2>3, <3>1 DEF UpdateRaises, Typed, TypedFiles
  <2>4. CASE UpdateWritten(w)
    <3>1. work' \in [Writers -> Jobs]
      BY <1>2, <1>3, <2>4 DEF UpdateWritten, Jobs
    <3> QED BY <2>4, <3>1 DEF UpdateWritten, Typed, TypedFiles
  <2> QED BY <1>1, <2>1, <2>2, <2>3, <2>4, UpdateReach
<1> QED BY <1>4, TypesKept DEF Receipts, Typed

LEMMA LedgersTyped ==
    ASSUME NEW l \in Ledgers, NEW phase \in Phases, NEW ready \in SUBSET Phases
    PROVE  Advance(l, ready) \in Ledgers /\ FailAt(l, phase) \in Ledgers
BY DEF Ledgers, PhaseStates, Advance, FailAt

LEMMA ReopenTyped ==
    ASSUME NEW l \in Ledgers, NEW phase PROVE ReopenFrom(l, phase) \in Ledgers
<1>1. \A p \in Phases : (IF p >= phase THEN "NOT RUN" ELSE l[p]) \in PhaseStates
  BY DEF Ledgers, PhaseStates
<1> QED BY <1>1 DEF Ledgers, ReopenFrom

(* The supervisor leaves its loop: the admission is revoked, and unless the *)
(* interlock was closed before, or nothing was ever opened, it stops.       *)
Departing(s) ==
    /\ failed' \in BOOLEAN
    /\ admission' = IF admission = "none" THEN "none" ELSE "REVOKED"
    /\ sup' \in Supervisors /\ sup'.stage = s.stage /\ ~sup'.open /\ sup'.terminal = None
    /\ events' \in Seq(LeaseEvents)
    /\ \/ /\ sup'.pc = "ended" /\ verified' = "yes" /\ ~sup'.closed /\ estop' = estop
          /\ Issued => s.closed
       \/ /\ sup'.pc = "wait" /\ verified' = verified /\ estop' = TRUE
          /\ Issued \/ s.open \/ s.stage # ""

LEMMA LeavesReach ==
    ASSUME Typed, NEW s \in Supervisors, NEW queue \in Seq(Events), NEW why,
           Leaves(s, queue, why)
    PROVE  Departing(s)
<1> DEFINE out == [s EXCEPT !.ready = FALSE, !.clicked = FALSE, !.terminal = None,
                            !.open = FALSE, !.admitted = FALSE, !.heard = {},
                            !.trans = @ \cup (s.heard \cap LeaseEvents)]
           closed == s.closed /\ revocation # Nothing /\ lifecycle.st = "CLOSED"
           untouched == ~Issued /\ ~s.open /\ s.stage = ""
           prior == revocation # Nothing
<1>1. s.heard \cap LeaseEvents \subseteq Events /\ s.trans \subseteq Events
  BY DEF Supervisors
<1>2. out \in Supervisors /\ out.stage = s.stage /\ ~out.open /\ out.terminal = None
  BY <1>1 DEF Supervisors
<1>3. /\ failed' \in BOOLEAN
      /\ admission' = IF admission = "none" THEN "none" ELSE "REVOKED"
  BY DEF Leaves
<1>4. \/ /\ closed \/ untouched
         /\ sup' = Over(out) /\ verified' = "yes" /\ events' = <<>> /\ UNCHANGED estop
      \/ /\ ~closed /\ ~untouched
         /\ sup' = [out EXCEPT !.pc = "wait", !.prior = prior]
         /\ Stops(TRUE) /\ events' = OfLease(queue) /\ UNCHANGED verified
  BY DEF Leaves
<1>5. prior \in BOOLEAN /\ OfLease(queue) \in Seq(LeaseEvents) /\ <<>> \in Seq(LeaseEvents)
  BY LeaseEventsKept
<1> HIDE DEF out, prior
<1>6. CASE /\ closed \/ untouched
           /\ sup' = Over(out) /\ verified' = "yes" /\ events' = <<>> /\ UNCHANGED estop
  <2>1. /\ Over(out) \in Supervisors /\ Over(out).stage = s.stage /\ ~Over(out).open
        /\ Over(out).terminal = None /\ Over(out).pc = "ended" /\ ~Over(out).closed
    BY <1>2 DEF Over, Supervisors, Leaving, Seen
  <2> QED BY <1>3, <1>5, <1>6, <2>1 DEF Departing
<1>7. CASE /\ ~closed /\ ~untouched
           /\ sup' = [out EXCEPT !.pc = "wait", !.prior = prior]
           /\ Stops(TRUE) /\ events' = OfLease(queue) /\ UNCHANGED verified
  <2>1. /\ sup' \in Supervisors /\ sup'.stage = s.stage /\ ~sup'.open
        /\ sup'.terminal = None /\ sup'.pc = "wait"
    BY <1>2, <1>5, <1>7 DEF Supervisors, Leaving
  <2> QED BY <1>3, <1>5, <1>7, <2>1 DEF Departing, Stops
<1> QED BY <1>4, <1>6, <1>7

Departs ==
    /\ sup.pc \in Loop /\ Departing(sup) /\ ledger' \in Ledgers
    /\ UNCHANGED <<gate, mission, status, ad, scope, lifecycle, revocation, work>>
    /\ calls' = [i \in DOMAIN calls |-> [calls[i] EXCEPT !.live = FALSE]] /\ answer' = None
    /\ execution' = execution

Departures ==
    \/ SupRejects \/ SupRejectsCommand \/ SupStops \/ SupTimesOut \/ SupRejectsGoal
    \/ SupCannotOpen \/ SupCannotClose \/ SupLosesReadiness

LEMMA DeparturesReach == ASSUME Typed, Departures PROVE Departs
<1>0. sup \in Supervisors /\ events \in Seq(Events) /\ ledger \in Ledgers
  BY DEF Typed, TypedAd, TypedSup
<1>1. ASSUME sup.pc \in Loop, NEW why, SupLeaves(why) PROVE Departs
  BY <1>0, <1>1, LeavesReach DEF SupLeaves, GivesUpCalls, SupOthers, missionVars, Departs
<1>2. CASE SupLosesReadiness
  <2>1. Leaves(sup, events, "failure") /\ sup.pc \in Loop
    BY <1>2 DEF SupLosesReadiness, InLoop, Loop
  <2>2. ledger' \in Ledgers
    <3>1. PICK phase \in Phases : ledger' = FailAt(ledger, phase)
      BY <1>2 DEF SupLosesReadiness
    <3> QED BY <1>0, <3>1, LedgersTyped
  <2> QED BY <1>0, <1>2, <2>1, <2>2, LeavesReach
          DEF SupLosesReadiness, GivesUpCalls, SupOthers, missionVars, Departs
<1> QED BY <1>1, <1>2 DEF Departures, SupRejects, SupRejectsCommand, SupStops, SupTimesOut,
           SupRejectsGoal, SupCannotOpen, SupCannotClose, SupFails, InLoop, Loop

HearsOnly(e) ==
    /\ sup' \in Supervisors /\ sup'.pc = sup.pc /\ sup'.stage = sup.stage
    /\ sup'.open = sup.open /\ sup'.closed = sup.closed
    /\ sup'.heard = sup.heard \/ sup'.heard = sup.heard \cup {e}
    /\ sup'.terminal = "OK" => sup.terminal = "OK" \/ e = "TERMINAL_OK"

LEMMA HearsReach ==
    ASSUME Typed, SupHears
    PROVE  \/ Departs
           \/ /\ sup.pc = "observe" /\ events # <<>> /\ Head(events) # "FAULT"
              /\ events' = Tail(events)
              /\ UNCHANGED <<gateVars, missionVars, ad, ledger, resultVars, receiptVars>>
              /\ HearsOnly(Head(events))
<1>0. sup \in Supervisors /\ events \in Seq(Events)
  BY DEF Typed, TypedAd, TypedSup
<1> DEFINE e == Head(events)
<1>1. sup.pc = "observe" /\ events # <<>> /\ e \in Events
  BY <1>0 DEF SupHears, InLoop
<1>2. CASE /\ \/ e = "READY" /\ sup' = [sup EXCEPT !.ready = TRUE]
              \/ /\ e = "CLICK" /\ sup.admitted /\ ~sup.clicked
                 /\ sup' = [sup EXCEPT !.clicked = TRUE]
              \/ e = "ACCEPTED" /\ sup.clicked /\ sup' = Heard({e})
              \/ e \in {"ACQUIRED", "RELEASED"} /\ sup' = Heard({e})
              \/ e = "TERMINAL_OK" /\ sup' = [sup EXCEPT !.terminal = "OK"]
              \/ e = "TERMINAL_BAD" /\ sup' = [sup EXCEPT !.terminal = "BAD"]
           /\ events' = Tail(events)
           /\ UNCHANGED <<estop, calls, answer, admission, failed, verified>>
  <2>1. UNCHANGED <<gateVars, missionVars, ad, ledger, resultVars, receiptVars>>
    BY <1>2 DEF SupHears, SupOthers, gateVars, missionVars, resultVars, receiptVars
  <2> HIDE DEF e
  <2>2. e # "FAULT"
    BY <1>2
  <2>3. HearsOnly(e)
    <3>2. CASE sup' = [sup EXCEPT !.ready = TRUE]
      BY <1>0, <3>2 DEF Supervisors, HearsOnly
    <3>3. CASE sup' = [sup EXCEPT !.clicked = TRUE]
      BY <1>0, <3>3 DEF Supervisors, HearsOnly
    <3>4. CASE sup' = Heard({e})
      <4>1. sup.heard \cup {e} \in SUBSET Events
        BY <1>0, <1>1 DEF Supervisors, e
      <4>2. sup' = [sup EXCEPT !.heard = sup.heard \cup {e}]
        BY <3>4 DEF Heard
      <4> QED BY <1>0, <4>1, <4>2 DEF Supervisors, HearsOnly
    <3>5. CASE e = "TERMINAL_OK" /\ sup' = [sup EXCEPT !.terminal = "OK"]
      BY <1>0, <3>5 DEF Supervisors, HearsOnly
    <3>6. CASE sup' = [sup EXCEPT !.terminal = "BAD"]
      BY <1>0, <3>6 DEF Supervisors, HearsOnly
    <3> QED BY <1>2, <3>2, <3>3, <3>4, <3>5, <3>6
  <2> QED BY <1>1, <1>2, <2>1, <2>2, <2>3 DEF e
<1>3. CASE Leaves(sup, Tail(events), "failure") /\ GivesUpCalls
  <2>1. Tail(events) \in Seq(Events)
    BY <1>0, <1>1
  <2>2. UNCHANGED <<gate, mission, status, ad, scope, lifecycle, revocation, work, execution,
                    ledger>>
    BY DEF SupHears, SupOthers, missionVars
  <2>3. sup.pc \in Loop /\ ledger' \in Ledgers
    BY <1>1, <2>2 DEF Loop, Typed, TypedSup
  <2> QED BY <1>0, <1>3, <2>1, <2>2, <2>3, LeavesReach DEF GivesUpCalls, Departs
<1> QED BY <1>2, <1>3 DEF SupHears

(* The other steps of the supervisor, by what becomes of its motion state. *)
Moves(pc, stage, open, closed) ==
    /\ sup' \in Supervisors /\ sup'.pc = pc /\ sup'.stage = stage /\ sup'.open = open
    /\ sup'.closed = closed /\ sup'.heard = sup.heard /\ sup'.terminal = sup.terminal

LEMMA MovesReach ==
    ASSUME Typed
    PROVE  /\ SupRecordsReadiness => Moves("observe", sup.stage, sup.open, sup.closed)
           /\ SupSamples => Moves(sup.pc, sup.stage, sup.open, sup.closed)
           /\ SupIssues => Moves("open", "OPENING", sup.open, sup.closed)
           /\ SupHearsOpen => Moves("openSeen", sup.stage, sup.open, sup.closed)
           /\ SupSeesOpen => Moves("receipt", sup.stage, TRUE, sup.closed)
           /\ SupAdmits => Moves("observe", "ADMITTED", sup.open, sup.closed)
           /\ SupCompletes => Moves("close", sup.stage, sup.open, sup.closed)
           /\ SupHearsClose => Moves(IF sup.pc = "close" THEN "closeSeen" ELSE "revSeen",
                                     sup.stage, sup.open, sup.closed)
           /\ SupHearsLate => Moves("wait", sup.stage, sup.open, sup.closed)
           /\ SupSeesNoLease => Moves("revClose", sup.stage, sup.open, sup.closed)
           /\ SupCannotRevoke => Moves("ended", sup.stage, sup.open, FALSE)
           /\ SupSeesBlocked => Moves(IF sup.prior THEN "ended" ELSE "write",
                                      sup.stage, sup.open, FALSE)
           /\ SupRevokes => Moves("ended", sup.stage, sup.open, FALSE)
<1>0. sup \in Supervisors /\ gate \in Seen /\ events \in Seq(Events)
  BY DEF Typed, TypedSup, TypedGate, TypedAd, Seen
<1> USE DEF Moves, Loop, Leaving
<1>1. SupRecordsReadiness => Moves("observe", sup.stage, sup.open, sup.closed)
  BY <1>0 DEF SupRecordsReadiness, InLoop
<1>2. ASSUME SupSamples PROVE Moves(sup.pc, sup.stage, sup.open, sup.closed)
  <2> DEFINE trans == sup.trans \cup (IF gate.owner = "mission" THEN {"ACQUIRED"} ELSE {})
                              \cup (IF sup.safety.owner = "mission" /\ gate.owner = None
                                    THEN {"RELEASED"} ELSE {})
  <2>1. trans \in SUBSET Events
    <3>1. sup.trans \subseteq Events /\ "ACQUIRED" \in Events /\ "RELEASED" \in Events
      BY <1>0 DEF Supervisors, Events
    <3> QED BY <3>1
  <2>2. sup' = [sup EXCEPT !.safety = gate, !.trans = trans]
    BY <1>2 DEF SupSamples
  <2> HIDE DEF trans
  <2> QED BY <1>0, <2>1, <2>2 DEF Supervisors
<1>3. SupIssues => Moves("open", "OPENING", sup.open, sup.closed)
  BY <1>0 DEF SupIssues, Supervisors
<1>4. SupHearsOpen => Moves("openSeen", sup.stage, sup.open, sup.closed)
  BY <1>0 DEF SupHearsOpen, Supervisors
<1>5. SupSeesOpen => Moves("receipt", sup.stage, TRUE, sup.closed)
  BY <1>0 DEF SupSeesOpen, Supervisors
<1>6. SupAdmits => Moves("observe", "ADMITTED", sup.open, sup.closed)
  BY <1>0 DEF SupAdmits, Supervisors
<1>7. SupCompletes => Moves("close", sup.stage, sup.open, sup.closed)
  BY <1>0 DEF SupCompletes, Supervisors
<1>8. SupHearsClose => Moves(IF sup.pc = "close" THEN "closeSeen" ELSE "revSeen",
                             sup.stage, sup.open, sup.closed)
  BY <1>0 DEF SupHearsClose, Supervisors
<1>9. ASSUME SupHearsLate PROVE Moves("wait", sup.stage, sup.open, sup.closed)
  <2>1. sup.trans \cup {Head(events)} \in SUBSET Events
    <3>1. sup.trans \subseteq Events
      BY <1>0 DEF Supervisors
    <3>2. events # <<>>
      BY <1>9 DEF SupHearsLate
    <3>3. Head(events) \in Events
      BY <1>0, <3>2
    <3> QED BY <3>1, <3>3
  <2>2. sup' = [sup EXCEPT !.trans = sup.trans \cup {Head(events)}] /\ sup.pc = "wait"
    BY <1>9 DEF SupHearsLate
  <2> QED BY <1>0, <2>1, <2>2 DEF Supervisors
<1>10. ASSUME SupSeesNoLease PROVE Moves("revClose", sup.stage, sup.open, sup.closed)
  <2> DEFINE prior == sup.prior /\ lifecycle.st = "CLOSED"
  <2>1. prior \in BOOLEAN /\ sup' = [sup EXCEPT !.pc = "revClose", !.prior = prior]
    BY <1>0, <1>10 DEF SupSeesNoLease, Supervisors
  <2> HIDE DEF prior
  <2> QED BY <1>0, <2>1 DEF Supervisors
<1>11. Over(sup) \in Supervisors /\ Over(sup).pc = "ended" /\ Over(sup).stage = sup.stage
       /\ Over(sup).open = sup.open /\ Over(sup).closed = FALSE
       /\ Over(sup).heard = sup.heard /\ Over(sup).terminal = sup.terminal
  BY <1>0 DEF Over, Supervisors, Seen
<1>12. SupCannotRevoke => Moves("ended", sup.stage, sup.open, FALSE)
  BY <1>11 DEF SupCannotRevoke, Unverified
<1>13. ASSUME SupSeesBlocked
       PROVE  Moves(IF sup.prior THEN "ended" ELSE "write", sup.stage, sup.open, FALSE)
  <2>1. CASE sup.prior
    BY <1>11, <1>13, <2>1 DEF SupSeesBlocked
  <2>2. CASE ~sup.prior
    <3>1. sup' = [Over(sup) EXCEPT !.pc = "write"]
      BY <1>13, <2>2 DEF SupSeesBlocked
    <3> QED BY <1>11, <2>2, <3>1 DEF Supervisors
  <2> QED BY <2>1, <2>2
<1>14. SupRevokes => Moves("ended", sup.stage, sup.open, FALSE)
  BY <1>11 DEF SupRevokes
<1> QED BY <1>1, <1>2, <1>3, <1>4, <1>5, <1>6, <1>7, <1>8, <1>9, <1>10, <1>12, <1>13, <1>14

(* The completion: the interlock is closed, so that nothing is stopped. *)
Closing == [sup EXCEPT !.closed = TRUE, !.open = FALSE, !.admitted = FALSE]
LEMMA PassesReach ==
    ASSUME Typed, SupPasses
    PROVE  /\ sup.pc = "closeSeen" /\ Closing \in Supervisors /\ Departing(Closing)
           /\ Closing.stage = sup.stage /\ Closing.open = FALSE
           /\ UNCHANGED <<gate, mission, status, ad, scope, lifecycle, revocation, work>>
           /\ calls' = [i \in DOMAIN calls |-> [calls[i] EXCEPT !.live = FALSE]]
           /\ answer' = None /\ ledger' = ledger /\ execution' = "PASS"
<1>1. sup \in Supervisors /\ events \in Seq(Events)
  BY DEF Typed, TypedAd, TypedSup
<1>2. Closing \in Supervisors /\ Closing.stage = sup.stage /\ Closing.open = FALSE
  BY <1>1 DEF Closing, Supervisors
<1>3. Leaves(Closing, events, "short_goal_completed")
  BY DEF SupPasses, Closing
<1> QED BY <1>1, <1>2, <1>3, LeavesReach DEF SupPasses, GivesUpCalls, SupOthers, missionVars

(* What the requests that wait become. *)
GivenUp == [i \in DOMAIN calls |-> [calls[i] EXCEPT !.live = FALSE]]
LEMMA CallsGivenUp ==
    ASSUME TypedGate
    PROVE  /\ GivenUp \in Seq(Requests) /\ Len(GivenUp) = Len(calls)
           /\ DOMAIN GivenUp = DOMAIN calls
           /\ \A i \in DOMAIN calls : GivenUp[i].on = calls[i].on /\ ~GivenUp[i].live
<1>1. Len(calls) \in Nat /\ DOMAIN calls = 1 .. Len(calls)
      /\ \A i \in DOMAIN calls : calls[i] \in Requests
  BY DEF TypedGate
<1>2. \A i \in DOMAIN calls : /\ [calls[i] EXCEPT !.live = FALSE] \in Requests
                              /\ [calls[i] EXCEPT !.live = FALSE].on = calls[i].on
                              /\ ~[calls[i] EXCEPT !.live = FALSE].live
  BY <1>1 DEF Requests
<1>3. GivenUp \in [1 .. Len(calls) -> Requests]
  BY <1>1, <1>2 DEF GivenUp
<1>4. GivenUp \in Seq(Requests) /\ Len(GivenUp) = Len(calls)
  BY <1>1, <1>3
<1> QED BY <1>1, <1>2, <1>4 DEF GivenUp

LEMMA CallsAsked ==
    ASSUME TypedGate, NEW on \in BOOLEAN, AsksInterlock(on)
    PROVE  /\ calls' \in Seq(Requests) /\ Len(calls') = Len(calls) + 1 /\ answer' = None
           /\ calls'[Len(calls')] = [on |-> on, live |-> TRUE]
           /\ \A i \in 1 .. Len(calls) : calls'[i].on = calls[i].on /\ ~calls'[i].live
<1>1. calls' = Append(GivenUp, [on |-> on, live |-> TRUE]) /\ answer' = None
  BY DEF AsksInterlock, GivenUp
<1>2. [on |-> on, live |-> TRUE] \in Requests
  BY DEF Requests
<1>3. DOMAIN calls = 1 .. Len(calls)
  BY DEF TypedGate
<1> QED BY <1>1, <1>2, <1>3, CallsGivenUp, AppendProperties

Quits == /\ Departing(sup) \/ (sup.pc = "closeSeen" /\ Departing(Closing))
         /\ calls' = GivenUp /\ answer' = None /\ ledger' \in Ledgers
         /\ UNCHANGED <<gate, mission, status, ad, scope, lifecycle, revocation, work>>
         /\ execution' = execution \/ (sup.pc = "closeSeen" /\ execution' = "PASS")
         /\ sup.pc \in Loop

LEMMA QuitsReach == ASSUME Typed, Departs \/ SupPasses PROVE Quits
<1>1. CASE Departs
  BY <1>1 DEF Departs, Quits, GivenUp
<1>2. CASE SupPasses
  BY <1>2, PassesReach DEF Quits, GivenUp, Typed, TypedSup, Loop
<1> QED BY <1>1, <1>2

LEMMA QuitsTyped == ASSUME Typed, Quits PROVE Typed'
<1>1. /\ failed' \in BOOLEAN /\ sup' \in Supervisors /\ events' \in Seq(LeaseEvents)
      /\ admission' \in {"none", "REVOKED"} /\ verified' \in {verified, "yes"}
      /\ estop' \in {estop, TRUE}
  BY DEF Quits, Departing
<1>2. events' \in Seq(Events)
  <2>1. LeaseEvents \subseteq Events
    BY DEF LeaseEvents, Events
  <2> QED BY <1>1, <2>1, SeqMonotonic
<1>3. TypedGate'
  BY <1>1, CallsGivenUp DEF Quits, Typed, TypedGate
<1>4. TypedMission' /\ TypedAd'
  BY <1>2 DEF Quits, Typed, TypedMission, TypedAd
<1>5. TypedSup'
  BY <1>1 DEF Quits, Typed, TypedSup
<1>6. TypedFiles'
  BY <1>1 DEF Quits, Typed, TypedFiles
<1> QED BY <1>3, <1>4, <1>5, <1>6 DEF Typed

LEMMA SupervisorSplit ==
    ASSUME Typed, Supervisor
    PROVE  \/ Quits
           \/ (SupHears /\ ~Quits) \/ SupRecordsReadiness \/ SupSamples \/ SupIssues
           \/ SupHearsOpen \/ SupSeesOpen \/ SupAdmits \/ SupCompletes \/ SupHearsClose
           \/ SupHearsLate \/ SupSeesNoLease \/ SupCannotRevoke \/ SupSeesBlocked
           \/ SupRevokes
BY QuitsReach, DeparturesReach DEF Supervisor, Departures

LEMMA SupervisorTyped == ASSUME Typed, Supervisor PROVE Typed'
<1> USE DEF Typed
<1>0. CASE Quits
  BY <1>0, QuitsTyped
<1>1. CASE SupRecordsReadiness
  <2>1. ledger' \in Ledgers
    <3>1. PICK ready \in SUBSET Phases :
             LET after == Advance(ledger, ready) IN
             ledger' = IF Lost(after, ready) = {} THEN after
                       ELSE ReopenFrom(after, FirstLost(after, ready))
      BY <1>1 DEF SupRecordsReadiness
    <3>2. Advance(ledger, ready) \in Ledgers
      <4>1. ledger \in Ledgers
        BY DEF TypedSup
      <4>2. 1 \in Phases
        BY PhasesExist DEF Phases
      <4> QED BY <4>1, <4>2, LedgersTyped
    <3> QED BY <3>1, <3>2, ReopenTyped
  <2>2. TypedSup'
    BY <1>1, <2>1, MovesReach DEF SupRecordsReadiness, Moves, TypedSup, resultVars
  <2> QED BY <1>1, <2>2, TypesKept DEF SupRecordsReadiness
<1>2. CASE SupSamples
  <2>2. TypedSup'
    BY <1>2, MovesReach DEF SupSamples, Moves, TypedSup, resultVars
  <2> QED BY <1>2, <2>2, TypesKept DEF SupSamples
<1>3. CASE SupHears /\ ~Quits
  <2>1. /\ events # <<>> /\ events' = Tail(events) /\ sup' \in Supervisors
        /\ UNCHANGED <<gateVars, missionVars, ad, ledger, resultVars, receiptVars>>
    BY <1>3, HearsReach, QuitsReach DEF HearsOnly
  <2>2. TypedAd' /\ TypedSup'
    BY <2>1 DEF TypedAd, TypedSup, resultVars
  <2> QED BY <2>1, <2>2, TypesKept
<1>4. CASE SupIssues
  <2>1. TypedGate'
    BY <1>4, CallsAsked DEF SupIssues, TypedGate
  <2>2. TypedSup'
    BY <1>4, MovesReach DEF SupIssues, Moves, TypedSup, resultVars
  <2>3. TypedFiles'
    <3>1. Grant \in Scopes /\ NewLifecycle \in Lifecycles
      BY DEF Grant, NewLifecycle, Scopes, Lifecycles, Writers
    <3> QED BY <1>4, <3>1 DEF SupIssues, Issue, TypedFiles
  <2> QED BY <1>4, <2>1, <2>2, <2>3, TypesKept DEF SupIssues
<1>5. CASE SupHearsOpen
  <2>1. TypedGate'
    BY <1>5 DEF SupHearsOpen, TypedGate
  <2>2. TypedSup'
    BY <1>5, MovesReach DEF SupHearsOpen, Moves, TypedSup, resultVars
  <2> QED BY <1>5, <2>1, <2>2, TypesKept DEF SupHearsOpen
<1>6. CASE SupSeesOpen
  <2>2. TypedSup'
    BY <1>6, MovesReach DEF SupSeesOpen, Moves, TypedSup, resultVars
  <2> QED BY <1>6, <2>2, TypesKept DEF SupSeesOpen
<1>7. CASE SupAdmits
  <2>2. TypedSup'
    BY <1>7, MovesReach DEF SupAdmits, Moves, TypedSup, resultVars
  <2>3. TypedFiles'
    BY <1>7 DEF SupAdmits, TypedFiles
  <2> QED BY <1>7, <2>2, <2>3, TypesKept DEF SupAdmits
<1>8. CASE SupCompletes
  <2>1. TypedGate'
    BY <1>8, CallsAsked DEF SupCompletes, TypedGate
  <2>2. TypedSup'
    BY <1>8, MovesReach DEF SupCompletes, Moves, TypedSup, resultVars
  <2> QED BY <1>8, <2>1, <2>2, TypesKept DEF SupCompletes
<1>9. CASE SupHearsClose
  <2>1. TypedGate'
    BY <1>9 DEF SupHearsClose, TypedGate
  <2>2. TypedSup'
    BY <1>9, MovesReach DEF SupHearsClose, Moves, TypedSup, resultVars
  <2> QED BY <1>9, <2>1, <2>2, TypesKept DEF SupHearsClose
<1>10. CASE SupHearsLate
  <2>a. TypedAd'
    <3>1. (events' = Tail(events) /\ events # <<>>) \/ events' = <<>>
      BY <1>10 DEF SupHearsLate
    <3>2. ad' = ad
      BY <1>10 DEF SupHearsLate
    <3>3. events \in Seq(Events) /\ ad \in Adapters
      BY DEF TypedAd
    <3>4. events' \in Seq(Events)
      <4>1. events # <<>> => Tail(events) \in Seq(Events)
        BY <3>3, HeadTailProperties
      <4>2. <<>> \in Seq(Events)
        OBVIOUS
      <4> QED BY <3>1, <4>1, <4>2
    <3> QED BY <3>2, <3>3, <3>4 DEF TypedAd
  <2>2. TypedSup'
    BY <1>10, MovesReach DEF SupHearsLate, Moves, TypedSup, resultVars
  <2> QED BY <2>a, <1>10, <2>2, TypesKept DEF SupHearsLate
<1>11. CASE SupSeesNoLease
  <2>1. TypedGate'
    BY <1>11, CallsAsked DEF SupSeesNoLease, TypedGate
  <2>a. TypedAd'
    <3>1. (events' = Tail(events) /\ events # <<>>) \/ events' = <<>>
      BY <1>11 DEF SupSeesNoLease
    <3>2. ad' = ad
      BY <1>11 DEF SupSeesNoLease
    <3>3. events \in Seq(Events) /\ ad \in Adapters
      BY DEF TypedAd
    <3>4. events' \in Seq(Events)
      <4>1. events # <<>> => Tail(events) \in Seq(Events)
        BY <3>3, HeadTailProperties
      <4>2. <<>> \in Seq(Events)
        OBVIOUS
      <4> QED BY <3>1, <4>1, <4>2
    <3> QED BY <3>2, <3>3, <3>4 DEF TypedAd
  <2>2. TypedSup'
    BY <1>11, MovesReach DEF SupSeesNoLease, Moves, TypedSup, resultVars
  <2> QED BY <2>a, <1>11, <2>1, <2>2, TypesKept DEF SupSeesNoLease
<1>12. CASE SupCannotRevoke
  <2>1. TypedGate'
    BY <1>12, CallsGivenUp DEF SupCannotRevoke, Unverified, GivesUpCalls, GivenUp, TypedGate
  <2>a. TypedAd'
    <3>1. (events' = Tail(events) /\ events # <<>>) \/ events' = <<>>
      BY <1>12 DEF SupCannotRevoke, Unverified
    <3>2. ad' = ad
      BY <1>12 DEF SupCannotRevoke, Unverified
    <3>3. events \in Seq(Events) /\ ad \in Adapters
      BY DEF TypedAd
    <3>4. events' \in Seq(Events)
      <4>1. events # <<>> => Tail(events) \in Seq(Events)
        BY <3>3, HeadTailProperties
      <4>2. <<>> \in Seq(Events)
        OBVIOUS
      <4> QED BY <3>1, <4>1, <4>2
    <3> QED BY <3>2, <3>3, <3>4 DEF TypedAd
  <2>2. TypedSup'
    BY <1>12, MovesReach DEF SupCannotRevoke, Unverified, Moves, TypedSup
  <2>3. UNCHANGED missionVars /\ UNCHANGED receiptVars
    BY <1>12 DEF SupCannotRevoke, Unverified, receiptVars
  <2> QED BY <2>a, <2>1, <2>2, <2>3, TypesKept
<1>13. CASE SupSeesBlocked
  <2>2. TypedSup'
    BY <1>13, MovesReach DEF SupSeesBlocked, Moves, TypedSup
  <2>3. TypedFiles'
    <3>1. Acquired \in BOOLEAN /\ Released \in BOOLEAN
      BY DEF Acquired, Released
    <3>2. work' \in [Writers -> Jobs]
      BY <1>13, <3>1, JobsFresh DEF SupSeesBlocked, Starts, Fresh, TypedFiles
    <3> QED BY <1>13, <3>2 DEF SupSeesBlocked, TypedFiles
  <2> QED BY <1>13, <2>2, <2>3, TypesKept DEF SupSeesBlocked
<1>14. CASE SupRevokes
  <2>2. TypedSup'
    BY <1>14, MovesReach DEF SupRevokes, Moves, TypedSup
  <2>3. TypedFiles'
    BY <1>14, RestTyped DEF SupRevokes, Ends, Starts, TypedFiles
  <2> QED BY <1>14, <2>2, <2>3, TypesKept DEF SupRevokes
<1> QED BY <1>0, <1>1, <1>2, <1>3, <1>4, <1>5, <1>6, <1>7, <1>8, <1>9, <1>10, <1>11, <1>12,
           <1>13, <1>14, SupervisorSplit

---------------------------------------------------------------------------
(* What is on file, and who may hold the Lease. *)

LEMMA NextSplit ==
    ASSUME Next PROVE World \/ Adapter \/ Supervisor \/ Receipts
BY DEF Next, Launch, World

LEMMA FilesApart ==
    /\ Nothing \notin Scopes /\ Nothing \notin Lifecycles /\ Nothing \notin Revocations
    /\ Nothing.st = "none"
BY DEF Nothing, Scopes, Lifecycles, Revocations

LEMMA WorldLeaves ==
    ASSUME World
    PROVE  UNCHANGED <<sup, events, ledger, failed, execution, verified,
                       admission, scope, lifecycle, revocation, work>>
BY DEF World, EstopArrives, InterlockServes, MissionAnswers, MissionAcquires, MissionEnds,
       MissionReleases, OtherAcquires, adVars, supVars, resultVars, receiptVars

LEMMA ReceiptsLeave ==
    ASSUME Receipts
    PROVE  UNCHANGED <<gate, estop, calls, answer, mission, status, ad, events, sup, ledger,
                       failed, execution, verified>>
BY DEF Receipts, gateVars, missionVars, adVars, supVars, resultVars

(* Once it has left its loop the supervisor stays out; it writes receipts  *)
(* when it issues them and in its last updates only.                       *)
LEMMA SupervisorFiles ==
    ASSUME Typed, Supervisor
    PROVE  \/ SupIssues \/ SupSeesBlocked \/ SupRevokes
           \/ /\ UNCHANGED <<scope, lifecycle, revocation, work>>
              /\ sup.pc \notin {"write", "ended"} /\ sup'.pc # "write"
              /\ sup.pc \in Leaving => sup'.pc \in Leaving
<1> USE DEF Moves, Loop, Leaving, receiptVars
<1>0. CASE Quits
  BY <1>0 DEF Quits, Departing
<1>1. CASE SupHears /\ ~Quits
  BY <1>1, HearsReach, QuitsReach DEF HearsOnly
<1>2. CASE SupRecordsReadiness
  BY <1>2, MovesReach DEF SupRecordsReadiness, InLoop
<1>3. CASE SupSamples
  BY <1>3, MovesReach DEF SupSamples
<1>4. CASE SupHearsOpen
  BY <1>4, MovesReach DEF SupHearsOpen
<1>5. CASE SupSeesOpen
  BY <1>5, MovesReach DEF SupSeesOpen
<1>6. CASE SupAdmits
  BY <1>6, MovesReach DEF SupAdmits
<1>7. CASE SupCompletes
  BY <1>7, MovesReach DEF SupCompletes, InLoop
<1>8. CASE SupHearsClose
  BY <1>8, MovesReach DEF SupHearsClose
<1>9. CASE SupHearsLate
  BY <1>9, MovesReach DEF SupHearsLate
<1>10. CASE SupSeesNoLease
  BY <1>10, MovesReach DEF SupSeesNoLease
<1>11. CASE SupCannotRevoke
  BY <1>11, MovesReach DEF SupCannotRevoke, Unverified
<1> QED BY <1>0, <1>1, <1>2, <1>3, <1>4, <1>5, <1>6, <1>7, <1>8, <1>9, <1>10, <1>11,
           SupervisorSplit

(* What a writer has to do next, and has prepared. *)
FiledFor(w) ==
    /\ work[w].next # Nothing =>
          /\ Issued /\ work[w].todo # <<>>
          /\ work[w].next \in (IF Head(work[w].todo).do = "scope" THEN Scopes ELSE Lifecycles)
    /\ work[w].todo # <<>> /\ ~Issued => Head(work[w].todo).do = "scope"

LEMMA IssuedKept ==
    ASSUME Typed, Filed, Receipts
    PROVE  Issued' = Issued /\ (lifecycle # Nothing)' = (lifecycle # Nothing)
<1>1. PICK w \in Writers : UpdatePrepared(w) \/ UpdateSkipped(w) \/ UpdateRaises(w)
                              \/ UpdateWritten(w)
  BY UpdateReach DEF Receipts
<1>2. CASE UNCHANGED <<scope, lifecycle>>
  BY <1>2 DEF Issued
<1>3. CASE UpdateWritten(w)
  BY <1>3, FilesApart DEF UpdateWritten, Issued, Filed
<1> QED BY <1>1, <1>2, <1>3 DEF UpdatePrepared, UpdateSkipped, UpdateRaises

LEMMA FiledKept == ASSUME Typed, Filed, Next PROVE Filed'
<1>0. \A w \in Writers : FiledFor(w)
  BY DEF Filed, FiledFor
<1>1. ASSUME UNCHANGED <<scope, lifecycle, work>>, sup.pc # "write" \/ sup' = sup
      PROVE  Filed'
  BY <1>1 DEF Filed, Issued
<1>a. work \in [Writers -> Jobs] /\ "adapter" \in Writers /\ "supervisor" \in Writers
      /\ Writers = {"adapter", "supervisor"}
  BY DEF Typed, TypedFiles, Writers
<1>2. CASE World
  BY <1>1, <1>2, WorldLeaves
<1>3. CASE Adapter
  <2>1. UNCHANGED <<scope, lifecycle, sup>>
    BY <1>3, AdapterReach DEF AdapterLeaves
  <2>2. CASE work' = work
    BY <1>1, <2>1, <2>2
  <2>3. ASSUME NEW job, work' = [work EXCEPT !["adapter"] = job],
               job = Rest \/ Fresh(job)
        PROVE  Filed'
    <3>1. work'["adapter"] = job /\ work'["supervisor"] = work["supervisor"]
      BY <1>a, <2>3
    <3>2. job.next = Nothing /\ (job.todo # <<>> => Head(job.todo).do = "scope")
      BY <2>3, RestTyped DEF Fresh
    <3> QED BY <1>a, <2>1, <3>1, <3>2 DEF Filed, Issued
  <2> QED BY <1>3, <2>2, <2>3, AdapterReach, JobsFresh DEF AdapterLeases, StartsJob
<1>4. CASE Receipts
  <2>1. PICK w \in Writers : UpdatePrepared(w) \/ UpdateSkipped(w) \/ UpdateRaises(w)
                                \/ UpdateWritten(w)
    BY <1>4, UpdateReach DEF Receipts
  <2>2. Issued' = Issued /\ (lifecycle # Nothing)' = (lifecycle # Nothing) /\ sup' = sup
    BY <1>4, IssuedKept, ReceiptsLeave
  <2>3. work[w].todo # <<>> /\ (w = "supervisor" => sup.pc = "write")
    <3>1. work[w].todo # <<>>
      BY <2>1 DEF UpdatePrepared, UpdateSkipped, UpdateRaises, UpdateWritten
    <3> QED BY <3>1, RestTyped DEF Filed
  <2>4. \A o \in Writers \ {w} : work'[o] = work[o]
    BY <1>a, <2>1 DEF UpdatePrepared, UpdateSkipped, UpdateRaises, UpdateWritten
  <2>5. FiledFor(w)'
    <3>1. CASE UpdatePrepared(w)
      <4>1. PICK value : /\ work' = [work EXCEPT ![w].next = value]
                         /\ \/ Doing(w).do = "scope" /\ value \in Scopes
                            \/ Doing(w).do # "scope" /\ value \in Lifecycles
        BY <3>1 DEF UpdatePrepared
      <4>2. work'[w].next = value /\ work'[w].todo = work[w].todo
        BY <1>a, <4>1 DEF Jobs
      <4> QED BY <2>2, <3>1, <4>1, <4>2 DEF UpdatePrepared, Doing, FiledFor
    <3>2. CASE UpdateSkipped(w)
      <4>1. work'[w].next = Nothing /\ Issued'
        BY <1>a, <2>2, <3>2 DEF UpdateSkipped, Jobs
      <4> QED BY <4>1 DEF FiledFor
    <3>3. CASE UpdateRaises(w)
      <4>1. work'[w].next = Nothing /\ work'[w].todo = <<>>
        BY <1>a, <3>3 DEF UpdateRaises, Jobs
      <4> QED BY <4>1 DEF FiledFor
    <3>4. CASE UpdateWritten(w)
      <4>1. work'[w].next = Nothing /\ Issued'
        BY <1>a, <2>2, <3>4 DEF UpdateWritten, Jobs
      <4> QED BY <4>1 DEF FiledFor
    <3> QED BY <2>1, <3>1, <3>2, <3>3, <3>4
  <2>6. \A o \in Writers \ {w} : FiledFor(o)'
    BY <1>0, <2>2, <2>4 DEF FiledFor
  <2> QED BY <1>a, <2>2, <2>3, <2>4, <2>5, <2>6 DEF Filed, FiledFor
<1>5. CASE SupIssues
  <2>1. Issued' /\ lifecycle' # Nothing /\ work' = work /\ sup.pc # "write" /\ ~Issued
    BY <1>5 DEF SupIssues, Issue, Issued, Grant, NewLifecycle, Nothing, InLoop
  <2> QED BY <2>1 DEF Filed
<1>6. CASE SupSeesBlocked
  <2>1. UNCHANGED <<scope, lifecycle>> /\ sup.pc = "revSeen"
    BY <1>6 DEF SupSeesBlocked
  <2>2. CASE sup.prior
    BY <1>1, <1>6, <2>1, <2>2 DEF SupSeesBlocked
  <2>3. CASE ~sup.prior
    <3>1. work' = [work EXCEPT !["supervisor"] = RevokeJob] /\ sup'.pc = "write"
      BY <1>6, <2>3, MovesReach DEF SupSeesBlocked, Starts, Moves
    <3>2. Fresh(RevokeJob)
      BY JobsFresh DEF Acquired, Released
    <3>3. work'["supervisor"] = RevokeJob /\ work'["adapter"] = work["adapter"]
      BY <1>a, <3>1
    <3> QED BY <1>a, <2>1, <3>1, <3>2, <3>3 DEF Filed, Issued, Fresh
  <2> QED BY <2>2, <2>3
<1>7. CASE SupRevokes
  <2>1. UNCHANGED <<scope, lifecycle>> /\ work' = [work EXCEPT !["supervisor"] = Rest]
    BY <1>7 DEF SupRevokes, Ends, Starts
  <2>2. work'["supervisor"] = Rest /\ work'["adapter"] = work["adapter"]
    BY <1>a, <2>1
  <2> QED BY <1>a, <2>1, <2>2, RestTyped DEF Filed, Issued
<1> QED BY <1>1, <1>2, <1>3, <1>4, <1>5, <1>6, <1>7, NextSplit, SupervisorFiles

(* An admission that was proved is never taken for one that was not, and   *)
(* the Mission is asked for on such an admission only.                     *)
LEMMA AdmittedKept == ASSUME Typed, Filed, Admitted, Next PROVE Admitted'
<1> USE DEF Loop, Leaving
<1>1. CASE World
  <2>1. UNCHANGED <<sup, admission, scope>> /\ ad'.goal = ad.goal
    <3>1. UNCHANGED <<sup, admission, scope>>
      BY <1>1, WorldLeaves
    <3>2. ad' = ad \/ MissionAnswers
      BY <1>1 DEF World, EstopArrives, InterlockServes, MissionAcquires, MissionEnds,
                  MissionReleases, OtherAcquires, adVars
    <3>3. MissionAnswers => ad'.goal = ad.goal
      BY DEF MissionAnswers, Typed, TypedAd, Adapters
    <3> QED BY <3>1, <3>2, <3>3
  <2>2. /\ mission # "idle" \/ mission' = "idle"
        /\ gate'.owner = "mission" => mission' \in {"running", "succeeded", "failed"}
    <3> USE DEF Admitted, Typed, TypedGate, Samples, TypedMission
    <3>1. CASE EstopArrives
      BY <3>1 DEF EstopArrives, missionVars, None
    <3>2. CASE InterlockServes
      BY <3>2 DEF InterlockServes, missionVars, None
    <3>3. CASE MissionAnswers
      BY <3>3 DEF MissionAnswers, gateVars
    <3>4. CASE MissionAcquires
      BY <3>4 DEF MissionAcquires
    <3>5. CASE MissionEnds
      BY <3>5 DEF MissionEnds, gateVars
    <3>6. CASE MissionReleases
      BY <3>6 DEF MissionReleases, missionVars, None
    <3>7. CASE OtherAcquires
      BY <3>7 DEF OtherAcquires, missionVars
    <3> QED BY <1>1, <3>1, <3>2, <3>3, <3>4, <3>5, <3>6, <3>7 DEF World
  <2> QED BY <2>1, <2>2 DEF Admitted, Issued
<1>2. CASE Adapter
  BY <1>2, AdapterReach DEF AdapterLeaves, Admitted, Issued
<1>3. CASE Receipts
  <2>1. admission' = admission
    BY <1>3 DEF Receipts, Updates, Reads, Writes, Collides
  <2> QED BY <1>3, <2>1, ReceiptsLeave, IssuedKept DEF Admitted
<1>4. CASE Quits
  <2>1. /\ admission' = IF admission = "none" THEN "none" ELSE "REVOKED"
        /\ UNCHANGED <<gate, mission, ad, scope>>
        /\ sup'.stage = sup.stage /\ ~sup'.open /\ sup'.pc \in {"wait", "ended"}
        /\ sup'.pc = "wait" => Issued \/ sup.open \/ sup.stage # ""
    <3>1. Closing.stage = sup.stage /\ Closing.open = FALSE
      BY DEF Closing, Typed, TypedSup, Supervisors
    <3> QED BY <1>4, <3>1 DEF Quits, Departing
  <2> QED BY <2>1 DEF Admitted, Issued, Typed, TypedFiles
<1>5. ASSUME UNCHANGED <<gate, mission, scope, admission>>, ad' = ad,
             sup'.stage = sup.stage, sup'.open = sup.open,
             sup'.pc \in {"observe", "ended", sup.pc} \/ sup.pc \notin {"observe", "ended"}
      PROVE  Admitted'
  <2>1. sup.pc \in Loop \cup Leaving
    BY DEF Typed, TypedSup, Supervisors
  <2>2. sup'.pc \notin {"observe", "ended"} => Issued
    BY <1>5, <2>1 DEF Admitted
  <2> QED BY <1>5, <2>2 DEF Admitted, Issued
<1> USE DEF Moves, missionVars, receiptVars, gateVars, adVars
<1>6. CASE SupHears /\ ~Quits
  BY <1>5, <1>6, HearsReach, QuitsReach DEF HearsOnly
<1>7. CASE SupRecordsReadiness
  BY <1>5, <1>7, MovesReach DEF SupRecordsReadiness
<1>8. CASE SupSamples
  BY <1>5, <1>8, MovesReach DEF SupSamples
<1>9. CASE SupIssues
  <2>1. /\ sup'.stage = "OPENING" /\ admission' = "OPENING" /\ Issued' /\ ~Issued
        /\ UNCHANGED <<gate, mission, ad>>
    BY <1>9, MovesReach DEF SupIssues, Issue, Issued, Grant, Nothing
  <2> QED BY <2>1 DEF Admitted
<1>10. CASE SupHearsOpen
  BY <1>5, <1>10, MovesReach DEF SupHearsOpen
<1>11. CASE SupSeesOpen
  <2>1. sup.pc = "openSeen" /\ sup'.stage = sup.stage
        /\ UNCHANGED <<gate, mission, scope, admission, ad>>
    BY <1>11, MovesReach DEF SupSeesOpen
  <2> QED BY <2>1 DEF Admitted, Issued
<1>12. CASE SupAdmits
  <2>1. sup.pc = "receipt" /\ sup'.stage = "ADMITTED" /\ admission' = "ADMITTED"
        /\ UNCHANGED <<gate, mission, scope, ad>>
    BY <1>12, MovesReach DEF SupAdmits
  <2> QED BY <2>1 DEF Admitted, Issued
<1>13. CASE SupCompletes
  <2>1. Issued
    <3>1. revocation.st = "REVOKED" /\ scope.st = "CLOSED"
      BY <1>13 DEF SupCompletes, Complete, RevocationValid
    <3> QED BY <3>1, FilesApart DEF Issued
  <2>2. /\ sup'.stage = sup.stage /\ sup'.open = sup.open
        /\ UNCHANGED <<gate, mission, scope, admission, ad>>
    BY <1>13, MovesReach DEF SupCompletes
  <2> QED BY <2>1, <2>2 DEF Admitted, Issued
<1>14. CASE SupHearsClose
  BY <1>5, <1>14, MovesReach DEF SupHearsClose
<1>15. CASE SupHearsLate
  BY <1>5, <1>15, MovesReach DEF SupHearsLate
<1>16. CASE SupSeesNoLease
  BY <1>5, <1>16, MovesReach DEF SupSeesNoLease
<1>17. CASE SupCannotRevoke
  BY <1>5, <1>17, MovesReach DEF SupCannotRevoke, Unverified
<1>18. CASE SupSeesBlocked
  BY <1>5, <1>18, MovesReach DEF SupSeesBlocked
<1>19. CASE SupRevokes
  BY <1>5, <1>19, MovesReach DEF SupRevokes
<1> QED BY <1>1, <1>2, <1>3, <1>4, <1>6, <1>7, <1>8, <1>9, <1>10, <1>11, <1>12, <1>13, <1>14,
           <1>15, <1>16, <1>17, <1>18, <1>19, NextSplit, SupervisorSplit

---------------------------------------------------------------------------
(* The requests to the interlock. *)

LEMMA StaysShut == ASSUME Typed, World, Shut PROVE Shut' \/ (calls # <<>> /\ Head(calls).on)
<1> USE DEF Shut, Typed, TypedGate, Samples, None
<1>1. CASE EstopArrives
  BY <1>1 DEF EstopArrives
<1>2. CASE InterlockServes
  BY <1>2 DEF InterlockServes
<1>3. CASE MissionAnswers
  BY <1>3 DEF MissionAnswers, gateVars
<1>4. CASE MissionAcquires
  BY <1>4 DEF MissionAcquires
<1>5. CASE MissionEnds
  BY <1>5 DEF MissionEnds, gateVars
<1>6. CASE MissionReleases
  BY <1>6 DEF MissionReleases
<1>7. CASE OtherAcquires
  BY <1>7 DEF OtherAcquires
<1> QED BY <1>1, <1>2, <1>3, <1>4, <1>5, <1>6, <1>7 DEF World

LEMMA ServedOnly ==
    ASSUME Typed, World
    PROVE  UNCHANGED <<calls, answer>> \/ (InterlockServes /\ calls # <<>>)
BY DEF World, EstopArrives, InterlockServes, MissionAnswers, MissionAcquires, MissionEnds,
       MissionReleases, OtherAcquires, gateVars

(* The requests when the one that counts is to close the interlock. *)
CloseAsked ==
    /\ answer = None /\ calls # <<>>
    /\ calls[Len(calls)] = [on |-> FALSE, live |-> TRUE]
    /\ \A i \in 1 .. (Len(calls) - 1) : ~calls[i].live
CloseServed == answer = "ok" /\ calls = <<>> /\ Shut

LEMMA CloseIsServed == ASSUME Typed, CloseAsked, InterlockServes
                       PROVE  CloseAsked' \/ CloseServed'
<1>0. calls \in Seq(Requests) /\ calls # <<>> /\ gate \in Samples
  BY DEF Typed, TypedGate, CloseAsked
<1>1. Len(calls) \in Nat /\ Len(calls) >= 1 /\ Head(calls) = calls[1] /\ calls' = Tail(calls)
      /\ Len(calls') = Len(calls) - 1
      /\ \A i \in 1 .. (Len(calls) - 1) : calls'[i] = calls[i + 1]
  BY <1>0 DEF InterlockServes
<1>2. CASE Len(calls) = 1
  <2>1. Head(calls) = [on |-> FALSE, live |-> TRUE]
    BY <1>1, <1>2 DEF CloseAsked
  <2>2. gate' = [gate EXCEPT !.block = TRUE, !.owner = None] /\ answer' = "ok"
    BY <2>1 DEF InterlockServes
  <2>3. calls' = <<>>
    BY <1>0, <1>1, <1>2
  <2> QED BY <1>0, <2>2, <2>3 DEF CloseServed, Shut, Samples
<1>3. CASE Len(calls) > 1
  <2>1. ~Head(calls).live
    BY <1>1, <1>3 DEF CloseAsked
  <2>2. answer' = answer
    BY <2>1 DEF InterlockServes
  <2>3. calls' # <<>> /\ calls'[Len(calls')] = calls[Len(calls)]
    BY <1>0, <1>1, <1>3
  <2>4. \A i \in 1 .. (Len(calls') - 1) : ~calls'[i].live
    <3>1. \A i \in 1 .. (Len(calls') - 1) :
             i \in 1 .. (Len(calls) - 1) /\ i + 1 \in 1 .. (Len(calls) - 1)
      BY <1>1
    <3> QED BY <1>1, <3>1 DEF CloseAsked
  <2> QED BY <2>2, <2>3, <2>4 DEF CloseAsked
<1> QED BY <1>1, <1>2, <1>3

LEMMA AsksToClose ==
    ASSUME TypedGate, AsksInterlock(FALSE) PROVE CloseAsked' /\ Len(calls') = Len(calls) + 1
<1>1. /\ calls' \in Seq(Requests) /\ Len(calls') = Len(calls) + 1 /\ answer' = None
      /\ calls'[Len(calls')] = [on |-> FALSE, live |-> TRUE]
      /\ \A i \in 1 .. Len(calls) : ~calls'[i].live
  BY CallsAsked
<1>2. Len(calls) \in Nat /\ Len(calls') - 1 = Len(calls)
  BY <1>1 DEF TypedGate
<1>3. calls' # <<>>
  BY <1>1, <1>2
<1> QED BY <1>1, <1>2, <1>3 DEF CloseAsked

(* What is asked while the supervisor is where it is. *)
AskedAt(pc) ==
    /\ pc \in {"observe", "openSeen", "receipt", "closeSeen"} => calls = <<>>
    /\ pc \in {"open", "close", "wait"} => Len(calls) <= 1
    /\ pc = "open" => \/ answer = None /\ \A i \in DOMAIN calls : calls[i].live
                      \/ answer # None /\ calls = <<>>
    /\ pc \in {"close", "revClose"} => CloseAsked \/ CloseServed
    /\ pc \in {"closeSeen", "revSeen", "write"} => calls = <<>> /\ Shut

LEMMA AskedSplit ==
    /\ Asked <=> AskedAt(sup.pc) /\ Len(calls) <= 2 /\ (sup.closed => sup.pc \in Leaving)
    /\ Asked' <=> (AskedAt(sup.pc) /\ Len(calls) <= 2 /\ (sup.closed => sup.pc \in Leaving))'
BY DEF Asked, AskedAt, CloseAsked, CloseServed

LEMMA AskedKept == ASSUME Typed, Asked, Next PROVE Asked'
<1>0. /\ calls \in Seq(Requests) /\ Len(calls) \in Nat /\ sup.pc \in Loop \cup Leaving
      /\ AskedAt(sup.pc) /\ Len(calls) <= 2 /\ (sup.closed => sup.pc \in Leaving)
  <2>1. calls \in Seq(Requests) /\ Len(calls) \in Nat
    BY DEF Typed, TypedGate
  <2>2. sup.pc \in Loop \cup Leaving
    BY DEF Typed, TypedSup, Supervisors
  <2>3. AskedAt(sup.pc) /\ Len(calls) <= 2 /\ (sup.closed => sup.pc \in Leaving)
    BY AskedSplit
  <2> QED BY <2>1, <2>2, <2>3
<1>a. Len(calls) = 0 <=> calls = <<>>
  BY <1>0
<1>1. CASE World
  <2>1. sup' = sup
    BY <1>1, WorldLeaves
  <2>2. CASE UNCHANGED <<calls, answer>>
    <3>1. calls = <<>> /\ Shut => Shut'
      BY <1>1, StaysShut
    <3>2. AskedAt(sup.pc)'
      BY <1>0, <2>1, <2>2, <3>1 DEF AskedAt, CloseAsked, CloseServed
    <3> QED BY <1>0, <2>1, <2>2, <3>2, AskedSplit
  <2>3. CASE InterlockServes /\ calls # <<>>
    <3>1. /\ Len(calls) >= 1 /\ Len(calls') = Len(calls) - 1 /\ calls' \in Seq(Requests)
          /\ Head(calls) = calls[1] /\ 1 \in DOMAIN calls
      BY <1>0, <2>3 DEF InterlockServes
    <3>2. CASE sup.pc = "open"
      <4>1. answer = None /\ calls[1].live /\ Len(calls) = 1
        BY <1>0, <2>3, <3>1, <3>2 DEF AskedAt
      <4>2. answer' # None
        BY <2>3, <3>1, <4>1 DEF InterlockServes, None
      <4>3. calls' = <<>>
        BY <3>1, <4>1
      <4>4. AskedAt("open")'
        BY <4>2, <4>3 DEF AskedAt
      <4> QED BY <1>0, <2>1, <3>1, <3>2, <4>4, AskedSplit
    <3>3. CASE sup.pc \in {"close", "revClose"}
      <4>1. CloseAsked
        BY <1>0, <2>3, <3>3 DEF AskedAt, CloseServed
      <4>2. CloseAsked' \/ CloseServed'
        BY <2>3, <4>1, CloseIsServed
      <4>3. AskedAt(sup.pc)'
        BY <1>0, <2>1, <3>1, <3>3, <4>2 DEF AskedAt
      <4> QED BY <1>0, <2>1, <3>1, <4>3, AskedSplit
    <3>4. CASE sup.pc \in {"wait", "ended"}
      <4>1. AskedAt(sup.pc)'
        BY <1>0, <2>1, <3>1, <3>4 DEF AskedAt
      <4> QED BY <1>0, <2>1, <3>1, <4>1, AskedSplit
    <3>5. sup.pc \notin {"observe", "openSeen", "receipt", "closeSeen", "revSeen", "write"}
      BY <1>0, <2>3 DEF AskedAt
    <3> QED BY <1>0, <3>2, <3>3, <3>4, <3>5 DEF Loop, Leaving
  <2> QED BY <1>1, <2>2, <2>3, ServedOnly
<1>2. ASSUME UNCHANGED <<gate, calls, answer>>, sup'.pc = sup.pc, sup'.closed = sup.closed
      PROVE  Asked'
  BY <1>2 DEF Asked, Shut
<1>3. CASE Adapter
  BY <1>2, <1>3, AdapterReach DEF AdapterLeaves
<1>4. CASE Receipts
  BY <1>2, <1>4, ReceiptsLeave
<1>5. CASE Quits
  <2>1. Len(calls) <= 1
    BY <1>0, <1>5, <1>a DEF Quits, AskedAt, Loop
  <2>2. Len(calls') <= 1 /\ sup'.pc \in {"wait", "ended"}
    BY <1>5, <2>1, CallsGivenUp DEF Quits, Departing, Typed
  <2>3. AskedAt(sup.pc)'
    BY <2>2 DEF AskedAt
  <2>4. Len(calls') <= 2
    BY <1>0, <1>5, <2>1, CallsGivenUp DEF Quits, Typed
  <2> QED BY <2>2, <2>3, <2>4, AskedSplit DEF Leaving
<1> USE DEF Moves, missionVars, receiptVars, gateVars, adVars
<1>6. CASE SupHears /\ ~Quits
  BY <1>2, <1>6, HearsReach, QuitsReach DEF HearsOnly
<1>7. CASE SupRecordsReadiness
  BY <1>2, <1>7, MovesReach DEF SupRecordsReadiness, InLoop
<1>8. CASE SupSamples
  BY <1>2, <1>8, MovesReach DEF SupSamples
<1>9. CASE SupIssues
  <2>1. calls = <<>> /\ sup'.pc = "open" /\ sup'.closed = sup.closed /\ ~sup.closed
    BY <1>0, <1>9, MovesReach DEF SupIssues, InLoop, AskedAt, Leaving
  <2>2. Len(calls') = 1 /\ calls'[1].live /\ answer' = None /\ calls' \in Seq(Requests)
    <3>1. AsksInterlock(TRUE) /\ TypedGate /\ Len(calls) = 0
      BY <1>9, <1>a, <2>1 DEF SupIssues, Typed
    <3>2. /\ calls' \in Seq(Requests) /\ Len(calls') = Len(calls) + 1 /\ answer' = None
          /\ calls'[Len(calls')] = [on |-> TRUE, live |-> TRUE]
      BY <3>1, CallsAsked
    <3> QED BY <3>1, <3>2
  <2>3. AskedAt(sup.pc)'
    BY <2>1, <2>2 DEF AskedAt
  <2> QED BY <2>1, <2>2, <2>3, AskedSplit
<1>10. CASE SupHearsOpen
  <2>1. calls' = <<>> /\ sup'.pc = "openSeen" /\ sup'.closed = sup.closed /\ ~sup.closed
    BY <1>0, <1>10, MovesReach DEF SupHearsOpen, AskedAt, Leaving, None
  <2> QED BY <1>0, <2>1, <1>a DEF Asked
<1>11. CASE SupSeesOpen
  <2>1. calls' = <<>> /\ sup'.pc = "receipt" /\ sup'.closed = sup.closed /\ ~sup.closed
    BY <1>0, <1>11, MovesReach DEF SupSeesOpen, AskedAt, Leaving
  <2> QED BY <1>0, <2>1, <1>a DEF Asked
<1>12. CASE SupAdmits
  <2>1. calls' = <<>> /\ sup'.pc = "observe" /\ sup'.closed = sup.closed /\ ~sup.closed
    BY <1>0, <1>12, MovesReach DEF SupAdmits, AskedAt, Leaving
  <2> QED BY <1>0, <2>1, <1>a DEF Asked
<1>13. CASE SupCompletes
  <2>1. calls = <<>> /\ sup'.pc = "close" /\ sup'.closed = sup.closed /\ ~sup.closed
    BY <1>0, <1>13, MovesReach DEF SupCompletes, InLoop, AskedAt, Leaving
  <2>2. Len(calls') = 1 /\ CloseAsked'
    <3>1. AsksInterlock(FALSE) /\ TypedGate /\ Len(calls) = 0
      BY <1>13, <1>a, <2>1 DEF SupCompletes, Typed
    <3> QED BY <3>1, AsksToClose
  <2>3. AskedAt(sup.pc)'
    BY <2>1, <2>2 DEF AskedAt
  <2> QED BY <2>1, <2>2, <2>3, AskedSplit
<1>14. CASE SupHearsClose
  <2>1. /\ calls' = <<>> /\ sup'.pc \in {"closeSeen", "revSeen"} /\ gate' = gate
        /\ sup'.closed = sup.closed /\ sup.pc \in {"close", "revClose"}
        /\ sup'.pc = "closeSeen" <=> sup.pc = "close"
    BY <1>0, <1>14, MovesReach DEF SupHearsClose, AskedAt, CloseAsked, CloseServed, None
  <2>2. Shut'
    BY <1>0, <1>14, <2>1 DEF SupHearsClose, AskedAt, CloseAsked, CloseServed, None, Shut
  <2>3. AskedAt(sup.pc)' /\ Len(calls') <= 2
    BY <1>a, <2>1, <2>2 DEF AskedAt
  <2> QED BY <1>0, <2>1, <2>3, AskedSplit DEF Leaving
<1>15. CASE SupHearsLate
  BY <1>2, <1>15, MovesReach DEF SupHearsLate
<1>16. CASE SupSeesNoLease
  <2>1. sup.pc = "wait" /\ sup'.pc = "revClose" /\ Len(calls) <= 1
    BY <1>0, <1>16, MovesReach DEF SupSeesNoLease, AskedAt
  <2>2. Len(calls') <= 2 /\ CloseAsked'
    <3>1. AsksInterlock(FALSE) /\ TypedGate
      BY <1>16 DEF SupSeesNoLease, Typed
    <3>2. CloseAsked' /\ Len(calls') = Len(calls) + 1
      BY <3>1, AsksToClose
    <3> QED BY <1>0, <2>1, <3>2
  <2>3. AskedAt(sup.pc)'
    BY <2>1, <2>2 DEF AskedAt
  <2> QED BY <2>1, <2>2, <2>3, AskedSplit DEF Leaving
<1>17. CASE SupCannotRevoke
  <2>1. sup'.pc = "ended" /\ ~sup'.closed /\ calls' = GivenUp
    BY <1>17, MovesReach DEF SupCannotRevoke, Unverified, GivesUpCalls, GivenUp
  <2>2. Len(calls') <= 2
    BY <1>0, <2>1, CallsGivenUp DEF Typed
  <2> QED BY <2>1, <2>2 DEF Asked
<1>18. CASE SupSeesBlocked
  <2>1. /\ sup'.pc \in {"ended", "write"} /\ ~sup'.closed /\ UNCHANGED <<calls, gate>>
        /\ calls = <<>> /\ Shut
    BY <1>0, <1>18, MovesReach DEF SupSeesBlocked, AskedAt
  <2> QED BY <1>0, <2>1 DEF Asked, Shut
<1>19. CASE SupRevokes
  <2>1. sup'.pc = "ended" /\ ~sup'.closed /\ calls' = calls
    BY <1>19, MovesReach DEF SupRevokes
  <2> QED BY <1>0, <2>1 DEF Asked
<1> QED BY <1>1, <1>3, <1>4, <1>5, <1>6, <1>7, <1>8, <1>9, <1>10, <1>11, <1>12, <1>13, <1>14,
           <1>15, <1>16, <1>17, <1>18, <1>19, NextSplit, SupervisorSplit

---------------------------------------------------------------------------
(* How the session ends. *)

LEMMA StaysStopped == ASSUME Typed, World, Stopped PROVE Stopped'
<1> USE DEF Stopped, Typed, TypedGate, Samples, gateVars
<1>1. CASE EstopArrives
  BY <1>1 DEF EstopArrives
<1>2. CASE InterlockServes
  BY <1>2 DEF InterlockServes
<1>3. CASE MissionAnswers
  BY <1>3 DEF MissionAnswers
<1>4. CASE MissionAcquires
  BY <1>4 DEF MissionAcquires
<1>5. CASE MissionEnds
  BY <1>5 DEF MissionEnds
<1>6. CASE MissionReleases
  BY <1>6 DEF MissionReleases
<1>7. CASE OtherAcquires
  BY <1>7 DEF OtherAcquires
<1> QED BY <1>1, <1>2, <1>3, <1>4, <1>5, <1>6, <1>7 DEF World

LEMMA StaysClosed ==
    ASSUME Typed, World, Shut, NoneOpens PROVE Shut' /\ NoneOpens'
<1>0. calls \in Seq(Requests)
  BY DEF Typed, TypedGate
<1>1. calls # <<>> => ~Head(calls).on
  BY <1>0 DEF NoneOpens
<1>2. Shut'
  BY <1>1, StaysShut
<1>3. NoneOpens'
  <2>1. CASE calls' = calls
    BY <2>1 DEF NoneOpens
  <2>2. CASE calls # <<>> /\ InterlockServes
    <3>1. /\ calls' = Tail(calls) /\ Len(calls) \in Nat /\ DOMAIN calls = 1 .. Len(calls)
          /\ DOMAIN calls' = 1 .. (Len(calls) - 1)
          /\ \A i \in 1 .. (Len(calls) - 1) : calls'[i] = calls[i + 1]
      BY <1>0, <2>2 DEF InterlockServes
    <3>2. \A i \in 1 .. (Len(calls) - 1) : i + 1 \in 1 .. Len(calls)
      BY <3>1
    <3> QED BY <3>1, <3>2 DEF NoneOpens
  <2> QED BY <2>1, <2>2, ServedOnly
<1> QED BY <1>2, <1>3

LEMMA GivenUpOpensNone ==
    ASSUME TypedGate, NoneOpens, calls' = GivenUp PROVE NoneOpens'
BY CallsGivenUp DEF NoneOpens

LEMMA ClosingOpensNone ==
    ASSUME TypedGate, NoneOpens, AsksInterlock(FALSE) PROVE NoneOpens'
<1>1. /\ calls' \in Seq(Requests) /\ Len(calls') = Len(calls) + 1
      /\ calls'[Len(calls')] = [on |-> FALSE, live |-> TRUE]
      /\ \A i \in 1 .. Len(calls) : calls'[i].on = calls[i].on
  BY CallsAsked
<1>2. Len(calls) \in Nat /\ DOMAIN calls = 1 .. Len(calls)
      /\ DOMAIN calls' = 1 .. (Len(calls) + 1)
  BY <1>1 DEF TypedGate
<1>3. ASSUME NEW i \in DOMAIN calls' PROVE ~calls'[i].on
  <2>1. CASE i = Len(calls')
    BY <1>1, <2>1
  <2>2. CASE i # Len(calls')
    <3>1. i \in 1 .. Len(calls)
      BY <1>1, <1>2, <2>2
    <3> QED BY <1>1, <1>2, <3>1 DEF NoneOpens
  <2> QED BY <2>1, <2>2
<1> QED BY <1>3 DEF NoneOpens

LEMMA EndedKept ==
    ASSUME Typed, Filed, Admitted, Asked, Ended, Next PROVE Ended'
<1>0. sup.pc \in Loop \cup Leaving
  BY DEF Typed, TypedSup, Supervisors
<1>1. CASE World
  <2>1. UNCHANGED <<sup, verified, scope>>
    BY <1>1, WorldLeaves
  <2>2. (Stopped => Stopped') /\ (Shut /\ NoneOpens => Shut' /\ NoneOpens')
    BY <1>1, StaysStopped, StaysClosed
  <2> QED BY <2>1, <2>2 DEF Ended, Issued
<1>2. ASSUME UNCHANGED <<gate, calls, verified>>, sup'.pc = sup.pc, estop => estop',
             Issued' = Issued
      PROVE  Ended'
  BY <1>2 DEF Ended, Stopped, Shut, NoneOpens
<1>3. CASE Adapter
  <2>1. UNCHANGED <<gate, calls, verified, sup, scope>> /\ (estop => estop')
    BY <1>3, AdapterReach DEF AdapterLeaves
  <2> QED BY <1>2, <2>1 DEF Issued
<1>4. CASE Receipts
  BY <1>2, <1>4, ReceiptsLeave, IssuedKept
<1>5. CASE Quits
  <2>1. /\ sup.pc \in Loop /\ verified = None /\ ~sup.closed /\ UNCHANGED <<gate, scope>>
        /\ sup.pc = "closeSeen" => calls = <<>> /\ Shut
        /\ calls' = GivenUp
    BY <1>5, AskedSplit DEF Quits, Ended, AskedAt, Loop, Leaving
  <2>2. \/ /\ sup'.pc = "ended" /\ verified' = "yes"
           /\ Issued => sup.pc = "closeSeen"
        \/ sup'.pc = "wait" /\ verified' = verified /\ estop' = TRUE
    BY <1>5, <2>1 DEF Quits, Departing
  <2>3. CASE sup'.pc = "ended" /\ verified' = "yes" /\ (Issued => sup.pc = "closeSeen")
    <3>1. Issued => Shut' /\ NoneOpens'
      <4>1. calls = <<>> => NoneOpens
        BY DEF NoneOpens
      <4>2. TypedGate
        BY DEF Typed
      <4> QED BY <2>1, <2>3, <4>1, <4>2, GivenUpOpensNone DEF Shut
    <3> QED BY <2>1, <2>3, <3>1 DEF Ended, Issued, None, Leaving
  <2>4. CASE sup'.pc = "wait" /\ verified' = verified /\ estop' = TRUE
    BY <2>1, <2>4 DEF Ended, Stopped, None
  <2> QED BY <2>2, <2>3, <2>4
(* In the loop, where nothing is said of the end, and out of it. *)
<1>6. ASSUME sup.pc \in Loop, sup'.pc \in Loop, verified' = verified PROVE Ended'
  BY <1>6 DEF Ended, Loop, Leaving, None
<1>7. ASSUME sup.pc \in Leaving \ {"ended"}, sup'.pc \in Leaving \ {"ended"},
             verified' = verified, UNCHANGED <<gate, estop>>
      PROVE  Ended'
  BY <1>7 DEF Ended, Stopped, None
<1>8. ASSUME sup.pc \in Leaving \ {"ended"}, sup'.pc = "ended", verified' \in {"yes", "no"},
             UNCHANGED <<gate, estop, scope>>,
             verified' = "yes" => sup.pc \in {"revSeen", "write"} /\ calls' = calls
      PROVE  Ended'
  <2>1. Stopped'
    BY <1>8 DEF Ended, Stopped
  <2>2. verified' = "yes" => Shut' /\ NoneOpens'
    BY <1>8, AskedSplit DEF AskedAt, NoneOpens, Shut
  <2> QED BY <1>8, <2>1, <2>2 DEF Ended, None
<1> USE DEF Moves, missionVars, receiptVars, gateVars, adVars, resultVars, Loop, Leaving
<1>9. CASE SupHears /\ ~Quits
  BY <1>6, <1>9, HearsReach, QuitsReach DEF HearsOnly
<1>10. CASE SupRecordsReadiness
  BY <1>6, <1>10, MovesReach DEF SupRecordsReadiness, InLoop
<1>11. CASE SupSamples
  <2>1. /\ sup.pc # "ended" /\ sup'.pc = sup.pc /\ verified' = verified
        /\ UNCHANGED <<gate, estop>>
    BY <1>11, MovesReach DEF SupSamples
  <2> QED BY <1>0, <1>6, <1>7, <2>1
<1>12. CASE SupIssues
  BY <1>6, <1>12, MovesReach DEF SupIssues, InLoop
<1>13. CASE SupHearsOpen
  BY <1>6, <1>13, MovesReach DEF SupHearsOpen
<1>14. CASE SupSeesOpen
  BY <1>6, <1>14, MovesReach DEF SupSeesOpen
<1>15. CASE SupAdmits
  BY <1>6, <1>15, MovesReach DEF SupAdmits
<1>16. CASE SupCompletes
  BY <1>6, <1>16, MovesReach DEF SupCompletes, InLoop
<1>17. CASE SupHearsClose
  BY <1>6, <1>7, <1>17, MovesReach DEF SupHearsClose
<1>18. CASE SupHearsLate
  BY <1>7, <1>18, MovesReach DEF SupHearsLate
<1>19. CASE SupSeesNoLease
  BY <1>7, <1>19, MovesReach DEF SupSeesNoLease
<1>20. CASE SupCannotRevoke
  BY <1>8, <1>20, MovesReach DEF SupCannotRevoke, Unverified
<1>21. CASE SupSeesBlocked
  <2>1. /\ sup.pc = "revSeen" /\ UNCHANGED <<gate, estop, calls, scope>>
        /\ \/ sup'.pc = "ended" /\ verified' \in {"yes", "no"}
           \/ sup'.pc = "write" /\ verified' = verified
    BY <1>21, MovesReach DEF SupSeesBlocked
  <2> QED BY <1>7, <1>8, <2>1
<1>22. CASE SupRevokes
  <2>1. /\ sup.pc = "write" /\ UNCHANGED <<gate, estop, calls, scope>>
        /\ sup'.pc = "ended" /\ verified' \in {"yes", "no"}
    BY <1>22, MovesReach DEF SupRevokes
  <2> QED BY <1>8, <2>1
<1> QED BY <1>1, <1>3, <1>4, <1>5, <1>9, <1>10, <1>11, <1>12, <1>13, <1>14, <1>15, <1>16,
           <1>17, <1>18, <1>19, <1>20, <1>21, <1>22, NextSplit, SupervisorSplit

---------------------------------------------------------------------------
(* What an execution that passed rests on. *)

LEMMA EventsTaken ==
    ASSUME TypedAd, events # <<>>, events' = Tail(events)
    PROVE  /\ Head(events) = events[1] /\ 1 \in DOMAIN events
           /\ Len(events) \in Nat /\ DOMAIN events = 1 .. Len(events)
           /\ DOMAIN events' = 1 .. (Len(events) - 1)
           /\ \A i \in DOMAIN events' : i + 1 \in DOMAIN events /\ events'[i] = events[i + 1]
<1>1. events \in Seq(Events)
  BY DEF TypedAd
<1>2. /\ Head(events) = events[1] /\ Len(events) \in Nat /\ Len(events) >= 1
      /\ DOMAIN events = 1 .. Len(events) /\ DOMAIN events' = 1 .. (Len(events) - 1)
      /\ \A i \in 1 .. (Len(events) - 1) : events'[i] = events[i + 1]
  BY <1>1
<1>3. \A i \in 1 .. (Len(events) - 1) : i + 1 \in 1 .. Len(events)
  BY <1>2
<1> QED BY <1>2, <1>3

LEMMA EventsJoined ==
    ASSUME TypedAd, NEW added \in Seq(Events), events' = events \o added
    PROVE  /\ \A i \in DOMAIN events : i \in DOMAIN events' /\ events'[i] = events[i]
           /\ \A i \in DOMAIN events' : \/ i \in DOMAIN events /\ events'[i] = events[i]
                                        \/ \E j \in DOMAIN added : events'[i] = added[j]
<1>1. events \in Seq(Events)
  BY DEF TypedAd
<1>2. /\ Len(events) \in Nat /\ Len(added) \in Nat
      /\ DOMAIN events = 1 .. Len(events) /\ DOMAIN added = 1 .. Len(added)
      /\ DOMAIN events' = 1 .. (Len(events) + Len(added))
      /\ \A i \in 1 .. (Len(events) + Len(added)) :
            events'[i] = IF i <= Len(events) THEN events[i] ELSE added[i - Len(events)]
  BY <1>1, ConcatProperties
<1>3. ASSUME NEW i \in DOMAIN events'
      PROVE  \/ i \in DOMAIN events /\ events'[i] = events[i]
             \/ \E j \in DOMAIN added : events'[i] = added[j]
  <2>1. CASE i <= Len(events)
    BY <1>2, <2>1
  <2>2. CASE i > Len(events)
    <3>1. i - Len(events) \in 1 .. Len(added) /\ events'[i] = added[i - Len(events)]
      BY <1>2, <2>2
    <3> QED BY <1>2, <3>1
  <2> QED BY <1>2, <2>1, <2>2
<1>4. \A i \in DOMAIN events : i \in DOMAIN events' /\ events'[i] = events[i]
  BY <1>2
<1> QED BY <1>3, <1>4

(* The ways of the supervisor, as far as its events are concerned. *)
LEMMA SupervisorEvents ==
    ASSUME Typed, Supervisor
    PROVE  \/ Quits
           \/ /\ UNCHANGED <<mission, status, ad, gate>>
              /\ \/ /\ UNCHANGED <<events, execution>> /\ sup'.heard = sup.heard
                    /\ sup'.terminal = sup.terminal
                 \/ /\ events # <<>> /\ events' = Tail(events) /\ HearsOnly(Head(events))
                    /\ UNCHANGED <<scope, lifecycle, revocation, work, execution>>
                    /\ Head(events) # "FAULT" /\ sup.pc = "observe"
                 \/ /\ events # <<>> /\ events' = Tail(events) /\ SupHearsLate
                    /\ execution' = execution
                    /\ sup'.terminal = sup.terminal /\ sup'.pc \in Leaving
                 \/ /\ events' = <<>> /\ execution' = execution
                    /\ sup'.terminal = sup.terminal /\ sup'.pc \in Leaving
<1> USE DEF Moves, missionVars, receiptVars, gateVars, adVars, resultVars, Leaving
<1>1. CASE SupHears /\ ~Quits
  BY <1>1, HearsReach, QuitsReach
<1>2. CASE SupRecordsReadiness
  BY <1>2, MovesReach DEF SupRecordsReadiness
<1>3. CASE SupSamples
  BY <1>3, MovesReach DEF SupSamples
<1>4. CASE SupIssues
  BY <1>4, MovesReach DEF SupIssues
<1>5. CASE SupHearsOpen
  BY <1>5, MovesReach DEF SupHearsOpen
<1>6. CASE SupSeesOpen
  BY <1>6, MovesReach DEF SupSeesOpen
<1>7. CASE SupAdmits
  BY <1>7, MovesReach DEF SupAdmits
<1>8. CASE SupCompletes
  BY <1>8, MovesReach DEF SupCompletes
<1>9. CASE SupHearsClose
  BY <1>9, MovesReach DEF SupHearsClose
<1>10. CASE SupHearsLate
  BY <1>10, MovesReach DEF SupHearsLate
<1>11. CASE SupSeesNoLease
  BY <1>11, MovesReach DEF SupSeesNoLease
<1>12. CASE SupCannotRevoke
  BY <1>12, MovesReach DEF SupCannotRevoke, Unverified
<1>13. CASE SupSeesBlocked
  BY <1>13, MovesReach DEF SupSeesBlocked
<1>14. CASE SupRevokes
  BY <1>14, MovesReach DEF SupRevokes
<1> QED BY <1>1, <1>2, <1>3, <1>4, <1>5, <1>6, <1>7, <1>8, <1>9, <1>10, <1>11, <1>12, <1>13,
           <1>14, SupervisorSplit

LEMMA MissionReach ==
    ASSUME Typed, World
    PROVE  /\ mission = "succeeded" => mission' = "succeeded"
           /\ status' = "OK" => status = "OK" \/ mission' = "succeeded"
           /\ ad'.ok = ad.ok /\ ad'.lease = ad.lease /\ ad'.goal = ad.goal
<1> USE DEF missionVars, adVars
<1>1. CASE MissionAnswers
  BY <1>1 DEF MissionAnswers, Typed, TypedAd, Adapters
<1>2. CASE MissionEnds
  BY <1>2 DEF MissionEnds
<1>3. CASE EstopArrives \/ InterlockServes \/ MissionReleases \/ OtherAcquires
  BY <1>3 DEF EstopArrives, InterlockServes, MissionReleases, OtherAcquires
<1>4. CASE MissionAcquires
  BY <1>4 DEF MissionAcquires
<1> QED BY <1>1, <1>2, <1>3, <1>4 DEF World

(* A success that is reported is one of the Mission, and it is final. *)
LEMMA SucceededKept ==
    ASSUME Typed, Admitted, Succeeded, Next PROVE Succeeded'
<1>1. CASE World
  BY <1>1, WorldLeaves, MissionReach DEF Succeeded
<1>2. CASE Adapter
  <2>1. /\ mission = "succeeded" => mission' = "succeeded"
        /\ status' = "OK" => status = "OK"
        /\ ad'.ok => ad.ok \/ status = "OK"
        /\ sup' = sup
    BY <1>2, AdapterReach DEF AdapterLeaves, Admitted, None
  <2>2. PICK added \in Seq(Events) :
           /\ events' = events \o added
           /\ \A i \in DOMAIN added : added[i] = "TERMINAL_OK" => ad.ok
    BY <1>2, AdapterReach DEF AdapterSays
  <2>3. ASSUME NEW i \in DOMAIN events', events'[i] = "TERMINAL_OK"
        PROVE  mission' = "succeeded"
    <3>1. \/ i \in DOMAIN events /\ events'[i] = events[i]
          \/ \E j \in DOMAIN added : events'[i] = added[j]
      BY <2>2, EventsJoined DEF Typed
    <3> QED BY <2>1, <2>2, <2>3, <3>1 DEF Succeeded
  <2> QED BY <2>1, <2>3 DEF Succeeded
<1>3. CASE Receipts
  BY <1>3, ReceiptsLeave DEF Succeeded
<1>4. CASE Quits
  <2>1. UNCHANGED <<mission, status, ad>> /\ sup'.terminal = None
        /\ events' \in Seq(LeaseEvents)
    BY <1>4 DEF Quits, Departing
  <2>2. \A i \in DOMAIN events' : events'[i] \in LeaseEvents
    BY <2>1
  <2>3. "TERMINAL_OK" \notin LeaseEvents /\ None # "OK"
    BY DEF LeaseEvents, None
  <2> QED BY <2>1, <2>2, <2>3 DEF Succeeded
<1>5. ASSUME UNCHANGED <<mission, status, ad>>, UNCHANGED events,
             sup'.terminal = sup.terminal
      PROVE  Succeeded'
  BY <1>5 DEF Succeeded
<1>6. ASSUME UNCHANGED <<mission, status, ad>>, events # <<>>, events' = Tail(events),
             sup'.terminal = "OK" => sup.terminal = "OK" \/ Head(events) = "TERMINAL_OK"
      PROVE  Succeeded'
  BY <1>6, EventsTaken DEF Succeeded, Typed
<1>7. ASSUME UNCHANGED <<mission, status, ad>>, events' = <<>>, sup'.terminal = sup.terminal
      PROVE  Succeeded'
  BY <1>7 DEF Succeeded
<1>8. CASE Supervisor
  BY <1>4, <1>5, <1>6, <1>7, <1>8, SupervisorEvents DEF HearsOnly
<1> QED BY <1>1, <1>2, <1>3, <1>8, NextSplit

(* While the supervisor does not write, the adapter's revocation seals the  *)
(* receipts: both are closed and no content of theirs is prepared.          *)
LEMMA OneWriter ==
    ASSUME Typed, Filed, Receipts
    PROVE  \E w \in Writers :
              /\ UpdatePrepared(w) \/ UpdateSkipped(w) \/ UpdateRaises(w) \/ UpdateWritten(w)
              /\ w = "supervisor" => sup.pc = "write"
              /\ w # "supervisor" => w = "adapter"
<1>1. PICK w \in Writers : UpdatePrepared(w) \/ UpdateSkipped(w) \/ UpdateRaises(w)
                              \/ UpdateWritten(w)
  BY UpdateReach DEF Receipts
<1>2. work[w].todo # <<>>
  BY <1>1 DEF UpdatePrepared, UpdateSkipped, UpdateRaises, UpdateWritten
<1>3. w = "supervisor" => sup.pc = "write"
  BY <1>2, RestTyped DEF Filed
<1> QED BY <1>1, <1>3 DEF Writers

LEMMA NothingPrepared ==
    ASSUME Typed, Adapter
    PROVE  /\ work["adapter"].next = Nothing => work'["adapter"].next = Nothing
           /\ work'["supervisor"] = work["supervisor"]
<1>0. work \in [Writers -> Jobs] /\ "adapter" \in Writers /\ "supervisor" \in Writers
  BY DEF Typed, TypedFiles, Writers
<1>1. work' = work \/ \E job \in {AcceptedJob, FinishJob, AcquiredJob, ReleasedJob, Rest} :
         work' = [work EXCEPT !["adapter"] = job]
  BY AdapterReach DEF AdapterLeases, StartsJob
<1>2. \A job \in {AcceptedJob, FinishJob, AcquiredJob, ReleasedJob, Rest} :
         job.next = Nothing
  BY JobsFresh, RestTyped DEF Fresh
<1> QED BY <1>0, <1>1, <1>2

LEMMA AdapterRevokedKept ==
    ASSUME Typed, Filed, AdapterRevoked, Next PROVE AdapterRevoked'
<1>0. work \in [Writers -> Jobs] /\ "adapter" \in Writers
  BY DEF Typed, TypedFiles, Writers
<1>1. CASE World
  BY <1>1, WorldLeaves DEF AdapterRevoked, Closed
<1>2. CASE Adapter
  BY <1>2, AdapterReach, NothingPrepared DEF AdapterLeaves, AdapterRevoked, Closed
<1>3. CASE Receipts
  <2>1. PICK w \in Writers :
           /\ UpdatePrepared(w) \/ UpdateSkipped(w) \/ UpdateRaises(w) \/ UpdateWritten(w)
           /\ w = "supervisor" => sup.pc = "write"
           /\ w # "supervisor" => w = "adapter"
    BY <1>3, OneWriter
  <2>2. sup' = sup
    BY <1>3, ReceiptsLeave
  <2>3. CASE w = "supervisor"
    BY <2>1, <2>2, <2>3 DEF AdapterRevoked
  <2>4. CASE w = "adapter"
    <3>1. CASE UpdatePrepared(w)
      BY <2>2, <2>4, <3>1 DEF UpdatePrepared, AdapterRevoked, Closed
    <3>2. CASE UpdateSkipped(w)
      <4>1. work'["adapter"].next = Nothing
        BY <1>0, <2>4, <3>2 DEF UpdateSkipped, Jobs
      <4> QED BY <2>2, <3>2, <4>1 DEF UpdateSkipped, AdapterRevoked, Closed
    <3>3. CASE UpdateRaises(w)
      <4>1. work'["adapter"].next = Nothing
        BY <1>0, <2>4, <3>3 DEF UpdateRaises, Jobs
      <4> QED BY <2>2, <3>3, <4>1 DEF UpdateRaises, AdapterRevoked, Closed
    <3>4. CASE UpdateWritten(w)
      BY <2>2, <2>4, <3>4 DEF UpdateWritten, AdapterRevoked
    <3> QED BY <2>1, <3>1, <3>2, <3>3, <3>4
  <2> QED BY <2>1, <2>3, <2>4
<1>4. CASE SupIssues
  <2>1. ~Issued /\ sup.pc = "observe" /\ revocation' = revocation
    BY <1>4 DEF SupIssues, InLoop
  <2>2. revocation = Nothing
    BY <2>1, FilesApart DEF AdapterRevoked, Closed, Issued
  <2> QED BY <2>1, <2>2 DEF AdapterRevoked
<1>5. CASE SupSeesBlocked
  BY <1>5, MovesReach DEF SupSeesBlocked, Moves, AdapterRevoked
<1>6. CASE SupRevokes
  BY <1>6, MovesReach DEF SupRevokes, Moves, AdapterRevoked
<1>7. ASSUME UNCHANGED <<scope, lifecycle, revocation, work>>,
             sup.pc \notin {"write", "ended"}
      PROVE  AdapterRevoked'
  BY <1>7 DEF AdapterRevoked, Closed
<1> QED BY <1>1, <1>2, <1>3, <1>4, <1>5, <1>6, <1>7, NextSplit, SupervisorFiles

LEMMA AcquiredOps ==
    /\ AcquiredJob.todo \in Seq(Ops) /\ AcquiredJob.todo # <<>>
    /\ Tail(AcquiredJob.todo) = <<AcquiredJob.todo[2]>>
    /\ Head(AcquiredJob.todo).do = "scope" /\ ~Head(AcquiredJob.todo).skip
    /\ AcquiredJob.todo[2].do = "lifecycle" /\ AcquiredJob.todo[2].acq
    /\ ~AcquiredJob.todo[2].skip
<1> DEFINE a == Op("scope", "LEASE_ACTIVE", TRUE, FALSE, FALSE)
           b == Op("lifecycle", "LEASE_ACTIVE", TRUE, FALSE, FALSE)
<1>1. AcquiredJob.todo = <<a, b>>
  BY DEF AcquiredJob, Job, Rest
<1>2. /\ a \in Ops /\ b \in Ops /\ a.do = "scope" /\ ~a.skip
      /\ b.do = "lifecycle" /\ b.acq /\ ~b.skip
  BY DEF Op, Ops
<1> HIDE DEF a, b
<1>3. /\ <<a, b>> \in Seq(Ops) /\ <<a, b>> # <<>> /\ Head(<<a, b>>) = a
      /\ Tail(<<a, b>>) = <<b>> /\ <<a, b>>[2] = b
  BY <1>2
<1> QED BY <1>1, <1>2, <1>3

LEMMA FaultStaysFirst ==
    ASSUME TypedAd, FaultFirst, NEW added \in Seq(Events), events' = events \o added,
           sup' = sup
    PROVE  FaultFirst'
<1>1. PICK i \in DOMAIN events :
         events[i] = "FAULT" /\ \A j \in 1 .. (i - 1) : events[j] # "RELEASED"
  BY DEF FaultFirst
<1>2. i \in DOMAIN events' /\ events'[i] = "FAULT"
  BY <1>1, EventsJoined
<1>3. \A j \in 1 .. (i - 1) : j \in DOMAIN events
  <2>1. Len(events) \in Nat /\ DOMAIN events = 1 .. Len(events)
    BY DEF TypedAd
  <2> QED BY <2>1
<1>4. \A j \in 1 .. (i - 1) : events'[j] # "RELEASED"
  BY <1>1, <1>3, EventsJoined
<1> QED BY <1>2, <1>4 DEF FaultFirst

(* The adapter has the acquisition of the Lease on record before it reports *)
(* the release, or a fault is found before the release is heard.            *)
LEMMA OnRecordAdapter ==
    ASSUME Typed, Filed, Admitted, OnRecord, Adapter PROVE OnRecord'
<1>0. /\ work \in [Writers -> Jobs] /\ "adapter" \in Writers
      /\ ad.lease \in {None, "seen", "released"}
  BY DEF Typed, TypedFiles, Writers, TypedAd, Adapters
<1>1. AdapterLeases /\ UNCHANGED <<sup, scope, lifecycle, gate, admission>>
  BY AdapterReach DEF AdapterLeaves
<1>2. PICK added \in Seq(Events) :
         /\ events' = events \o added
         /\ \A i \in DOMAIN added :
               added[i] = "RELEASED" => ad.lease = "seen" /\ ad'.lease = "released"
  BY AdapterReach DEF AdapterSays
<1>3. FaultFirst => FaultFirst'
  BY <1>1, <1>2, FaultStaysFirst DEF Typed
<1>4. ASSUME Unreleased, ad'.lease # "released" PROVE Unreleased'
  <2>1. \A i \in DOMAIN events' : events'[i] # "RELEASED"
    BY <1>2, <1>4, EventsJoined DEF Unreleased, Typed
  <2> QED BY <1>1, <1>4, <2>1 DEF Unreleased
<1> SUFFICES ASSUME sup.pc \in Loop PROVE OnRecord'
  BY <1>1 DEF OnRecord
<1>5. CASE ad'.lease = ad.lease /\ work' = work
  <2>1. (KeepsAcquisition => KeepsAcquisition') /\ (RecordsAcquisition => RecordsAcquisition')
    BY <1>1, <1>5 DEF KeepsAcquisition, RecordsAcquisition, AcquiredJob
  <2> QED BY <1>1, <1>3, <1>4, <1>5, <2>1 DEF OnRecord, Issued
<1>6. ASSUME NEW job, work' = [work EXCEPT !["adapter"] = job],
             job = Rest \/ (Fresh(job) /\ job.job # "acquired")
      PROVE  /\ KeepsAcquisition' /\ RecordsAcquisition'
             /\ work'["adapter"].job # "acquired"
  <2>1. work'["adapter"] = job
    BY <1>0, <1>6
  <2>2. job.next = Nothing /\ job.job # "acquired"
    BY <1>6, RestTyped DEF Fresh
  <2> QED BY <2>1, <2>2 DEF KeepsAcquisition, RecordsAcquisition
<1>7. CASE ad'.lease = ad.lease /\ \E job \in {AcceptedJob, FinishJob} : StartsJob(job)
  <2>1. KeepsAcquisition' /\ RecordsAcquisition'
    BY <1>6, <1>7, JobsFresh DEF StartsJob
  <2>2. work["adapter"].job # "acquired"
    BY <1>7 DEF StartsJob, Idle
  <2> QED BY <1>1, <1>3, <1>4, <1>7, <2>1, <2>2 DEF OnRecord, Issued
<1>8. CASE /\ ad.lease = None /\ gate.owner = "mission" /\ ad'.lease = "seen"
           /\ StartsJob(AcquiredJob)
  <2>1. work'["adapter"] = AcquiredJob /\ AcquiredJob.job = "acquired"
        /\ AcquiredJob.next = Nothing
    BY <1>0, <1>8, JobsFresh DEF StartsJob, Fresh
  <2>2. Issued
    BY <1>8 DEF Admitted
  <2>3. KeepsAcquisition'
    BY <2>1 DEF KeepsAcquisition
  <2>4. RecordsAcquisition'
    BY <1>8, <2>1 DEF RecordsAcquisition, AcquiredJob
  <2>5. Unreleased'
    BY <1>4, <1>8 DEF OnRecord, None
  <2> QED BY <1>1, <1>8, <2>1, <2>2, <2>3, <2>4, <2>5 DEF OnRecord, Issued
<1>9. CASE ad.lease = "seen" /\ ad'.lease = "released" /\ StartsJob(ReleasedJob)
  <2>1. KeepsAcquisition' /\ RecordsAcquisition'
    BY <1>6, <1>9, JobsFresh DEF StartsJob
  <2>2. work["adapter"].job # "acquired"
    BY <1>9 DEF StartsJob, Idle
  <2>3. (lifecycle.acq \/ FaultFirst) /\ Issued
    BY <1>9, <2>2 DEF OnRecord, None
  <2> QED BY <1>1, <1>3, <1>9, <2>1, <2>3 DEF OnRecord, Issued
<1>10. CASE /\ ad'.lease = ad.lease /\ Finished("adapter")
            /\ work' = [work EXCEPT !["adapter"] = Rest]
            /\ work["adapter"].raised => Emit(<<"FAULT">>)
  <2>1. KeepsAcquisition' /\ RecordsAcquisition'
    BY <1>6, <1>10
  <2>2. ad.lease # None => lifecycle.acq \/ FaultFirst'
    <3>1. CASE work["adapter"].job # "acquired"
      BY <1>3, <3>1 DEF OnRecord
    <3>2. CASE work["adapter"].job = "acquired"
      <4>1. work["adapter"].todo = <<>>
        BY <1>10 DEF Finished
      <4>2. <<AcquiredJob.todo[2]>> # <<>> /\ AcquiredJob.todo # <<>>
        BY AcquiredOps
      <4>3. ad.lease = "seen" /\ (work["adapter"].raised \/ lifecycle.acq)
        BY <3>2, <4>1, <4>2 DEF OnRecord, RecordsAcquisition
      <4>4. ASSUME work["adapter"].raised PROVE FaultFirst'
        <5>1. events' # <<>> /\ events'[Len(events')] = "FAULT"
          BY <1>10, <4>4, FaultAdded
        <5>2. Unreleased'
          BY <1>4, <1>10, <4>3 DEF OnRecord
        <5>3. events \in Seq(Events)
          BY DEF Typed, TypedAd
        <5>4. events' \in Seq(Events)
          BY <1>2, <5>3, ConcatProperties
        <5>5. /\ Len(events') \in Nat /\ Len(events') >= 1
              /\ DOMAIN events' = 1 .. Len(events')
          BY <5>1, <5>4
        <5>6. \A j \in 1 .. (Len(events') - 1) : events'[j] # "RELEASED"
          BY <5>2, <5>5 DEF Unreleased
        <5>7. Len(events') \in DOMAIN events'
          BY <5>5
        <5> QED BY <5>1, <5>2, <5>6, <5>7 DEF FaultFirst, Unreleased
      <4> QED BY <4>3, <4>4
    <3> QED BY <3>1, <3>2
  <2> QED BY <1>1, <1>4, <1>10, <2>1, <2>2 DEF OnRecord, Issued
<1> QED BY <1>1, <1>5, <1>7, <1>8, <1>9, <1>10 DEF AdapterLeases

(* Its updates of the receipts keep an acquisition that is recorded, and    *)
(* the job that records it does so or raises.                               *)
LEMMA OnRecordUpdate ==
    ASSUME Typed, Filed, OnRecord, sup.pc \in Loop,
           \/ UpdatePrepared("adapter") \/ UpdateSkipped("adapter")
           \/ UpdateRaises("adapter") \/ UpdateWritten("adapter"),
           ad' = ad
    PROVE  /\ KeepsAcquisition' /\ RecordsAcquisition' /\ (lifecycle.acq => lifecycle'.acq)
           /\ work'["adapter"].job = work["adapter"].job
<1> DEFINE old == work["adapter"]
           new == work'["adapter"]
           last == AcquiredJob.todo[2]
<1>0. work \in [Writers -> Jobs] /\ "adapter" \in Writers /\ old \in Jobs
  BY DEF Typed, TypedFiles, Writers
<1>1. KeepsAcquisition /\ RecordsAcquisition /\ (AcquiredJob.todo)' = AcquiredJob.todo
  BY DEF OnRecord, AcquiredJob
<1>2. /\ last.do = "lifecycle" /\ last.acq /\ ~last.skip /\ AcquiredJob.todo # <<>>
      /\ Head(<<last>>) = last /\ Tail(<<last>>) = <<>> /\ <<last>> # <<>>
      /\ Tail(AcquiredJob.todo) = <<last>>
      /\ Head(AcquiredJob.todo).do = "scope" /\ ~Head(AcquiredJob.todo).skip
  BY AcquiredOps
<1>3. CASE UpdatePrepared("adapter")
  <2>1. PICK value :
           /\ work' = [work EXCEPT !["adapter"].next = value]
           /\ Head(old.todo).do # "scope" =>
                 (lifecycle.acq \/ (Head(old.todo).do = "lifecycle" /\ Head(old.todo).acq)
                    => value.acq)
    BY <1>3 DEF UpdatePrepared, Doing
  <2>2. new.next = value /\ new.todo = old.todo /\ new.job = old.job /\ new.raised = old.raised
    BY <1>0, <2>1 DEF Jobs
  <2>3. lifecycle' = lifecycle
    BY <1>3 DEF UpdatePrepared
  <2>4. KeepsAcquisition'
    BY <2>1, <2>2, <2>3 DEF KeepsAcquisition
  <2>5. RecordsAcquisition'
    BY <1>1, <1>2, <2>1, <2>2, <2>3 DEF RecordsAcquisition
  <2> QED BY <2>2, <2>3, <2>4, <2>5
<1>4. CASE UpdateSkipped("adapter")
  <2>1. new.next = Nothing /\ new.job = old.job /\ lifecycle' = lifecycle
    BY <1>0, <1>4 DEF UpdateSkipped, Jobs
  <2>2. old.todo # <<>> /\ (Head(old.todo).skip \/ Head(old.todo).do \in {"close", "revoke"})
    BY <1>4 DEF UpdateSkipped, Doing
  <2>3. old.job # "acquired"
    BY <1>1, <1>2, <2>2 DEF RecordsAcquisition
  <2> QED BY <2>1, <2>3 DEF KeepsAcquisition, RecordsAcquisition
<1>5. CASE UpdateRaises("adapter")
  <2>1. /\ new.next = Nothing /\ new.job = old.job /\ new.todo = <<>> /\ new.raised
        /\ lifecycle' = lifecycle
    BY <1>0, <1>5 DEF UpdateRaises, Jobs
  <2>2. old.job = "acquired" => ad.lease = "seen"
    BY <1>1 DEF RecordsAcquisition
  <2> QED BY <2>1, <2>2 DEF KeepsAcquisition, RecordsAcquisition
<1>6. CASE UpdateWritten("adapter")
  <2>1. new.next = Nothing /\ new.job = old.job /\ new.todo = Tail(old.todo)
    BY <1>0, <1>6 DEF UpdateWritten, Jobs
  <2>2. /\ old.next # Nothing /\ old.todo # <<>>
        /\ Head(old.todo).do = "scope" => lifecycle' = lifecycle
        /\ Head(old.todo).do # "scope" => lifecycle' = old.next
    BY <1>6 DEF UpdateWritten, Doing
  <2>3. lifecycle.acq => lifecycle'.acq
    BY <1>1, <2>2 DEF KeepsAcquisition
  <2>4. RecordsAcquisition'
    BY <1>1, <1>2, <2>1, <2>2 DEF RecordsAcquisition
  <2> QED BY <2>1, <2>3, <2>4 DEF KeepsAcquisition
<1> QED BY <1>3, <1>4, <1>5, <1>6

LEMMA OnRecordKept ==
    ASSUME Typed, Filed, Admitted, OnRecord, Next PROVE OnRecord'
<1>0. "adapter" \in Writers
  BY DEF Writers
<1>1. ASSUME UNCHANGED <<scope, lifecycle, work, events>>, ad'.lease = ad.lease,
             sup'.heard = sup.heard, sup.pc \in Loop
      PROVE  OnRecord'
  BY <1>1 DEF OnRecord, Issued, Unreleased, KeepsAcquisition, FaultFirst, RecordsAcquisition,
              AcquiredJob
<1>2. CASE World
  BY <1>1, <1>2, WorldLeaves, MissionReach DEF OnRecord
<1>3. CASE Adapter
  BY <1>3, OnRecordAdapter
<1>4. CASE Receipts
  <2>1. UNCHANGED <<ad, events, sup>> /\ Issued' = Issued
    BY <1>4, ReceiptsLeave, IssuedKept
  <2> SUFFICES ASSUME sup.pc \in Loop PROVE OnRecord'
    BY <2>1 DEF OnRecord
  <2>2. \/ UpdatePrepared("adapter") \/ UpdateSkipped("adapter")
        \/ UpdateRaises("adapter") \/ UpdateWritten("adapter")
    BY <1>4, OneWriter DEF Loop
  <2>3. /\ KeepsAcquisition' /\ RecordsAcquisition' /\ (lifecycle.acq => lifecycle'.acq)
        /\ work'["adapter"].job = work["adapter"].job
    BY <2>1, <2>2, OnRecordUpdate
  <2> QED BY <2>1, <2>3 DEF OnRecord, Unreleased, FaultFirst
<1>5. CASE SupIssues
  <2>1. /\ sup.pc \in Loop /\ ~Issued /\ Issued' /\ UNCHANGED <<ad, events, work>>
        /\ sup'.heard = sup.heard
    BY <1>5, MovesReach DEF SupIssues, InLoop, Loop, Moves, adVars, Issue, Issued, Grant, Nothing
  <2>2. work["adapter"].next = Nothing /\ ad.lease = None
    BY <1>0, <2>1 DEF Filed, OnRecord
  <2>3. RecordsAcquisition /\ (AcquiredJob.todo)' = AcquiredJob.todo
    BY <2>1 DEF OnRecord, AcquiredJob
  <2>4. work["adapter"].job # "acquired"
    BY <2>2, <2>3 DEF RecordsAcquisition, None
  <2>5. KeepsAcquisition' /\ RecordsAcquisition' /\ Unreleased'
    BY <2>1, <2>2, <2>4 DEF OnRecord, KeepsAcquisition, RecordsAcquisition, Unreleased, None
  <2> QED BY <2>1, <2>2, <2>5 DEF OnRecord
<1>6. ASSUME sup'.pc \in Leaving PROVE OnRecord'
  BY <1>6 DEF OnRecord, Loop, Leaving
<1>7. CASE SupSeesBlocked
  BY <1>6, <1>7, MovesReach DEF SupSeesBlocked, Moves, Leaving
<1>8. CASE SupRevokes
  BY <1>6, <1>8, MovesReach DEF SupRevokes, Moves, Leaving
<1>9. CASE Quits
  BY <1>6, <1>9 DEF Quits, Departing, Leaving
<1>10. ASSUME events # <<>>, events' = Tail(events), HearsOnly(Head(events)),
              UNCHANGED <<ad, scope, lifecycle, revocation, work>>, sup.pc \in Loop,
              Head(events) # "FAULT"
       PROVE  OnRecord'
  <2>1. /\ Head(events) = events[1] /\ 1 \in DOMAIN events
        /\ DOMAIN events = 1 .. Len(events) /\ Len(events) \in Nat
        /\ DOMAIN events' = 1 .. (Len(events) - 1)
        /\ \A i \in DOMAIN events' : i + 1 \in DOMAIN events /\ events'[i] = events[i + 1]
    BY <1>10, EventsTaken DEF Typed
  <2>2. sup'.heard = sup.heard \/ sup'.heard = sup.heard \cup {events[1]}
    BY <1>10, <2>1 DEF HearsOnly
  <2>3. Unreleased => Unreleased'
    BY <2>1, <2>2 DEF Unreleased
  <2>4. ASSUME FaultFirst PROVE FaultFirst'
    <3>1. PICK i \in DOMAIN events :
             events[i] = "FAULT" /\ \A j \in 1 .. (i - 1) : events[j] # "RELEASED"
      BY <2>4 DEF FaultFirst
    <3>2. i # 1 /\ i \in Nat /\ i > 1
      BY <1>10, <2>1, <3>1
    <3>3. events[1] # "RELEASED"
      BY <3>1, <3>2
    <3>4. i - 1 \in DOMAIN events' /\ events'[i - 1] = "FAULT"
      <4>1. i - 1 \in DOMAIN events' /\ (i - 1) + 1 = i
        BY <2>1, <3>1, <3>2
      <4> QED BY <2>1, <3>1, <4>1
    <3>5. ASSUME NEW j \in 1 .. ((i - 1) - 1) PROVE events'[j] # "RELEASED"
      <4>1. j \in DOMAIN events' /\ j + 1 \in 1 .. (i - 1)
        BY <2>1, <3>1, <3>2
      <4> QED BY <2>1, <3>1, <4>1
    <3>6. "RELEASED" \notin sup'.heard
      BY <2>2, <2>4, <3>3 DEF FaultFirst
    <3> QED BY <3>4, <3>5, <3>6 DEF FaultFirst
  <2>5. (KeepsAcquisition => KeepsAcquisition') /\ (RecordsAcquisition => RecordsAcquisition')
    BY <1>10 DEF KeepsAcquisition, RecordsAcquisition, AcquiredJob
  <2> QED BY <1>10, <2>3, <2>4, <2>5 DEF OnRecord, Issued
<1>11. ASSUME Supervisor, UNCHANGED <<scope, lifecycle, revocation, work>>,
              sup.pc \in Leaving => sup'.pc \in Leaving
       PROVE  OnRecord'
  <2>0. sup.pc \in Loop \cup Leaving
    BY DEF Typed, TypedSup, Supervisors
  <2>1. CASE sup'.pc \in Leaving
    BY <1>6, <2>1
  <2>2. CASE sup'.pc \notin Leaving
    <3>1. sup.pc \in Loop
      BY <1>11, <2>0, <2>2
    <3> QED BY <1>1, <1>9, <1>10, <1>11, <2>2, <3>1, SupervisorEvents
  <2> QED BY <2>1, <2>2
<1> QED BY <1>2, <1>3, <1>4, <1>5, <1>7, <1>8, <1>11, NextSplit, SupervisorFiles

(* What a success rests on is not taken back: no receipt is rewritten and   *)
(* the Mission stays done.                                                  *)
LEMMA SealedFiles == Sealed => Issued /\ revocation # Nothing /\ mission # "idle"
BY FilesApart DEF Sealed, Closed, Issued

LEMMA SealedKept == ASSUME Typed, Filed, Admitted, Sealed, Next PROVE Sealed'
<1>0. /\ work \in [Writers -> Jobs] /\ Writers = {"adapter", "supervisor"}
      /\ Issued /\ revocation # Nothing /\ ad.goal
  BY SealedFiles DEF Typed, TypedFiles, Writers, Admitted
<1>1. CASE World
  BY <1>1, WorldLeaves, MissionReach DEF Sealed, Closed
<1>2. CASE Adapter
  <2>1. UNCHANGED <<mission, scope, lifecycle, revocation>>
    BY <1>0, <1>2, AdapterReach DEF AdapterLeaves
  <2>2. \A w \in Writers : work'[w].next = Nothing
    BY <1>0, <1>2, NothingPrepared DEF Sealed
  <2> QED BY <2>1, <2>2 DEF Sealed, Closed
<1>3. CASE Receipts
  <2>1. PICK w \in Writers : UpdatePrepared(w) \/ UpdateSkipped(w) \/ UpdateRaises(w)
                                \/ UpdateWritten(w)
    BY <1>3, UpdateReach DEF Receipts
  <2>2. mission' = mission
    BY <1>3, ReceiptsLeave
  <2>3. ~UpdatePrepared(w) /\ ~UpdateWritten(w)
    BY DEF UpdatePrepared, UpdateWritten, Sealed, Closed
  <2>4. UNCHANGED <<scope, lifecycle, revocation>>
    BY <1>0, <2>1, <2>3 DEF UpdateSkipped, UpdateRaises
  <2>5. work'[w].next = Nothing /\ \A o \in Writers \ {w} : work'[o] = work[o]
    <3>1. CASE UpdateSkipped(w)
      BY <1>0, <3>1 DEF UpdateSkipped, Jobs
    <3>2. CASE UpdateRaises(w)
      BY <1>0, <3>2 DEF UpdateRaises, Jobs
    <3> QED BY <2>1, <2>3, <3>1, <3>2
  <2> QED BY <2>2, <2>4, <2>5 DEF Sealed, Closed
<1>4. CASE SupIssues
  BY <1>0, <1>4 DEF SupIssues
<1>5. ASSUME NEW job, job.next = Nothing, work' = [work EXCEPT !["supervisor"] = job],
             UNCHANGED <<mission, scope, lifecycle, revocation>>
      PROVE  Sealed'
  <2>1. work'["supervisor"] = job /\ work'["adapter"] = work["adapter"]
    BY <1>0, <1>5
  <2> QED BY <1>0, <1>5, <2>1 DEF Sealed, Closed
<1>6. ASSUME UNCHANGED <<mission, scope, lifecycle, revocation, work>> PROVE Sealed'
  BY <1>6 DEF Sealed, Closed
<1>7. CASE SupSeesBlocked
  <2>1. RevokeJob.next = Nothing
    BY JobsFresh DEF Fresh, Acquired, Released
  <2>2. UNCHANGED <<mission, scope, lifecycle, revocation>>
        /\ (work' = work \/ work' = [work EXCEPT !["supervisor"] = RevokeJob])
    BY <1>7 DEF SupSeesBlocked, Starts, missionVars
  <2> QED BY <1>5, <1>6, <2>1, <2>2
<1>8. CASE SupRevokes
  <2>1. UNCHANGED <<mission, scope, lifecycle, revocation>>
        /\ work' = [work EXCEPT !["supervisor"] = Rest]
    BY <1>8 DEF SupRevokes, Ends, Starts, missionVars
  <2> QED BY <1>5, <2>1, RestTyped
<1>9. ASSUME Supervisor, UNCHANGED <<scope, lifecycle, revocation, work>> PROVE Sealed'
  <2>1. mission' = mission
    BY <1>9, SupervisorEvents DEF Quits
  <2> QED BY <1>6, <1>9, <2>1
<1> QED BY <1>1, <1>2, <1>3, <1>4, <1>7, <1>8, <1>9, NextSplit, SupervisorFiles

(* Once the supervisor leaves, all it asks of the interlock is to close.    *)
LEMMA StaysSafe ==
    ASSUME Typed, Supervisor, sup.pc \in Leaving, Shut, NoneOpens PROVE Shut' /\ NoneOpens'
<1>0. sup.pc \notin Loop /\ TypedGate
  BY DEF Loop, Leaving, Typed
<1>1. ASSUME UNCHANGED <<gate, calls>> PROVE Shut' /\ NoneOpens'
  BY <1>1 DEF Shut, NoneOpens
<1>2. ASSUME gate' = gate, calls' = GivenUp \/ AsksInterlock(FALSE) PROVE Shut' /\ NoneOpens'
  BY <1>0, <1>2, GivenUpOpensNone, ClosingOpensNone DEF Shut
<1>3. ~Quits
  BY <1>0 DEF Quits
<1>4. ~(SupHears /\ ~Quits) /\ ~SupRecordsReadiness /\ ~SupIssues /\ ~SupHearsOpen
      /\ ~SupSeesOpen /\ ~SupAdmits /\ ~SupCompletes
  BY <1>0 DEF SupHears, SupRecordsReadiness, SupIssues, SupHearsOpen, SupSeesOpen, SupAdmits,
              SupCompletes, InLoop, Loop
<1> USE DEF gateVars
<1>5. CASE SupSamples
  BY <1>1, <1>5 DEF SupSamples
<1>6. CASE SupHearsClose
  BY <1>1, <1>6 DEF SupHearsClose
<1>7. CASE SupHearsLate
  BY <1>1, <1>7 DEF SupHearsLate
<1>8. CASE SupSeesNoLease
  BY <1>2, <1>8 DEF SupSeesNoLease
<1>9. CASE SupCannotRevoke
  BY <1>2, <1>9 DEF SupCannotRevoke, Unverified, GivesUpCalls, GivenUp
<1>10. CASE SupSeesBlocked
  BY <1>1, <1>10 DEF SupSeesBlocked
<1>11. CASE SupRevokes
  BY <1>1, <1>11 DEF SupRevokes
<1> QED BY <1>3, <1>4, <1>5, <1>6, <1>7, <1>8, <1>9, <1>10, <1>11, SupervisorSplit

(* When the evidence is complete, everything a success rests on is there.   *)
LEMMA CompletedIsSealed ==
    ASSUME Typed, Filed, Succeeded, AdapterRevoked, OnRecord, SupCompletes PROVE Sealed
<1>1. /\ sup.pc = "observe" /\ "RELEASED" \in sup.heard /\ sup.terminal = "OK"
      /\ RevocationValid(TRUE, TRUE)
  BY DEF SupCompletes, Complete, InLoop
<1>2. Closed /\ revocation.st = "REVOKED" /\ revocation.acq /\ revocation.rel
  BY <1>1 DEF RevocationValid, Closed
<1>3. mission = "succeeded"
  BY <1>1 DEF Succeeded
<1>4. revocation # Nothing
  BY <1>2, FilesApart
<1>5. work["adapter"].next = Nothing /\ work["supervisor"].next = Nothing
  BY <1>1, <1>4, RestTyped DEF AdapterRevoked, Filed
<1>6. lifecycle.acq
  <2>1. ~Unreleased /\ ~FaultFirst
    BY <1>1 DEF Unreleased, FaultFirst
  <2>2. ad.lease = "released"
    BY <1>1, <2>1 DEF OnRecord, Loop
  <2>3. work["adapter"].job # "acquired"
    BY <1>1, <2>2 DEF OnRecord, RecordsAcquisition, Loop
  <2> QED BY <1>1, <2>1, <2>2, <2>3 DEF OnRecord, Loop, None
<1> QED BY <1>2, <1>3, <1>5, <1>6 DEF Sealed, Writers

LEMMA PassedKept ==
    ASSUME Typed, Filed, Admitted, Asked, Succeeded, AdapterRevoked, OnRecord, Passed, Next
    PROVE  Passed'
<1>0. Sealed => Sealed'
  BY SealedKept
<1>1. CASE World
  <2>1. sup' = sup /\ execution' = execution
    BY <1>1, WorldLeaves
  <2> QED BY <1>0, <1>1, <2>1, StaysClosed DEF Passed
<1>2. CASE Adapter
  <2>1. UNCHANGED <<sup, execution, gate, calls>>
    BY <1>2, AdapterReach DEF AdapterLeaves
  <2> QED BY <1>0, <2>1 DEF Passed, Shut, NoneOpens
<1>3. CASE Receipts
  <2>1. UNCHANGED <<sup, execution, gate, calls>>
    BY <1>3, ReceiptsLeave
  <2> QED BY <1>0, <2>1 DEF Passed, Shut, NoneOpens
<1>4. CASE Quits
  <2>1. sup.pc \in Loop /\ sup'.pc \in Leaving /\ sup'.pc \notin {"close", "closeSeen"}
    BY <1>4 DEF Quits, Departing, Leaving
  <2>2. execution' = "PASS" => sup.pc = "closeSeen"
    BY <1>4, <2>1 DEF Quits, Passed, Loop, Leaving
  <2>3. sup.pc = "closeSeen" => Sealed' /\ Shut' /\ NoneOpens'
    <3> HAVE sup.pc = "closeSeen"
    <3>1. calls = <<>> /\ Shut
      BY AskedSplit DEF AskedAt
    <3>2. NoneOpens /\ TypedGate /\ calls' = GivenUp /\ gate' = gate
      BY <1>4, <3>1 DEF NoneOpens, Typed, Quits
    <3> QED BY <1>0, <3>1, <3>2, GivenUpOpensNone DEF Passed, Shut
  <2> QED BY <2>1, <2>2, <2>3 DEF Passed
<1>5. CASE Supervisor /\ ~Quits
  <2>1. execution' = execution /\ gate' = gate
    BY <1>5, SupervisorEvents
  <2>2. ASSUME execution = "PASS" PROVE sup'.pc \in Leaving /\ Sealed' /\ Shut' /\ NoneOpens'
    <3>1. sup.pc \in Leaving /\ Sealed /\ Shut /\ NoneOpens
      BY <2>2 DEF Passed
    <3>2. ~SupIssues
      BY <3>1 DEF SupIssues, InLoop, Leaving
    <3>3. sup'.pc \in Leaving
      <4>1. SupSeesBlocked \/ SupRevokes => sup'.pc \in Leaving
        BY MovesReach DEF Moves, Leaving
      <4> QED BY <1>5, <3>1, <3>2, <4>1, SupervisorFiles
    <3> QED BY <1>0, <1>5, <3>1, <3>3, StaysSafe
  <2>3. ASSUME sup'.pc \in {"close", "closeSeen"} PROVE Sealed'
    <3>1. sup.pc \in {"close", "closeSeen"} => Sealed'
      BY <1>0 DEF Passed
    <3>2. SupCompletes => Sealed'
      BY <1>0, CompletedIsSealed
    <3>3. SupSamples \/ SupHearsClose => sup.pc \in {"close", "closeSeen"}
      <4>1. SupSamples => sup'.pc = sup.pc
        BY MovesReach DEF Moves
      <4>2. SupHearsClose => sup'.pc = "revSeen" \/ sup.pc = "close"
        BY MovesReach DEF Moves
      <4> QED BY <2>3, <4>1, <4>2
    <3>4. ~(SupHears /\ ~Quits)
      BY <2>3, HearsReach, QuitsReach DEF HearsOnly
    <3>5. ~SupRecordsReadiness /\ ~SupIssues /\ ~SupHearsOpen /\ ~SupSeesOpen /\ ~SupAdmits
      BY <2>3, MovesReach DEF Moves
    <3>6. ~SupHearsLate /\ ~SupSeesNoLease /\ ~SupCannotRevoke /\ ~SupSeesBlocked /\ ~SupRevokes
      BY <2>3, MovesReach DEF Moves
    <3> QED BY <1>5, <3>1, <3>2, <3>3, <3>4, <3>5, <3>6, SupervisorSplit
  <2> QED BY <2>1, <2>2, <2>3 DEF Passed
<1> QED BY <1>1, <1>2, <1>3, <1>4, <1>5, NextSplit

---------------------------------------------------------------------------
(* The ledger. *)

(* Of the phases that are lost there is a first one. *)
LEMMA Least ==
    ASSUME NEW S \in SUBSET Phases, S # {} PROVE \E p \in S : \A q \in S : p <= q
<1> DEFINE T == {1 .. p : p \in S}
<1>1. S \subseteq Nat /\ (\A p \in S : p >= 1) /\ T # {}
  <2>1. \A p \in Phases : p \in Nat /\ p >= 1
    BY PhasesExist DEF Phases
  <2> QED BY <2>1
<1>2. T \subseteq FiniteSubsetsOf(Nat)
  <2>1. \A p \in S : 1 .. p \subseteq Nat /\ IsFiniteSet(1 .. p)
    BY <1>1, FS_Interval
  <2> QED BY <2>1 DEF FiniteSubsetsOf
<1>3. PICK t \in T : \A u \in T : ~(<<u, t>> \in StrictSubsetOrdering(Nat))
  BY <1>1, <1>2, FS_StrictSubsetOrderingWellFounded, WFMin
<1>4. PICK p \in S : t = 1 .. p
  OBVIOUS
<1>5. ASSUME NEW q \in S, q < p PROVE FALSE
  <2>1. 1 .. q \in T /\ 1 .. q \subseteq 1 .. p /\ 1 .. q # 1 .. p
    BY <1>1, <1>5
  <2>2. 1 .. q \in SUBSET Nat /\ 1 .. p \in SUBSET Nat
    BY <1>1
  <2> QED BY <1>3, <1>4, <2>1, <2>2 DEF StrictSubsetOrdering
<1> QED BY <1>1, <1>5

LEMMA FirstIsLost ==
    ASSUME NEW l, NEW ready, Lost(l, ready) # {}
    PROVE  FirstLost(l, ready) \in Lost(l, ready)
<1>1. \E p \in Lost(l, ready) : \A q \in Lost(l, ready) : p <= q
  BY Least DEF Lost
<1> QED BY <1>1 DEF FirstLost

(* What becomes of a ledger in order that has not failed. *)
LEMMA OrderKept ==
    ASSUME NEW l \in Ledgers, Ordered(l), ~Failed(l), NEW phase \in Phases
    PROVE  /\ \A ready : Ordered(Advance(l, ready)) /\ ~Failed(Advance(l, ready))
           /\ Ordered(FailAt(l, phase))
           /\ Ordered(ReopenFrom(l, phase)) /\ ~Failed(ReopenFrom(l, phase))
<1>1. /\ \A p \in Phases : l[p] = "NOT RUN" \/ l[p] = "PASS"
      /\ \A p, q \in Phases : p < q /\ l[q] = "PASS" => l[p] = "PASS"
  BY DEF Ledgers, PhaseStates, Ordered, Failed
<1>2. Phases \subseteq Nat /\ \A p, q \in Phases : p < q => 1 .. p \subseteq 1 .. q
  BY PhasesExist DEF Phases
<1>3. ASSUME NEW ready
      PROVE  Ordered(Advance(l, ready)) /\ ~Failed(Advance(l, ready))
  <2> DEFINE Free(p) == \A q \in 1 .. p : l[q] = "PASS" \/ q \in ready
  <2>1. \A p \in Phases : Advance(l, ready)[p] = IF Free(p) THEN "PASS" ELSE l[p]
    BY DEF Advance
  <2>2. \A p \in Phases : Advance(l, ready)[p] = "NOT RUN" \/ Advance(l, ready)[p] = "PASS"
    BY <1>1, <2>1
  <2>3. \A p, q \in Phases : p < q /\ Free(q) => Free(p)
    BY <1>2
  <2>4. ASSUME NEW p \in Phases, NEW q \in Phases, p < q, Advance(l, ready)[q] = "PASS"
        PROVE  Advance(l, ready)[p] = "PASS"
    <3> HIDE DEF Free
    <3> QED BY <1>1, <2>1, <2>3, <2>4
  <2> QED BY <2>2, <2>4 DEF Ordered, Failed
<1>4. Ordered(FailAt(l, phase))
  <2>1. \A p \in Phases : FailAt(l, phase)[p] =
            IF p = phase THEN "FAIL" ELSE IF p > phase THEN "BLOCKED" ELSE l[p]
    BY DEF FailAt
  <2> DEFINE f == FailAt(l, phase)
  <2> HIDE DEF f
  <2>2. \A p \in Phases : /\ p < phase => f[p] = l[p]
                          /\ p = phase => f[p] = "FAIL"
                          /\ p > phase => f[p] = "BLOCKED"
    BY <1>2, <2>1 DEF f
  <2>3. \A p \in Phases : p < phase \/ p = phase \/ p > phase
    BY <1>2
  <2>4. ASSUME NEW p \in Phases, NEW q \in Phases, p < q
        PROVE  /\ f[q] = "PASS" => f[p] = "PASS"
               /\ f[p] = "FAIL" => f[q] = "BLOCKED"
    <3>1. p < phase \/ q > phase
      BY <1>2, <2>4
    <3>2. CASE p < phase
      <4>1. f[p] # "FAIL" /\ f[p] = l[p]
        BY <1>1, <2>2, <3>2
      <4>2. f[q] = "PASS" => q < phase /\ l[q] = "PASS"
        BY <2>2, <2>3
      <4> QED BY <1>1, <2>4, <4>1, <4>2
    <3>3. CASE q > phase
      BY <2>2, <3>3
    <3> QED BY <3>1, <3>2, <3>3
  <2>5. ASSUME NEW q \in Phases, f[q] = "BLOCKED"
        PROVE  \E p \in Phases : p < q /\ f[p] = "FAIL"
    <3>1. phase < q
      BY <1>1, <1>2, <2>2, <2>3, <2>5
    <3> QED BY <2>2, <3>1
  <2> QED BY <2>4, <2>5 DEF Ordered, f
<1>5. Ordered(ReopenFrom(l, phase)) /\ ~Failed(ReopenFrom(l, phase))
  <2> DEFINE f == ReopenFrom(l, phase)
  <2>1. \A p \in Phases : f[p] = IF p >= phase THEN "NOT RUN" ELSE l[p]
    BY DEF ReopenFrom
  <2> HIDE DEF f
  <2>2. \A p \in Phases : f[p] = "NOT RUN" \/ f[p] = "PASS"
    BY <1>1, <2>1
  <2>3. ASSUME NEW p \in Phases, NEW q \in Phases, p < q, f[q] = "PASS" PROVE f[p] = "PASS"
    <3>1. p \in Nat /\ q \in Nat /\ phase \in Nat
      BY <1>2
    <3>2. ~(q >= phase) /\ l[q] = "PASS"
      BY <2>1, <2>3
    <3>3. ~(p >= phase)
      BY <2>3, <3>1, <3>2
    <3>4. l[p] = "PASS"
      BY <1>1, <2>3, <3>2
    <3> QED BY <2>1, <3>3, <3>4
  <2>4. Ordered(f) /\ ~Failed(f)
    BY <2>2, <2>3 DEF Ordered, Failed
  <2> QED BY <2>4 DEF f
<1> QED BY <1>3, <1>4, <1>5

(* The supervisor takes no phase back under an authority, and has left its  *)
(* loop when a phase has failed.                                            *)
Ready ==
    /\ Ordered(ledger) /\ (Failed(ledger) => sup.pc \in Leaving)
    /\ AuthorityNeedsReadiness

LEMMA SupervisorLedger ==
    ASSUME Supervisor
    PROVE  SupRecordsReadiness \/ SupLosesReadiness \/ ledger' = ledger
BY DEF Supervisor, SupRejects, SupRejectsCommand, SupStops, SupTimesOut, SupSamples,
       SupRejectsGoal, SupHears, SupIssues, SupHearsOpen, SupSeesOpen, SupCannotOpen, SupAdmits,
       SupCompletes, SupHearsClose, SupCannotClose, SupPasses, SupHearsLate, SupSeesNoLease,
       SupCannotRevoke, SupSeesBlocked, SupRevokes, SupFails, SupLeaves, Unverified

LEMMA ReadyRecorded ==
    ASSUME Typed, Ready, SupRecordsReadiness PROVE Ready'
<1>1. ledger \in Ledgers /\ Ordered(ledger) /\ ~Failed(ledger) /\ 1 \in Phases
  BY PhasesExist DEF Typed, TypedSup, Ready, SupRecordsReadiness, InLoop, Leaving, Phases
<1>2. PICK ready \in SUBSET Phases :
         LET after == Advance(ledger, ready) IN
         /\ ledger' = IF Lost(after, ready) = {} THEN after
                      ELSE ReopenFrom(after, FirstLost(after, ready))
         /\ Lost(after, ready) # {} => ~Issued
  BY DEF SupRecordsReadiness
<1> DEFINE after == Advance(ledger, ready)
<1>3. after \in Ledgers /\ Ordered(after) /\ ~Failed(after)
  BY <1>1, OrderKept, LedgersTyped
<1>4. AllPass(ledger) => AllPass(after)
  BY <1>1 DEF AllPass, Advance, Phases
<1> HIDE DEF after
<1>5. Ordered(ledger') /\ ~Failed(ledger')
  <2>1. CASE Lost(after, ready) = {}
    BY <1>2, <1>3, <2>1 DEF after
  <2>2. CASE Lost(after, ready) # {}
    <3>1. FirstLost(after, ready) \in Phases
      BY <2>2, FirstIsLost DEF Lost
    <3>2. ledger' = ReopenFrom(after, FirstLost(after, ready))
      BY <1>2, <2>2 DEF after
    <3> QED BY <1>3, <3>1, <3>2, OrderKept
  <2> QED BY <2>1, <2>2
<1>6. AuthorityNeedsReadiness'
  <2>1. Issued' = Issued
    BY DEF SupRecordsReadiness, receiptVars, Issued
  <2>2. ASSUME Issued PROVE AllPass(ledger')
    <3>1. ledger' = after
      BY <1>2, <2>2 DEF after
    <3> QED BY <1>1, <1>4, <2>2, <3>1 DEF Ready, AuthorityNeedsReadiness
  <2> QED BY <2>1, <2>2 DEF AuthorityNeedsReadiness
<1> QED BY <1>5, <1>6 DEF Ready

LEMMA ReadyKept ==
    ASSUME Typed, Filed, Ready, Next PROVE Ready'
<1>1. ASSUME ledger' = ledger, sup.pc \in Leaving => sup'.pc \in Leaving, Issued' = Issued
      PROVE  Ready'
  BY <1>1 DEF Ready, AuthorityNeedsReadiness
<1>2. CASE World
  BY <1>1, <1>2, WorldLeaves DEF Issued
<1>3. CASE Adapter
  BY <1>1, <1>3, AdapterReach DEF AdapterLeaves, Issued
<1>4. CASE Receipts
  BY <1>1, <1>4, ReceiptsLeave, IssuedKept
<1>5. CASE SupRecordsReadiness
  BY <1>5, ReadyRecorded
<1>6. CASE SupLosesReadiness
  <2>1. ledger \in Ledgers /\ Ordered(ledger) /\ ~Failed(ledger)
    BY <1>6 DEF Typed, TypedSup, Ready, SupLosesReadiness, InLoop, Leaving
  <2>2. PICK phase \in Phases : ledger' = FailAt(ledger, phase)
    BY <1>6 DEF SupLosesReadiness
  <2>3. Ordered(ledger') /\ Failed(ledger')
    <3>1. ledger'[phase] = "FAIL"
      BY <2>2 DEF FailAt
    <3> QED BY <2>1, <2>2, <3>1, OrderKept DEF Failed
  <2>4. sup'.pc \in Leaving
    BY <1>6, DeparturesReach DEF Departures, Departs, Departing, Leaving
  <2> QED BY <2>3, <2>4 DEF Ready, AuthorityNeedsReadiness
<1>7. CASE Supervisor /\ ledger' = ledger
  <2>1. CASE SupIssues
    BY <1>7, <2>1 DEF SupIssues, Ready, AuthorityNeedsReadiness, InLoop, Leaving, AllPass, Failed
  <2>2. CASE SupSeesBlocked \/ SupRevokes
    <3>1. scope' = scope
      BY <2>2 DEF SupSeesBlocked, SupRevokes
    <3>2. sup'.pc \in Leaving
      BY <2>2, MovesReach DEF Moves, Leaving
    <3> QED BY <1>1, <1>7, <3>1, <3>2 DEF Issued
  <2>3. CASE UNCHANGED scope /\ (sup.pc \in Leaving => sup'.pc \in Leaving)
    BY <1>1, <1>7, <2>3 DEF Issued
  <2> QED BY <1>7, <2>1, <2>2, <2>3, SupervisorFiles
<1> QED BY <1>2, <1>3, <1>4, <1>5, <1>6, <1>7, SupervisorLedger, NextSplit

---------------------------------------------------------------------------
(* The theorems. *)

IInv == Typed /\ Filed /\ Admitted /\ Asked /\ Ended /\ Succeeded /\ AdapterRevoked
           /\ OnRecord /\ Passed /\ Ready

LEMMA InitTyped == Init => Typed
<1> SUFFICES ASSUME Init PROVE Typed
  OBVIOUS
<1>1. <<>> \in Seq(Requests) /\ <<>> \in Seq(Events)
  OBVIOUS
<1> USE DEF Init, ReceiptsInit
<1>2. TypedGate
  BY <1>1 DEF TypedGate, Samples, None
<1>3. TypedMission
  BY DEF TypedMission
<1>4. TypedAd
  BY <1>1 DEF TypedAd, Adapters, Seen, None
<1>5. TypedSup
  <2>1. NewLedger \in Ledgers
    BY DEF NewLedger, Ledgers, PhaseStates
  <2>2. sup \in Supervisors
    BY DEF Supervisors, Seen, Loop, None
  <2> QED BY <2>1, <2>2 DEF TypedSup
<1>6. TypedFiles
  BY RestTyped DEF TypedFiles
<1> QED BY <1>2, <1>3, <1>4, <1>5, <1>6 DEF Typed

LEMMA InitIInv == Init => IInv
<1> SUFFICES ASSUME Init PROVE IInv
  OBVIOUS
<1>1. Typed
  BY InitTyped
<1>2. DOMAIN <<>> = {} /\ Len(<<>>) = 0
  OBVIOUS
<1>3. /\ DOMAIN events = {} /\ DOMAIN calls = {} /\ Len(calls) = 0 /\ calls = <<>>
      /\ sup.pc = "observe" /\ sup.closed = FALSE /\ sup.terminal = None /\ sup.heard = {}
      /\ status = None /\ ad.ok = FALSE /\ ad.lease = None
  BY <1>2 DEF Init
<1>4. Asked
  BY <1>3 DEF Asked
<1>5. Succeeded
  BY <1>3 DEF Succeeded, None
<1>6. Unreleased
  BY <1>3 DEF Unreleased
<1> USE DEF Init, ReceiptsInit
<1>7. /\ work["adapter"] = Rest /\ work["supervisor"] = Rest
      /\ \A w \in Writers : work[w].next = Nothing
  BY RestTyped DEF Writers
<1>8. Filed
  BY <1>7, RestTyped DEF Filed, Issued
<1>9. Admitted
  BY DEF Admitted, Issued, Loop, Leaving, None
<1>10. Ended
  BY DEF Ended, Leaving, None
<1>11. AdapterRevoked
  BY DEF AdapterRevoked
<1>12. OnRecord
  <2>1. KeepsAcquisition /\ RecordsAcquisition
    BY <1>7, RestTyped DEF KeepsAcquisition, RecordsAcquisition
  <2> QED BY <1>3, <1>6, <2>1 DEF OnRecord
<1>13. Passed
  BY DEF Passed, None
<1>14. Ready
  <2>1. \A p \in Phases : ledger[p] = "NOT RUN"
    BY DEF NewLedger
  <2> QED BY <2>1 DEF Ready, Ordered, Failed, AuthorityNeedsReadiness, Issued
<1> QED BY <1>1, <1>4, <1>5, <1>8, <1>9, <1>10, <1>11, <1>12, <1>13, <1>14 DEF IInv

LEMMA TypedKept == ASSUME Typed, Filed, Next PROVE Typed'
BY WorldTyped, AdapterTyped, SupervisorTyped, ReceiptsTyped, NextSplit

LEMMA IInvKept == IInv /\ [Next]_vars => IInv'
<1>1. ASSUME IInv, Next PROVE IInv'
  <2> USE <1>1 DEF IInv
  <2>1. Typed' /\ Filed' /\ Admitted'
    BY TypedKept, FiledKept, AdmittedKept
  <2>2. Asked' /\ Ended' /\ Succeeded'
    BY AskedKept, EndedKept, SucceededKept
  <2>3. AdapterRevoked' /\ OnRecord' /\ Passed' /\ Ready'
    BY AdapterRevokedKept, OnRecordKept, PassedKept, ReadyKept
  <2> QED BY <2>1, <2>2, <2>3
<1>2. ASSUME IInv, UNCHANGED vars PROVE IInv'
  <2> USE <1>2 DEF IInv, vars
  <2>0. UNCHANGED <<gate, estop, calls, answer, mission, status, ad, events, sup, ledger,
                    failed, execution, verified, admission, scope, lifecycle, revocation, work>>
    BY DEF gateVars, missionVars, adVars, supVars, resultVars, receiptVars
  <2>1. Typed'
    BY TypesKept DEF Typed
  <2>2. Filed' /\ Admitted'
    BY <2>0 DEF Filed, Admitted, Issued
  <2>3. Asked' /\ Ended'
    BY <2>0 DEF Asked, Ended, Shut, NoneOpens, Stopped, Issued
  <2>4. Succeeded' /\ AdapterRevoked'
    BY <2>0 DEF Succeeded, AdapterRevoked, Closed
  <2>5. OnRecord'
    BY <2>0 DEF OnRecord, Unreleased, FaultFirst, KeepsAcquisition, RecordsAcquisition,
                AcquiredJob, Issued
  <2>6. Passed'
    BY <2>0 DEF Passed, Sealed, Closed, Shut, NoneOpens
  <2>7. Ready'
    BY <2>0 DEF Ready, AuthorityNeedsReadiness, Issued
  <2> QED BY <2>1, <2>2, <2>3, <2>4, <2>5, <2>6, <2>7
<1> QED BY <1>1, <1>2

LEMMA Invariance == Spec => []IInv
BY InitIInv, IInvKept, PTL DEF Spec

(* Every variable keeps its type: at most two interlock requests are under  *)
(* way, a receipt is only ever prepared for an update that is still to do,  *)
(* and a session is over exactly when its shutdown has a verdict.           *)
THEOREM TypeCorrect == Spec => []TypeOK
<1>1. IInv => TypeOK
  <2> SUFFICES ASSUME IInv PROVE TypeOK
    OBVIOUS
  <2>1. ReceiptsTypeOK
    <3>1. /\ scope.st \in {"none", "ACTIVE", "GOAL_ACCEPTED", "LEASE_ACTIVE", "CLOSED"}
          /\ lifecycle.st \in {"none", "AUTHORIZED", "GOAL_ACCEPTED", "LEASE_ACTIVE",
                               "LEASE_RELEASED", "CLOSED"}
          /\ revocation.st \in {"none", "REVOKED"}
      BY FilesApart DEF IInv, Typed, TypedFiles, Scopes, Lifecycles, Revocations
    <3> QED BY <3>1 DEF IInv, Typed, TypedFiles, Filed, ReceiptsTypeOK
  <2>2. ad.lease \in {None, "seen", "released"} /\ ad.term \in {None, "OK", "BAD"}
        /\ ad.deadline \in {None, "reply", "task"}
    BY DEF IInv, Typed, TypedAd, Adapters
  <2>3. sup.stage \in {"", "OPENING", "ADMITTED"}
    BY DEF IInv, Typed, TypedSup, Supervisors
  <2>4. Len(calls) <= 2 /\ (sup.pc = "ended") = (verified # None)
    BY DEF IInv, Asked, Ended
  <2> QED BY <2>1, <2>2, <2>3, <2>4 DEF TypeOK, IInv, Typed, TypedGate, TypedMission, TypedSup
<1> QED BY <1>1, Invariance, PTL

(* The Mission holds the Lease only in a session whose admission was proved, *)
(* or was proved and is revoked, and no phase that the authority stands on   *)
(* is taken back (on_goal of the adapter, the main loop,                     *)
(* confirm_admitted_safety_receipt).                                         *)
THEOREM LeaseAdmitted == Spec => []LeaseNeedsAdmission
<1>1. IInv => LeaseNeedsAdmission
  BY DEF IInv, Admitted, Ready, LeaseNeedsAdmission
<1> QED BY <1>1, Invariance, PTL

(* A shutdown that is reported as verified leaves the interlock closed,     *)
(* nobody with the Lease and no request that opens it again                 *)
(* (revoke_motion_before_shutdown).                                         *)
THEOREM ShutdownSafe == Spec => []ShutdownIsSafe
<1>1. IInv => ShutdownIsSafe
  BY DEF IInv, Ended, ShutdownIsSafe, Shut, NoneOpens
<1> QED BY <1>1, Invariance, PTL

(* However an authorized session ends, also one whose revocation failed, an *)
(* emergency stop is in force or under way, or the interlock is closed and  *)
(* nothing on its way opens it (revoke_motion_before_shutdown).             *)
THEOREM EndStops == Spec => []EveryEndStops
<1>1. IInv => EveryEndStops
  BY DEF IInv, Ended, EveryEndStops, Shut, NoneOpens, Stopped
<1> QED BY <1>1, Invariance, PTL

(* An execution that passed is one the Mission finished with a Lease it     *)
(* took and gave back, with every receipt closed and the interlock shut     *)
(* (motion_completion_decision).                                            *)
THEOREM PassWitnessed == Spec => []PassIsWitnessed
<1>1. IInv => PassIsWitnessed
  BY DEF IInv, Passed, PassIsWitnessed, Sealed, Closed, Shut
<1> QED BY <1>1, Invariance, PTL

(* However often phases are lost and recover before motion, they are        *)
(* admitted in order, a failure blocks the later ones, and the loop is left  *)
(* with it (PhaseLedger, first_admitted_phase_loss).                         *)
THEOREM LedgerInOrder == Spec => []PhasesInOrder
<1>1. IInv => PhasesInOrder
  BY DEF IInv, Ready, PhasesInOrder, InLoop, Leaving
<1> QED BY <1>1, Invariance, PTL

(* A ledger with a failed phase does not change any more: no phase is        *)
(* reopened, and none of the others passes (PhaseLedger.advance, failed_at). *)
THEOREM FailureStays == Spec => [][Failed(ledger) => UNCHANGED ledger]_ledger
<1>1. ASSUME IInv, [Next]_vars, Failed(ledger) PROVE UNCHANGED ledger
  <2>1. ~InLoop
    BY <1>1 DEF IInv, Ready, InLoop, Leaving
  <2>2. CASE UNCHANGED vars
    BY <2>2 DEF vars, supVars
  <2>3. CASE Supervisor
    BY <2>1, <2>3, SupervisorLedger DEF SupRecordsReadiness, SupLosesReadiness
  <2>4. CASE World \/ Receipts
    BY <2>4, WorldLeaves, ReceiptsLeave
  <2>5. CASE Adapter
    BY <1>1, <2>5, AdapterReach DEF AdapterLeaves, IInv
  <2> QED BY <1>1, <2>2, <2>3, <2>4, <2>5, NextSplit
<1>2. IInv /\ [Next]_vars => [Failed(ledger) => UNCHANGED ledger]_ledger
  BY <1>1
<1> QED BY <1>2, Invariance, PTL DEF Spec
====

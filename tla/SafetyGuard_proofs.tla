------------------------- MODULE SafetyGuard_proofs -------------------------
(* What TLAPS proves about the receipt of the safety guard for every bound   *)
(* on attempts, samples and queued snapshots: a failure of the guard is      *)
(* published and reaches the file.  The argument follows the last snapshot   *)
(* handed over: once the guard has failed it says so, no later one takes     *)
(* its place, and the thread ends only when everything has been written or   *)
(* given up.  The writer, its thread and every callback that hands a         *)
(* snapshot over implement SnapshotLog.  And the coordinator passes only a   *)
(* monitor it asked for, with the last word of its manager before it.        *)
EXTENDS SafetyGuard, SequenceTheorems, TLAPS

Snapshots == {"ready", "waiting", "failed"}
Slots == Snapshots \cup {NoSnapshot}
Writers == [queue : Seq(Snapshots), latest : Slots, taken : Slots,
            closed : BOOLEAN, error : BOOLEAN, alive : BOOLEAN]
Guards == [pc : {"run", "closing", "out"}, safety : BOOLEAN, armed : BOOLEAN,
           failed : BOOLEAN, estop : BOOLEAN]

ReceiptsTyped == rw \in Writers /\ disk \in Slots /\ g \in Guards

\* What the file holds when the thread has caught up.
Final(w, d) ==
    IF w.latest # NoSnapshot THEN w.latest
    ELSE IF w.queue # <<>> THEN w.queue[Len(w.queue)]
    ELSE IF w.taken # NoSnapshot THEN w.taken ELSE d

Empty(w) == w.queue = <<>> /\ w.latest = NoSnapshot /\ w.taken = NoSnapshot

Ends ==
    /\ g.pc = "run" => ~rw.closed
    /\ rw.error => Empty(rw)
    /\ ~rw.alive => rw.error \/ (rw.closed /\ Empty(rw))
    /\ g.pc = "out" => ~rw.alive

FailureStays == g.failed /\ ~rw.error => g.estop /\ Final(rw, disk) = "failed"

IInv == ReceiptsTyped /\ Ends /\ FailureStays

-----------------------------------------------------------------------------
(* The operations of the writer.                                             *)

LEMMA LastOfTheSecond ==
    ASSUME NEW a \in Nat, NEW b \in 1 .. 2, NEW n, n = a + b
    PROVE  n \in 1 .. a + b /\ ~(n <= a) /\ n - a = b
OBVIOUS

\* A snapshot that is handed over is the last one, and nothing else changes.
LEMMA WrittenIsFinal ==
    ASSUME NEW w \in Writers, NEW v \in Snapshots, NEW keep \in BOOLEAN, NEW d
    PROVE  /\ Written(w, v, keep) \in Writers
           /\ Raises(w) => Written(w, v, keep) = w
           /\ ~Raises(w) => Final(Written(w, v, keep), d) = v
           /\ Written(w, v, keep).taken = w.taken
           /\ Written(w, v, keep).closed = w.closed
           /\ Written(w, v, keep).error = w.error
           /\ Written(w, v, keep).alive = w.alive
<1>1. CASE Raises(w)
  BY <1>1 DEF Written, Writers
<1>2. CASE ~Raises(w) /\ ~keep
  BY <1>2 DEF Written, Writers, Final, Slots, Snapshots, NoSnapshot
<1>3. CASE ~Raises(w) /\ keep
  <2> DEFINE more == IF w.latest = NoSnapshot THEN <<v>> ELSE <<w.latest, v>>
             q    == w.queue \o more
  <2>1. w.queue \in Seq(Snapshots) /\ w.latest \in Slots
    BY DEF Writers
  <2>2. more \in Seq(Snapshots) /\ Len(more) \in 1 .. 2 /\ more[Len(more)] = v
    BY <2>1 DEF Slots
  <2>3. q \in Seq(Snapshots) /\ Len(q) = Len(w.queue) + Len(more) /\ q[Len(q)] = v
    <3>1. /\ q \in Seq(Snapshots) /\ Len(q) = Len(w.queue) + Len(more)
          /\ \A i \in 1 .. Len(w.queue) + Len(more) :
                q[i] = IF i <= Len(w.queue) THEN w.queue[i] ELSE more[i - Len(w.queue)]
      BY <2>1, <2>2, ConcatProperties
    <3>2. Len(w.queue) \in Nat
      BY <2>1, LenProperties
    <3> HIDE DEF q, more
    <3>3. q[Len(q)] = more[Len(more)]
      <4>1. /\ Len(q) \in 1 .. Len(w.queue) + Len(more)
            /\ ~(Len(q) <= Len(w.queue)) /\ Len(q) - Len(w.queue) = Len(more)
        BY <2>2, <3>1, <3>2, LastOfTheSecond
      <4>3. q[Len(q)] = more[Len(q) - Len(w.queue)]
        BY <3>1, <4>1
      <4>. QED
        BY <4>1, <4>3
    <3>. QED
      BY <2>2, <3>1, <3>3
  <2>4. q # <<>>
    BY <2>1, <2>2, <2>3, LenProperties, EmptySeq
  <2>5. Written(w, v, keep) = [w EXCEPT !.queue = q, !.latest = NoSnapshot]
    BY <1>3 DEF Written
  <2> HIDE DEF q
  <2>. QED
    BY <1>3, <2>3, <2>4, <2>5 DEF Writers, Final, Slots
<1>. QED
  BY <1>1, <1>2, <1>3

\* Snapshots grow old in place; a failure does not.
LEMMA AgedIsTheSame ==
    ASSUME NEW w \in Writers, NEW d \in Slots
    PROVE  /\ Aged(w) \in Writers
           /\ Older(d) \in Slots
           /\ Final(w, d) = "failed" => Final(Aged(w), Older(d)) = "failed"
           /\ Aged(w).closed = w.closed /\ Aged(w).error = w.error
           /\ Aged(w).alive = w.alive
           /\ Empty(w) => Empty(Aged(w))
<1> DEFINE q == [i \in DOMAIN w.queue |-> Older(w.queue[i])]
<1>1. w.queue \in Seq(Snapshots) /\ w.latest \in Slots /\ w.taken \in Slots
  BY DEF Writers
<1>2. \A s \in Slots : Older(s) \in Slots /\ (s # NoSnapshot <=> Older(s) # NoSnapshot)
                       /\ (s = "failed" => Older(s) = "failed")
  BY DEF Slots, Snapshots, Older, NoSnapshot
<1>3. \A s \in Snapshots : Older(s) \in Snapshots
  BY DEF Snapshots, Older
<1>4. /\ DOMAIN w.queue = 1 .. Len(w.queue) /\ Len(w.queue) \in Nat
      /\ \A i \in 1 .. Len(w.queue) : w.queue[i] \in Snapshots
  BY <1>1, LenProperties, ElementOfSeq
<1>5. q \in Seq(Snapshots) /\ Len(q) = Len(w.queue)
  <2>1. q \in [1 .. Len(w.queue) -> Snapshots]
    BY <1>3, <1>4
  <2>2. q \in Seq(Snapshots)
    BY <1>4, <2>1, SeqDef
  <2>3. DOMAIN q = 1 .. Len(w.queue) /\ DOMAIN q = 1 .. Len(q) /\ Len(q) \in Nat
    BY <2>1, <2>2, LenProperties
  <2>. QED
    BY <1>4, <2>2, <2>3
<1>6. q = <<>> <=> w.queue = <<>>
  BY <1>1, <1>5, EmptySeq, LenProperties
<1>7. w.queue # <<>> => Len(w.queue) \in 1 .. Len(w.queue)
  BY <1>1, <1>4, EmptySeq
<1>8. w.queue # <<>> => q[Len(q)] = Older(w.queue[Len(w.queue)])
                        /\ w.queue[Len(w.queue)] \in Slots
  BY <1>4, <1>5, <1>7 DEF Slots
<1>9. Aged(w) = [w EXCEPT !.queue = q, !.latest = Older(w.latest), !.taken = Older(w.taken)]
  BY DEF Aged
<1> HIDE DEF q
<1>. QED
  BY <1>1, <1>2, <1>5, <1>6, <1>8, <1>9 DEF Writers, Final, Empty

\* The thread takes the first snapshot and leaves the last one.
LEMMA TakenIsFirst ==
    ASSUME ReceiptsTyped, Ends, ThreadTakes
    PROVE  /\ rw' \in Writers /\ rw'.closed = rw.closed /\ rw'.error = rw.error
           /\ rw'.alive = rw.alive /\ rw.alive /\ ~rw.error
           /\ Final(rw', disk) = Final(rw, disk)
<1>1. rw.queue \in Seq(Snapshots) /\ rw.latest \in Slots
  BY DEF ReceiptsTyped, Writers
<1>2. rw.taken = NoSnapshot /\ rw.alive /\ Backlog(rw) # <<>>
  BY DEF ThreadTakes
<1>3. ~rw.error
  BY <1>1, <1>2, ConcatEmptySeq DEF Ends, Empty, Backlog
<1>4. CASE rw.queue # <<>>
  <2>1. rw' = [rw EXCEPT !.taken = Head(rw.queue), !.queue = Tail(rw.queue)]
    BY <1>4 DEF ThreadTakes
  <2>2. /\ Head(rw.queue) \in Snapshots /\ Tail(rw.queue) \in Seq(Snapshots)
        /\ Len(rw.queue) \in Nat \ {0} /\ Len(Tail(rw.queue)) = Len(rw.queue) - 1
        /\ \A i \in 1 .. Len(Tail(rw.queue)) : Tail(rw.queue)[i] = rw.queue[i + 1]
    BY <1>1, <1>4, HeadTailProperties, EmptySeq
  <2>3. rw' \in Writers
    BY <2>1, <2>2 DEF ReceiptsTyped, Writers, Slots
  <2>4. CASE Tail(rw.queue) = <<>>
    <3>1. Len(rw.queue) = 1
      <4>1. Len(Tail(rw.queue)) = 0
        BY <2>2, <2>4, EmptySeq
      <4>. QED
        BY <2>2, <4>1
    <3>2. Head(rw.queue) = rw.queue[1]
      BY <1>1, <1>4
    <3>. QED
      BY <1>2, <1>3, <1>4, <2>1, <2>2, <2>3, <2>4, <3>1, <3>2
      DEF Final, ReceiptsTyped, Writers, Snapshots, NoSnapshot
  <2>5. CASE Tail(rw.queue) # <<>>
    <3>1. Len(Tail(rw.queue)) \in Nat \ {0}
      BY <2>2, <2>5, EmptySeq
    <3>2. Tail(rw.queue)[Len(Tail(rw.queue))] = rw.queue[Len(rw.queue)]
      <4> DEFINE n == Len(rw.queue)
                 t == Tail(rw.queue)
      <4>1. n \in Nat \ {0} /\ Len(t) = n - 1 /\ Len(t) \in Nat \ {0}
            /\ \A i \in 1 .. Len(t) : t[i] = rw.queue[i + 1]
        BY <2>2, <3>1
      <4> HIDE DEF n, t
      <4>2. t[Len(t)] = rw.queue[n]
        BY <4>1
      <4>. QED
        BY <4>2 DEF n, t
    <3>. QED
      BY <1>2, <1>3, <1>4, <2>1, <2>3, <2>5, <3>2 DEF Final, ReceiptsTyped, Writers
  <2>. QED
    BY <2>4, <2>5
<1>5. CASE rw.queue = <<>>
  <2>1. rw' = [rw EXCEPT !.taken = rw.latest, !.latest = NoSnapshot]
    BY <1>5 DEF ThreadTakes
  <2>2. rw.latest # NoSnapshot
    BY <1>2, <1>5, ConcatEmptySeq, EmptySeq DEF Backlog
  <2>. QED
    BY <1>1, <1>2, <1>3, <1>5, <2>1, <2>2 DEF Final, ReceiptsTyped, Writers, Slots
<1>. QED
  BY <1>4, <1>5

-----------------------------------------------------------------------------
(* The invariant.                                                            *)

LEMMA IInvInit == Init => IInv
BY EmptySeq DEF Init, ReceiptsInit, IInv, ReceiptsTyped, Ends, Empty, FailureStays, Writers, Guards,
      Snapshots, Slots, NoSnapshot

\* fail, from any callback.
LEMMA CallbackFailsSafe ==
    ASSUME IInv, Runs, CallbackFails
    PROVE  IInv'
<1>1. rw \in Writers /\ disk \in Slots /\ g \in Guards /\ disk' = disk /\ ~rw.closed
  BY DEF IInv, ReceiptsTyped, CallbackFails, Runs, Ends
<1>2. g' = [g EXCEPT !.failed = TRUE, !.estop = @ \/ ~g.failed]
  BY DEF CallbackFails, Failing
<1>3. CASE g.failed
  <2>1. rw' = rw
    BY <1>3 DEF CallbackFails, Told
  <2>. QED
    BY <1>1, <1>2, <1>3, <2>1 DEF IInv, ReceiptsTyped, Ends, Empty, FailureStays, Guards
<1>4. CASE ~g.failed
  <2>1. rw' = Written(rw, "failed", TRUE)
    BY <1>4 DEF CallbackFails, Told
  <2>2. "failed" \in Snapshots
    BY DEF Snapshots
  <2>3. /\ rw' \in Writers /\ (Raises(rw) => rw' = rw)
        /\ (~Raises(rw) => Final(rw', disk) = "failed")
        /\ rw'.closed = rw.closed /\ rw'.error = rw.error /\ rw'.alive = rw.alive
    BY <1>1, <2>1, <2>2, WrittenIsFinal
  <2>. QED
    BY <1>1, <1>2, <1>4, <2>3 DEF IInv, ReceiptsTyped, Ends, Empty, FailureStays, Guards, Raises
<1>. QED
  BY <1>3, <1>4

\* What a tick decides, from a writer w whose snapshots may have grown old.
LEMMA DecisionSafe ==
    ASSUME IInv, Runs,
           NEW w \in Writers, w.closed = rw.closed, w.error = rw.error, w.alive = rw.alive,
           Empty(rw) => Empty(w),
           disk' \in Slots,
           NEW ready \in BOOLEAN, NEW verdict \in {"stop", "transition", "same"},
           Decision(w, ready, verdict)
    PROVE  IInv'
<1> DEFINE fails == ~g.failed /\ \/ verdict = "stop"
                                 \/ graph'.failure
                                 \/ g.armed /\ ~ready /\ Watched
           failed == g.failed \/ fails
           told == IF fails THEN Written(w, "failed", TRUE) ELSE w
           says == IF failed THEN "failed" ELSE IF ready THEN "ready" ELSE "waiting"
           keep == failed \/ verdict # "same"
<1>1. rw \in Writers /\ disk \in Slots /\ g \in Guards /\ g.pc = "run" /\ ~rw.closed
  BY DEF IInv, ReceiptsTyped, Runs, Ends
<1>2. /\ g' = [g EXCEPT !.armed = @ \/ ready, !.estop = @ \/ fails,
                         !.failed = failed \/ Raises(told)]
      /\ rw' = Written(told, says, keep)
  BY DEF Decision
<1>3. fails \in BOOLEAN /\ failed \in BOOLEAN /\ keep \in BOOLEAN /\ says \in Snapshots
      /\ "failed" \in Snapshots
  BY <1>1 DEF Snapshots, Guards
<1> HIDE DEF fails
<1>4. /\ told \in Writers /\ told.closed = rw.closed /\ told.error = rw.error
      /\ told.alive = rw.alive /\ (rw.error => told = w)
  <2>1. CASE fails
    <3>1. told = Written(w, "failed", TRUE)
      BY <2>1 DEF told
    <3>2. /\ Written(w, "failed", TRUE) \in Writers
          /\ (Raises(w) => Written(w, "failed", TRUE) = w)
          /\ Written(w, "failed", TRUE).closed = w.closed
          /\ Written(w, "failed", TRUE).error = w.error
          /\ Written(w, "failed", TRUE).alive = w.alive
      BY <1>3, WrittenIsFinal
    <3>. QED
      BY <3>1, <3>2 DEF Raises
  <2>2. CASE ~fails
    BY <2>2 DEF told
  <2>. QED
    BY <2>1, <2>2
<1> HIDE DEF told, keep, says
<1>5. /\ rw' \in Writers /\ rw'.closed = rw.closed /\ rw'.error = rw.error
      /\ rw'.alive = rw.alive /\ (rw.error => rw' = w)
      /\ (~rw.error => Final(rw', disk') = says)
  <2>1. /\ Written(told, says, keep) \in Writers
        /\ (Raises(told) => Written(told, says, keep) = told)
        /\ (~Raises(told) => Final(Written(told, says, keep), disk') = says)
        /\ Written(told, says, keep).closed = told.closed
        /\ Written(told, says, keep).error = told.error
        /\ Written(told, says, keep).alive = told.alive
    BY <1>3, <1>4, WrittenIsFinal
  <2>. QED
    BY <1>1, <1>2, <1>4, <2>1 DEF Raises
<1>6. /\ g' \in Guards /\ g'.pc = g.pc
      /\ (g'.failed /\ ~rw.error => failed /\ g'.estop = (g.estop \/ fails))
  BY <1>1, <1>2, <1>3, <1>4 DEF Guards, Raises
<1>7. failed => says = "failed"
  BY DEF says
<1>8. ReceiptsTyped' /\ Ends'
  BY <1>1, <1>5, <1>6 DEF IInv, ReceiptsTyped, Ends, Empty
<1>9. FailureStays'
  BY <1>3, <1>5, <1>6, <1>7 DEF IInv, FailureStays
<1>. QED
  BY <1>8, <1>9 DEF IInv

\* Steps that leave the receipt and the guard's own state alone.
LEMMA Elsewhere ==
    ASSUME IInv, UNCHANGED <<rw, disk, g>>
    PROVE  IInv'
BY DEF IInv, ReceiptsTyped, Ends, Empty, FailureStays, Final

LEMMA TickSafe ==
    ASSUME IInv, NEW elapsed \in {0, 1}, Tick(elapsed)
    PROVE  IInv'
<1> DEFINE w == IF elapsed = 1 THEN Aged(rw) ELSE rw
<1>1. rw \in Writers /\ disk \in Slots
  BY DEF IInv, ReceiptsTyped
<1>2. /\ w \in Writers /\ w.closed = rw.closed /\ w.error = rw.error /\ w.alive = rw.alive
      /\ (Empty(rw) => Empty(w))
  BY <1>1, AgedIsTheSame
<1>3. disk' \in Slots
  BY <1>1, AgedIsTheSame DEF Tick
<1>4. Runs
  BY DEF Tick
<1> HIDE DEF w
<1>5. PICK endpoints \in {"ours", "none", "wrong", "unseen"}, rest \in BOOLEAN,
           verdict \in {"stop", "transition", "same"} :
        Decision(w, Active(poll') /\ graph'.achieved /\ ~graph'.failure /\ rest, verdict)
  BY DEF Tick, w
<1>6. (Active(poll') /\ graph'.achieved /\ ~graph'.failure /\ rest) \in BOOLEAN
  OBVIOUS
<1>. QED
  BY <1>2, <1>3, <1>4, <1>5, <1>6, DecisionSafe

LEMMA ThreadSafe ==
    ASSUME IInv, Of(Thread) \/ Of(CommitFails)
    PROVE  IInv'
<1>1. g' = g /\ rw \in Writers /\ disk \in Slots /\ g \in Guards
  BY DEF IInv, ReceiptsTyped, Of, guardVars
<1>2. CASE ThreadTakes
  <2>1. disk' = disk
    BY <1>2 DEF ThreadTakes
  <2>. QED
    BY <1>1, <1>2, <2>1, TakenIsFirst DEF IInv, ReceiptsTyped, Ends, FailureStays
<1>3. CASE ThreadCommits
  <2>1. rw.taken # NoSnapshot /\ disk' = rw.taken /\ rw' = [rw EXCEPT !.taken = NoSnapshot]
    BY <1>3 DEF ThreadCommits
  <2>2. ~Empty(rw)
    BY <2>1 DEF Empty
  <2>3. rw' \in Writers /\ disk' \in Slots /\ Final(rw', disk') = Final(rw, disk)
    BY <1>1, <2>1 DEF Writers, Slots, Final
  <2>. QED
    BY <1>1, <2>1, <2>2, <2>3 DEF IInv, ReceiptsTyped, Ends, FailureStays, Writers
<1>4. CASE ThreadEnds
  <2>1. /\ rw.closed /\ rw.taken = NoSnapshot /\ Backlog(rw) = <<>>
        /\ rw' = [rw EXCEPT !.alive = FALSE] /\ disk' = disk
    BY <1>4 DEF ThreadEnds
  <2>2. rw.queue \in Seq(Snapshots) /\ rw.latest \in Slots
    BY <1>1 DEF Writers
  <2>3. rw.queue = <<>> /\ rw.latest = NoSnapshot
    <3>1. CASE rw.latest = NoSnapshot
      BY <2>1, <2>2, <3>1, ConcatEmptySeq DEF Backlog
    <3>2. CASE rw.latest # NoSnapshot
      <4>1. <<rw.latest>> \in Seq(Snapshots) /\ <<rw.latest>> # <<>>
        BY <2>2, <3>2 DEF Slots
      <4>. QED
        BY <2>1, <2>2, <3>2, <4>1, ConcatEqualIffEmpty DEF Backlog
    <3>. QED
      BY <3>1, <3>2
  <2>4. rw' \in Writers /\ Empty(rw')
    BY <1>1, <2>1, <2>3 DEF Writers, Empty
  <2>5. Final(rw', disk') = Final(rw, disk)
    BY <1>1, <2>1 DEF Writers, Final
  <2>. QED
    BY <1>1, <2>1, <2>4, <2>5 DEF IInv, ReceiptsTyped, Ends, FailureStays, Writers
<1>5. CASE CommitFails
  <2>1. rw' = GivesUp(rw) /\ disk' = disk
    BY <1>5 DEF CommitFails
  <2>2. rw' \in Writers /\ Empty(rw') /\ rw'.error /\ rw'.closed = rw.closed /\ ~rw'.alive
    BY <1>1, <2>1, EmptySeq DEF GivesUp, Writers, Empty, Slots
  <2>. QED
    BY <1>1, <2>1, <2>2 DEF IInv, ReceiptsTyped, Ends, FailureStays
<1>. QED
  BY <1>2, <1>3, <1>4, <1>5 DEF Of, Thread

LEMMA IInvNext == IInv /\ [Next]_vars => IInv'
<1> SUFFICES ASSUME IInv, [Next]_vars PROVE IInv'
  OBVIOUS
<1>1. CASE MonitorComes \/ StartupStep \/ MonitorDrops \/ MonitorAnswers
  BY <1>1, Elsewhere DEF MonitorComes, StartupStep, MonitorDrops, MonitorAnswers, guardVars, receiptVars
<1>2. CASE CommandBeforeLease \/ GoalAccepted \/ AdmissionWritten
  BY <1>2, Elsewhere DEF CommandBeforeLease, GoalAccepted, AdmissionWritten, receiptVars
<1>3. CASE CollisionPasses \/ ProbesPass \/ GatePasses
  BY <1>3, Elsewhere DEF CollisionPasses, ProbesPass, GatePasses, Goes, guardVars, receiptVars
<1>4. CASE StageFails \/ SessionEnds \/ GuardExitSeen
  BY <1>4, Elsewhere DEF StageFails, SessionEnds, GuardExitSeen, ShutsDown, receiptVars
<1>5. CASE Of(ReaderLooks) \/ Of(ReaderTimesOut)
  BY <1>5, Elsewhere DEF Of, ReaderLooks, ReaderTimesOut, guardVars
<1>6. CASE MessageIsWrong \/ TickFailsEarly
  BY <1>6, CallbackFailsSafe DEF MessageIsWrong, TickFailsEarly
<1>7. CASE SafetyStatus
  <2>1. CASE CallbackFails
    BY <1>7, <2>1, CallbackFailsSafe DEF SafetyStatus
  <2>2. CASE g' = [g EXCEPT !.safety = TRUE] /\ UNCHANGED receiptVars
    BY <2>2 DEF IInv, ReceiptsTyped, Ends, Empty, FailureStays, Final, Guards, receiptVars
  <2>. QED
    BY <1>7, <2>1, <2>2 DEF SafetyStatus
<1>8. CASE \E elapsed \in {0, 1} : Tick(elapsed)
  BY <1>8, TickSafe
<1>9. CASE LeavesLoop
  <2>1. /\ g.pc = "run" /\ disk' = disk /\ rw' = [rw EXCEPT !.closed = TRUE]
        /\ \E heard \in BOOLEAN : g' = [g EXCEPT !.pc = "closing", !.estop = @ \/ heard]
    BY <1>9 DEF LeavesLoop, Closed
  <2>2. rw' \in Writers /\ Final(rw', disk') = Final(rw, disk) /\ Empty(rw') = Empty(rw)
    BY <2>1 DEF IInv, ReceiptsTyped, Writers, Final, Empty
  <2>. QED
    <3>1. g' \in Guards /\ g'.pc = "closing" /\ g'.failed = g.failed /\ (g.estop => g'.estop)
      BY <2>1 DEF IInv, ReceiptsTyped, Guards
    <3>2. rw'.closed /\ rw'.error = rw.error /\ rw'.alive = rw.alive
      BY <2>1 DEF IInv, ReceiptsTyped, Writers
    <3>3. ReceiptsTyped' /\ Ends'
      BY <2>1, <2>2, <3>1, <3>2 DEF IInv, ReceiptsTyped, Ends
    <3>4. FailureStays'
      BY <2>2, <3>1, <3>2 DEF IInv, FailureStays
    <3>. QED
      BY <3>3, <3>4 DEF IInv
<1>10. CASE GuardEnds
  BY <1>10 DEF GuardEnds, IInv, ReceiptsTyped, Ends, Empty, FailureStays, Final, Guards, receiptVars
<1>11. CASE GuardDies
  <2>1. rw' = GivesUp(rw) /\ disk' = disk /\ g' = [g EXCEPT !.pc = "out"]
    BY <1>11 DEF GuardDies
  <2>2. rw' \in Writers /\ Empty(rw') /\ rw'.error /\ ~rw'.alive
    BY <2>1, EmptySeq DEF IInv, ReceiptsTyped, GivesUp, Writers, Empty, Slots
  <2>. QED
    BY <2>1, <2>2 DEF IInv, ReceiptsTyped, Ends, FailureStays, Guards
<1>12. CASE Of(Thread) \/ Of(CommitFails)
  BY <1>12, ThreadSafe
<1>13. CASE UNCHANGED vars
  BY <1>13, Elsewhere DEF vars, guardVars, receiptVars
<1>. QED
  BY <1>1, <1>2, <1>3, <1>4, <1>5, <1>6, <1>7, <1>8, <1>9, <1>10, <1>11, <1>12, <1>13 DEF Next

(* A failed guard that ends by itself has published the emergency stop and   *)
(* its receipt says that it failed, however many snapshots were waiting      *)
(* (fail, write_state, ReceiptWriter.close).                                 *)
THEOREM FailureTold == Spec => []FailureIsTold
<1>1. IInv => FailureIsTold
  BY DEF IInv, ReceiptsTyped, Ends, Empty, FailureStays, Final, FailureIsTold
<1>. QED
  BY IInvInit, IInvNext, <1>1, PTL DEF Spec

-----------------------------------------------------------------------------
(* The coordinator.  That the manager owns the monitor, or is said to, comes *)
(* from the one request.                                                     *)

Manager == [asked : BOOLEAN, active : BOOLEAN, reply : {"none", "yes", "no"}]
Coordinators ==
    [pc : {"state", "manager", "waiting", "passed", "failed"},
     seen : {"none", "down", "active"}, same : Nat, active : {"none", "yes", "no"},
     sent : BOOLEAN, late : BOOLEAN]

Managed ==
    /\ manager \in Manager /\ co \in Coordinators /\ monitor \in {"absent", "down", "active"}
    /\ manager.asked \/ manager.active => co.sent
    /\ co.active = "yes" \/ co.pc \in {"waiting", "passed"} => co.sent

LEMMA ManagedInit == StartupInit => Managed
BY DEF StartupInit, NewCo, Managed, Manager, Coordinators

LEMMA EndKeepsManaged ==
    ASSUME Managed, UNCHANGED <<monitor, manager>>, NEW c \in Coordinators, NEW scans \in BOOLEAN,
           c.sent = co.sent, c.active = "yes" => co.sent, PassEnds(c, scans)
    PROVE  Managed'
<1>1. co' = [c EXCEPT !.pc = IF Completes(c, scans) THEN "passed"
                             ELSE IF c.late /\ c.active # "yes" THEN "failed" ELSE "state"]
  BY DEF PassEnds
<1>2. Completes(c, scans) => c.sent
  BY DEF Completes
<1>3. co' \in Coordinators /\ co'.sent = c.sent /\ co'.active = c.active
      /\ (co'.pc = "passed" => c.sent) /\ co'.pc # "waiting"
  BY <1>1, <1>2 DEF Coordinators
<1>. QED
  BY <1>3 DEF Managed

LEMMA ManagedStartup ==
    ASSUME Managed, Startup
    PROVE  Managed'
<1>1. CASE ManagerServes
  <2>1. co.sent /\ co' = co /\ manager \in Manager
    BY <1>1 DEF ManagerServes, Managed
  <2>2. manager' \in Manager /\ monitor' \in {"absent", "down", "active"}
    <3>1. CASE /\ monitor' = "active"
               /\ manager' = [asked |-> FALSE, active |-> TRUE, reply |-> "yes"]
      BY <3>1 DEF Manager
    <3>2. CASE manager' = [manager EXCEPT !.asked = FALSE, !.reply = "no"] /\ monitor' = monitor
      BY <2>1, <3>2 DEF Managed, Manager
    <3>. QED
      BY <1>1, <3>1, <3>2 DEF ManagerServes
  <2>. QED
    BY <2>1, <2>2 DEF Managed
<1>2. CASE StrangerActivates
  BY <1>2 DEF StrangerActivates, Managed
<1>3. CASE ReadsState
  <2>1. CASE co' = [co EXCEPT !.pc = "manager"]
    BY <1>3, <2>1 DEF ReadsState, Managed, Coordinators
  <2>2. CASE monitor # "absent" /\
             co' = [co EXCEPT !.pc = "manager", !.seen = monitor,
                              !.same = IF monitor # co.seen THEN 1
                                       ELSE IF @ < StateSamples THEN @ + 1 ELSE @]
    <3> DEFINE n == IF monitor # co.seen THEN 1
                    ELSE IF co.same < StateSamples THEN co.same + 1 ELSE co.same
    <3>1. n \in Nat
      BY DEF Managed, Coordinators
    <3>2. co' = [co EXCEPT !.pc = "manager", !.seen = monitor, !.same = n]
      BY <2>2
    <3> HIDE DEF n
    <3>. QED
      BY <1>3, <2>2, <3>1, <3>2 DEF ReadsState, Managed, Coordinators
  <2>. QED
    BY <1>3, <2>1, <2>2 DEF ReadsState
<1>4. CASE ReadsManager
  <2>1. PICK c \in {co, [co EXCEPT !.active = IF manager.active THEN "yes" ELSE "no"]},
             contract \in BOOLEAN, scans \in BOOLEAN, settled \in BOOLEAN :
          IF ~c.sent /\ contract /\ c.seen = "active"
          THEN co' = [c EXCEPT !.pc = "failed"] /\ UNCHANGED manager
          ELSE IF Requests(c, settled)
          THEN /\ co' = [c EXCEPT !.pc = "waiting", !.sent = TRUE]
               /\ manager' = [manager EXCEPT !.asked = TRUE]
          ELSE PassEnds(c, scans) /\ UNCHANGED manager
    BY <1>4 DEF ReadsManager
  <2>2. c \in Coordinators /\ c.sent = co.sent /\ (c.active = "yes" => co.sent)
    BY DEF Managed, Coordinators
  <2>3. UNCHANGED monitor
    BY <1>4 DEF ReadsManager
  <2>4. CASE co' = [c EXCEPT !.pc = "failed"] /\ UNCHANGED manager
    BY <2>2, <2>3, <2>4 DEF Managed, Coordinators
  <2>5. CASE /\ co' = [c EXCEPT !.pc = "waiting", !.sent = TRUE]
             /\ manager' = [manager EXCEPT !.asked = TRUE]
    BY <2>2, <2>3, <2>5 DEF Managed, Coordinators, Manager
  <2>6. CASE PassEnds(c, scans) /\ UNCHANGED manager
    BY <2>2, <2>3, <2>6, EndKeepsManaged
  <2>. QED
    BY <2>1, <2>4, <2>5, <2>6
<1>5. CASE HearsStartup
  <2>1. UNCHANGED <<monitor, manager>> /\ co \in Coordinators /\ (co.active = "yes" => co.sent)
    BY <1>5 DEF HearsStartup, Managed
  <2>2. CASE PassEnds(co, TRUE)
    BY <2>1, <2>2, EndKeepsManaged
  <2>3. CASE co' = [co EXCEPT !.pc = "failed"]
    BY <2>1, <2>3 DEF Managed, Coordinators
  <2>4. CASE PassEnds([co EXCEPT !.late = TRUE], TRUE)
    <3> DEFINE c == [co EXCEPT !.late = TRUE]
    <3>1. c \in Coordinators /\ c.sent = co.sent /\ (c.active = "yes" => co.sent)
      BY <2>1 DEF Coordinators
    <3> HIDE DEF c
    <3>2. PassEnds(c, TRUE)
      BY <2>4 DEF c
    <3>. QED
      BY <2>1, <3>1, <3>2, EndKeepsManaged
  <2>. QED
    BY <1>5, <2>2, <2>3, <2>4 DEF HearsStartup
<1>6. CASE Expires
  BY <1>6 DEF Expires, Managed, Coordinators
<1>. QED
  BY <1>1, <1>2, <1>3, <1>4, <1>5, <1>6 DEF Startup

LEMMA ManagedElsewhere ==
    ASSUME Managed, UNCHANGED startupVars
    PROVE  Managed'
BY DEF startupVars, Managed

LEMMA ManagedForgotten ==
    ASSUME Managed, StartupForgotten, monitor' \in {"absent", monitor}
    PROVE  Managed'
BY DEF StartupForgotten, NewCo, Managed, Manager, Coordinators

LEMMA ManagedNext == Managed /\ [Next]_vars => Managed'
<1> SUFFICES ASSUME Managed, [Next]_vars PROVE Managed'
  OBVIOUS
<1>1. CASE StartupStep
  BY <1>1, ManagedStartup DEF StartupStep
<1>2. CASE MonitorComes \/ MonitorDrops
  BY <1>2 DEF MonitorComes, MonitorDrops, Managed, Manager
<1>3. CASE CollisionPasses
  BY <1>3, ManagedForgotten DEF CollisionPasses
<1>4. CASE StageFails \/ SessionEnds \/ GuardExitSeen
  BY <1>4, ManagedForgotten DEF StageFails, SessionEnds, GuardExitSeen, ShutsDown
<1>5. CASE MonitorAnswers \/ CommandBeforeLease \/ GoalAccepted \/ AdmissionWritten
  BY <1>5, ManagedElsewhere
  DEF MonitorAnswers, CommandBeforeLease, GoalAccepted, AdmissionWritten, worldVars, startupVars
<1>6. CASE ProbesPass \/ GatePasses
  BY <1>6, ManagedElsewhere DEF ProbesPass, GatePasses, Goes
<1>7. CASE MessageIsWrong \/ TickFailsEarly \/ SafetyStatus
  BY <1>7, ManagedElsewhere
  DEF MessageIsWrong, TickFailsEarly, SafetyStatus, CallbackFails, worldVars, startupVars
<1>8. CASE \E elapsed \in {0, 1} : Tick(elapsed)
  BY <1>8, ManagedElsewhere DEF Tick
<1>9. CASE LeavesLoop \/ GuardEnds \/ GuardDies
  BY <1>9, ManagedElsewhere DEF LeavesLoop, GuardEnds, GuardDies, worldVars, startupVars
<1>10. CASE \/ Of(ReaderLooks) \/ Of(ReaderTimesOut) \/ Of(Thread) \/ Of(CommitFails)
            \/ UNCHANGED vars
  BY <1>10, ManagedElsewhere DEF Of, vars, worldVars, startupVars
<1>. QED
  BY <1>1, <1>2, <1>3, <1>4, <1>5, <1>6, <1>7, <1>8, <1>9, <1>10 DEF Next

(* The launch goes on only with a monitor that its manager was asked to      *)
(* start, whoever else activates it (completion_decision).                   *)
THEOREM ManagedPass == Spec => []PassIsManaged
<1>1. Init => Managed
  BY ManagedInit DEF Init
<1>2. Managed => PassIsManaged
  BY DEF Managed, PassIsManaged
<1>. QED
  BY <1>1, <1>2, ManagedNext, PTL DEF Spec

-----------------------------------------------------------------------------
(* How old the evidence is on which the mission is admitted.                 *)

Polls == [found : BOOLEAN, future : {"none", "open", "down", "active"}, age : 0 .. Long,
          attempts : Nat, state : {"none", "active"}, seen : 0 .. Long]

HoldsReady(w) == w.latest = "ready" \/ w.taken = "ready"
                 \/ \E i \in 1 .. Len(w.queue) : w.queue[i] = "ready"
Observed == stage \in {"navigation", "gate"}

\* From the monitor to the gate a second may pass for the answer of the monitor,
\* another until the guard makes a receipt of it, and less than one more until
\* the receipt is read.
Fresh(w, d) ==
    /\ poll.future = "active" => quiet = 0
    /\ poll.state = "active" => quiet <= poll.seen + 1
    /\ HoldsReady(w) \/ d = "ready" => quiet <= 2

Witnessed ==
    /\ quiet \in 0 .. Long /\ poll \in Polls /\ monitor \in {"absent", "down", "active"}
    /\ stage = "collision" => /\ poll.future = "none" /\ poll.state = "none"
                              /\ ~HoldsReady(rw) /\ disk # "ready"
    /\ Observed => (monitor = "active" => quiet = 0) /\ Fresh(rw, disk)

LEMMA WitnessedInit == Init => Witnessed
<1>1. NewPoll \in Polls
  BY DEF NewPoll, Polls, Long
<1>2. Init => ~HoldsReady(rw)
  BY EmptySeq DEF Init, ReceiptsInit, HoldsReady, NoSnapshot
<1>. QED
  BY <1>1, <1>2 DEF Init, ReceiptsInit, StartupInit, NewPoll, Long, NoSnapshot, Witnessed, Observed

\* A snapshot handed over is the only new one.
LEMMA WrittenHolds ==
    ASSUME NEW w \in Writers, NEW v \in Snapshots, NEW keep \in BOOLEAN,
           HoldsReady(Written(w, v, keep))
    PROVE  HoldsReady(w) \/ v = "ready"
<1>1. CASE Raises(w)
  BY <1>1, WrittenIsFinal
<1>2. CASE ~Raises(w) /\ ~keep
  BY <1>2 DEF Written, Writers, HoldsReady
<1>3. CASE ~Raises(w) /\ keep
  <2> DEFINE more == IF w.latest = NoSnapshot THEN <<v>> ELSE <<w.latest, v>>
             q    == w.queue \o more
  <2>1. w.queue \in Seq(Snapshots) /\ w.latest \in Slots
    BY DEF Writers
  <2>2. /\ more \in Seq(Snapshots) /\ Len(more) \in 1 .. 2
        /\ \A j \in 1 .. Len(more) : more[j] \in {v, w.latest}
    BY <2>1 DEF Slots
  <2>3. Written(w, v, keep) = [w EXCEPT !.queue = q, !.latest = NoSnapshot]
    BY <1>3 DEF Written
  <2> HIDE DEF more
  <2>4. /\ Len(q) = Len(w.queue) + Len(more)
        /\ \A i \in 1 .. Len(w.queue) + Len(more) :
              q[i] = IF i <= Len(w.queue) THEN w.queue[i] ELSE more[i - Len(w.queue)]
    BY <2>1, <2>2, ConcatProperties
  <2>6. Len(w.queue) \in Nat
    BY <2>1, LenProperties
  <2> HIDE DEF q
  <2>5. ASSUME NEW i \in 1 .. Len(q), q[i] = "ready" PROVE HoldsReady(w) \/ v = "ready"
    <3>1. CASE i <= Len(w.queue)
      BY <2>4, <2>5, <2>6, <3>1 DEF HoldsReady
    <3>2. CASE ~(i <= Len(w.queue))
      <4>1. i - Len(w.queue) \in 1 .. Len(more)
        BY <2>2, <2>4, <2>6, <3>2
      <4>. QED
        BY <2>2, <2>4, <2>5, <2>6, <3>2, <4>1 DEF HoldsReady
    <3>. QED
      BY <3>1, <3>2
  <2>. QED
    BY <2>3, <2>5 DEF Writers, HoldsReady, NoSnapshot
<1>. QED
  BY <1>1, <1>2, <1>3

\* Half a second makes every one of them old.
LEMMA AgedHoldsNone ==
    ASSUME NEW w \in Writers
    PROVE  ~HoldsReady(Aged(w))
<1>1. \A s : Older(s) # "ready"
  BY DEF Older
<1> DEFINE q == [i \in DOMAIN w.queue |-> Older(w.queue[i])]
<1>2. Aged(w) = [w EXCEPT !.queue = q, !.latest = Older(w.latest), !.taken = Older(w.taken)]
  BY DEF Aged
<1>3. w.queue \in Seq(Snapshots) /\ DOMAIN w.queue = 1 .. Len(w.queue) /\ Len(w.queue) \in Nat
  BY LenProperties DEF Writers
<1>4. Aged(w) \in Writers
  <2>1. NoSnapshot \in Slots
    BY DEF Slots
  <2>. QED
    BY <2>1, AgedIsTheSame
<1>5. q = Aged(w).queue /\ q \in Seq(Snapshots)
  BY <1>2, <1>4 DEF Writers
<1>6. DOMAIN q = 1 .. Len(q)
  BY <1>5, LenProperties
<1>7. DOMAIN q = DOMAIN w.queue
  OBVIOUS
<1>8. \A i \in 1 .. Len(q) : q[i] # "ready"
  BY <1>1, <1>6, <1>7
<1>. QED
  BY <1>1, <1>2, <1>5, <1>8 DEF HoldsReady, Writers

\* The thread only moves snapshots, and to the file only the one it has taken.
LEMMA TakenHolds ==
    ASSUME rw \in Writers, ThreadTakes, HoldsReady(rw')
    PROVE  HoldsReady(rw)
<1>1. rw.queue \in Seq(Snapshots)
  BY DEF Writers
<1>2. CASE rw.queue # <<>>
  <2>1. rw' = [rw EXCEPT !.taken = Head(rw.queue), !.queue = Tail(rw.queue)]
    BY <1>2 DEF ThreadTakes
  <2>2. /\ Len(rw.queue) \in Nat \ {0} /\ Len(Tail(rw.queue)) = Len(rw.queue) - 1
        /\ \A i \in 1 .. Len(Tail(rw.queue)) : Tail(rw.queue)[i] = rw.queue[i + 1]
    BY <1>1, <1>2, HeadTailProperties, EmptySeq
  <2>3. Head(rw.queue) = rw.queue[1]
    BY <1>1, <1>2
  <2>4. \A i \in 1 .. Len(Tail(rw.queue)) : i + 1 \in 1 .. Len(rw.queue)
    BY <2>2
  <2>5. 1 \in 1 .. Len(rw.queue)
    BY <2>2
  <2>6. rw'.queue = Tail(rw.queue) /\ rw'.taken = rw.queue[1] /\ rw'.latest = rw.latest
    BY <2>1, <2>3 DEF Writers
  <2>. QED
    BY <2>2, <2>4, <2>5, <2>6 DEF HoldsReady
<1>3. CASE rw.queue = <<>>
  BY <1>3 DEF ThreadTakes, HoldsReady, Writers, NoSnapshot
<1>. QED
  BY <1>2, <1>3

\* One tick of the poll: an answer is used up, and a state grows old with time.
LEMMA PolledIsFresh ==
    ASSUME poll \in Polls, NEW up \in BOOLEAN, NEW elapsed \in {0, 1}
    PROVE  /\ Polled(up, elapsed) \in Polls
           /\ Polled(up, elapsed).future # "active"
           /\ Polled(up, elapsed).state = "active" =>
                \/ /\ poll.state = "active"
                   /\ Polled(up, elapsed).seen = Plus(poll.seen, elapsed)
                \/ poll.future = "active"
<1>0. /\ Plus(poll.seen, elapsed) \in 0 .. Long /\ Plus(poll.age, elapsed) \in 0 .. Long
      /\ 0 \in 0 .. Long /\ Long \in 0 .. Long
  BY DEF Polls, Plus, Long
<1> DEFINE l == Later(poll, elapsed)
           p == Discovery(l, up)
<1>1. /\ l \in Polls /\ l.future = poll.future /\ l.state = poll.state
      /\ l.seen = Plus(poll.seen, elapsed)
  BY <1>0 DEF Polls, Later
<1> HIDE DEF l
<1>2. \A r \in Polls : Without(r) \in Polls /\ Without(r).state = "none" /\ Without(r).future = r.future
  BY <1>0 DEF Polls, Without
<1>3. p \in Polls /\ p.future = l.future /\ (p.state = "active" => l.state = "active" /\ p.seen = l.seen)
  BY <1>1, <1>2 DEF Polls, Discovery
<1> HIDE DEF p
<1>4. Polled(up, elapsed) = IF p.future = "none" THEN Dispatched(p, up) ELSE Received(p, up)
  BY DEF Polled, p, l
<1>5. /\ Dispatched(p, up) \in Polls /\ Dispatched(p, up).future \in {"open", p.future}
      /\ Dispatched(p, up).state = p.state /\ Dispatched(p, up).seen = p.seen
  <2>1. p.attempts + 1 \in Nat
    BY <1>3 DEF Polls
  <2>. QED
    BY <1>0, <1>3, <2>1 DEF Polls, Dispatched
<1>6. /\ Answered(p, up) \in Polls /\ Answered(p, up).future = "none"
      /\ Answered(p, up).state = "active" => p.future = "active"
  BY <1>0, <1>2, <1>3 DEF Polls, Answered
<1>7. Dropped(p) \in Polls /\ Dropped(p).future = "none" /\ Dropped(p).state = "none"
  BY <1>2, <1>3 DEF Polls, Dropped
<1>8. \/ Received(p, up) = Answered(p, up) \/ Received(p, up) = Dropped(p)
      \/ Received(p, up) = p /\ p.future \notin {"down", "active"}
  BY DEF Received
<1>. QED
  BY <1>1, <1>3, <1>4, <1>5, <1>6, <1>7, <1>8

LEMMA WitnessedTick ==
    ASSUME IInv, Witnessed, NEW elapsed \in {0, 1}, Tick(elapsed)
    PROVE  Witnessed'
<1> DEFINE w == IF elapsed = 1 THEN Aged(rw) ELSE rw
           up == monitor # "absent"
<1>1. rw \in Writers /\ disk \in Slots /\ g \in Guards /\ quiet \in 0 .. Long /\ poll \in Polls
  BY DEF IInv, ReceiptsTyped, Witnessed
<1>2. PICK endpoints \in {"ours", "none", "wrong", "unseen"}, rest \in BOOLEAN,
           verdict \in {"stop", "transition", "same"} :
        Decision(w, Active(poll') /\ graph'.achieved /\ ~graph'.failure /\ rest, verdict)
  BY DEF Tick
<1> DEFINE ready == Active(poll') /\ graph'.achieved /\ ~graph'.failure /\ rest
           fails == ~g.failed /\ \/ verdict = "stop"
                                 \/ graph'.failure
                                 \/ g.armed /\ ~ready /\ Watched
           failed == g.failed \/ fails
           told == IF fails THEN Written(w, "failed", TRUE) ELSE w
           says == IF failed THEN "failed" ELSE IF ready THEN "ready" ELSE "waiting"
           keep == failed \/ verdict # "same"
<1>3. w \in Writers
  BY <1>1, AgedIsTheSame
<1>4. elapsed = 1 => ~HoldsReady(w) /\ disk' # "ready"
  BY <1>1, AgedHoldsNone DEF Tick, Older
<1>5. elapsed = 0 => w = rw /\ disk' = disk
  BY DEF Tick
<1> HIDE DEF w
<1>6. rw' = Written(told, says, keep)
  BY <1>2 DEF Decision
<1>7. fails \in BOOLEAN /\ keep \in BOOLEAN /\ says \in Snapshots /\ "failed" \in Snapshots
      /\ (says = "ready" => Active(poll'))
  BY <1>1 DEF Snapshots, Guards
<1> HIDE DEF fails, keep, says
<1>8. told \in Writers /\ (HoldsReady(told) => HoldsReady(w))
  <2>1. CASE fails
    <3>1. told = Written(w, "failed", TRUE)
      BY <2>1
    <3>2. Written(w, "failed", TRUE) \in Writers
      BY <1>3, <1>7, WrittenIsFinal
    <3>3. HoldsReady(Written(w, "failed", TRUE)) => HoldsReady(w)
      BY <1>3, <1>7, WrittenHolds
    <3>. QED
      BY <3>1, <3>2, <3>3
  <2>2. CASE ~fails
    BY <1>3, <2>2
  <2>. QED
    BY <2>1, <2>2
<1> HIDE DEF told
<1>9. HoldsReady(rw') => HoldsReady(w) \/ Active(poll')
  BY <1>6, <1>7, <1>8, WrittenHolds
<1>10. /\ poll' \in Polls /\ poll'.future # "active"
       /\ poll'.state = "active" => \/ poll.state = "active" /\ poll'.seen = Plus(poll.seen, elapsed)
                                    \/ poll.future = "active"
  <2>1. poll' = Polled(up, elapsed) /\ up \in BOOLEAN
    BY DEF Tick
  <2>. QED
    BY <1>1, <2>1, PolledIsFresh
<1>11. /\ stage' = stage /\ monitor' = monitor /\ stage # "collision"
       /\ quiet' = IF stage = "mission" THEN Long
                   ELSE IF monitor = "active" THEN 0 ELSE Plus(quiet, elapsed)
  BY DEF Tick, Runs, startupVars
<1>12. quiet' \in 0 .. Long
  BY <1>1, <1>11 DEF Plus, Long
<1>13. CASE ~Observed
  BY <1>10, <1>11, <1>12, <1>13 DEF Observed, Witnessed
<1>14. CASE Observed
  <2>1. (monitor = "active" => quiet = 0) /\ Fresh(rw, disk)
    BY <1>14 DEF Witnessed
  <2>2. monitor' = "active" => quiet' = 0
    BY <1>11, <1>14 DEF Observed
  <2>3. /\ Plus(quiet, elapsed) \in 0 .. Long /\ Plus(quiet, elapsed) <= quiet + elapsed
        /\ quiet' <= Plus(quiet, elapsed)
    BY <1>1, <1>11, <1>14 DEF Observed, Plus, Long
  <2>4. poll'.state = "active" => quiet' <= poll'.seen + 1
    <3>1. SUFFICES ASSUME poll'.state = "active" PROVE quiet' <= poll'.seen + 1
      OBVIOUS
    <3>2. poll'.seen \in 0 .. Long /\ poll.seen \in 0 .. Long
      BY <1>1, <1>10 DEF Polls
    <3>3. CASE poll.future = "active"
      BY <1>1, <1>12, <2>1, <2>3, <3>2, <3>3 DEF Fresh, Long, Plus
    <3>4. CASE poll.state = "active" /\ poll'.seen = Plus(poll.seen, elapsed)
      <4>1. quiet <= poll.seen + 1
        BY <2>1, <3>4 DEF Fresh
      <4>. QED
        BY <1>1, <1>12, <2>3, <3>2, <3>4, <4>1 DEF Plus, Long
    <3>. QED
      BY <1>10, <3>1, <3>3, <3>4
  <2>5. HoldsReady(rw') \/ disk' = "ready" => quiet' <= 2
    <3>1. CASE Active(poll')
      <4>1. poll'.state = "active" /\ poll'.seen <= 1 /\ poll'.seen \in 0 .. Long
        BY <1>10, <3>1 DEF Active, Polls
      <4>. QED
        BY <1>12, <2>4, <4>1 DEF Long
    <3>2. CASE ~Active(poll')
      <4>1. HoldsReady(rw') \/ disk' = "ready" => elapsed = 0 /\ (HoldsReady(rw) \/ disk = "ready")
        BY <1>4, <1>5, <1>9, <3>2
      <4>2. HoldsReady(rw') \/ disk' = "ready" => elapsed = 0 /\ quiet <= 2
        BY <2>1, <4>1 DEF Fresh
      <4>. QED
        BY <1>1, <1>12, <2>3, <4>2 DEF Long
    <3>. QED
      BY <3>1, <3>2
  <2>6. Fresh(rw, disk)'
    BY <1>10, <2>4, <2>5 DEF Fresh, HoldsReady
  <2>. QED
    BY <1>10, <1>11, <1>12, <2>2, <2>6 DEF Witnessed, Observed
<1>. QED
  BY <1>13, <1>14

\* Where neither the monitor nor the poll moves, no ready snapshot may appear.
LEMMA WitnessedKept ==
    ASSUME Witnessed, UNCHANGED <<stage, quiet>>, monitor' \in {monitor, "down"},
           poll' = poll \/ poll' = NewPoll,
           HoldsReady(rw') => HoldsReady(rw), disk' = "ready" => HoldsReady(rw) \/ disk = "ready"
    PROVE  Witnessed'
<1>1. NewPoll \in Polls /\ NewPoll.future = "none" /\ NewPoll.state = "none"
  BY DEF NewPoll, Polls, Long
<1>2. poll' \in Polls /\ (poll' = poll \/ (poll'.future = "none" /\ poll'.state = "none"))
  BY <1>1 DEF Witnessed
<1>. QED
  BY <1>2 DEF Witnessed, Observed, Fresh, HoldsReady

LEMMA WitnessedNext == IInv /\ Witnessed /\ [Next]_vars => Witnessed'
<1> SUFFICES ASSUME IInv, Witnessed, [Next]_vars
    PROVE  Witnessed'
  OBVIOUS
<1>0. rw \in Writers /\ disk \in Slots /\ g \in Guards /\ poll \in Polls
  BY DEF IInv, ReceiptsTyped, Witnessed
<1>1. NewPoll \in Polls /\ NewPoll.future = "none" /\ NewPoll.state = "none"
  BY DEF NewPoll, Polls, Long
<1>2. CASE MonitorComes \/ StartupStep
  BY <1>2 DEF MonitorComes, StartupStep, Startup, ManagerServes, StrangerActivates, ReadsState,
     ReadsManager, HearsStartup, Expires, guardVars, receiptVars, Witnessed, Observed, Fresh
<1>3. CASE MonitorDrops \/ UNCHANGED vars
  BY <1>3, WitnessedKept
     DEF MonitorDrops, vars, worldVars, startupVars, guardVars, receiptVars, HoldsReady
<1>4. CASE MonitorAnswers
  <2>1. poll' \in Polls /\ poll'.state = poll.state /\ poll'.seen = poll.seen
        /\ poll'.future = monitor /\ poll.future = "open" /\ monitor \in {"down", "active"}
    BY <1>0, <1>4 DEF MonitorAnswers, Witnessed, Polls
  <2>. QED
    BY <1>4, <2>1 DEF MonitorAnswers, worldVars, startupVars, receiptVars, Witnessed, Observed,
       Fresh, HoldsReady
<1>5. ASSUME Runs, CallbackFails
      PROVE  Witnessed'
  <2>1. "failed" \in Snapshots /\ "failed" # "ready"
    BY DEF Snapshots
  <2>2. HoldsReady(rw') => HoldsReady(rw)
    BY <1>0, <1>5, <2>1, WrittenHolds DEF CallbackFails, Told
  <2>. QED
    BY <1>5, <2>2, WitnessedKept DEF CallbackFails, worldVars, startupVars
<1>6. CASE MessageIsWrong \/ TickFailsEarly
  BY <1>5, <1>6 DEF MessageIsWrong, TickFailsEarly
<1>7. CASE SafetyStatus \/ CommandBeforeLease \/ GoalAccepted \/ AdmissionWritten
  BY <1>5, <1>7, WitnessedKept DEF SafetyStatus, CommandBeforeLease, GoalAccepted,
     AdmissionWritten, worldVars, startupVars, receiptVars
<1>8. CASE \E elapsed \in {0, 1} : Tick(elapsed)
  BY <1>8, WitnessedTick
<1>9. CASE LeavesLoop
  <2>1. HoldsReady(rw') => HoldsReady(rw)
    BY <1>0, <1>9 DEF LeavesLoop, Closed, HoldsReady, Writers
  <2>. QED
    BY <1>9, <2>1, WitnessedKept DEF LeavesLoop, Forgets, worldVars, startupVars
<1>10. ASSUME rw' = GivesUp(rw) PROVE ~HoldsReady(rw')
  <2>1. rw'.queue = <<>> /\ rw'.latest = NoSnapshot /\ rw'.taken = NoSnapshot
    BY <1>0, <1>10 DEF GivesUp, Writers
  <2>. QED
    BY <2>1, EmptySeq DEF HoldsReady, NoSnapshot
<1>11. CASE GuardDies
  BY <1>10, <1>11, WitnessedKept DEF GuardDies, Forgets, worldVars, startupVars
<1>12. CASE GuardEnds
  BY <1>12, WitnessedKept DEF GuardEnds, worldVars, startupVars, receiptVars
<1>13. CASE CollisionPasses
  <2>1. /\ stage = "collision" /\ stage' = "navigation" /\ UNCHANGED <<monitor, poll, rw, disk>>
        /\ quiet' = IF monitor = "active" THEN 0 ELSE Long
    BY <1>13 DEF CollisionPasses, guardVars, receiptVars
  <2>. QED
    BY <2>1 DEF Witnessed, Observed, Fresh, HoldsReady, Long
<1>14. CASE ProbesPass
  BY <1>14 DEF ProbesPass, Goes, startupVars, guardVars, Witnessed, Observed, Fresh, HoldsReady
<1>15. CASE GatePasses
  BY <1>14, <1>15 DEF GatePasses, Goes, startupVars, guardVars, Witnessed, Observed
<1>16. CASE StageFails \/ SessionEnds \/ GuardExitSeen
  BY <1>1, <1>16 DEF StageFails, SessionEnds, GuardExitSeen, ShutsDown, Forgets, Witnessed,
     Observed, Long
<1>17. CASE Of(Thread)
  <2>1. CASE ThreadTakes
    BY <1>0, <1>17, <2>1, TakenHolds, WitnessedKept
       DEF Of, ThreadTakes, worldVars, startupVars, guardVars
  <2>2. CASE ThreadCommits
    <3>1. rw' = [rw EXCEPT !.taken = NoSnapshot] /\ disk' = rw.taken
      BY <2>2 DEF ThreadCommits
    <3>2. (HoldsReady(rw') => HoldsReady(rw)) /\ (disk' = "ready" => HoldsReady(rw))
      BY <1>0, <3>1 DEF HoldsReady, Writers, NoSnapshot
    <3>. QED
      BY <1>17, <3>2, WitnessedKept DEF Of, worldVars, startupVars, guardVars
  <2>3. CASE ThreadEnds
    <3>1. HoldsReady(rw') => HoldsReady(rw)
      BY <1>0, <2>3 DEF ThreadEnds, HoldsReady, Writers
    <3>. QED
      BY <1>17, <2>3, <3>1, WitnessedKept DEF Of, ThreadEnds, worldVars, startupVars, guardVars
  <2>. QED
    BY <1>17, <2>1, <2>2, <2>3 DEF Of, Thread
<1>18. CASE Of(CommitFails)
  BY <1>10, <1>18, WitnessedKept DEF Of, CommitFails, worldVars, startupVars, guardVars
<1>19. CASE stage = "gate" /\ (Of(ReaderLooks) \/ Of(ReaderTimesOut))
  BY <1>19, WitnessedKept DEF Of, ReaderLooks, ReaderTimesOut, worldVars, startupVars, guardVars
<1>. QED
  BY <1>2, <1>3, <1>4, <1>6, <1>7, <1>8, <1>9, <1>11, <1>12, <1>13, <1>14, <1>15, <1>16,
     <1>17, <1>18, <1>19 DEF Next

\* Only the reader's look passes, at the gate and at a ready receipt.
LEMMA PassIsALook ==
    ASSUME [Next]_vars, reader # "passed", reader' = "passed"
    PROVE  stage = "gate" /\ disk = "ready" /\ UNCHANGED quiet
<1>1. CASE stage = "gate" /\ (Of(ReaderLooks) \/ Of(ReaderTimesOut))
  BY <1>1 DEF Of, ReaderLooks, ReaderTimesOut, worldVars
<1>2. CASE Of(Thread) \/ Of(CommitFails)
  BY <1>2 DEF Of, Thread, ThreadTakes, ThreadCommits, ThreadEnds, CommitFails
<1>3. CASE ProbesPass
  BY <1>3 DEF ProbesPass, ReaderStarts
<1>4. CASE \/ MonitorComes \/ StartupStep \/ MonitorDrops \/ MonitorAnswers
           \/ MessageIsWrong \/ SafetyStatus \/ CommandBeforeLease \/ GoalAccepted
           \/ AdmissionWritten \/ TickFailsEarly \/ (\E elapsed \in {0, 1} : Tick(elapsed))
           \/ LeavesLoop \/ GuardEnds \/ GuardDies
           \/ CollisionPasses \/ GatePasses \/ StageFails \/ SessionEnds \/ GuardExitSeen
           \/ UNCHANGED vars
  BY <1>4 DEF MonitorComes, StartupStep, MonitorDrops, MonitorAnswers, MessageIsWrong,
     SafetyStatus, CommandBeforeLease, GoalAccepted, AdmissionWritten, TickFailsEarly, Tick,
     CallbackFails, LeavesLoop, GuardEnds, GuardDies, CollisionPasses, GatePasses, StageFails,
     SessionEnds, GuardExitSeen, ShutsDown, receiptVars, vars
<1>. QED
  BY <1>1, <1>2, <1>3, <1>4 DEF Next

(* The launch admits the mission on a Collision Monitor that was active two  *)
(* full seconds ago at most, however the answer of the poll, the receipt and *)
(* the reader's look follow one another (CMStatePoll, write_state,           *)
(* wait_ready).                                                              *)
THEOREM GateWitnessed == Spec => GateIsWitnessed
<1>1. Init => IInv /\ Witnessed
  BY IInvInit, WitnessedInit
<1>2. IInv /\ Witnessed /\ [Next]_vars => (IInv /\ Witnessed)'
  BY IInvNext, WitnessedNext
<1>3. IInv /\ Witnessed /\ [Next]_vars
      => [reader # "passed" /\ reader' = "passed" => quiet <= 2]_vars
  BY PassIsALook DEF Witnessed, Observed, Fresh
<1>. QED
  BY <1>1, <1>2, <1>3, PTL DEF Spec, GateIsWitnessed

-----------------------------------------------------------------------------
(* The refinement of SnapshotLog: a snapshot the thread has taken, the queue *)
(* and the latest one are one sequence; each operation of the writer is an   *)
(* operation on that sequence.                                               *)

Opt(v) == IF v = NoSnapshot THEN <<>> ELSE <<v>>
Waits(w) == Opt(w.taken) \o (w.queue \o Opt(w.latest))
AllOlder(s) == [i \in DOMAIN s |-> Older(s[i])]

-----------------------------------------------------------------------------
(* Sequences.                                                                *)

LEMMA OneIsSeq ==
    ASSUME NEW S, NEW e \in S
    PROVE  <<e>> \in Seq(S) /\ Len(<<e>>) = 1 /\ <<e>>[1] = e /\ <<e>> # <<>>
<1>1. <<>> \in Seq(S) /\ Len(<<>>) = 0
  BY EmptySeq
<1>2. Append(<<>>, e) \in Seq(S) /\ Append(<<>>, e) = <<>> \o <<e>>
      /\ Append(<<>>, e) # <<>>
  BY <1>1, AppendIsConcat, AppendProperties
<1>. QED
  BY <1>1, <1>2

LEMMA AppendAfter ==
    ASSUME NEW a \in Seq(Snapshots), NEW b \in Seq(Snapshots), NEW e \in Snapshots
    PROVE  Append(a \o b, e) = a \o Append(b, e)
<1>1. <<e>> \in Seq(Snapshots)
  BY OneIsSeq
<1>2. a \o b \in Seq(Snapshots)
  BY ConcatProperties
<1>3. Append(a \o b, e) = (a \o b) \o <<e>> /\ Append(b, e) = b \o <<e>>
  BY <1>2, AppendIsConcat
<1>4. (a \o b) \o <<e>> = a \o (b \o <<e>>)
  BY <1>1, ConcatAssociative
<1>. QED
  BY <1>3, <1>4

LEMMA AppendUndone ==
    ASSUME NEW S, NEW s \in Seq(S), NEW e \in S
    PROVE  SubSeq(Append(s, e), 1, Len(Append(s, e)) - 1) = s
<1> DEFINE a == Append(s, e)
           n == Len(s)
<1>1. /\ a \in Seq(S) /\ Len(a) = n + 1 /\ n \in Nat
      /\ \A i \in 1 .. n : a[i] = s[i] /\ s[i] \in S
  BY AppendProperties, LenProperties, ElementOfSeq
<1> HIDE DEF a, n
<1>2. Len(a) - 1 = n /\ 1 \in Int /\ n \in Int /\ \A i \in 1 .. n : a[i] \in S
  BY <1>1
<1> DEFINE b == SubSeq(a, 1, n)
<1>3. /\ b \in Seq(S) /\ Len(b) = IF 1 <= n THEN n - 1 + 1 ELSE 0
      /\ \A i \in 1 .. n - 1 + 1 : b[i] = a[1 + i - 1]
  BY <1>2, SubSeqProperties
<1> HIDE DEF b
<1>4. Len(b) = n /\ \A i \in 1 .. n : b[i] = s[i]
  BY <1>1, <1>3
<1>5. b = s
  BY <1>3, <1>4, SeqEqual DEF n
<1>. QED
  BY <1>2, <1>5 DEF a, b

LEMMA FirstOfMany ==
    ASSUME NEW S, NEW e \in S, NEW s \in Seq(S)
    PROVE  /\ <<e>> \o s # <<>> /\ Len(<<e>> \o s) = Len(s) + 1
           /\ Head(<<e>> \o s) = e /\ Tail(<<e>> \o s) = s
<1> DEFINE a == <<e>> \o s
           n == Len(s)
<1>1. <<e>> \in Seq(S) /\ Len(<<e>>) = 1 /\ <<e>>[1] = e /\ n \in Nat
  BY OneIsSeq, LenProperties
<1>2. /\ a \in Seq(S) /\ Len(a) = 1 + n
      /\ \A i \in 1 .. 1 + n : a[i] = IF i <= 1 THEN <<e>>[i] ELSE s[i - 1]
  BY <1>1, ConcatProperties
<1> HIDE DEF a, n
<1>3. a # <<>>
  BY <1>1, <1>2, EmptySeq
<1> DEFINE t == Tail(a)
<1>4. t \in Seq(S) /\ Len(t) = Len(a) - 1 /\ \A i \in 1 .. Len(t) : t[i] = a[i + 1]
  BY <1>2, <1>3, HeadTailProperties
<1>5. Head(a) = a[1]
  BY <1>2, <1>3
<1> HIDE DEF t
<1>6. Len(t) = n /\ \A i \in 1 .. n : t[i] = s[i]
  BY <1>1, <1>2, <1>4
<1>7. t = s
  BY <1>4, <1>6, SeqEqual DEF n
<1>8. a[1] = e
  BY <1>1, <1>2
<1>. QED
  BY <1>1, <1>2, <1>3, <1>5, <1>7, <1>8 DEF a, t, n

LEMMA OlderSnapshot ==
    \A v \in Snapshots : Older(v) \in Snapshots
BY DEF Snapshots, Older

LEMMA AllOlderProperties ==
    ASSUME NEW s \in Seq(Snapshots)
    PROVE  /\ AllOlder(s) \in Seq(Snapshots) /\ Len(AllOlder(s)) = Len(s)
           /\ \A i \in 1 .. Len(s) : AllOlder(s)[i] = Older(s[i])
<1>1. /\ DOMAIN s = 1 .. Len(s) /\ Len(s) \in Nat
      /\ \A i \in 1 .. Len(s) : s[i] \in Snapshots
  BY LenProperties, ElementOfSeq
<1>2. AllOlder(s) \in [1 .. Len(s) -> Snapshots]
  BY <1>1, OlderSnapshot DEF AllOlder
<1>3. AllOlder(s) \in Seq(Snapshots)
  BY <1>1, <1>2, SeqDef
<1>4. DOMAIN AllOlder(s) = 1 .. Len(s) /\ DOMAIN AllOlder(s) = 1 .. Len(AllOlder(s))
      /\ Len(AllOlder(s)) \in Nat
  BY <1>2, <1>3, LenProperties
<1>5. \A i \in 1 .. Len(s) : AllOlder(s)[i] = Older(s[i])
  BY <1>1 DEF AllOlder
<1>. QED
  BY <1>1, <1>3, <1>4, <1>5

LEMMA AllOlderConcat ==
    ASSUME NEW s \in Seq(Snapshots), NEW t \in Seq(Snapshots)
    PROVE  AllOlder(s \o t) = AllOlder(s) \o AllOlder(t)
<1> DEFINE a == AllOlder(s \o t)
           b == AllOlder(s) \o AllOlder(t)
           n == Len(s)
           m == Len(t)
<1>1. n \in Nat /\ m \in Nat
  BY LenProperties
<1>2. /\ s \o t \in Seq(Snapshots) /\ Len(s \o t) = n + m
      /\ \A i \in 1 .. n + m : (s \o t)[i] = IF i <= n THEN s[i] ELSE t[i - n]
  BY ConcatProperties
<1>3. /\ a \in Seq(Snapshots) /\ Len(a) = n + m
      /\ \A i \in 1 .. n + m : a[i] = Older((s \o t)[i])
  BY <1>2, AllOlderProperties
<1>4. /\ AllOlder(s) \in Seq(Snapshots) /\ Len(AllOlder(s)) = n
      /\ AllOlder(t) \in Seq(Snapshots) /\ Len(AllOlder(t)) = m
      /\ \A i \in 1 .. n : AllOlder(s)[i] = Older(s[i])
      /\ \A i \in 1 .. m : AllOlder(t)[i] = Older(t[i])
  BY AllOlderProperties
<1>5. /\ b \in Seq(Snapshots) /\ Len(b) = n + m
      /\ \A i \in 1 .. n + m : b[i] = IF i <= n THEN AllOlder(s)[i] ELSE AllOlder(t)[i - n]
  <2> DEFINE x == AllOlder(s)
             y == AllOlder(t)
  <2>1. x \in Seq(Snapshots) /\ Len(x) = n /\ y \in Seq(Snapshots) /\ Len(y) = m
    BY <1>4
  <2> HIDE DEF x, y
  <2>2. /\ x \o y \in Seq(Snapshots) /\ Len(x \o y) = Len(x) + Len(y)
        /\ \A i \in 1 .. Len(x) + Len(y) :
              (x \o y)[i] = IF i <= Len(x) THEN x[i] ELSE y[i - Len(x)]
    BY <2>1, ConcatProperties
  <2>. QED
    BY <2>1, <2>2 DEF x, y
<1> HIDE DEF a, b, n, m
<1>6. ASSUME NEW i \in 1 .. n + m PROVE a[i] = b[i]
  <2>1. CASE i <= n
    <3>1. i \in 1 .. n
      BY <1>1, <2>1
    <3>2. a[i] = Older(s[i]) /\ b[i] = AllOlder(s)[i]
      BY <1>2, <1>3, <1>5, <2>1
    <3>. QED
      BY <1>4, <3>1, <3>2
  <2>2. CASE ~(i <= n)
    <3>1. i - n \in 1 .. m
      BY <1>1, <2>2
    <3>2. a[i] = Older(t[i - n]) /\ b[i] = AllOlder(t)[i - n]
      BY <1>2, <1>3, <1>5, <2>2
    <3>. QED
      BY <1>4, <3>1, <3>2
  <2>. QED
    BY <2>1, <2>2
<1>7. a = b
  BY <1>3, <1>5, <1>6, SeqEqual
<1>. QED
  BY <1>7 DEF a, b

-----------------------------------------------------------------------------
(* The writer as one sequence.                                               *)

LEMMA OptIsSeq ==
    ASSUME NEW v \in Slots
    PROVE  /\ Opt(v) \in Seq(Snapshots)
           /\ AllOlder(Opt(v)) = Opt(Older(v))
<1>1. CASE v = NoSnapshot
  <2>1. Opt(v) = <<>> /\ Opt(Older(v)) = <<>>
    BY <1>1 DEF Opt, Older, NoSnapshot
  <2>2. <<>> \in Seq(Snapshots) /\ Len(<<>>) = 0
    BY EmptySeq
  <2>3. AllOlder(<<>>) \in Seq(Snapshots) /\ Len(AllOlder(<<>>)) = 0
    BY <2>2, AllOlderProperties
  <2>4. AllOlder(<<>>) = <<>>
    BY <2>3, EmptySeq
  <2>. QED
    BY <2>1, <2>2, <2>4
<1>2. CASE v # NoSnapshot
  <2>1. v \in Snapshots /\ Older(v) \in Snapshots /\ Older(v) # NoSnapshot
    BY <1>2 DEF Slots, Snapshots, Older, NoSnapshot
  <2>2. Opt(v) = <<v>> /\ Opt(Older(v)) = <<Older(v)>>
    BY <1>2, <2>1 DEF Opt
  <2>3. /\ <<v>> \in Seq(Snapshots) /\ Len(<<v>>) = 1 /\ <<v>>[1] = v
        /\ <<Older(v)>> \in Seq(Snapshots) /\ Len(<<Older(v)>>) = 1
        /\ <<Older(v)>>[1] = Older(v)
    BY <2>1, OneIsSeq
  <2> DEFINE a == <<v>>
             b == <<Older(v)>>
  <2>4. a \in Seq(Snapshots) /\ Len(a) = 1 /\ a[1] = v
    BY <2>3
  <2> HIDE DEF a, b
  <2>6. AllOlder(a) \in Seq(Snapshots) /\ Len(AllOlder(a)) = 1
        /\ AllOlder(a)[1] = Older(v)
    BY <2>4, AllOlderProperties
  <2>5. AllOlder(a) = b
    <3>1. b \in Seq(Snapshots) /\ Len(b) = 1 /\ b[1] = Older(v)
      BY <2>3 DEF b
    <3>2. \A i \in 1 .. Len(AllOlder(a)) : AllOlder(a)[i] = b[i]
      BY <2>6, <3>1
    <3>. QED
      BY <2>6, <3>1, <3>2, SeqEqual
  <2>. QED
    BY <2>2, <2>3, <2>5 DEF a, b
<1>. QED
  BY <1>1, <1>2

LEMMA WaitsTyped ==
    ASSUME NEW w \in Writers
    PROVE  /\ w.queue \in Seq(Snapshots) /\ w.latest \in Slots /\ w.taken \in Slots
           /\ Opt(w.taken) \in Seq(Snapshots) /\ Opt(w.latest) \in Seq(Snapshots)
           /\ w.queue \o Opt(w.latest) \in Seq(Snapshots)
           /\ Waits(w) \in Seq(Snapshots)
<1>1. w.queue \in Seq(Snapshots) /\ w.latest \in Slots /\ w.taken \in Slots
  BY DEF Writers
<1>2. Opt(w.taken) \in Seq(Snapshots) /\ Opt(w.latest) \in Seq(Snapshots)
  BY <1>1, OptIsSeq
<1>3. w.queue \o Opt(w.latest) \in Seq(Snapshots)
  BY <1>1, <1>2, ConcatProperties
<1>. QED
  BY <1>1, <1>2, <1>3, ConcatProperties DEF Waits

LEMMA WaitsEmpty ==
    ASSUME NEW w \in Writers, Empty(w)
    PROVE  Waits(w) = <<>>
<1>1. Waits(w) = <<>> \o (<<>> \o <<>>)
  BY DEF Waits, Opt, Empty
<1>2. <<>> \in Seq(Snapshots)
  BY EmptySeq
<1>. QED
  BY <1>1, <1>2, ConcatEmptySeq

LEMMA WaitsAged ==
    ASSUME NEW w \in Writers
    PROVE  /\ Waits(Aged(w)) = AllOlder(Waits(w))
           /\ (Aged(w).latest # NoSnapshot) = (w.latest # NoSnapshot)
<1>1. /\ w.queue \in Seq(Snapshots) /\ w.latest \in Slots /\ w.taken \in Slots
      /\ Opt(w.taken) \in Seq(Snapshots) /\ Opt(w.latest) \in Seq(Snapshots)
      /\ w.queue \o Opt(w.latest) \in Seq(Snapshots)
  BY WaitsTyped
<1>2. Aged(w).queue = AllOlder(w.queue) /\ Aged(w).latest = Older(w.latest)
      /\ Aged(w).taken = Older(w.taken)
  BY DEF Aged, AllOlder, Writers
<1>3. Waits(Aged(w)) = AllOlder(Opt(w.taken)) \o (AllOlder(w.queue) \o AllOlder(Opt(w.latest)))
  BY <1>1, <1>2, OptIsSeq DEF Waits
<1>4. AllOlder(w.queue) \o AllOlder(Opt(w.latest)) = AllOlder(w.queue \o Opt(w.latest))
  BY <1>1, AllOlderConcat
<1>5. AllOlder(Waits(w)) = AllOlder(Opt(w.taken)) \o AllOlder(w.queue \o Opt(w.latest))
  BY <1>1, AllOlderConcat DEF Waits
<1>6. (Older(w.latest) # NoSnapshot) = (w.latest # NoSnapshot)
  BY <1>1 DEF Slots, Snapshots, Older, NoSnapshot
<1>. QED
  BY <1>2, <1>3, <1>4, <1>5, <1>6

\* A kept snapshot is appended.
LEMMA WaitsKept ==
    ASSUME NEW w \in Writers, NEW v \in Snapshots, ~Raises(w)
    PROVE  /\ Waits(Written(w, v, TRUE)) = Append(Waits(w), v)
           /\ Written(w, v, TRUE).latest = NoSnapshot
<1> DEFINE q == w.queue \o (IF w.latest = NoSnapshot THEN <<v>> ELSE <<w.latest, v>>)
           o == Opt(w.latest)
<1>1. /\ w.queue \in Seq(Snapshots) /\ o \in Seq(Snapshots)
      /\ Opt(w.taken) \in Seq(Snapshots) /\ w.queue \o o \in Seq(Snapshots)
      /\ w.latest \in Slots
  BY WaitsTyped
<1>2. Written(w, v, TRUE) = [w EXCEPT !.queue = q, !.latest = NoSnapshot]
  BY DEF Written
<1>3. q = w.queue \o Append(o, v)
  <2>1. CASE w.latest = NoSnapshot
    BY <2>1 DEF Opt
  <2>2. CASE w.latest # NoSnapshot
    BY <2>2 DEF Opt
  <2>. QED
    BY <2>1, <2>2
<1>4. q = Append(w.queue \o o, v)
  BY <1>1, <1>3, AppendAfter
<1> HIDE DEF q, o
<1>5. q \in Seq(Snapshots)
  <2> DEFINE b == w.queue \o o
  <2>1. b \in Seq(Snapshots)
    BY <1>1
  <2> HIDE DEF b
  <2>2. Append(b, v) \in Seq(Snapshots)
    BY <2>1, AppendProperties
  <2>. QED
    BY <1>4, <2>2 DEF b
<1>6. /\ Written(w, v, TRUE).queue = q /\ Written(w, v, TRUE).latest = NoSnapshot
      /\ Written(w, v, TRUE).taken = w.taken
  BY <1>2 DEF Writers
<1>7. Waits(Written(w, v, TRUE)) = Opt(w.taken) \o (q \o <<>>)
  BY <1>6 DEF Waits, Opt
<1>8. q \o <<>> = q
  BY <1>5, ConcatEmptySeq
<1>9. Opt(w.taken) \o Append(w.queue \o o, v) = Append(Opt(w.taken) \o (w.queue \o o), v)
  BY <1>1, AppendAfter
<1>. QED
  BY <1>4, <1>6, <1>7, <1>8, <1>9 DEF Waits, o

\* Another snapshot takes the place of the latest one.
LEMMA WaitsReplaced ==
    ASSUME NEW w \in Writers, NEW v \in Snapshots, ~Raises(w)
    PROVE  /\ Waits(Written(w, v, FALSE))
                = Append(IF w.latest # NoSnapshot THEN SubSeq(Waits(w), 1, Len(Waits(w)) - 1)
                                                  ELSE Waits(w), v)
           /\ Written(w, v, FALSE).latest # NoSnapshot
<1> DEFINE base == Opt(w.taken) \o w.queue
<1>1. /\ w.queue \in Seq(Snapshots) /\ w.latest \in Slots
      /\ Opt(w.taken) \in Seq(Snapshots) /\ base \in Seq(Snapshots)
  BY WaitsTyped, ConcatProperties
<1>2. v # NoSnapshot
  BY DEF Snapshots, NoSnapshot
<1>3. /\ Written(w, v, FALSE).queue = w.queue /\ Written(w, v, FALSE).latest = v
      /\ Written(w, v, FALSE).taken = w.taken
  BY DEF Written, Writers
<1>4. ASSUME NEW x \in Snapshots
      PROVE  Opt(w.taken) \o (w.queue \o <<x>>) = Append(base, x)
  <2>1. w.queue \o <<x>> = Append(w.queue, x)
    BY <1>1, AppendIsConcat
  <2>. QED
    BY <1>1, <2>1, AppendAfter
<1>5. Waits(Written(w, v, FALSE)) = Append(base, v)
  BY <1>2, <1>3, <1>4 DEF Waits, Opt
<1>6. CASE w.latest = NoSnapshot
  <2>1. Waits(w) = Opt(w.taken) \o (w.queue \o <<>>)
    BY <1>6 DEF Waits, Opt
  <2>2. w.queue \o <<>> = w.queue
    BY <1>1, ConcatEmptySeq
  <2>3. Waits(w) = base
    BY <2>1, <2>2
  <2>. QED
    BY <1>2, <1>3, <1>5, <1>6, <2>3
<1>7. CASE w.latest # NoSnapshot
  <2>1. w.latest \in Snapshots
    BY <1>1, <1>7 DEF Slots
  <2>2. Waits(w) = Append(base, w.latest)
    BY <1>4, <1>7, <2>1 DEF Waits, Opt
  <2>3. SubSeq(Waits(w), 1, Len(Waits(w)) - 1) = base
    BY <1>1, <2>1, <2>2, AppendUndone
  <2>. QED
    BY <1>2, <1>3, <1>5, <1>7, <2>3
<1>. QED
  BY <1>6, <1>7
-----------------------------------------------------------------------------
(* The steps of the log.                                                     *)

LEMMA IsHandOver ==
    ASSUME NEW aged \in BOOLEAN, NEW failure \in BOOLEAN, NEW v \in Snapshots,
           NEW old, old = IF aged THEN AllOlder(Waits(rw)) ELSE Waits(rw),
           NEW log, log = IF failure THEN Append(old, "failed") ELSE old,
           ~rw.error, rw'.error = rw.error,
           disk' = IF aged THEN Older(disk) ELSE disk,
           \/ /\ rw'.latest # NoSnapshot
              /\ Waits(rw') = Append(IF rw.latest # NoSnapshot /\ ~failure
                                     THEN SubSeq(log, 1, Len(log) - 1) ELSE log, v)
           \/ rw'.latest = NoSnapshot /\ Waits(rw') = Append(log, v)
    PROVE  Log!HandOver
BY DEF Log!HandOver, Log!Older, Older, AllOlder, Waits, Opt, Backlog, Snapshots

LEMMA IsAge ==
    ASSUME Waits(rw') = AllOlder(Waits(rw)), disk' = Older(disk), rw'.error = rw.error,
           (rw'.latest # NoSnapshot) = (rw.latest # NoSnapshot)
    PROVE  Log!Age
BY DEF Log!Age, Log!Older, Older, AllOlder, Waits, Opt, Backlog

LEMMA IsStutter ==
    ASSUME Waits(rw') = Waits(rw), disk' = disk, rw'.error = rw.error,
           (rw'.latest # NoSnapshot) = (rw.latest # NoSnapshot)
    PROVE  UNCHANGED Log!logVars
BY DEF Log!logVars, Waits, Opt, Backlog

LEMMA IsLose ==
    ASSUME rw \in Writers, rw' = GivesUp(rw), disk' = disk
    PROVE  Log!Lose
<1>1. rw' \in Writers /\ Empty(rw') /\ rw'.error /\ rw'.latest = NoSnapshot
  BY EmptySeq DEF GivesUp, Writers, Empty, Slots
<1>2. Waits(rw') = <<>>
  BY <1>1, WaitsEmpty
<1>3. rw'.error = TRUE
  BY <1>1 DEF Writers
<1>. QED
  BY <1>1, <1>2, <1>3 DEF Log!Lose, Waits, Opt, Backlog

\* fail, from any callback.
LEMMA CallbackRefines ==
    ASSUME IInv, Runs, CallbackFails
    PROVE  [Log!LogNext]_(Log!logVars)
<1>1. rw \in Writers /\ disk' = disk /\ ~rw.closed
  BY DEF IInv, ReceiptsTyped, CallbackFails, Runs, Ends
<1>2. CASE rw' = rw
  BY <1>1, <1>2, IsStutter
<1>3. CASE rw' # rw
  <2>1. rw' = Written(rw, "failed", TRUE) /\ ~Raises(rw)
    BY <1>3 DEF CallbackFails, Told, Written
  <2>2. "failed" \in Snapshots
    BY DEF Snapshots
  <2>3. Waits(rw') = Append(Waits(rw), "failed") /\ rw'.latest = NoSnapshot
    BY <1>1, <2>1, <2>2, WaitsKept
  <2>4. rw'.error = rw.error
    BY <1>1, <2>1, <2>2, WrittenIsFinal
  <2>5. ~rw.error
    BY <2>1 DEF Raises
  <2> DEFINE old == Waits(rw)
  <2> HIDE DEF old
  <2>6. old = IF FALSE THEN AllOlder(Waits(rw)) ELSE Waits(rw)
    BY DEF old
  <2>7. old = IF FALSE THEN Append(old, "failed") ELSE old
    OBVIOUS
  <2>8. Waits(rw') = Append(old, "failed") /\ disk' = IF FALSE THEN Older(disk) ELSE disk
    BY <1>1, <2>3 DEF old
  <2>9. Log!HandOver
    BY <2>2, <2>3, <2>4, <2>5, <2>6, <2>7, <2>8, IsHandOver
  <2>. QED
    BY <2>9 DEF Log!LogNext
<1>. QED
  BY <1>2, <1>3

\* A tick: time passes or not, a failure, then the decision.
LEMMA TickRefines ==
    ASSUME IInv, NEW elapsed \in {0, 1}, Tick(elapsed)
    PROVE  [Log!LogNext]_(Log!logVars)
<1> DEFINE w == IF elapsed = 1 THEN Aged(rw) ELSE rw
           aged == elapsed = 1
<1>1. /\ rw \in Writers /\ disk \in Slots /\ g \in Guards /\ ~rw.closed
      /\ (rw.error => Empty(rw)) /\ aged \in BOOLEAN
  BY DEF IInv, ReceiptsTyped, Tick, Runs, Ends
<1>2. /\ w \in Writers /\ w.closed = rw.closed /\ w.error = rw.error
      /\ Waits(w) = (IF aged THEN AllOlder(Waits(rw)) ELSE Waits(rw))
      /\ (w.latest # NoSnapshot) = (rw.latest # NoSnapshot)
      /\ disk' = (IF aged THEN Older(disk) ELSE disk)
  BY <1>1, AgedIsTheSame, WaitsAged DEF Tick
<1>3. PICK endpoints \in {"ours", "none", "wrong", "unseen"}, rest \in BOOLEAN,
           verdict \in {"stop", "transition", "same"} :
        Decision(w, Active(poll') /\ graph'.achieved /\ ~graph'.failure /\ rest, verdict)
  BY DEF Tick
<1> DEFINE ready == Active(poll') /\ graph'.achieved /\ ~graph'.failure /\ rest
           fails == ~g.failed /\ \/ verdict = "stop"
                                 \/ graph'.failure
                                 \/ g.armed /\ ~ready /\ Watched
           failed == g.failed \/ fails
           told == IF fails THEN Written(w, "failed", TRUE) ELSE w
           says == IF failed THEN "failed" ELSE IF ready THEN "ready" ELSE "waiting"
           keep == failed \/ verdict # "same"
<1>4. rw' = Written(told, says, keep)
  BY <1>3 DEF Decision
<1>5. /\ fails \in BOOLEAN /\ keep \in BOOLEAN /\ says \in Snapshots /\ "failed" \in Snapshots
      /\ (fails => keep = TRUE /\ says = "failed")
  BY <1>1 DEF Snapshots, Guards
<1> HIDE DEF w, aged, fails, says, keep
<1>6. CASE Raises(w)
  <2>1. rw' = w
    <3>1. Written(w, "failed", TRUE) = w /\ Written(w, says, keep) = w
      BY <1>6 DEF Written
    <3>. QED
      BY <1>4, <3>1 DEF told
  <2>2. CASE aged
    <3>1. Log!Age
      BY <1>2, <2>1, <2>2, IsAge
    <3>. QED
      BY <3>1 DEF Log!LogNext
  <2>3. CASE ~aged
    BY <1>2, <2>1, <2>3, IsStutter
  <2>. QED
    BY <2>2, <2>3
<1>7. CASE ~Raises(w)
  <2>1. ~rw.error
    BY <1>2, <1>7 DEF Raises
  <2>2. CASE fails
    <3>1. told = Written(w, "failed", TRUE) /\ rw' = Written(told, "failed", TRUE)
      BY <1>4, <1>5, <2>2 DEF told
    <3>2. /\ told \in Writers /\ told.closed = w.closed /\ told.error = w.error
          /\ Waits(told) = Append(Waits(w), "failed") /\ told.latest = NoSnapshot
      <4> HIDE DEF told
      <4> DEFINE x == Written(w, "failed", TRUE)
      <4>1. x \in Writers /\ x.closed = w.closed /\ x.error = w.error
        BY <1>2, <1>5, WrittenIsFinal
      <4>2. Waits(x) = Append(Waits(w), "failed") /\ x.latest = NoSnapshot
        BY <1>2, <1>5, <1>7, WaitsKept
      <4>3. told = x
        BY <3>1
      <4> HIDE DEF x
      <4>. QED
        BY <4>1, <4>2, <4>3
    <3> HIDE DEF told
    <3>3. ~Raises(told)
      BY <1>7, <3>2 DEF Raises
    <3>4. /\ Waits(rw') = Append(Waits(told), "failed") /\ rw'.latest = NoSnapshot
          /\ rw'.error = told.error
      BY <1>5, <3>1, <3>2, <3>3, WrittenIsFinal, WaitsKept
    <3> DEFINE old == Waits(w)
               log == Waits(told)
    <3> HIDE DEF old, log
    <3>5. /\ old = (IF aged THEN AllOlder(Waits(rw)) ELSE Waits(rw))
          /\ log = (IF TRUE THEN Append(old, "failed") ELSE old)
          /\ Waits(rw') = Append(log, "failed") /\ rw'.error = rw.error
      BY <1>2, <3>2, <3>4 DEF old, log
    <3>6. Log!HandOver
      BY <1>1, <1>2, <1>5, <2>1, <3>4, <3>5, IsHandOver
    <3>. QED
      BY <3>6 DEF Log!LogNext
  <2>3. CASE ~fails
    <3>1. rw' = Written(w, says, keep)
      BY <1>4, <2>3 DEF told
    <3> DEFINE old == Waits(w)
    <3>2. /\ rw'.error = rw.error
          /\ \/ rw'.latest = NoSnapshot /\ Waits(rw') = Append(old, says)
             \/ /\ rw'.latest # NoSnapshot
                /\ Waits(rw') = Append(IF rw.latest # NoSnapshot /\ ~FALSE
                                       THEN SubSeq(old, 1, Len(old) - 1) ELSE old, says)
      <4>1. rw'.error = rw.error
        BY <1>2, <1>5, <3>1, WrittenIsFinal
      <4>2. CASE keep
        <5>1. keep = TRUE
          BY <1>5, <4>2
        <5>. QED
          BY <1>2, <1>5, <1>7, <3>1, <4>1, <5>1, WaitsKept
      <4>3. CASE ~keep
        <5>1. keep = FALSE
          BY <1>5, <4>3
        <5>. QED
          BY <1>2, <1>5, <1>7, <3>1, <4>1, <5>1, WaitsReplaced
      <4>. QED
        BY <4>2, <4>3
    <3> HIDE DEF old
    <3>3. /\ old = (IF aged THEN AllOlder(Waits(rw)) ELSE Waits(rw))
          /\ old = (IF FALSE THEN Append(old, "failed") ELSE old)
      BY <1>2 DEF old
    <3>4. Log!HandOver
      BY <1>1, <1>2, <1>5, <2>1, <3>2, <3>3, IsHandOver
    <3>. QED
      BY <3>4 DEF Log!LogNext
  <2>. QED
    BY <2>2, <2>3
<1>. QED
  BY <1>6, <1>7

LEMMA ThreadRefines ==
    ASSUME IInv, Thread \/ CommitFails
    PROVE  [Log!LogNext]_(Log!logVars)
<1>1. rw \in Writers /\ disk \in Slots
  BY DEF IInv, ReceiptsTyped
<1>2. /\ rw.queue \in Seq(Snapshots) /\ rw.latest \in Slots /\ rw.taken \in Slots
      /\ Opt(rw.latest) \in Seq(Snapshots) /\ rw.queue \o Opt(rw.latest) \in Seq(Snapshots)
      /\ <<>> \in Seq(Snapshots)
  BY <1>1, WaitsTyped, EmptySeq
<1>3. CASE ThreadTakes
  <2>1. rw.taken = NoSnapshot /\ disk' = disk /\ Backlog(rw) # <<>>
    BY <1>3 DEF ThreadTakes
  <2>2. Waits(rw) = rw.queue \o Opt(rw.latest)
    BY <1>2, <2>1, ConcatEmptySeq DEF Waits, Opt
  <2>3. CASE rw.queue # <<>>
    <3>1. rw' = [rw EXCEPT !.taken = Head(rw.queue), !.queue = Tail(rw.queue)]
      BY <1>3, <2>3 DEF ThreadTakes
    <3>2. Head(rw.queue) \in Snapshots /\ Tail(rw.queue) \in Seq(Snapshots)
      BY <1>2, <2>3, HeadTailProperties
    <3>3. /\ rw'.taken = Head(rw.queue) /\ rw'.queue = Tail(rw.queue)
          /\ rw'.latest = rw.latest /\ rw'.error = rw.error
      BY <1>1, <3>1 DEF Writers
    <3> DEFINE h == Head(rw.queue)
               t == Tail(rw.queue)
               o == Opt(rw.latest)
               q == rw.queue
    <3>4. Waits(rw') = <<h>> \o (t \o o)
      BY <3>2, <3>3 DEF Waits, Opt, Snapshots, NoSnapshot
    <3>5. q = <<h>> \o t
      <4>1. 1 \in 1 .. Len(q) /\ Len(q) \in 1 .. Len(q)
        BY <1>2, <2>3, EmptySeq
      <4>2. SubSeq(q, 1, Len(q)) = <<q[1]>> \o SubSeq(q, 1 + 1, Len(q))
        BY <1>2, <4>1, SubSeqRecursiveFirst
      <4>3. SubSeq(q, 1, Len(q)) = q /\ t = SubSeq(q, 2, Len(q)) /\ h = q[1]
        BY <1>2, <2>3, SubSeqFull, TailIsSubSeq
      <4>. QED
        BY <4>2, <4>3
    <3>6. <<h>> \in Seq(Snapshots) /\ t \in Seq(Snapshots) /\ o \in Seq(Snapshots)
      BY <1>2, <3>2, OneIsSeq
    <3> HIDE DEF h, t, o, q
    <3>7. (<<h>> \o t) \o o = <<h>> \o (t \o o)
      BY <3>6, ConcatAssociative
    <3>8. Waits(rw') = Waits(rw)
      BY <2>2, <3>4, <3>5, <3>7 DEF q, o
    <3>. QED
      BY <2>1, <3>3, <3>8, IsStutter
  <2>4. CASE rw.queue = <<>>
    <3>1. rw' = [rw EXCEPT !.taken = rw.latest, !.latest = NoSnapshot]
      BY <1>3, <2>4 DEF ThreadTakes
    <3>2. /\ rw'.taken = rw.latest /\ rw'.queue = <<>> /\ rw'.latest = NoSnapshot
          /\ rw'.error = rw.error
      BY <1>1, <2>4, <3>1 DEF Writers
    <3>3. rw.latest # NoSnapshot
      BY <1>2, <2>1, <2>4, ConcatEmptySeq DEF Backlog
    <3>4. Waits(rw') = Opt(rw.latest) \o (<<>> \o <<>>)
      BY <3>2 DEF Waits, Opt
    <3>5. Waits(rw') = Waits(rw)
      BY <1>2, <2>2, <2>4, <3>4, ConcatEmptySeq
    <3>6. Log!Settle
      BY <2>1, <3>2, <3>3, <3>5 DEF Log!Settle, Waits, Opt, Backlog
    <3>. QED
      BY <3>6 DEF Log!LogNext
  <2>. QED
    BY <2>3, <2>4
<1>4. CASE ThreadCommits
  <2>1. rw.taken # NoSnapshot /\ disk' = rw.taken /\ rw' = [rw EXCEPT !.taken = NoSnapshot]
    BY <1>4 DEF ThreadCommits
  <2>2. /\ rw'.taken = NoSnapshot /\ rw'.queue = rw.queue /\ rw'.latest = rw.latest
        /\ rw'.error = rw.error
    BY <1>1, <2>1 DEF Writers
  <2> DEFINE b == rw.queue \o Opt(rw.latest)
             e == rw.taken
  <2>3. b \in Seq(Snapshots) /\ e \in Snapshots
    BY <1>2, <2>1 DEF Slots
  <2>4. Waits(rw) = <<e>> \o b
    BY <2>1 DEF Waits, Opt
  <2>5. Waits(rw') = b
    <3>1. Waits(rw') = <<>> \o b
      BY <2>2 DEF Waits, Opt
    <3>. QED
      BY <2>3, <3>1, ConcatEmptySeq
  <2>6. rw.latest # NoSnapshot => Len(b) \in Nat \ {0}
    <3>1. ASSUME rw.latest # NoSnapshot PROVE b # <<>>
      <4>1. Opt(rw.latest) # <<>>
        BY <1>2, <3>1, OneIsSeq DEF Opt, Slots
      <4>. QED
        BY <1>2, <4>1, ConcatEqualIffEmpty
    <3>. QED
      BY <2>3, <3>1, EmptySeq
  <2> HIDE DEF b, e
  <2>7. /\ Waits(rw) # <<>> /\ Len(Waits(rw)) = Len(b) + 1
        /\ Head(Waits(rw)) = e /\ Tail(Waits(rw)) = b
    BY <2>3, <2>4, FirstOfMany
  <2>8. /\ disk' = Head(Waits(rw)) /\ Waits(rw') = Tail(Waits(rw))
        /\ (rw'.latest # NoSnapshot) = (rw.latest # NoSnapshot /\ Len(Waits(rw)) > 1)
    BY <2>1, <2>2, <2>5, <2>6, <2>7 DEF e
  <2>9. Log!Save
    BY <2>2, <2>7, <2>8 DEF Log!Save, Waits, Opt, Backlog
  <2>. QED
    BY <2>9 DEF Log!LogNext
<1>5. CASE ThreadEnds
  <2>1. rw' = [rw EXCEPT !.alive = FALSE] /\ disk' = disk
    BY <1>5 DEF ThreadEnds
  <2>2. Waits(rw') = Waits(rw) /\ rw'.error = rw.error /\ rw'.latest = rw.latest
    BY <1>1, <2>1 DEF Writers, Waits
  <2>. QED
    BY <2>1, <2>2, IsStutter
<1>6. CASE CommitFails
  <2>1. Log!Lose
    BY <1>1, <1>6, IsLose DEF CommitFails
  <2>. QED
    BY <2>1 DEF Log!LogNext
<1>. QED
  BY <1>3, <1>4, <1>5, <1>6 DEF Thread

LEMMA StepRefines == IInv /\ [Next]_vars => [Log!LogNext]_(Log!logVars)
<1> SUFFICES ASSUME IInv, [Next]_vars PROVE [Log!LogNext]_(Log!logVars)
  OBVIOUS
<1>1. CASE UNCHANGED <<rw, disk>>
  BY <1>1, IsStutter
<1>2. CASE MonitorComes \/ StartupStep \/ MonitorDrops \/ MonitorAnswers
  BY <1>1, <1>2 DEF MonitorComes, StartupStep, MonitorDrops, MonitorAnswers, receiptVars
<1>3. CASE CommandBeforeLease \/ GoalAccepted \/ AdmissionWritten \/ GuardEnds
  BY <1>1, <1>3 DEF CommandBeforeLease, GoalAccepted, AdmissionWritten, GuardEnds, receiptVars
<1>4. CASE CollisionPasses \/ ProbesPass \/ GatePasses
  BY <1>1, <1>4 DEF CollisionPasses, ProbesPass, GatePasses, receiptVars
<1>5. CASE StageFails \/ SessionEnds \/ GuardExitSeen
  BY <1>1, <1>5 DEF StageFails, SessionEnds, GuardExitSeen, ShutsDown, receiptVars
<1>6. CASE Of(ReaderLooks) \/ Of(ReaderTimesOut)
  BY <1>1, <1>6 DEF Of, ReaderLooks, ReaderTimesOut
<1>7. CASE MessageIsWrong \/ TickFailsEarly
  BY <1>7, CallbackRefines DEF MessageIsWrong, TickFailsEarly
<1>8. CASE SafetyStatus
  <2>1. Runs /\ (CallbackFails \/ UNCHANGED <<rw, disk>>)
    BY <1>8 DEF SafetyStatus, receiptVars
  <2>. QED
    BY <1>1, <2>1, CallbackRefines
<1>9. CASE \E elapsed \in {0, 1} : Tick(elapsed)
  BY <1>9, TickRefines
<1>10. CASE LeavesLoop
  <2>1. disk' = disk /\ rw' = [rw EXCEPT !.closed = TRUE] /\ rw \in Writers
    BY <1>10 DEF LeavesLoop, Closed, IInv, ReceiptsTyped
  <2>2. Waits(rw') = Waits(rw) /\ rw'.error = rw.error /\ rw'.latest = rw.latest
    BY <2>1 DEF Writers, Waits
  <2>. QED
    BY <2>1, <2>2, IsStutter
<1>11. CASE GuardDies
  <2>1. Log!Lose
    BY <1>11, IsLose DEF GuardDies, IInv, ReceiptsTyped
  <2>. QED
    BY <2>1 DEF Log!LogNext
<1>12. CASE Of(Thread) \/ Of(CommitFails)
  BY <1>12, ThreadRefines DEF Of
<1>13. CASE UNCHANGED vars
  BY <1>1, <1>13 DEF vars, receiptVars
<1>. QED
  BY <1>2, <1>3, <1>4, <1>5, <1>6, <1>7, <1>8, <1>9, <1>10, <1>11, <1>12, <1>13 DEF Next

(* Kept snapshots reach the receipt file in the order in which they were     *)
(* handed over and none is skipped, except the last unkept one, until the    *)
(* writer gives up (ReceiptWriter.write, _run and close).                    *)
THEOREM OrderKept == Spec => KeepsOrder
<1>1. Init => Log!LogInit
  <2>1. <<>> \in Seq(Snapshots)
    BY EmptySeq
  <2>. QED
    BY <2>1, ConcatEmptySeq DEF Init, ReceiptsInit, Log!LogInit, Backlog, NoSnapshot
<1>. QED
  BY <1>1, IInvInit, IInvNext, StepRefines, PTL DEF Spec, KeepsOrder, Log!LogSpec
=============================================================================

---- MODULE GuardReceipts ----
(***************************************************************************)
(* The receipt file of the safety guard: the ReceiptWriter of              *)
(* tools/rviz_navigation/navigation_safety_guard.py, whose one background  *)
(* thread owns the file, and wait_ready, the reader by which the launch    *)
(* admits the mission.  A snapshot is what its reader tells apart: "ready" *)
(* and not older than 0.5 s, "failed", or neither ("waiting").             *)
(***************************************************************************)
EXTENDS Sequences

VARIABLES
    rw,       \* the writer: queue, latest, the snapshot its thread has taken,
              \* _closed, _error, whether the thread still runs
    disk,     \* the snapshot in the receipt file
    reader    \* wait_ready

receiptVars == <<rw, disk, reader>>

NoSnapshot == "none"
Older(v) == IF v = "ready" THEN "waiting" ELSE v

ReceiptsInit ==
    /\ rw = [queue |-> <<>>, latest |-> NoSnapshot, taken |-> NoSnapshot,
             closed |-> FALSE, error |-> FALSE, alive |-> TRUE]
    /\ disk = NoSnapshot /\ reader = "off"

Raises(w) == w.error \/ w.closed

\* Mutant: the latest snapshot is left where it is when a kept one is queued.
WrittenAhead(w, v, keep) ==
    IF Raises(w) THEN w
    ELSE IF ~keep THEN [w EXCEPT !.latest = v]
    ELSE [w EXCEPT !.queue = Append(w.queue, v)]

(* write: a failure or a readiness transition is queued, behind the latest *)
(* snapshot; any other snapshot takes the place of the latest one.         *)
Written(w, v, keep) ==
    IF Raises(w) THEN w
    ELSE IF ~keep THEN [w EXCEPT !.latest = v]
    ELSE [w EXCEPT !.queue = @ \o (IF w.latest = NoSnapshot THEN <<v>> ELSE <<w.latest, v>>),
                   !.latest = NoSnapshot]

Backlog(w) == w.queue \o (IF w.latest = NoSnapshot THEN <<>> ELSE <<w.latest>>)

ThreadTakes ==
    /\ rw.alive /\ rw.taken = NoSnapshot /\ Backlog(rw) # <<>>
    /\ rw' = IF rw.queue # <<>>
             THEN [rw EXCEPT !.taken = Head(rw.queue), !.queue = Tail(rw.queue)]
             ELSE [rw EXCEPT !.taken = rw.latest, !.latest = NoSnapshot]
    /\ UNCHANGED <<disk, reader>>

ThreadCommits ==
    /\ rw.taken # NoSnapshot /\ disk' = rw.taken
    /\ rw' = [rw EXCEPT !.taken = NoSnapshot] /\ UNCHANGED reader

(* What waits is forgotten, and every later write raises. *)
GivesUp(w) == [w EXCEPT !.queue = <<>>, !.latest = NoSnapshot, !.taken = NoSnapshot,
                        !.error = TRUE, !.alive = FALSE]
CommitFails == rw.taken # NoSnapshot /\ rw' = GivesUp(rw) /\ UNCHANGED <<disk, reader>>

\* Mutant: the thread returns as soon as the writer is closed.
ThreadEndsAtOnce ==
    /\ rw.alive /\ rw.closed /\ rw.taken = NoSnapshot
    /\ rw' = [rw EXCEPT !.alive = FALSE] /\ UNCHANGED <<disk, reader>>

ThreadEnds ==
    /\ rw.alive /\ rw.closed /\ rw.taken = NoSnapshot /\ Backlog(rw) = <<>>
    /\ rw' = [rw EXCEPT !.alive = FALSE] /\ UNCHANGED <<disk, reader>>

Thread == ThreadTakes \/ ThreadCommits \/ ThreadEnds

Closed(w) == [w EXCEPT !.closed = TRUE]

(* Half a second passes for every snapshot there is. *)
Aged(w) == [w EXCEPT !.queue = [i \in DOMAIN @ |-> Older(@[i])],
                     !.latest = Older(@), !.taken = Older(@)]

---------------------------------------------------------------------------
(* wait_ready *)

ReaderStarts == reader' = "waiting"

ReaderLooks ==
    /\ reader = "waiting"
    /\ \/ disk = "failed" /\ reader' = "refused"
       \/ disk = "ready" /\ reader' = "passed"
    /\ UNCHANGED <<rw, disk>>

ReaderTimesOut == reader = "waiting" /\ reader' = "refused" /\ UNCHANGED <<rw, disk>>

---------------------------------------------------------------------------
(* In the terms of the log: a snapshot the thread has taken is the first   *)
(* one that has not reached the file.                                      *)

Log == INSTANCE SnapshotLog WITH
    backlog <- (IF rw.taken = NoSnapshot THEN <<>> ELSE <<rw.taken>>) \o Backlog(rw),
    loose <- rw.latest # NoSnapshot, saved <- disk, lost <- rw.error

(* Kept snapshots reach the file in the order in which they were written,  *)
(* and only a last, unkept one is ever skipped (ReceiptWriter).            *)
KeepsOrder == Log!LogSpec
====

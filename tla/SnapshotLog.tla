---- MODULE SnapshotLog ----
(***************************************************************************)
(* What a reader of the safety guard's receipt may rely on, whatever       *)
(* thread writes it: snapshots reach the file in the order in which they   *)
(* were handed over, and the only one that may be skipped is a last one    *)
(* that nobody asked to keep, when a newer one takes its place.            *)
(***************************************************************************)
EXTENDS Sequences, Integers

VARIABLES
    backlog,  \* snapshots handed over and not in the file yet
    loose,    \* the last of them may be replaced
    saved,    \* the snapshot in the file
    lost      \* the writer gave up, or died

logVars == <<backlog, loose, saved, lost>>

LogInit == backlog = <<>> /\ loose = FALSE /\ saved = "none" /\ lost = FALSE

\* A snapshot that says ready is believed for half a second.
Older(v) == IF v = "ready" THEN "waiting" ELSE v

(* Time passes or not, a failure is handed over or not, then a snapshot:   *)
(* one to be kept, or one that may itself be replaced.                     *)
HandOver == \E v \in {"ready", "waiting", "failed"}, failure, aged \in BOOLEAN :
    LET old == IF aged THEN [i \in DOMAIN backlog |-> Older(backlog[i])] ELSE backlog
        log == IF failure THEN Append(old, "failed") ELSE old
        firm == IF loose /\ ~failure THEN SubSeq(log, 1, Len(log) - 1) ELSE log IN
    /\ ~lost /\ UNCHANGED lost
    /\ saved' = IF aged THEN Older(saved) ELSE saved
    /\ \/ loose' = TRUE /\ backlog' = Append(firm, v)
       \/ loose' = FALSE /\ backlog' = Append(log, v)

\* The writer's thread has taken the last one: it can no longer be replaced.
Settle == loose /\ loose' = FALSE /\ UNCHANGED <<backlog, saved, lost>>

Save ==
    /\ backlog # <<>> /\ saved' = Head(backlog) /\ backlog' = Tail(backlog)
    /\ loose' = (loose /\ Len(backlog) > 1) /\ UNCHANGED lost

Lose == lost' = TRUE /\ backlog' = <<>> /\ loose' = FALSE /\ UNCHANGED saved

Age ==
    /\ backlog' = [i \in DOMAIN backlog |-> Older(backlog[i])] /\ saved' = Older(saved)
    /\ UNCHANGED <<loose, lost>>

LogNext == HandOver \/ Settle \/ Save \/ Lose \/ Age
LogSpec == LogInit /\ [][LogNext]_logVars
====

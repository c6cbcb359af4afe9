---- MODULE MotionReceipts ----
(***************************************************************************)
(* The receipts of the one-goal RViz motion profile                        *)
(* (tools/rviz_navigation/short_goal_policy.py).  The run supervisor issues*)
(* them, and supervisor and goal adapter, two processes, rewrite Scope and *)
(* lifecycle: each update reads the file, checks the transition and later  *)
(* replaces the file, with no lock in between.  The temporary file is      *)
(* created exclusively, so of two replacements that overlap one raises.    *)
(* A digest is the content it was taken from; "by" is who wrote it.        *)
(***************************************************************************)
EXTENDS Sequences

VARIABLES
    admission,   \* motion-admission.json, its status
    scope,       \* motion-scope.json
    lifecycle,   \* motion-lifecycle.json
    revocation,  \* motion-revocation.json
    work         \* writer -> its sequence of updates and the one under way

receiptVars == <<admission, scope, lifecycle, revocation, work>>

Writers == {"adapter", "supervisor"}
Nothing == [st |-> "none"]

Grant == [st |-> "ACTIVE", rel |-> FALSE, by |-> "supervisor"]
NewLifecycle ==
    [st |-> "AUTHORIZED", acq |-> FALSE, rel |-> FALSE, scope |-> Grant, by |-> "supervisor"]

(* A job: updates to do, the next content of one file, the Lease evidence. *)
Rest == [job |-> "none", todo |-> <<>>, next |-> Nothing, raised |-> FALSE,
         acq |-> FALSE, rel |-> FALSE]
Job(name, ops, acq, rel) ==
    [Rest EXCEPT !.job = name, !.todo = ops, !.acq = acq, !.rel = rel]

(* One update: of which receipt, to which status, whether it records the   *)
(* acquisition or the release, whether a closed receipt is left alone.     *)
Op(do, to, acq, rel, skip) ==
    [do |-> do, to |-> to, acq |-> acq, rel |-> rel, skip |-> skip]

ReceiptsInit ==
    /\ admission = "none" /\ scope = Nothing /\ lifecycle = Nothing
    /\ revocation = Nothing
    /\ work = [w \in Writers |-> Rest]

---------------------------------------------------------------------------
(* What the readers accept. *)

AuthorityValid == scope.st \in {"ACTIVE", "GOAL_ACCEPTED", "LEASE_ACTIVE"}

LifecycleValid ==
    /\ AuthorityValid
    /\ lifecycle.st \in {"AUTHORIZED", "GOAL_ACCEPTED", "LEASE_ACTIVE"}
    /\ lifecycle.scope = scope

\* Mutant: an admission that is still opening is enough.
AdmissionValidEarly ==
    admission \in {"OPENING", "ADMITTED"} /\ AuthorityValid /\ scope = Grant

(* The admission names the digest of the Scope as it was issued. *)
AdmissionValid == admission = "ADMITTED" /\ AuthorityValid /\ scope = Grant

RevocationValid(acq, rel) ==
    /\ revocation.st = "REVOKED" /\ scope.st = "CLOSED" /\ lifecycle.st = "CLOSED"
    /\ revocation.scope = scope /\ revocation.life = lifecycle
    /\ revocation.acq = acq /\ revocation.rel = rel /\ (acq => rel)

(* issue_motion_receipts *)
Issue == scope' = Grant /\ lifecycle' = NewLifecycle

---------------------------------------------------------------------------
(* The updates. *)

ScopeNext ==
    [ACTIVE |-> {"ACTIVE", "GOAL_ACCEPTED", "LEASE_ACTIVE", "CLOSED"},
     GOAL_ACCEPTED |-> {"GOAL_ACCEPTED", "LEASE_ACTIVE", "CLOSED"},
     LEASE_ACTIVE |-> {"LEASE_ACTIVE", "CLOSED"}]

LifecycleNext ==
    [AUTHORIZED |-> {"AUTHORIZED", "GOAL_ACCEPTED", "LEASE_ACTIVE"},
     GOAL_ACCEPTED |-> {"GOAL_ACCEPTED", "LEASE_ACTIVE", "LEASE_RELEASED"},
     LEASE_ACTIVE |-> {"LEASE_ACTIVE", "LEASE_RELEASED"},
     LEASE_RELEASED |-> {"LEASE_RELEASED"}]

ScopeMay(op) ==
    /\ scope.st \in DOMAIN ScopeNext /\ op.to \in ScopeNext[scope.st]
    /\ op.to = "LEASE_ACTIVE" => op.acq \/ scope.st = "LEASE_ACTIVE"
    /\ scope.st = "LEASE_ACTIVE" /\ op.to = "CLOSED" => op.rel \/ scope.rel

(* An update may leave the status of the lifecycle as it is. *)
LifecycleTo(op) == IF op.to = "same" THEN lifecycle.st ELSE op.to
LifecycleMay(op) ==
    lifecycle.st \in DOMAIN LifecycleNext /\ LifecycleTo(op) \in LifecycleNext[lifecycle.st]

Idle(w) == work[w].job = "none"
Finished(w) == ~Idle(w) /\ work[w].todo = <<>>
Starts(w, job) == work' = [work EXCEPT ![w] = job]
Ends(w) == Starts(w, Rest)

Raise(w) ==
    work' = [work EXCEPT ![w].todo = <<>>, ![w].next = Nothing, ![w].raised = TRUE]
Skip(w) == work' = [work EXCEPT ![w].todo = Tail(@)]
Prepare(w, value) == work' = [work EXCEPT ![w].next = value]

ReadsScope(w, op) ==
    IF op.skip /\ scope.st = "CLOSED" THEN Skip(w)
    ELSE IF ~ScopeMay(op) THEN Raise(w)
    ELSE Prepare(w, [st |-> op.to, rel |-> scope.rel \/ op.rel, by |-> w])

ReadsLifecycle(w, op) ==
    IF op.skip /\ lifecycle.st = "CLOSED" THEN Skip(w)
    ELSE IF ~LifecycleMay(op) THEN Raise(w)
    ELSE Prepare(w, [st |-> LifecycleTo(op), acq |-> lifecycle.acq \/ op.acq,
                     rel |-> lifecycle.rel \/ op.rel, scope |-> scope, by |-> w])

(* close_lifecycle *)
ReadsToClose(w, op) ==
    IF lifecycle.st = "CLOSED" THEN Skip(w)
    ELSE IF lifecycle.acq /\ ~op.rel THEN Raise(w)
    ELSE Prepare(w, [lifecycle EXCEPT !.st = "CLOSED", !.by = w])

(* write_revocation_receipt: created exclusively; the reason of the two    *)
(* writers differs, so a receipt of the other one is refused.              *)
Revokes(w) ==
    IF /\ scope.st = "CLOSED" /\ lifecycle.st = "CLOSED" /\ (work[w].acq => work[w].rel)
       /\ revocation = Nothing
    THEN /\ revocation' = [st |-> "REVOKED", acq |-> work[w].acq, rel |-> work[w].rel,
                           scope |-> scope, life |-> lifecycle]
         /\ Skip(w)
    ELSE Raise(w) /\ UNCHANGED revocation

Reads(w) ==
    /\ work[w].todo # <<>> /\ work[w].next = Nothing
    /\ LET op == Head(work[w].todo) IN
       \/ op.do = "scope" /\ ReadsScope(w, op) /\ UNCHANGED revocation
       \/ op.do = "lifecycle" /\ ReadsLifecycle(w, op) /\ UNCHANGED revocation
       \/ op.do = "close" /\ ReadsToClose(w, op) /\ UNCHANGED revocation
       \/ op.do = "revoke" /\ Revokes(w)
    /\ UNCHANGED <<admission, scope, lifecycle>>

(* os.replace *)
Writes(w) ==
    /\ work[w].next # Nothing
    /\ IF Head(work[w].todo).do = "scope"
       THEN scope' = work[w].next /\ UNCHANGED lifecycle
       ELSE lifecycle' = work[w].next /\ UNCHANGED scope
    /\ work' = [work EXCEPT ![w].todo = Tail(@), ![w].next = Nothing]
    /\ UNCHANGED <<admission, revocation>>

(* Two writers of one file: the temporary file of the other one exists. *)
SameFile(a, b) == (a = "scope") = (b = "scope")
Collides(w) ==
    /\ work[w].next # Nothing
    /\ \E o \in Writers \ {w} :
          /\ work[o].next # Nothing
          /\ SameFile(Head(work[o].todo).do, Head(work[w].todo).do)
    /\ Raise(w)
    /\ UNCHANGED <<admission, scope, lifecycle, revocation>>

Updates(w) == Reads(w) \/ Writes(w) \/ Collides(w)

ReceiptsTypeOK ==
    /\ admission \in {"none", "OPENING", "ADMITTED", "REVOKED"}
    /\ scope.st \in {"none", "ACTIVE", "GOAL_ACCEPTED", "LEASE_ACTIVE", "CLOSED"}
    /\ lifecycle.st \in {"none", "AUTHORIZED", "GOAL_ACCEPTED", "LEASE_ACTIVE",
                         "LEASE_RELEASED", "CLOSED"}
    /\ revocation.st \in {"none", "REVOKED"}
    /\ \A w \in Writers : work[w].next # Nothing => work[w].todo # <<>>
====

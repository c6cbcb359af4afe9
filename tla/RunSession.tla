---- MODULE RunSession ----
(***************************************************************************)
(* One supervised RViz run (tools/rviz_navigation): the shell wrapper, the *)
(* Python supervisor that owns the launch process group, and the deadline  *)
(* watchdog that cuts an overdue run off.  The three processes share the   *)
(* files of the run directory and nothing else; each file is replaced      *)
(* atomically, so a step reads or writes whole files.  Any process may be  *)
(* killed, hang or be slow; a scan of /proc may fail.                      *)
(***************************************************************************)
EXTENDS PhaseLedger

CONSTANTS
    MaxCrashes,       \* processes killed from outside, or failing, in a run
    MaxScanFailures   \* scans of /proc that end incomplete

ASSUME RunBounds == MaxCrashes \in Nat /\ MaxScanFailures \in Nat

VARIABLES
    clock,     \* which deadlines counted from T0 have passed
    wrap,      \* where the wrapper is
    waited,    \* children whose exit the wrapper has collected
    sup,       \* where the supervisor is
    supRc,     \* its exit: "none", "ok", "error"
    stopReq,   \* STOP_REQUESTED in the supervisor
    ledger,    \* its phase ledger
    failures,  \* its list of failures is not empty
    cleaned,   \* its cleanup: "none", "not_started", "verified", "unverified"
    verdict,   \* the status it computed for its result
    leader,    \* main process of the launch: "none", "run", "zombie", "reaped"
    kids,      \* other members of its process group are running or outlive it
    doomed,    \* the group was sent SIGKILL; INT and TERM oblige it to nothing
    wd,        \* where the watchdog is
    wdRc,      \* its exit: "none", "ok", "error"
    wdSees,    \* what it knows: the supervisor, the launch, is the target alive
    sent,      \* which one-shot actions of its schedule were taken
    file,      \* the run directory
    crashes, scanFails

supVars == <<sup, supRc, stopReq, ledger, failures, cleaned, verdict>>
wdVars == <<wd, wdRc, wdSees, sent>>
groupVars == <<leader, kids, doomed>>
wrapVars == <<wrap, waited>>
counts == <<crashes, scanFails>>
vars == <<clock, wrapVars, supVars, groupVars, wdVars, file, counts>>

(* Deadlines from T0: 110, 145, 159, 167, 175 and 180 seconds. *)
Deadline == [readiness |-> 1, soft |-> 2, term |-> 3, kill |-> 4, cut |-> 5]
AccountingLimit == 6

NoResult == [status |-> "none", verified |-> FALSE]
EmptyDirectory ==
    [ready |-> FALSE, state |-> "none", allReady |-> FALSE, rejection |-> FALSE,
     hard |-> "none", wdFailure |-> FALSE, cleanup |-> "none", result |-> NoResult,
     complete |-> FALSE, exit |-> "none"]

Init ==
    /\ clock = 0
    /\ wrap = "setup" /\ waited = {}
    /\ sup = "none" /\ supRc = "none" /\ stopReq = FALSE
    /\ ledger = NewLedger /\ failures = FALSE /\ cleaned = "none" /\ verdict = "none"
    /\ leader = "none" /\ kids = FALSE /\ doomed = FALSE
    /\ wd = "none" /\ wdRc = "none"
    /\ wdSees = [sup |-> FALSE, launch |-> FALSE, alive |-> TRUE]
    /\ sent = {}
    /\ file = EmptyDirectory
    /\ crashes = 0 /\ scanFails = 0

---------------------------------------------------------------------------
(* The launch process group. *)

WrapAlive == wrap \notin {"done", "killed"}
SupAlive == sup \notin {"none", "ended"}
WdAlive == wd \notin {"none", "ended"}

Running == leader = "run" \/ kids
GroupEmpty == leader \in {"none", "reaped"} /\ ~kids

(* process_group_snapshot: complete, or with errors and then UNKNOWN. *)
Scan(ok) ==
    /\ ok \/ scanFails < MaxScanFailures
    /\ scanFails' = IF ok THEN scanFails ELSE scanFails + 1

(* Members end by themselves or because they were told to; some of them    *)
(* may outlive the main process.                                           *)
LeaderEnds ==
    /\ leader = "run" /\ leader' = "zombie" /\ kids' \in {FALSE, kids}
    /\ UNCHANGED <<clock, wrapVars, supVars, doomed, wdVars, file, counts>>

KidsEnd ==
    /\ leader # "run" /\ kids /\ kids' = FALSE
    /\ UNCHANGED <<clock, wrapVars, supVars, leader, doomed, wdVars, file, counts>>

(* A zombie whose parent is gone is collected by init. *)
InitReaps ==
    /\ leader = "zombie" /\ ~SupAlive /\ leader' = "reaped"
    /\ UNCHANGED <<clock, wrapVars, supVars, kids, doomed, wdVars, file, counts>>

(* A deadline passes.  The wrapper gives its start-up steps three seconds, *)
(* and the watchdog acts on the time it read when it sampled.              *)
Tick ==
    /\ clock < AccountingLimit /\ clock' = clock + 1
    /\ wrap \notin {"await", "stop_watchdog", "bind"} /\ wd # "act"
    /\ UNCHANGED <<wrapVars, supVars, groupVars, wdVars, file, counts>>

---------------------------------------------------------------------------
(* The wrapper. *)

(* record_setup_failure: the run is BLOCKED and the wrapper leaves. *)
SetupFailure ==
    /\ file' = [file EXCEPT !.cleanup = "not_started",
                            !.result = [status |-> "BLOCKED", verified |-> FALSE]]
    /\ wrap' = "done"

WrapSetupFails ==
    /\ wrap = "setup" /\ SetupFailure
    /\ UNCHANGED <<clock, waited, supVars, groupVars, wdVars, counts>>

WrapStartsWatchdog ==
    /\ wrap = "setup" /\ wrap' = "await" /\ wd' = "boot"
    /\ UNCHANGED <<clock, waited, supVars, groupVars, wdRc, wdSees, sent, file, counts>>

WrapStartsSupervisor ==
    /\ wrap = "await" /\ file.ready
    /\ wrap' = "bind" /\ sup' = "validate"
    /\ UNCHANGED <<clock, waited, supRc, stopReq, ledger, failures, cleaned, verdict,
                   groupVars, wdVars, file, counts>>

(* Two seconds without watchdog_ready.json, or the watchdog is gone. *)
WrapGivesUp ==
    /\ wrap = "await" /\ ~file.ready /\ wrap' = "stop_watchdog"
    /\ UNCHANGED <<clock, waited, supVars, groupVars, wdVars, file, counts>>

(* SIGTERM has no handler in the watchdog. *)
EndWatchdog ==
    /\ wd' = "ended" /\ wdRc' = IF WdAlive THEN "error" ELSE wdRc
    /\ UNCHANGED <<wdSees, sent>>

WrapStopsWatchdog ==
    /\ wrap = "stop_watchdog" /\ EndWatchdog /\ SetupFailure
    /\ UNCHANGED <<clock, waited, supVars, groupVars, counts>>

WrapBinds ==
    /\ wrap = "bind" /\ wrap' = "wait"
    /\ file' = [file EXCEPT !.state = "bound"]
    /\ UNCHANGED <<clock, waited, supVars, groupVars, wdVars, counts>>

EndSupervisor ==
    /\ sup' = "ended" /\ supRc' = IF SupAlive THEN "error" ELSE supRc
    /\ UNCHANGED <<stopReq, ledger, failures, cleaned, verdict>>

(* The start time of the supervisor could not be read within a second. *)
WrapCannotBind ==
    /\ wrap = "bind" /\ EndSupervisor /\ EndWatchdog /\ SetupFailure
    /\ UNCHANGED <<clock, waited, groupVars, counts>>

WrapCollectsSupervisor ==
    /\ wrap = "wait" /\ sup = "ended" /\ "sup" \notin waited
    /\ waited' = waited \cup {"sup"}
    /\ wrap' = IF "wd" \in waited THEN "finalize" ELSE "wait"
    /\ UNCHANGED <<clock, supVars, groupVars, wdVars, file, counts>>

(* The process group is killed only if its leader still has its entry in   *)
(* /proc and the state file names it; the supervisor is killed anyway.     *)
KillRecordedGroup ==
    doomed' = (doomed \/ (file.state = "launch" /\ leader \in {"run", "zombie"}))

\* Mutant: a watchdog that failed does not end the supervisor.
WrapCollectsWatchdogOnly ==
    /\ wrap = "wait" /\ wd = "ended" /\ "wd" \notin waited
    /\ waited' = waited \cup {"wd"}
    /\ wrap' = IF "sup" \in waited THEN "finalize" ELSE "wait"
    /\ UNCHANGED <<clock, supVars, groupVars, wdVars, file, counts>>

WrapCollectsWatchdog ==
    /\ wrap = "wait" /\ wd = "ended" /\ "wd" \notin waited
    /\ waited' = waited \cup {"wd"}
    /\ wrap' = IF "sup" \in waited THEN "finalize" ELSE "wait"
    /\ IF wdRc = "ok" THEN UNCHANGED <<supVars, doomed>>
       ELSE KillRecordedGroup /\ EndSupervisor
    /\ UNCHANGED <<clock, leader, kids, wdVars, file, counts>>

CutOff == file.hard # "none" \/ file.wdFailure

(* record_watchdog_failure: FAIL whatever the result said before; a        *)
(* verified cleanup is kept.                                               *)
RejectedAtAdmission == file.rejection /\ file.state = "bound"
FailedResult ==
    LET kept == \/ file.result.verified
                \/ (file.result = NoResult /\ file.cleanup = "verified")
    IN [file EXCEPT !.result = [status |-> "FAIL", verified |-> kept],
                    !.cleanup = IF kept THEN "verified"
                                ELSE IF file.hard = "FAIL_CLOSED" /\ RejectedAtAdmission
                                THEN "not_started" ELSE "unverified"]

\* Mutant: the wrapper does not look for a cutoff or at the exits.
WrapFinalizesAsRecorded ==
    /\ wrap = "finalize" /\ wrap' = "done"
    /\ file' = IF file.result = NoResult THEN FailedResult ELSE file
    /\ UNCHANGED <<clock, waited, supVars, groupVars, wdVars, counts>>

(* record_watchdog_exit: the supervisor's result stands if both children   *)
(* ended well and the time limit is kept.                                  *)
WrapFinalizes ==
    /\ wrap = "finalize" /\ wrap' = "done"
    /\ file' = IF CutOff \/ file.result = NoResult THEN FailedResult
               ELSE IF \/ clock >= AccountingLimit
                       \/ wdRc # "ok" \/ file.exit # "NORMAL_COMPLETION"
                       \/ (supRc # "ok" /\ file.result.status = "PASS")
               THEN [file EXCEPT !.result.status = "FAIL"]
               ELSE file
    /\ UNCHANGED <<clock, waited, supVars, groupVars, wdVars, counts>>

(* Ctrl+C reaches the shell, which has no trap, and the supervisor, which  *)
(* is in its process group; the watchdog has a session of its own.         *)
WrapInterrupted ==
    /\ WrapAlive /\ crashes < MaxCrashes /\ crashes' = crashes + 1
    /\ wrap' = "killed"
    /\ stopReq' = (stopReq \/ sup \notin {"none", "validate", "ended"})
    /\ UNCHANGED <<clock, waited, sup, supRc, ledger, failures, cleaned, verdict,
                   groupVars, wdVars, file, scanFails>>

---------------------------------------------------------------------------
(* The supervisor up to its main loop. *)

Terminal ==
    \/ file.cleanup # "none" \/ file.result # NoResult \/ file.complete
    \/ file.exit # "none" \/ CutOff \/ file.rejection

(* validate_run_directory: the start files and no receipt, and the three   *)
(* processes of this run are alive.                                        *)
Admissible ==
    file.ready /\ file.state = "bound" /\ ~Terminal /\ WrapAlive /\ WdAlive

SupAdmitted ==
    /\ sup = "validate" /\ Admissible /\ sup' = "preflight"
    /\ UNCHANGED <<clock, wrapVars, supRc, stopReq, ledger, failures, cleaned, verdict,
                   groupVars, wdVars, file, counts>>

(* The rejection is recorded if the directory can be identified and has no *)
(* receipt yet.                                                            *)
SupRejected ==
    /\ sup = "validate" /\ ~Admissible
    /\ file' = [file EXCEPT !.rejection = @ \/ (file.state = "bound" /\ ~Terminal)]
    /\ sup' = "ended" /\ supRc' = "error"
    /\ UNCHANGED <<clock, wrapVars, stopReq, ledger, failures, cleaned, verdict,
                   groupVars, wdVars, counts>>

(* Identities, locks, resource gates and the time budget of the launch. *)
SupPreflight ==
    /\ sup = "preflight"
    /\ \/ clock < Deadline.readiness /\ sup' = "launch" /\ UNCHANGED failures
       \/ sup' = "cleanup" /\ failures' = TRUE
    /\ UNCHANGED <<clock, wrapVars, supRc, stopReq, ledger, cleaned, verdict,
                   groupVars, wdVars, file, counts>>

(* Popen; the state file names the launch only in the next step. *)
SupLaunches ==
    /\ sup = "launch" /\ sup' = "launched"
    /\ leader' = "run" /\ kids' = TRUE
    /\ UNCHANGED <<clock, wrapVars, supRc, stopReq, ledger, failures, cleaned, verdict,
                   doomed, wdVars, file, counts>>

SupRecordsLaunch ==
    /\ sup = "launched" /\ sup' = "loop"
    /\ file' = [file EXCEPT !.state = "launch"]
    /\ UNCHANGED <<clock, wrapVars, supRc, stopReq, ledger, failures, cleaned, verdict,
                   groupVars, wdVars, counts>>

---------------------------------------------------------------------------
(* One turn of the main loop; the tests come in this order. *)

LoopFailed == sup' = "cleanup" /\ failures' = TRUE

LoopSeesCutoff ==
    /\ sup = "loop" /\ CutOff /\ LoopFailed
    /\ UNCHANGED <<clock, wrapVars, supRc, stopReq, ledger, cleaned, verdict,
                   groupVars, wdVars, file, counts>>

(* A stop that was asked for, or the soft stop, is not a completed run. *)
LoopStops ==
    /\ sup = "loop" /\ ~CutOff /\ (stopReq \/ clock >= Deadline.soft) /\ LoopFailed
    /\ UNCHANGED <<clock, wrapVars, supRc, stopReq, ledger, cleaned, verdict,
                   groupVars, wdVars, file, counts>>

LoopTurns == sup = "loop" /\ ~CutOff /\ ~stopReq /\ clock < Deadline.soft

(* process.poll() collects the launch; guard, graph, memory or log reject. *)
LoopRejects ==
    /\ LoopTurns /\ LoopFailed
    /\ leader' = IF leader = "zombie" THEN "reaped" ELSE leader
    /\ \/ UNCHANGED ledger
       \/ \E p \in Phases : ledger' = FailAt(ledger, p)
    /\ UNCHANGED <<clock, wrapVars, supRc, stopReq, cleaned, verdict, kids, doomed,
                   wdVars, file, counts>>

RecordPhases(l) ==
    file' = IF l = ledger THEN file ELSE [file EXCEPT !.allReady = AllPass(l)]

(* The phases move on, and the run is complete after an observation that   *)
(* began in an earlier turn; a missed readiness deadline ends it.          *)
LoopAdvances(ready) ==
    LET l == Advance(ledger, ready)
    IN  /\ LoopTurns /\ leader = "run" /\ Lost(l, ready) = {}
        /\ ledger' = l /\ RecordPhases(l)
        /\ \/ AllPass(ledger) /\ sup' = "cleanup" /\ UNCHANGED failures
           \/ ~AllPass(l) /\ clock >= Deadline.readiness /\ LoopFailed
           \/ (AllPass(l) \/ clock < Deadline.readiness) /\ UNCHANGED <<sup, failures>>
        /\ UNCHANGED <<clock, wrapVars, supRc, stopReq, cleaned, verdict,
                       groupVars, wdVars, counts>>

LoopLoses(ready) ==
    LET l == Advance(ledger, ready)
    IN  /\ LoopTurns /\ leader = "run" /\ Lost(l, ready) # {}
        /\ ledger' = FailAt(l, FirstLost(l, ready)) /\ RecordPhases(l) /\ LoopFailed
        /\ UNCHANGED <<clock, wrapVars, supRc, stopReq, cleaned, verdict,
                       groupVars, wdVars, counts>>

---------------------------------------------------------------------------
(* signal_and_reap: INT to the launch, TERM and KILL to its group, each    *)
(* with a grace period, then the launch is collected and the group scanned.*)

Collected == IF leader = "zombie" THEN "reaped" ELSE leader

SupAsksLaunch ==
    /\ sup = "cleanup"
    /\ \/ /\ leader = "none"
          /\ cleaned' = "not_started" /\ sup' = "recheck"
          /\ UNCHANGED <<leader, scanFails>>
       \/ /\ leader = "run"
          /\ sup' = "wait_int"
          /\ UNCHANGED <<leader, cleaned, scanFails>>
       \/ /\ leader \in {"zombie", "reaped"} /\ leader' = "reaped"
          /\ \E ok \in BOOLEAN : Scan(ok) /\ sup' = IF ok /\ ~kids THEN "reap" ELSE "term"
          /\ UNCHANGED cleaned
    /\ UNCHANGED <<clock, wrapVars, supRc, stopReq, ledger, failures, verdict, kids, doomed,
                   wdVars, file, crashes>>

NextStage == [wait_int |-> "term", term |-> "kill", wait_term |-> "kill",
              kill |-> "reap", wait_kill |-> "reap"]

(* _wait_for_group_and_leader: settled, or the grace period is over. *)
SupWaits ==
    /\ sup \in {"wait_int", "wait_term", "wait_kill"}
    /\ leader' = Collected
    /\ \E ok \in BOOLEAN :
          /\ Scan(ok)
          /\ sup' = IF ok /\ ~Running THEN "reap" ELSE NextStage[sup]
    /\ UNCHANGED <<clock, wrapVars, supRc, stopReq, ledger, failures, cleaned, verdict,
                   kids, doomed, wdVars, file, crashes>>

(* send_group: nothing is sent to a group that is empty or cannot be seen. *)
SupSignals ==
    /\ sup \in {"term", "kill"}
    /\ \E ok \in BOOLEAN :
          /\ Scan(ok)
          /\ IF ok /\ Running
             THEN /\ doomed' = (doomed \/ sup = "kill")
                  /\ sup' = IF sup = "term" THEN "wait_term" ELSE "wait_kill"
             ELSE /\ UNCHANGED doomed
                  /\ sup' = IF ok THEN "reap" ELSE NextStage[sup]
    /\ leader' = Collected
    /\ UNCHANGED <<clock, wrapVars, supRc, stopReq, ledger, failures, cleaned, verdict,
                   kids, wdVars, file, crashes>>

\* Mutant: the cleanup counts as verified when the main process is collected.
SupReapsLeader ==
    /\ sup = "reap" /\ sup' = "recheck"
    /\ leader' = Collected
    /\ cleaned' = IF leader' = "reaped" THEN "verified" ELSE "unverified"
    /\ failures' = (failures \/ cleaned' = "unverified")
    /\ UNCHANGED <<clock, wrapVars, supRc, stopReq, ledger, verdict, kids, doomed,
                   wdVars, file, counts>>

SupReaps ==
    /\ sup = "reap" /\ sup' = "recheck"
    /\ leader' = Collected
    /\ \E ok \in BOOLEAN :
          /\ Scan(ok)
          /\ cleaned' = IF ok /\ ~Running THEN "verified" ELSE "unverified"
    /\ failures' = (failures \/ cleaned' = "unverified")
    /\ UNCHANGED <<clock, wrapVars, supRc, stopReq, ledger, verdict, kids, doomed,
                   wdVars, file, crashes>>

(* The cutoff files are read once more, then final_status. *)
SupRechecks ==
    /\ sup = "recheck" /\ sup' = "receipts"
    /\ failures' = (failures \/ CutOff)
    /\ verdict' = IF leader = "none" THEN "BLOCKED"
                  ELSE IF \/ failures' \/ clock >= AccountingLimit
                          \/ ~AllPass(ledger) \/ cleaned # "verified"
                  THEN "FAIL" ELSE "PASS"
    /\ UNCHANGED <<clock, wrapVars, supRc, stopReq, ledger, cleaned, groupVars, wdVars,
                   file, counts>>

(* cleanup.json, result.json, supervisor_complete.json and the exit. *)
SupWrites ==
    /\ \/ sup = "receipts" /\ sup' = "result" /\ file' = [file EXCEPT !.cleanup = cleaned]
       \/ /\ sup = "result" /\ sup' = "complete"
          /\ file' = [file EXCEPT !.result =
                        [status |-> verdict, verified |-> cleaned = "verified"]]
       \/ sup = "complete" /\ sup' = "exit" /\ file' = [file EXCEPT !.complete = TRUE]
    /\ UNCHANGED <<clock, wrapVars, supRc, stopReq, ledger, failures, cleaned, verdict,
                   groupVars, wdVars, counts>>

SupExits ==
    /\ sup = "exit" /\ sup' = "ended"
    /\ supRc' = IF verdict = "PASS" THEN "ok" ELSE "error"
    /\ UNCHANGED <<clock, wrapVars, stopReq, ledger, failures, cleaned, verdict,
                   groupVars, wdVars, file, counts>>

SupKilled ==
    /\ SupAlive /\ crashes < MaxCrashes /\ crashes' = crashes + 1 /\ EndSupervisor
    /\ UNCHANGED <<clock, wrapVars, groupVars, wdVars, file, scanFails>>

---------------------------------------------------------------------------
(* The watchdog. *)

(* The state file tells it whom to watch; until then it is the wrapper. *)
Seen == [wdSees EXCEPT !.sup = @ \/ file.state # "none",
                       !.launch = @ \/ file.state = "launch"]
TargetAlive == IF Seen.sup THEN SupAlive ELSE WrapAlive

WdStarts ==
    /\ wd = "boot"
    /\ IF WrapAlive THEN wd' = "poll" /\ file' = [file EXCEPT !.ready = TRUE]
       ELSE wd' = "failing" /\ UNCHANGED file
    /\ UNCHANGED <<clock, wrapVars, supVars, groupVars, wdRc, wdSees, sent, counts>>

(* The head of the loop: the completion receipt, then the process. *)
WdPolls ==
    /\ wd = "poll" /\ wdSees' = Seen
    /\ IF file.complete /\ ~TargetAlive
       THEN /\ wd' = "ended" /\ wdRc' = "ok"
            /\ file' = [file EXCEPT !.exit = "NORMAL_COMPLETION"]
       ELSE wd' = "sample" /\ UNCHANGED <<wdRc, file>>
    /\ UNCHANGED <<clock, wrapVars, supVars, groupVars, sent, counts>>

WdSamples ==
    /\ wd = "sample" /\ wd' = "act"
    /\ wdSees' = [Seen EXCEPT !.alive = TargetAlive]
    /\ UNCHANGED <<clock, wrapVars, supVars, groupVars, wdRc, sent, file, counts>>

(* _signal_group: members must be seen, or at least the leader. *)
GroupKilled(ok) ==
    doomed' = (doomed \/ (wdSees.launch /\ (leader \in {"run", "zombie"} \/ (ok /\ kids))))

(* SIGINT and SIGTERM only ask the supervisor to stop; they end the shell. *)
AskTarget ==
    IF wdSees.sup
    THEN stopReq' = (stopReq \/ sup \notin {"none", "validate", "ended"}) /\ UNCHANGED wrap
    ELSE wrap' = (IF WrapAlive THEN "killed" ELSE wrap) /\ UNCHANGED stopReq

(* DeadlineWatchdogState.actions, each at most once; the completion        *)
(* receipt is read again after the process was seen.                       *)
Overdue(ok) ==
    {a \in DOMAIN Deadline :
        /\ clock >= Deadline[a]
        /\ a = "readiness" => ~file.allReady
        /\ a \in {"term", "kill"} => wdSees.launch /\ ~(ok /\ GroupEmpty)}

WdIdles ==
    /\ wd = "act" /\ file.complete /\ wd' = "poll"
    /\ UNCHANGED <<clock, wrapVars, supVars, groupVars, wdRc, wdSees, sent, file, counts>>

\* Mutant: the completion receipt is not read again after the process.
WdSeesTheEndAtOnce ==
    /\ wd = "act" /\ ~wdSees.alive /\ wd' = "abnormal"
    /\ UNCHANGED <<clock, wrapVars, supVars, groupVars, wdRc, wdSees, sent, file, counts>>

WdSeesTheEnd ==
    /\ wd = "act" /\ ~file.complete /\ ~wdSees.alive /\ wd' = "abnormal"
    /\ UNCHANGED <<clock, wrapVars, supVars, groupVars, wdRc, wdSees, sent, file, counts>>

WdActs ==
    /\ wd = "act" /\ ~file.complete /\ wdSees.alive
    /\ \E ok \in BOOLEAN :
          LET now == Overdue(ok) \ sent
          IN  /\ Scan(ok)
              /\ sent' = sent \cup now \cup (IF "readiness" \in now THEN {"soft"} ELSE {})
              /\ IF now \cap {"readiness", "soft"} # {} THEN AskTarget
                 ELSE UNCHANGED <<stopReq, wrap>>
              /\ IF "kill" \in now THEN GroupKilled(ok) ELSE UNCHANGED doomed
              /\ wd' = IF "cut" \in now THEN "cut" ELSE "poll"
    /\ UNCHANGED <<clock, waited, sup, supRc, ledger, failures, cleaned, verdict,
                   leader, kids, wdRc, wdSees, file, crashes>>

(* _force_cutoff: the trigger is written before anything is killed. *)
WdCuts ==
    /\ wd = "cut" /\ wd' = "cut_group"
    /\ file' = [file EXCEPT !.hard = "CUT_OFF_IN_PROGRESS"]
    /\ UNCHANGED <<clock, wrapVars, supVars, groupVars, wdRc, wdSees, sent, counts>>

WdCutsGroup ==
    /\ wd = "cut_group" /\ wd' = "cut_supervisor"
    /\ \E ok \in BOOLEAN : Scan(ok) /\ GroupKilled(ok)
    /\ IF wdSees.sup => SupAlive THEN AskTarget ELSE UNCHANGED <<stopReq, wrap>>
    /\ UNCHANGED <<clock, waited, sup, supRc, ledger, failures, cleaned, verdict,
                   leader, kids, wdRc, wdSees, sent, file, crashes>>

\* Mutant: SIGTERM is thought to be enough.
WdCutsByTerm ==
    /\ wd = "cut_supervisor" /\ wd' = "record"
    /\ UNCHANGED <<clock, wrapVars, supVars, groupVars, wdRc, wdSees, sent, file, counts>>

WdCutsSupervisor ==
    /\ wd = "cut_supervisor" /\ wd' = "record"
    /\ IF wdSees.sup THEN EndSupervisor ELSE UNCHANGED supVars
    /\ UNCHANGED <<clock, wrapVars, groupVars, wdRc, wdSees, sent, file, counts>>

\* Mutant: only the main process is looked for.
WdEndsLeader ==
    /\ wd = "abnormal" /\ wd' = "record"
    /\ doomed' = (doomed \/ (wdSees.launch /\ leader = "run"))
    /\ UNCHANGED <<clock, wrapVars, supVars, leader, kids, wdRc, wdSees, sent, file, counts>>

WdEndsGroup ==
    /\ wd = "abnormal" /\ wd' = "record"
    /\ \E ok \in BOOLEAN : Scan(ok) /\ GroupKilled(ok)
    /\ UNCHANGED <<clock, wrapVars, supVars, leader, kids, wdRc, wdSees, sent, file, crashes>>

(* _write_failure: hard_deadline.json first, then the other receipts. *)
WdRecords ==
    /\ wd = "record" /\ wd' = "receipts"
    /\ file' = [file EXCEPT !.hard = "FAIL_CLOSED"]
    /\ UNCHANGED <<clock, wrapVars, supVars, groupVars, wdRc, wdSees, sent, counts>>

FailureReceipts(ok) ==
    LET completed == file.cleanup = "verified" /\ ok /\ GroupEmpty
    IN  [file EXCEPT !.hard = "FAIL_CLOSED",
                     !.result = [status |-> "FAIL", verified |-> completed],
                     !.cleanup = IF completed THEN "verified"
                                 ELSE IF RejectedAtAdmission THEN "not_started"
                                 ELSE "unverified"]

WdWritesReceipts ==
    /\ wd = "receipts" /\ wd' = "exit"
    /\ \E ok \in BOOLEAN : Scan(ok) /\ file' = FailureReceipts(ok)
    /\ UNCHANGED <<clock, wrapVars, supVars, groupVars, wdRc, wdSees, sent, crashes>>

WdExits ==
    /\ wd = "exit" /\ wd' = "ended" /\ wdRc' = "error"
    /\ file' = [file EXCEPT !.exit = IF "cut" \in sent THEN "HARD_CUTOFF"
                                     ELSE "SUPERVISOR_EXIT_WITHOUT_RECEIPT"]
    /\ UNCHANGED <<clock, wrapVars, supVars, groupVars, wdSees, sent, counts>>

(* An exception in the watchdog: main() kills what the state file names    *)
(* and leaves its own failure receipt.                                     *)
WdFails ==
    /\ WdAlive /\ wd \notin {"failing", "failed"}
    /\ crashes < MaxCrashes /\ crashes' = crashes + 1
    /\ wd' = "failing"
    /\ UNCHANGED <<clock, wrapVars, supVars, groupVars, wdRc, wdSees, sent, file, scanFails>>

WdFailureKills ==
    /\ wd = "failing" /\ wd' = "failed"
    /\ KillRecordedGroup
    /\ IF file.state # "none" THEN EndSupervisor ELSE UNCHANGED supVars
    /\ UNCHANGED <<clock, wrapVars, leader, kids, wdRc, wdSees, sent, file, counts>>

WdFailureRecords ==
    /\ wd = "failed" /\ wd' = "ended" /\ wdRc' = "error"
    /\ \E ok \in BOOLEAN :
          Scan(ok) /\ file' = [FailureReceipts(ok) EXCEPT !.wdFailure = TRUE]
    /\ UNCHANGED <<clock, wrapVars, supVars, groupVars, wdSees, sent, crashes>>

WdKilled ==
    /\ WdAlive /\ crashes < MaxCrashes /\ crashes' = crashes + 1 /\ EndWatchdog
    /\ UNCHANGED <<clock, wrapVars, supVars, groupVars, file, scanFails>>

---------------------------------------------------------------------------
Group == LeaderEnds \/ KidsEnd \/ InitReaps

Wrapper ==
    \/ WrapSetupFails \/ WrapStartsWatchdog \/ WrapStartsSupervisor \/ WrapGivesUp
    \/ WrapStopsWatchdog \/ WrapBinds \/ WrapCannotBind \/ WrapCollectsSupervisor
    \/ WrapCollectsWatchdog \/ WrapFinalizes

Supervisor ==
    \/ SupAdmitted \/ SupRejected \/ SupPreflight \/ SupLaunches \/ SupRecordsLaunch
    \/ LoopSeesCutoff \/ LoopStops \/ LoopRejects
    \/ \E ready \in SUBSET Phases : LoopAdvances(ready) \/ LoopLoses(ready)
    \/ SupAsksLaunch \/ SupWaits \/ SupSignals \/ SupReaps \/ SupRechecks
    \/ SupWrites \/ SupExits

Watchdog ==
    \/ WdStarts \/ WdPolls \/ WdSamples \/ WdIdles \/ WdSeesTheEnd \/ WdActs
    \/ WdCuts \/ WdCutsGroup \/ WdCutsSupervisor \/ WdEndsGroup \/ WdRecords
    \/ WdWritesReceipts \/ WdExits \/ WdFailureKills \/ WdFailureRecords

Crash == WrapInterrupted \/ SupKilled \/ WdFails \/ WdKilled

Next == Tick \/ Group \/ Wrapper \/ Supervisor \/ Watchdog \/ Crash

(* The supervisor may hang anywhere before its completion receipt: the     *)
(* watchdog is there for that.  Time passes, the other two processes run,  *)
(* init collects zombies and a SIGKILL takes effect.                       *)
Fairness ==
    /\ SF_vars(Tick) /\ WF_vars(Wrapper) /\ WF_vars(Watchdog)
    /\ WF_vars(SupExits) /\ WF_vars(InitReaps)
    /\ WF_vars(doomed /\ LeaderEnds) /\ WF_vars(doomed /\ KidsEnd)

Spec == Init /\ [][Next]_vars /\ Fairness

---------------------------------------------------------------------------
(* Properties. *)

TypeOK ==
    /\ clock \in 0 .. AccountingLimit /\ ledger \in Ledgers
    /\ waited \subseteq {"sup", "wd"}
    /\ {supRc, wdRc} \subseteq {"none", "ok", "error"}
    /\ leader \in {"none", "run", "zombie", "reaped"}
    /\ {stopReq, failures, kids, doomed, file.ready, file.complete, file.wdFailure} \subseteq BOOLEAN
    /\ file.hard \in {"none", "CUT_OFF_IN_PROGRESS", "FAIL_CLOSED"}
    /\ file.result.status \in {"none", "BLOCKED", "FAIL", "PASS"}
    /\ crashes \in 0 .. MaxCrashes /\ scanFails \in 0 .. MaxScanFailures

(* A run the wrapper reports as PASS was neither cut off nor failed by the *)
(* watchdog, both children ended well, every phase was admitted and the    *)
(* launch group is gone and collected (record_watchdog_exit).              *)
PassIsReal ==
    wrap = "done" /\ file.result.status = "PASS" =>
        /\ ~CutOff /\ supRc = "ok" /\ wdRc = "ok"
        /\ AllPass(ledger) /\ leader = "reaped" /\ ~kids

(* Whoever wrote the result last: a PASS is real, a cleanup it calls       *)
(* verified is one, and a run called BLOCKED never had a launch process.   *)
ReceiptIsTrue ==
    /\ PassIsReal
    /\ file.result.verified => leader = "reaped" /\ ~kids
    /\ file.result.status = "BLOCKED" => leader = "none"

(* A supervisor that left its completion receipt is never reported as one  *)
(* that exited without it (the receipt is read again after the liveness).  *)
NoFalseAbnormalExit ==
    file.exit = "SUPERVISOR_EXIT_WITHOUT_RECEIPT" => ~file.complete

(* Once the watchdog has written its failure the result never becomes PASS *)
(* again: the supervisor is dead before the receipts are written.  Not so  *)
(* when the watchdog itself failed before it knew the supervisor; then the *)
(* wrapper's last word counts.                                             *)
FailureStands ==
    [][file.hard = "FAIL_CLOSED" /\ ~file.wdFailure /\ file.result.status = "FAIL"
        => file'.result.status # "PASS"]_vars

(* Whatever hangs or crashes, a wrapper that is not killed itself ends and *)
(* leaves a result.                                                        *)
RunEnds == <>(wrap = "killed" \/ (wrap = "done" /\ file.result # NoResult))

(* A launch the watchdog has seen in the state file ends, although the     *)
(* supervisor hangs or is killed.  Left out are a watchdog that failed or  *)
(* was killed itself and a scan of /proc that failed.                      *)
LaunchEnds ==
    wdSees.launch ~> GroupEmpty \/ scanFails > 0 \/ (wdRc = "error" /\ file.exit = "none")

(* "A watchdog implementation failure cannot leave a potentially live      *)
(* launch unmonitored" (deadline_watchdog.py:564).                         *)
FailureEndsLaunch == file.wdFailure ~> GroupEmpty \/ scanFails > 0
====

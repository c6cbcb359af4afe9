-------------------------- MODULE RunSession_proofs -------------------------
(* What TLAPS proves about a supervised run, for any number of phases, of    *)
(* crashes and of failed scans: whatever the three processes left in the run *)
(* directory is true, and a failure the watchdog wrote is the last word.     *)
EXTENDS RunSession, TLAPS

Early == {"none", "validate"}
Before == Early \cup {"preflight", "launch"}
Owning == {"launched", "loop", "wait_int", "term", "wait_term", "kill", "wait_kill", "reap"}
Late == {"receipts", "result", "complete", "exit", "ended"}
Sups == Before \cup Owning \cup Late \cup {"cleanup", "recheck"}
Wraps == {"setup", "await", "bind", "stop_watchdog", "wait", "finalize", "done", "killed"}
Cutting == {"cut", "cut_group", "cut_supervisor"}
Failing == {"record", "receipts", "exit"}
Wds == {"none", "boot", "poll", "sample", "act", "abnormal", "failing", "failed", "ended"}
          \cup Cutting \cup Failing
Rcs == {"none", "ok", "error"}
Cleanups == {"none", "not_started", "verified", "unverified"}
Statuses == {"none", "BLOCKED", "FAIL", "PASS"}
Directories ==
    [ready : BOOLEAN, state : {"none", "bound", "launch"}, allReady : BOOLEAN,
     rejection : BOOLEAN, hard : {"none", "CUT_OFF_IN_PROGRESS", "FAIL_CLOSED"},
     wdFailure : BOOLEAN, cleanup : Cleanups,
     result : [status : Statuses, verified : BOOLEAN], complete : BOOLEAN,
     exit : {"none", "NORMAL_COMPLETION", "HARD_CUTOFF", "SUPERVISOR_EXIT_WITHOUT_RECEIPT"}]

TypedWrap == wrap \in Wraps /\ waited \in SUBSET {"sup", "wd"}
TypedSup ==
    /\ sup \in Sups /\ supRc \in Rcs /\ stopReq \in BOOLEAN /\ ledger \in Ledgers
    /\ failures \in BOOLEAN /\ cleaned \in Cleanups /\ verdict \in Statuses
TypedGroup ==
    leader \in {"none", "run", "zombie", "reaped"} /\ kids \in BOOLEAN /\ doomed \in BOOLEAN
TypedWd ==
    /\ wd \in Wds /\ wdRc \in Rcs /\ sent \in SUBSET DOMAIN Deadline
    /\ wdSees \in [sup : BOOLEAN, launch : BOOLEAN, alive : BOOLEAN]
TypedCounts == crashes \in 0 .. MaxCrashes /\ scanFails \in 0 .. MaxScanFailures
Typed ==
    /\ clock \in 0 .. AccountingLimit /\ TypedWrap /\ TypedSup /\ TypedGroup
    /\ TypedWd /\ file \in Directories /\ TypedCounts

-----------------------------------------------------------------------------
(* Types.                                                                    *)

LEMMA LedgersKept ==
    ASSUME NEW l \in Ledgers
    PROVE  /\ NewLedger \in Ledgers
           /\ \A ready \in SUBSET Phases : Advance(l, ready) \in Ledgers
           /\ \A p : FailAt(l, p) \in Ledgers
BY DEF Ledgers, PhaseStates, NewLedger, Advance, FailAt

LEMMA ScanTyped ==
    ASSUME TypedCounts, NEW ok \in BOOLEAN, Scan(ok), crashes' = crashes
    PROVE  TypedCounts'
BY RunBounds DEF TypedCounts, Scan

LEMMA TypedInit == Init => Typed
<1>1. NewLedger \in Ledgers
  BY DEF NewLedger, Ledgers, PhaseStates
<1>2. EmptyDirectory \in Directories
  BY DEF EmptyDirectory, NoResult, Directories, Statuses, Cleanups
<1>. SUFFICES ASSUME Init PROVE Typed
  OBVIOUS
<1>3. TypedSup
  BY <1>1 DEF Init, TypedSup, Sups, Before, Early, Rcs, Cleanups, Statuses
<1>4. TypedWrap /\ TypedGroup /\ TypedWd
  BY DEF Init, TypedWrap, TypedGroup, TypedWd, Wraps, Rcs, Wds
<1>5. clock \in 0 .. AccountingLimit /\ file \in Directories /\ TypedCounts
  BY <1>2, RunBounds DEF Init, TypedCounts, AccountingLimit
<1>. QED
  BY <1>3, <1>4, <1>5 DEF Typed

LEMMA ReceiptsTyped ==
    ASSUME file \in Directories
    PROVE  /\ FailedResult \in Directories
           /\ \A ok \in BOOLEAN : FailureReceipts(ok) \in Directories
           /\ \A ok \in BOOLEAN : [FailureReceipts(ok) EXCEPT !.wdFailure = TRUE] \in Directories
<1>1. FailedResult \in Directories
  BY DEF Directories, FailedResult, Statuses, Cleanups
<1>2. \A ok \in BOOLEAN : FailureReceipts(ok) \in Directories
  <2>. SUFFICES ASSUME NEW ok \in BOOLEAN PROVE FailureReceipts(ok) \in Directories
    OBVIOUS
  <2>. DEFINE completed == file.cleanup = "verified" /\ ok /\ GroupEmpty
             cleanup == IF completed THEN "verified"
                        ELSE IF RejectedAtAdmission THEN "not_started" ELSE "unverified"
             result == [status |-> "FAIL", verified |-> completed]
  <2>1. cleanup \in Cleanups
    BY DEF Cleanups
  <2>2. result \in [status : Statuses, verified : BOOLEAN]
    BY DEF Statuses, GroupEmpty
  <2>3. FailureReceipts(ok) =
          [file EXCEPT !.hard = "FAIL_CLOSED", !.result = result, !.cleanup = cleanup]
    BY DEF FailureReceipts
  <2>. HIDE DEF cleanup, result
  <2>. QED
    BY <2>1, <2>2, <2>3 DEF Directories
<1>3. \A f \in Directories : [f EXCEPT !.wdFailure = TRUE] \in Directories
  BY DEF Directories
<1>. QED
  BY <1>1, <1>2, <1>3

LEMMA TypedWrapper == Typed /\ Wrapper => Typed'
<1>. SUFFICES ASSUME Typed, Wrapper PROVE Typed'
  OBVIOUS
<1>. USE DEF Typed, TypedWrap, TypedSup, TypedGroup, TypedWd, TypedCounts, supVars, wdVars,
             groupVars, wrapVars, counts
<1>1. ASSUME SetupFailure PROVE file' \in Directories /\ wrap' \in Wraps
  BY <1>1 DEF SetupFailure, Directories, Cleanups, Statuses, Wraps
<1>2. ASSUME EndWatchdog PROVE TypedWd'
  BY <1>2 DEF EndWatchdog, Wds, Rcs
<1>3. ASSUME EndSupervisor PROVE TypedSup'
  BY <1>3 DEF EndSupervisor, Sups, Late, Rcs
<1>4. CASE WrapSetupFails
  BY <1>4, <1>1 DEF WrapSetupFails
<1>5. CASE WrapStartsWatchdog
  BY <1>5 DEF WrapStartsWatchdog, Wraps, Wds
<1>6. CASE WrapStartsSupervisor
  BY <1>6 DEF WrapStartsSupervisor, Wraps, Sups, Before, Early
<1>7. CASE WrapGivesUp
  BY <1>7 DEF WrapGivesUp, Wraps
<1>8. CASE WrapStopsWatchdog
  BY <1>8, <1>1, <1>2 DEF WrapStopsWatchdog
<1>9. CASE WrapBinds
  BY <1>9 DEF WrapBinds, Wraps, Directories
<1>10. CASE WrapCannotBind
  BY <1>10, <1>1, <1>2, <1>3 DEF WrapCannotBind
<1>11. CASE WrapCollectsSupervisor
  BY <1>11 DEF WrapCollectsSupervisor, Wraps
<1>12. CASE WrapCollectsWatchdog
  BY <1>12, <1>3 DEF WrapCollectsWatchdog, KillRecordedGroup, Wraps
<1>13. CASE WrapFinalizes
  <2>1. file' \in Directories
    BY <1>13, ReceiptsTyped DEF WrapFinalizes, Directories, Statuses
  <2>. QED
    BY <2>1, <1>13 DEF WrapFinalizes, Wraps
<1>. QED
  BY <1>4, <1>5, <1>6, <1>7, <1>8, <1>9, <1>10, <1>11, <1>12, <1>13 DEF Wrapper

LEMMA TypedSupervisor == Typed /\ Supervisor => Typed'
<1>. SUFFICES ASSUME Typed, Supervisor PROVE Typed'
  OBVIOUS
<1>. USE DEF Typed, TypedWrap, TypedSup, TypedGroup, TypedWd, TypedCounts, supVars, wdVars,
             groupVars, wrapVars, counts
<1>0. sup \in Sups /\ Collected \in {"none", "run", "zombie", "reaped"}
  BY DEF Collected
<1>1. CASE SupAdmitted
  BY <1>1 DEF SupAdmitted, Sups, Before
<1>2. CASE SupRejected
  <2>1. (file.state = "bound" /\ ~Terminal) \in BOOLEAN
    BY DEF Terminal
  <2>2. file' \in Directories
    BY <1>2, <2>1 DEF SupRejected, Directories
  <2>. QED
    BY <1>2, <2>2 DEF SupRejected, Sups, Late, Rcs
<1>3. CASE SupPreflight
  BY <1>3 DEF SupPreflight, Sups, Before
<1>4. CASE SupLaunches
  BY <1>4 DEF SupLaunches, Sups, Owning
<1>5. CASE SupRecordsLaunch
  BY <1>5 DEF SupRecordsLaunch, Sups, Owning, Directories
<1>6. CASE LoopSeesCutoff
  BY <1>6 DEF LoopSeesCutoff, LoopFailed, Sups
<1>7. CASE LoopStops
  BY <1>7 DEF LoopStops, LoopFailed, Sups
<1>8. CASE LoopRejects
  BY <1>8, LedgersKept DEF LoopRejects, LoopFailed, Sups
<1>9. ASSUME NEW ready \in SUBSET Phases, LoopAdvances(ready) \/ LoopLoses(ready)
      PROVE  Typed'
  <2>. DEFINE l == Advance(ledger, ready)
  <2>1. l \in Ledgers /\ ledger' \in Ledgers
    BY <1>9, LedgersKept DEF LoopAdvances, LoopLoses
  <2>2. file' \in Directories
    <3>1. RecordPhases(l)
      BY <1>9 DEF LoopAdvances, LoopLoses
    <3>2. AllPass(l) \in BOOLEAN
      BY DEF AllPass
    <3>. QED
      BY <3>1, <3>2 DEF RecordPhases, Directories
  <2>. QED
    BY <1>9, <2>1, <2>2 DEF LoopAdvances, LoopLoses, LoopFailed, Sups
<1>10. CASE SupAsksLaunch
  <2>1. TypedCounts'
    BY <1>10, RunBounds DEF SupAsksLaunch, Scan
  <2>. QED
    BY <1>10, <2>1 DEF SupAsksLaunch, Sups, Owning, Cleanups
<1>11. CASE SupWaits
  <2>1. TypedCounts'
    BY <1>11, RunBounds DEF SupWaits, Scan
  <2>2. sup' \in Sups
    BY <1>11 DEF SupWaits, Sups, Owning, NextStage
  <2>. QED
    BY <1>11, <1>0, <2>1, <2>2 DEF SupWaits
<1>12. CASE SupSignals
  <2>1. TypedCounts'
    BY <1>12, RunBounds DEF SupSignals, Scan
  <2>2. sup' \in Sups /\ doomed' \in BOOLEAN
    BY <1>12 DEF SupSignals, Sups, Owning, NextStage
  <2>. QED
    BY <1>12, <1>0, <2>1, <2>2 DEF SupSignals
<1>13. CASE SupReaps
  <2>1. TypedCounts'
    BY <1>13, RunBounds DEF SupReaps, Scan
  <2>. QED
    BY <1>13, <1>0, <2>1 DEF SupReaps, Sups, Cleanups
<1>14. CASE SupRechecks
  BY <1>14 DEF SupRechecks, CutOff, Sups, Late, Statuses
<1>15. CASE SupWrites
  <2>1. [status |-> verdict, verified |-> cleaned = "verified"]
           \in [status : Statuses, verified : BOOLEAN]
    OBVIOUS
  <2>2. file' \in Directories
    <3>1. CASE file' = [file EXCEPT !.cleanup = cleaned]
      BY <3>1 DEF Directories
    <3>2. CASE file' = [file EXCEPT !.result =
                          [status |-> verdict, verified |-> cleaned = "verified"]]
      BY <2>1, <3>2 DEF Directories
    <3>3. CASE file' = [file EXCEPT !.complete = TRUE]
      BY <3>3 DEF Directories
    <3>. QED
      BY <1>15, <3>1, <3>2, <3>3 DEF SupWrites
  <2>. QED
    BY <1>15, <2>2 DEF SupWrites, Sups, Late
<1>16. CASE SupExits
  BY <1>16 DEF SupExits, Sups, Late, Rcs
<1>. QED
  BY <1>1, <1>2, <1>3, <1>4, <1>5, <1>6, <1>7, <1>8, <1>9, <1>10, <1>11, <1>12, <1>13,
     <1>14, <1>15, <1>16 DEF Supervisor

LEMMA TypedWatchdog == Typed /\ Watchdog => Typed'
<1>. SUFFICES ASSUME Typed, Watchdog PROVE Typed'
  OBVIOUS
<1>. USE DEF Typed, TypedWrap, TypedSup, TypedGroup, TypedWd, TypedCounts, supVars, wdVars,
             groupVars, wrapVars, counts
<1>1. Seen \in [sup : BOOLEAN, launch : BOOLEAN, alive : BOOLEAN]
      /\ [Seen EXCEPT !.alive = TargetAlive] \in [sup : BOOLEAN, launch : BOOLEAN, alive : BOOLEAN]
  BY DEF Seen, TargetAlive, SupAlive, WrapAlive
<1>2. ASSUME AskTarget PROVE stopReq' \in BOOLEAN /\ wrap' \in Wraps
  BY <1>2 DEF AskTarget, Wraps
<1>3. ASSUME NEW ok \in BOOLEAN, GroupKilled(ok) PROVE doomed' \in BOOLEAN
  BY <1>3 DEF GroupKilled
<1>4. ASSUME EndSupervisor PROVE TypedSup'
  BY <1>4 DEF EndSupervisor, Sups, Late, Rcs
<1>5. CASE WdStarts
  <2>1. file' \in Directories
    BY <1>5 DEF WdStarts, Directories
  <2>. QED
    BY <1>5, <2>1 DEF WdStarts, Wds
<1>6. CASE WdPolls
  <2>1. file' \in Directories
    BY <1>6 DEF WdPolls, Directories
  <2>. QED
    BY <1>6, <1>1, <2>1 DEF WdPolls, Wds, Rcs
<1>7. CASE WdSamples
  BY <1>7, <1>1 DEF WdSamples, Wds
<1>8. CASE WdIdles
  BY <1>8 DEF WdIdles, Wds
<1>9. CASE WdSeesTheEnd
  BY <1>9 DEF WdSeesTheEnd, Wds
<1>10. CASE WdActs
  <2>1. PICK ok \in BOOLEAN :
           /\ Scan(ok)
           /\ sent' = sent \cup (Overdue(ok) \ sent)
                        \cup (IF "readiness" \in Overdue(ok) \ sent THEN {"soft"} ELSE {})
           /\ (AskTarget \/ UNCHANGED <<stopReq, wrap>>)
           /\ (GroupKilled(ok) \/ UNCHANGED doomed)
           /\ wd' \in {"cut", "poll"}
    BY <1>10 DEF WdActs
  <2>2. TypedCounts'
    BY <1>10, <2>1, RunBounds DEF WdActs, Scan
  <2>3. sent' \in SUBSET DOMAIN Deadline
    BY <2>1 DEF Overdue, Deadline
  <2>. QED
    BY <1>10, <1>2, <1>3, <2>1, <2>2, <2>3 DEF WdActs, Wds, Cutting
<1>11. CASE WdCuts
  BY <1>11 DEF WdCuts, Wds, Cutting, Directories
<1>12. CASE WdCutsGroup
  <2>1. PICK ok \in BOOLEAN : Scan(ok) /\ GroupKilled(ok)
    BY <1>12 DEF WdCutsGroup
  <2>2. TypedCounts'
    BY <1>12, <2>1, RunBounds DEF WdCutsGroup, Scan
  <2>. QED
    BY <1>12, <1>2, <1>3, <2>1, <2>2 DEF WdCutsGroup, Wds, Cutting
<1>13. CASE WdCutsSupervisor
  BY <1>13, <1>4 DEF WdCutsSupervisor, Wds, Failing
<1>14. CASE WdEndsGroup
  <2>1. PICK ok \in BOOLEAN : Scan(ok) /\ GroupKilled(ok)
    BY <1>14 DEF WdEndsGroup
  <2>2. TypedCounts'
    BY <1>14, <2>1, RunBounds DEF WdEndsGroup, Scan
  <2>. QED
    BY <1>14, <1>3, <2>1, <2>2 DEF WdEndsGroup, Wds, Failing
<1>15. CASE WdRecords
  BY <1>15 DEF WdRecords, Wds, Failing, Directories
<1>16. CASE WdWritesReceipts
  <2>1. TypedCounts' /\ file' \in Directories
    BY <1>16, RunBounds, ReceiptsTyped DEF WdWritesReceipts, Scan
  <2>. QED
    BY <1>16, <2>1 DEF WdWritesReceipts, Wds, Failing
<1>17. CASE WdExits
  BY <1>17 DEF WdExits, Wds, Rcs, Directories
<1>18. CASE WdFailureKills
  BY <1>18, <1>4 DEF WdFailureKills, KillRecordedGroup, Wds
<1>19. CASE WdFailureRecords
  <2>1. TypedCounts' /\ file' \in Directories
    BY <1>19, RunBounds, ReceiptsTyped DEF WdFailureRecords, Scan
  <2>. QED
    BY <1>19, <2>1 DEF WdFailureRecords, Wds, Rcs
<1>. QED
  BY <1>5, <1>6, <1>7, <1>8, <1>9, <1>10, <1>11, <1>12, <1>13, <1>14, <1>15, <1>16, <1>17,
     <1>18, <1>19 DEF Watchdog

LEMMA TypedStep == Typed /\ [Next]_vars => Typed'
<1>. SUFFICES ASSUME Typed, [Next]_vars PROVE Typed'
  OBVIOUS
<1>. USE DEF Typed, TypedWrap, TypedSup, TypedGroup, TypedWd, TypedCounts, supVars, wdVars,
             groupVars, wrapVars, counts
<1>1. CASE Tick
  BY <1>1 DEF Tick, AccountingLimit
<1>2. CASE Group
  BY <1>2 DEF Group, LeaderEnds, KidsEnd, InitReaps
<1>3. CASE WrapInterrupted
  BY <1>3, RunBounds DEF WrapInterrupted, Wraps
<1>4. CASE SupKilled
  BY <1>4, RunBounds DEF SupKilled, EndSupervisor, Sups, Late, Rcs
<1>5. CASE WdFails
  BY <1>5, RunBounds DEF WdFails, Wds
<1>6. CASE WdKilled
  BY <1>6, RunBounds DEF WdKilled, EndWatchdog, Wds, Rcs
<1>7. CASE UNCHANGED vars
  BY <1>7 DEF vars
<1>. QED
  BY <1>1, <1>2, <1>3, <1>4, <1>5, <1>6, <1>7, TypedWrapper, TypedSupervisor, TypedWatchdog
     DEF Next, Crash

-----------------------------------------------------------------------------
(* Where the three processes are.                                            *)

\* Until the state file is bound the supervisor is not past its admission, and
\* only past its preflight is there a launch; the wrapper leaves last.
Stages ==
    /\ file.state = "none" => sup \in Early \cup {"ended"} /\ leader = "none"
    /\ sup = "none" => file.state = "none"
    /\ sup \in Before => leader = "none"
    /\ sup \in Owning => leader # "none"
    /\ wrap \in {"setup", "await", "stop_watchdog"} => sup = "none"
    /\ wrap = "bind" => file.state = "none" /\ sup # "none"
    /\ wrap = "setup" => wd = "none"
    /\ "sup" \in waited => sup = "ended"
    /\ "wd" \in waited => wd = "ended"
    /\ wrap = "finalize" => sup = "ended" /\ wd = "ended"
    /\ wrap = "done" => sup \in {"none", "ended"} /\ wd \in {"none", "ended"}
    /\ wdSees.sup => file.state # "none"

LEMMA StagesInit == Init => Stages
BY DEF Init, EmptyDirectory, Stages, Early, Before, Owning

\* What the two failure receipts say, and that they leave the rest alone.
LEMMA ReceiptFields ==
    ASSUME file \in Directories
    PROVE  /\ FailedResult.state = file.state /\ FailedResult.result.status = "FAIL"
           /\ FailedResult.hard = file.hard /\ FailedResult.wdFailure = file.wdFailure
           /\ FailedResult.complete = file.complete /\ FailedResult.exit = file.exit
           /\ FailedResult.result.verified \/ FailedResult.cleanup = "verified"
                 => file.result.verified \/ file.cleanup = "verified"
           /\ \A ok \in BOOLEAN :
                 LET f == FailureReceipts(ok)
                 IN  /\ f.state = file.state /\ f.result.status = "FAIL"
                     /\ f.complete = file.complete /\ f.exit = file.exit
                     /\ f.wdFailure = file.wdFailure
                     /\ f.result.verified \/ f.cleanup = "verified"
                           => file.cleanup = "verified"
BY DEF Directories, FailedResult, FailureReceipts

LEMMA StagesWrapper == Typed /\ Stages /\ Wrapper => Stages'
<1>. SUFFICES ASSUME Typed, Stages, Wrapper PROVE Stages'
  OBVIOUS
<1>. USE DEF supVars, wdVars, groupVars, wrapVars, counts
<1>0. file \in Directories /\ wrap \in Wraps
  BY DEF Typed, TypedWrap
<1>1. ASSUME SetupFailure PROVE file'.state = file.state /\ wrap' = "done"
  BY <1>0, <1>1 DEF SetupFailure, Directories
<1>2. CASE WrapSetupFails
  BY <1>1, <1>2 DEF WrapSetupFails, Stages
<1>3. CASE WrapStartsWatchdog
  BY <1>3 DEF WrapStartsWatchdog, Stages
<1>4. CASE WrapStartsSupervisor
  BY <1>4 DEF WrapStartsSupervisor, Stages, Early, Before, Owning
<1>5. CASE WrapGivesUp
  BY <1>5 DEF WrapGivesUp, Stages
<1>6. CASE WrapStopsWatchdog
  BY <1>1, <1>6 DEF WrapStopsWatchdog, EndWatchdog, Stages
<1>7. CASE WrapBinds
  BY <1>0, <1>7 DEF WrapBinds, Directories, Stages
<1>8. CASE WrapCannotBind
  BY <1>1, <1>8 DEF WrapCannotBind, EndSupervisor, EndWatchdog, Stages, Early, Before, Owning
<1>9. CASE WrapCollectsSupervisor
  BY <1>9 DEF WrapCollectsSupervisor, Stages
<1>10. CASE WrapCollectsWatchdog
  BY <1>10 DEF WrapCollectsWatchdog, EndSupervisor, Stages, Early, Before, Owning
<1>11. CASE WrapFinalizes
  <2>1. file'.state = file.state
    BY <1>0, <1>11, ReceiptFields DEF WrapFinalizes, Directories
  <2>. QED
    BY <1>11, <2>1 DEF WrapFinalizes, Stages
<1>. QED
  BY <1>2, <1>3, <1>4, <1>5, <1>6, <1>7, <1>8, <1>9, <1>10, <1>11 DEF Wrapper

\* While the supervisor runs it leaves the wrapper and the watchdog where they
\* are; its launch it collects, and starts when the state file is bound.
LEMMA StagesSupervisor == Typed /\ Stages /\ Supervisor => Stages'
<1>. SUFFICES ASSUME Typed, Stages, Supervisor PROVE Stages'
  OBVIOUS
<1>. USE DEF supVars, wdVars, groupVars, wrapVars, counts
<1>0. file \in Directories /\ sup \in Sups
  BY DEF Typed, TypedSup
<1>. DEFINE Away == /\ UNCHANGED <<wrap, waited, wd, wdSees>> /\ sup \notin {"none", "ended"}
                    /\ sup' # "none"
            Past == sup' \notin Before
<1>1. ASSUME Away, file.state # "none", file'.state # "none", Past,
             sup' \in Owning => leader' # "none"
      PROVE  Stages'
  BY <1>1 DEF Stages, Early
<1>2. ASSUME sup \notin Early \cup {"ended"} PROVE file.state # "none"
  BY <1>2 DEF Stages
<1>3. CASE SupAdmitted
  BY <1>3 DEF SupAdmitted, Admissible, Stages, Early, Before, Owning
<1>4. CASE SupRejected
  BY <1>0, <1>4 DEF SupRejected, Directories, Stages, Early, Before, Owning
<1>5. CASE SupPreflight
  BY <1>5 DEF SupPreflight, Stages, Early, Before, Owning
<1>6. CASE SupLaunches
  BY <1>1, <1>2, <1>6 DEF SupLaunches, Early, Before, Owning
<1>7. CASE SupRecordsLaunch
  <2>1. file'.state = "launch"
    BY <1>0, <1>7 DEF SupRecordsLaunch, Directories
  <2>. QED
    BY <1>1, <1>2, <1>7, <2>1 DEF SupRecordsLaunch, Early, Before, Owning, Stages
<1>8. CASE LoopSeesCutoff
  BY <1>1, <1>2, <1>8 DEF LoopSeesCutoff, LoopFailed, Early, Before, Owning
<1>9. CASE LoopStops
  BY <1>1, <1>2, <1>9 DEF LoopStops, LoopFailed, Early, Before, Owning
<1>10. CASE LoopRejects
  BY <1>1, <1>2, <1>10 DEF LoopRejects, LoopTurns, LoopFailed, Early, Before, Owning
<1>11. ASSUME NEW ready \in SUBSET Phases, LoopAdvances(ready) \/ LoopLoses(ready)
       PROVE  Stages'
  <2>1. file'.state = file.state
    BY <1>0, <1>11 DEF LoopAdvances, LoopLoses, RecordPhases, Directories
  <2>2. sup = "loop" /\ sup' \in {"loop", "cleanup"} /\ leader = "run"
        /\ UNCHANGED <<wrap, waited, wd, wdSees, leader>>
    BY <1>11 DEF LoopAdvances, LoopLoses, LoopTurns, LoopFailed
  <2>. QED
    BY <1>1, <1>2, <2>1, <2>2 DEF Early, Before, Owning
<1>12. CASE SupAsksLaunch
  BY <1>1, <1>2, <1>12 DEF SupAsksLaunch, Early, Before, Owning
<1>13. CASE SupWaits
  <2>1. leader # "none" /\ leader' # "none"
    BY <1>13 DEF SupWaits, Collected, Stages, Owning
  <2>. QED
    BY <1>1, <1>2, <1>13, <2>1 DEF SupWaits, NextStage, Early, Before
<1>14. CASE SupSignals
  <2>1. leader # "none" /\ leader' # "none"
    BY <1>14 DEF SupSignals, Collected, Stages, Owning
  <2>. QED
    BY <1>1, <1>2, <1>14, <2>1 DEF SupSignals, NextStage, Early, Before
<1>15. CASE SupReaps
  BY <1>1, <1>2, <1>15 DEF SupReaps, Early, Before, Owning
<1>16. CASE SupRechecks
  BY <1>1, <1>2, <1>16 DEF SupRechecks, Early, Before, Owning
<1>17. CASE SupWrites
  <2>1. file'.state = file.state
    BY <1>0, <1>17 DEF SupWrites, Directories
  <2>. QED
    BY <1>1, <1>2, <1>17, <2>1 DEF SupWrites, Early, Before, Owning
<1>18. CASE SupExits
  BY <1>1, <1>2, <1>18 DEF SupExits, Early, Before, Owning
<1>. QED
  BY <1>3, <1>4, <1>5, <1>6, <1>7, <1>8, <1>9, <1>10, <1>11, <1>12, <1>13, <1>14, <1>15,
     <1>16, <1>17, <1>18 DEF Supervisor

\* What a step of the watchdog does to the two other processes and to what they
\* wrote: it ends them, and it turns a result into a failure.
WatchdogReach ==
    /\ UNCHANGED <<clock, waited, ledger, failures, cleaned, verdict, leader, kids>>
    /\ wd \notin {"none", "ended"} /\ wd' # "none"
    /\ sup' \in {sup, "ended"} /\ (sup' = sup => supRc' = supRc)
    /\ sup' # sup \/ wdSees'.sup => wdSees.sup \/ file.state # "none"
    /\ wrap' = wrap \/ (wrap' = "killed" /\ WrapAlive)
    /\ file'.state = file.state /\ file'.complete = file.complete
    /\ file'.result.status \in {file.result.status, "FAIL"}
    /\ file'.result.verified => file.result.verified \/ file.cleanup = "verified"
    /\ file'.cleanup = "verified" => file.cleanup = "verified"

LEMMA WatchdogReaches == Typed /\ Watchdog => WatchdogReach
<1>. SUFFICES ASSUME Typed, Watchdog PROVE WatchdogReach
  OBVIOUS
<1>. USE DEF WatchdogReach, supVars, wdVars, groupVars, wrapVars, counts
<1>0. file \in Directories /\ wdSees \in [sup : BOOLEAN, launch : BOOLEAN, alive : BOOLEAN]
  BY DEF Typed, TypedWd
<1>1. ASSUME AskTarget PROVE wrap' = wrap \/ (wrap' = "killed" /\ WrapAlive)
  BY <1>1 DEF AskTarget
<1>2. ASSUME EndSupervisor PROVE UNCHANGED <<ledger, failures, cleaned, verdict>> /\ sup' = "ended"
                                 /\ (sup = "ended" => supRc' = supRc)
  BY <1>2 DEF EndSupervisor, SupAlive
<1>3. CASE WdStarts
  BY <1>0, <1>3 DEF WdStarts, Directories
<1>4. CASE WdPolls
  BY <1>0, <1>4 DEF WdPolls, Seen, Directories
<1>5. CASE WdSamples \/ WdIdles \/ WdSeesTheEnd
  BY <1>0, <1>5 DEF WdSamples, WdIdles, WdSeesTheEnd, Seen
<1>6. CASE WdActs
  BY <1>1, <1>6 DEF WdActs
<1>7. CASE WdCuts
  BY <1>0, <1>7 DEF WdCuts, Directories
<1>8. CASE WdCutsGroup
  BY <1>1, <1>8 DEF WdCutsGroup
<1>9. CASE WdCutsSupervisor
  BY <1>2, <1>9 DEF WdCutsSupervisor
<1>10. CASE WdEndsGroup
  BY <1>10 DEF WdEndsGroup
<1>11. CASE WdRecords
  BY <1>0, <1>11 DEF WdRecords, Directories
<1>12. CASE WdWritesReceipts
  BY <1>0, <1>12, ReceiptFields DEF WdWritesReceipts
<1>13. CASE WdExits
  BY <1>0, <1>13 DEF WdExits, Directories
<1>14. CASE WdFailureKills
  BY <1>2, <1>14 DEF WdFailureKills
<1>15. CASE WdFailureRecords
  <2>1. PICK ok \in BOOLEAN : file' = [FailureReceipts(ok) EXCEPT !.wdFailure = TRUE]
    BY <1>15 DEF WdFailureRecords
  <2>2. FailureReceipts(ok) \in Directories
    BY <1>0, ReceiptsTyped
  <2>3. /\ file'.state = file.state /\ file'.complete = file.complete
        /\ file'.result = FailureReceipts(ok).result
        /\ file'.cleanup = FailureReceipts(ok).cleanup
    BY <1>0, <2>1, <2>2, ReceiptFields DEF Directories
  <2>. QED
    BY <1>0, <1>15, <2>3, ReceiptFields DEF WdFailureRecords
<1>. QED
  BY <1>3, <1>4, <1>5, <1>6, <1>7, <1>8, <1>9, <1>10, <1>11, <1>12, <1>13, <1>14, <1>15
     DEF Watchdog

LEMMA StagesStep == Typed /\ Stages /\ [Next]_vars => Stages'
<1>. SUFFICES ASSUME Typed, Stages, [Next]_vars PROVE Stages'
  OBVIOUS
<1>. USE DEF supVars, wdVars, groupVars, wrapVars, counts
<1>1. CASE Tick \/ WdFails
  BY <1>1 DEF Tick, WdFails, WdAlive, Stages
<1>2. CASE Group
  BY <1>2 DEF Group, LeaderEnds, KidsEnd, InitReaps, SupAlive, Stages, Before, Early, Owning
<1>3. CASE Watchdog
  BY <1>3, WatchdogReaches DEF WatchdogReach, WrapAlive, Stages, Before, Early, Owning
<1>4. CASE WrapInterrupted
  BY <1>4 DEF WrapInterrupted, WrapAlive, Stages
<1>5. CASE SupKilled
  BY <1>5 DEF SupKilled, SupAlive, EndSupervisor, Stages, Before, Early, Owning
<1>6. CASE WdKilled
  BY <1>6 DEF WdKilled, WdAlive, EndWatchdog, Stages
<1>7. CASE UNCHANGED vars
  BY <1>7 DEF vars, Stages
<1>. QED
  BY <1>1, <1>2, <1>3, <1>4, <1>5, <1>6, <1>7, StagesWrapper, StagesSupervisor
     DEF Next, Crash

-----------------------------------------------------------------------------
(* What is said of the launch group is so.                                   *)

Collapsed == leader = "reaped" /\ ~kids
Cleanup == cleaned = "verified" \/ file.cleanup = "verified" \/ file.result.verified => Collapsed

LEMMA CleanupStep == Typed /\ Stages /\ Cleanup /\ [Next]_vars => Cleanup'
<1>. SUFFICES ASSUME Typed, Stages, Cleanup, [Next]_vars PROVE Cleanup'
  OBVIOUS
<1>. USE DEF supVars, wdVars, groupVars, wrapVars, counts
<1>0. file \in Directories
  BY DEF Typed
<1>. DEFINE Same == /\ file'.cleanup = file.cleanup
                    /\ file'.result.verified = file.result.verified
            Stays == Collapsed => Collapsed'
<1>1. ASSUME Same, Stays, UNCHANGED cleaned PROVE Cleanup'
  BY <1>1 DEF Cleanup
<1>2. ASSUME file' = file PROVE Same
  BY <1>2
<1>3. CASE Tick \/ Group \/ Crash \/ UNCHANGED vars
  <2>. HIDE DEF Same, Stays
  <2>1. UNCHANGED <<file, cleaned>>
    BY <1>3 DEF Tick, Group, LeaderEnds, KidsEnd, InitReaps, Crash, WrapInterrupted,
       SupKilled, WdFails, WdKilled, EndSupervisor, vars
  <2>2. Stays
    BY <1>3 DEF Stays, Collapsed, Tick, Group, LeaderEnds, KidsEnd, InitReaps, Crash,
       WrapInterrupted, SupKilled, WdFails, WdKilled, vars
  <2>. QED
    BY <1>1, <1>2, <2>1, <2>2
<1>4. CASE Watchdog
  BY <1>4, WatchdogReaches DEF WatchdogReach, Cleanup, Collapsed
<1>5. CASE Wrapper
  <2>1. UNCHANGED <<cleaned, leader, kids>>
    BY <1>5 DEF Wrapper, WrapSetupFails, WrapStartsWatchdog, WrapStartsSupervisor, WrapGivesUp,
       WrapStopsWatchdog, WrapBinds, WrapCannotBind, WrapCollectsSupervisor, EndSupervisor,
       WrapCollectsWatchdog, WrapFinalizes
  <2>2. ASSUME SetupFailure PROVE file'.cleanup # "verified" /\ ~file'.result.verified
    BY <1>0, <2>2 DEF SetupFailure, Directories
  <2>3. CASE WrapSetupFails \/ WrapStopsWatchdog \/ WrapCannotBind
    BY <2>1, <2>2, <2>3
       DEF WrapSetupFails, WrapStopsWatchdog, WrapCannotBind, Cleanup, Collapsed
  <2>4. CASE WrapBinds
    BY <1>0, <2>1, <2>4 DEF WrapBinds, Directories, Cleanup, Collapsed
  <2>5. CASE WrapFinalizes
    <3>1. file'.result.verified \/ file'.cleanup = "verified"
             => file.result.verified \/ file.cleanup = "verified"
      BY <1>0, <2>5, ReceiptFields DEF WrapFinalizes, Directories
    <3>. QED
      BY <2>1, <3>1 DEF Cleanup, Collapsed
  <2>6. CASE file' = file
    BY <2>1, <2>6 DEF Cleanup, Collapsed
  <2>. QED
    BY <1>5, <2>3, <2>4, <2>5, <2>6
       DEF Wrapper, WrapStartsWatchdog, WrapStartsSupervisor, WrapGivesUp,
           WrapCollectsSupervisor, WrapCollectsWatchdog
<1>6. CASE SupRejected
  BY <1>0, <1>6 DEF SupRejected, Directories, Cleanup, Collapsed
<1>7. CASE SupLaunches
  BY <1>7 DEF SupLaunches, Stages, Before, Cleanup, Collapsed
<1>8. CASE SupRecordsLaunch
  BY <1>0, <1>8 DEF SupRecordsLaunch, Directories, Cleanup, Collapsed
<1>9. CASE LoopRejects
  BY <1>9 DEF LoopRejects, Cleanup, Collapsed
<1>10. ASSUME NEW ready \in SUBSET Phases, LoopAdvances(ready) \/ LoopLoses(ready)
       PROVE  Cleanup'
  <2>1. /\ UNCHANGED <<cleaned, leader, kids>>
        /\ RecordPhases(Advance(ledger, ready))
    BY <1>10 DEF LoopAdvances, LoopLoses
  <2>2. Same
    BY <1>0, <2>1 DEF RecordPhases, Directories
  <2>. QED
    BY <1>1, <2>1, <2>2 DEF Collapsed
<1>11. CASE SupAsksLaunch
  BY <1>11 DEF SupAsksLaunch, Cleanup, Collapsed
<1>12. CASE SupWaits \/ SupSignals
  BY <1>12 DEF SupWaits, SupSignals, Collected, Cleanup, Collapsed
<1>13. CASE SupReaps
  <2>1. cleaned' = "verified" => Collapsed'
    BY <1>13 DEF SupReaps, Collected, Running, Collapsed, Typed, TypedGroup, Stages, Owning
  <2>. QED
    BY <1>13, <2>1 DEF SupReaps, Collected, Cleanup, Collapsed
<1>14. CASE SupWrites
  BY <1>0, <1>14 DEF SupWrites, Directories, Cleanup, Collapsed
<1>15. CASE SupAdmitted \/ SupPreflight \/ LoopSeesCutoff \/ LoopStops \/ SupRechecks \/ SupExits
  BY <1>15 DEF SupAdmitted, SupPreflight, LoopSeesCutoff, LoopStops, SupRechecks, SupExits,
     Cleanup, Collapsed
<1>. QED
  BY <1>3, <1>4, <1>5, <1>6, <1>7, <1>8, <1>9, <1>10, <1>11, <1>12, <1>13, <1>14, <1>15
     DEF Next, Supervisor

-----------------------------------------------------------------------------
(* What the status of the result rests on.                                   *)

\* A verdict is spoken once, of a group and a ledger that change no more; the
\* result says PASS only by that verdict, and BLOCKED by it or where nothing was
\* launched; and a PASS the wrapper leaves behind has nothing against it.
Verdicts ==
    /\ verdict # "none" => sup \in Late
    /\ verdict = "BLOCKED" => leader = "none"
    /\ verdict = "PASS" => AllPass(ledger) /\ cleaned = "verified"
    /\ file.result.status = "BLOCKED" =>
          /\ leader = "none" /\ sup \in {"none", "complete", "exit", "ended"}
          /\ sup = "none" => ~WrapAlive
    /\ file.result.status = "PASS" => verdict = "PASS"
    /\ wrap = "done" /\ file.result.status = "PASS" => ~CutOff /\ supRc = "ok" /\ wdRc = "ok"

LEMMA CleanupInit == Init => Cleanup
BY DEF Init, EmptyDirectory, NoResult, Cleanup

LEMMA VerdictsInit == Init => Verdicts
BY DEF Init, EmptyDirectory, NoResult, Verdicts

LEMMA VerdictsWrapper == Typed /\ Stages /\ Verdicts /\ Wrapper => Verdicts'
<1>. SUFFICES ASSUME Typed, Stages, Verdicts, Wrapper PROVE Verdicts'
  OBVIOUS
<1>. USE DEF supVars, wdVars, groupVars, wrapVars, counts
<1>0. file \in Directories
  BY DEF Typed
<1>1. ASSUME SetupFailure PROVE file'.result.status = "BLOCKED" /\ wrap' = "done"
  BY <1>0, <1>1 DEF SetupFailure, Directories
<1>2. CASE WrapSetupFails
  BY <1>1, <1>2 DEF WrapSetupFails, Stages, Verdicts, WrapAlive, Before, Early
<1>3. CASE WrapStartsWatchdog \/ WrapGivesUp \/ WrapCollectsSupervisor
  BY <1>3 DEF WrapStartsWatchdog, WrapGivesUp, WrapCollectsSupervisor, Verdicts, WrapAlive
<1>4. CASE WrapStartsSupervisor
  BY <1>4 DEF WrapStartsSupervisor, Stages, Verdicts, WrapAlive, Late
<1>5. CASE WrapStopsWatchdog
  BY <1>1, <1>5 DEF WrapStopsWatchdog, Stages, Verdicts, WrapAlive, Before, Early
<1>6. CASE WrapBinds
  BY <1>0, <1>6 DEF WrapBinds, Directories, Stages, Verdicts, WrapAlive
<1>7. CASE WrapCannotBind
  BY <1>1, <1>7 DEF WrapCannotBind, EndSupervisor, Stages, Verdicts, WrapAlive, Late
<1>8. CASE WrapCollectsWatchdog
  BY <1>8 DEF WrapCollectsWatchdog, EndSupervisor, Verdicts, WrapAlive, Late
<1>9. CASE WrapFinalizes
  <2>1. UNCHANGED <<sup, supRc, wdRc, verdict, leader, ledger, cleaned>> /\ sup = "ended"
    BY <1>9 DEF WrapFinalizes, Stages
  <2>2. CASE file'.result.status = "FAIL"
    BY <2>1, <2>2 DEF Verdicts
  <2>3. CASE file'.result.status # "FAIL"
    <3>1. /\ ~CutOff /\ wdRc = "ok" /\ (supRc = "ok" \/ file.result.status # "PASS")
          /\ file' = file
      BY <1>0, <1>9, <2>3, ReceiptFields DEF WrapFinalizes, Directories
    <3>. QED
      BY <2>1, <3>1 DEF Verdicts, CutOff
  <2>. QED
    BY <2>2, <2>3
<1>. QED
  BY <1>2, <1>3, <1>4, <1>5, <1>6, <1>7, <1>8, <1>9 DEF Wrapper

LEMMA VerdictsSupervisor == Typed /\ Stages /\ Verdicts /\ Supervisor => Verdicts'
<1>. SUFFICES ASSUME Typed, Stages, Verdicts, Supervisor PROVE Verdicts'
  OBVIOUS
<1>. USE DEF supVars, wdVars, groupVars, wrapVars, counts
<1>0. file \in Directories
  BY DEF Typed
<1>. DEFINE Open == verdict = "none" /\ file.result.status \notin {"PASS", "BLOCKED"}
\* Before its verdict a step of the supervisor touches none of this.
<1>1. ASSUME sup \notin Late, sup # "none" PROVE Open
  BY <1>1 DEF Verdicts, Late
<1>2. ASSUME Open, verdict' = "none", file'.result.status = file.result.status
      PROVE  Verdicts'
  BY <1>2 DEF Verdicts
<1>3. CASE SupAdmitted \/ SupPreflight \/ SupLaunches \/ LoopSeesCutoff \/ LoopStops
           \/ LoopRejects \/ SupAsksLaunch \/ SupWaits \/ SupSignals \/ SupReaps
  <2>1. UNCHANGED <<verdict, file>> /\ sup \notin Late \cup {"none"}
    BY <1>3 DEF SupAdmitted, SupPreflight, SupLaunches, LoopSeesCutoff, LoopStops, LoopTurns,
       LoopRejects, SupAsksLaunch, SupWaits, SupSignals, SupReaps, Late
  <2>. QED
    BY <1>1, <1>2, <2>1
<1>4. CASE SupRejected
  BY <1>0, <1>1, <1>2, <1>4 DEF SupRejected, Directories, Late
<1>5. CASE SupRecordsLaunch
  BY <1>0, <1>1, <1>2, <1>5 DEF SupRecordsLaunch, Directories, Late
<1>6. ASSUME NEW ready \in SUBSET Phases, LoopAdvances(ready) \/ LoopLoses(ready)
       PROVE  Verdicts'
  <2>1. RecordPhases(Advance(ledger, ready)) /\ UNCHANGED verdict /\ sup = "loop"
    BY <1>6 DEF LoopAdvances, LoopLoses, LoopTurns
  <2>2. file'.result = file.result
    BY <1>0, <2>1 DEF RecordPhases, Directories
  <2>. QED
    BY <1>1, <1>2, <2>1, <2>2 DEF Late
<1>7. CASE SupRechecks
  <2>1. Open /\ UNCHANGED <<file, leader, ledger, cleaned>> /\ sup' = "receipts"
    BY <1>1, <1>7 DEF SupRechecks, Late
  <2>2. /\ verdict' = "BLOCKED" => leader = "none"
        /\ verdict' = "PASS" => AllPass(ledger) /\ cleaned = "verified"
    BY <1>7 DEF SupRechecks
  <2>3. AllPass(ledger)' <=> AllPass(ledger)
    BY <2>1 DEF AllPass
  <2>. QED
    BY <2>1, <2>2, <2>3 DEF Verdicts, Late
<1>8. CASE SupWrites
  <2>1. /\ UNCHANGED <<wrap, supRc, wdRc, verdict, leader, ledger, cleaned>>
        /\ sup' \in Late /\ wrap # "done" /\ (sup = "result" => sup' = "complete")
        /\ sup' \in {"complete", "exit"} \/ file'.result = file.result
        /\ sup = "receipts" => sup' = "result"
    BY <1>0, <1>8 DEF SupWrites, Late, Stages, Directories
  <2>2. file'.result.status = IF sup = "result" THEN verdict ELSE file.result.status
    BY <1>0, <1>8 DEF SupWrites, Directories
  <2>3. sup \in {"receipts", "result", "complete"} /\ (sup = "complete" => sup' = "exit")
    BY <1>8 DEF SupWrites
  <2>. QED
    BY <2>1, <2>2, <2>3 DEF Verdicts, AllPass
<1>9. CASE SupExits
  BY <1>9 DEF SupExits, Verdicts, Stages, Late
<1>. QED
  BY <1>3, <1>4, <1>5, <1>6, <1>7, <1>8, <1>9 DEF Supervisor

LEMMA VerdictsStep == Typed /\ Stages /\ Verdicts /\ [Next]_vars => Verdicts'
<1>. SUFFICES ASSUME Typed, Stages, Verdicts, [Next]_vars PROVE Verdicts'
  OBVIOUS
<1>. USE DEF supVars, wdVars, groupVars, wrapVars, counts
<1>1. CASE Tick \/ WdFails \/ UNCHANGED vars
  BY <1>1 DEF Tick, WdFails, vars, Verdicts, WrapAlive, CutOff, AllPass
<1>2. CASE Group
  BY <1>2 DEF Group, LeaderEnds, KidsEnd, InitReaps, Verdicts, WrapAlive, CutOff, AllPass
<1>3. CASE Watchdog
  <2>1. wrap' = "done" => wd \in {"none", "ended"}
    BY <1>3, WatchdogReaches DEF WatchdogReach, Stages
  <2>. QED
    BY <1>3, <2>1, WatchdogReaches
       DEF WatchdogReach, Stages, Verdicts, WrapAlive, Late, AllPass
<1>4. CASE WrapInterrupted
  BY <1>4 DEF WrapInterrupted, Verdicts, WrapAlive
<1>5. CASE SupKilled
  BY <1>5 DEF SupKilled, SupAlive, EndSupervisor, Stages, Verdicts, WrapAlive, CutOff, Late
<1>6. CASE WdKilled
  BY <1>6 DEF WdKilled, WdAlive, EndWatchdog, Stages, Verdicts, WrapAlive
<1>. QED
  BY <1>1, <1>2, <1>3, <1>4, <1>5, <1>6, VerdictsWrapper, VerdictsSupervisor
     DEF Next, Crash

-----------------------------------------------------------------------------
(* What the watchdog knows when it acts.                                     *)

\* The wrapper is gone and the supervisor it may have started is not admitted.
Unbound == ~WrapAlive /\ sup \in Early /\ file.state = "none"
\* The supervisor will never write its completion receipt.
Gone == ~file.complete /\ (sup = "ended" \/ Unbound)
\* Nothing was launched, and the time to launch is over.
NoLaunch == leader = "none" /\ sup # "launch" /\ clock >= Deadline.readiness
\* The supervisor will never write that the run passed.
Harmless == sup = "ended" \/ Unbound \/ NoLaunch

\* A target found dead stays dead, the receipt it may have left being read after
\* that; and before the failure is recorded the supervisor can do no more harm.
Watching ==
    /\ wd \in Cutting => "cut" \in sent
    /\ wd = "act" /\ ~wdSees.alive => Gone \/ file.complete
    /\ wd = "abnormal" => Gone
    /\ wd \in Failing /\ "cut" \notin sent => Gone
    /\ file.exit = "SUPERVISOR_EXIT_WITHOUT_RECEIPT" => Gone
    /\ wd = "act" /\ ~wdSees.sup /\ clock >= Deadline.readiness => Harmless
    /\ wd \in Cutting /\ ~wdSees.sup => Harmless
    /\ wd \in Failing => Harmless
    /\ file.hard = "FAIL_CLOSED" /\ ~file.wdFailure => Harmless

LEMMA WatchingInit == Init => Watching
BY DEF Init, EmptyDirectory, Watching, Cutting, Failing

LEMMA ReadinessLimit == Deadline.readiness = 1 /\ Deadline.cut = 5
BY DEF Deadline

\* What the others do to the directory as the watchdog reads it.
OthersReach ==
    /\ UNCHANGED <<wdSees, sent>>
    /\ file'.hard = file.hard /\ file'.wdFailure = file.wdFailure /\ file'.exit = file.exit
    /\ wd' # wd => wd' \in {"boot", "failing", "ended"}

\* Nothing the others do takes back what the watchdog relies on.
LEMMA StandsStill ==
    ASSUME Typed, Stages, Tick \/ Group \/ Wrapper \/ Supervisor \/ Crash
    PROVE  /\ Gone => Gone'
           /\ Harmless => Harmless'
           /\ file.complete => file'.complete
           /\ OthersReach
<1>. USE DEF supVars, wdVars, groupVars, wrapVars, counts
<1>0. file \in Directories /\ clock \in 0 .. AccountingLimit
  BY DEF Typed
<1>. DEFINE Goal == /\ Gone => Gone'
                    /\ Harmless => Harmless'
                    /\ file.complete => file'.complete
                    /\ OthersReach
            Parts == Unbound => Unbound'
\* A step that keeps the receipt, the launch and an ended supervisor as they are.
<1>1. ASSUME sup = "ended" => sup' = "ended", Unbound => Unbound' \/ sup' = "ended",
             NoLaunch => NoLaunch' \/ sup' = "ended",
             file'.complete = file.complete, OthersReach
      PROVE  Goal
  BY <1>1 DEF Gone, Harmless
<1>2. ASSUME UNCHANGED <<wrap, sup, file, leader, clock>>, OthersReach PROVE Goal
  BY <1>2 DEF Gone, Harmless, Unbound, NoLaunch, WrapAlive
<1>3. CASE Tick
  BY <1>0, <1>3, ReadinessLimit
     DEF Tick, OthersReach, Gone, Harmless, Unbound, NoLaunch, WrapAlive, AccountingLimit
<1>4. CASE Group
  BY <1>1, <1>4 DEF Group, LeaderEnds, KidsEnd, InitReaps, OthersReach, Unbound, NoLaunch, WrapAlive
<1>5. CASE Crash
  BY <1>1, <1>5 DEF Crash, WrapInterrupted, SupKilled, WdFails, WdKilled, EndSupervisor,
     EndWatchdog, OthersReach, Unbound, NoLaunch, WrapAlive
<1>6. CASE Wrapper
  <2>1. ASSUME SetupFailure
        PROVE  /\ file'.state = file.state /\ file'.complete = file.complete
               /\ file'.hard = file.hard /\ file'.wdFailure = file.wdFailure
               /\ file'.exit = file.exit /\ wrap' = "done"
    BY <1>0, <2>1 DEF SetupFailure, Directories
  <2>2. CASE WrapSetupFails
    BY <1>1, <2>1, <2>2 DEF WrapSetupFails, OthersReach, Unbound, NoLaunch, WrapAlive
  <2>3. CASE WrapStartsWatchdog \/ WrapGivesUp \/ WrapCollectsSupervisor
    BY <1>1, <2>3 DEF WrapStartsWatchdog, WrapGivesUp, WrapCollectsSupervisor, OthersReach,
       Unbound, NoLaunch, WrapAlive
  <2>4. CASE WrapStartsSupervisor
    BY <1>1, <2>4 DEF WrapStartsSupervisor, OthersReach, Stages, Unbound, NoLaunch, WrapAlive
  <2>5. CASE WrapStopsWatchdog
    BY <1>1, <2>1, <2>5 DEF WrapStopsWatchdog, EndWatchdog, OthersReach, Unbound, NoLaunch, WrapAlive
  <2>6. CASE WrapBinds
    <3>1. /\ file'.complete = file.complete /\ file'.hard = file.hard
          /\ file'.wdFailure = file.wdFailure /\ file'.exit = file.exit
      BY <1>0, <2>6 DEF WrapBinds, Directories
    <3>. QED
      BY <1>1, <2>6, <3>1 DEF WrapBinds, OthersReach, Unbound, NoLaunch, WrapAlive
  <2>7. CASE WrapCannotBind
    BY <1>1, <2>1, <2>7 DEF WrapCannotBind, EndSupervisor, EndWatchdog, OthersReach
  <2>8. CASE WrapCollectsWatchdog
    BY <1>1, <2>8 DEF WrapCollectsWatchdog, EndSupervisor, OthersReach, Unbound, NoLaunch, WrapAlive
  <2>9. CASE WrapFinalizes
    <3>1. /\ file'.complete = file.complete /\ file'.hard = file.hard
          /\ file'.wdFailure = file.wdFailure /\ file'.exit = file.exit
      BY <1>0, <2>9, ReceiptFields DEF WrapFinalizes, Directories
    <3>. QED
      BY <1>1, <2>9, <3>1 DEF WrapFinalizes, OthersReach, Stages, NoLaunch
  <2>. QED
    BY <1>6, <2>2, <2>3, <2>4, <2>5, <2>6, <2>7, <2>8, <2>9 DEF Wrapper
<1>7. CASE Supervisor
  <2>1. ASSUME /\ sup \notin {"none", "ended"} /\ (sup = "validate" => file.state # "none" \/ sup' = "ended")
               /\ file'.complete = file.complete
               /\ leader = "none" => leader' = "none" \/ sup = "launch"
               /\ sup' = "launch" => clock < Deadline.readiness
               /\ UNCHANGED clock /\ OthersReach
        PROVE  Goal
    <3>1. sup' # "launch" \/ ~NoLaunch
      BY <1>0, <2>1, ReadinessLimit DEF NoLaunch, AccountingLimit
    <3>. QED
      BY <1>1, <2>1, <3>1 DEF Unbound, NoLaunch, Early
  <2>2. CASE SupAdmitted
    BY <2>1, <2>2 DEF SupAdmitted, Admissible, OthersReach
  <2>3. CASE SupRejected
    <3>1. /\ file'.complete = file.complete /\ file'.hard = file.hard
          /\ file'.wdFailure = file.wdFailure /\ file'.exit = file.exit
      BY <1>0, <2>3 DEF SupRejected, Directories
    <3>. QED
      BY <2>1, <2>3, <3>1 DEF SupRejected, OthersReach
  <2>4. CASE SupPreflight
    BY <2>1, <2>4 DEF SupPreflight, OthersReach
  <2>5. CASE SupLaunches \/ LoopSeesCutoff \/ LoopStops
    BY <2>1, <2>5 DEF SupLaunches, LoopSeesCutoff, LoopStops, LoopFailed, OthersReach
  <2>6. CASE SupRecordsLaunch
    <3>1. /\ file'.complete = file.complete /\ file'.hard = file.hard
          /\ file'.wdFailure = file.wdFailure /\ file'.exit = file.exit
      BY <1>0, <2>6 DEF SupRecordsLaunch, Directories
    <3>. QED
      BY <2>1, <2>6, <3>1 DEF SupRecordsLaunch, OthersReach
  <2>7. CASE LoopRejects
    BY <2>1, <2>7 DEF LoopRejects, LoopTurns, LoopFailed, OthersReach
  <2>8. ASSUME NEW ready \in SUBSET Phases, LoopAdvances(ready) \/ LoopLoses(ready)
        PROVE  Goal
    <3>1. /\ RecordPhases(Advance(ledger, ready)) /\ sup = "loop"
          /\ sup' \in {"loop", "cleanup"} /\ UNCHANGED <<leader, clock, wd, wdSees, sent>>
      BY <2>8 DEF LoopAdvances, LoopLoses, LoopTurns, LoopFailed
    <3>2. /\ file'.complete = file.complete /\ file'.hard = file.hard
          /\ file'.wdFailure = file.wdFailure /\ file'.exit = file.exit
      BY <1>0, <3>1 DEF RecordPhases, Directories
    <3>. QED
      BY <2>1, <3>1, <3>2 DEF OthersReach
  <2>9. CASE SupAsksLaunch
    BY <2>1, <2>9 DEF SupAsksLaunch, OthersReach
  <2>10. CASE SupWaits
    BY <2>1, <2>10 DEF SupWaits, Collected, NextStage, OthersReach
  <2>11. CASE SupSignals
    BY <2>1, <2>11 DEF SupSignals, Collected, NextStage, OthersReach
  <2>12. CASE SupReaps
    BY <2>1, <2>12 DEF SupReaps, Collected, OthersReach
  <2>13. CASE SupRechecks \/ SupExits
    BY <2>1, <2>13 DEF SupRechecks, SupExits, OthersReach
  <2>14. CASE SupWrites
    <3>1. /\ file'.complete \in {file.complete, TRUE} /\ file'.hard = file.hard
          /\ file'.wdFailure = file.wdFailure /\ file'.exit = file.exit
          /\ sup' \notin {"ended", "launch"} /\ sup \notin Early \cup {"ended"}
      BY <1>0, <2>14 DEF SupWrites, Directories, Early
    <3>. QED
      BY <2>14, <3>1 DEF SupWrites, OthersReach, Gone, Harmless, Unbound, NoLaunch
  <2>. QED
    BY <1>7, <2>2, <2>3, <2>4, <2>5, <2>6, <2>7, <2>8, <2>9, <2>10, <2>11, <2>12, <2>13,
       <2>14 DEF Supervisor
<1>. QED
  BY <1>3, <1>4, <1>5, <1>6, <1>7

LEMMA WatchingOthers ==
    ASSUME Typed, Stages, Watching, Tick \/ Group \/ Wrapper \/ Supervisor \/ Crash
    PROVE  Watching'
<1>1. /\ Gone => Gone'
      /\ Harmless => Harmless'
      /\ file.complete => file'.complete
      /\ OthersReach
  BY StandsStill
<1>2. wd = "act" => clock' = clock
  BY DEF Tick, Group, LeaderEnds, KidsEnd, InitReaps, Crash, WrapInterrupted, SupKilled,
     WdFails, WdKilled, Wrapper, WrapSetupFails, WrapStartsWatchdog, WrapStartsSupervisor,
     WrapGivesUp, WrapStopsWatchdog, WrapBinds, WrapCannotBind, WrapCollectsSupervisor,
     WrapCollectsWatchdog, WrapFinalizes, Supervisor, SupAdmitted, SupRejected, SupPreflight,
     SupLaunches, SupRecordsLaunch, LoopSeesCutoff, LoopStops, LoopRejects, LoopAdvances,
     LoopLoses, SupAsksLaunch, SupWaits, SupSignals, SupReaps, SupRechecks, SupWrites, SupExits
<1>3. wd' \in {wd, "boot", "failing", "ended"}
  BY <1>1 DEF OthersReach
<1>. HIDE DEF Gone, Harmless
<1>. QED
  BY <1>1, <1>2, <1>3 DEF OthersReach, Watching, Cutting, Failing

\* What the watchdog relies on holds after its own steps too.
LEMMA StillAfterWatchdog ==
    ASSUME Typed, Stages, Watchdog
    PROVE  (Gone => Gone') /\ (Harmless => Harmless') /\ file'.complete = file.complete
<1>1. WatchdogReach
  BY WatchdogReaches
<1>. QED
  BY <1>1 DEF WatchdogReach, Gone, Harmless, Unbound, NoLaunch, WrapAlive

\* The sample: a supervisor it knows is dead for good, and before it knows one
\* nothing is admitted.
LEMMA WatchingSample ==
    ASSUME Typed, Stages, Watching, WdSamples
    PROVE  Watching'
<1>. USE DEF supVars, wdVars, groupVars, wrapVars, counts
<1>0. wdSees \in [sup : BOOLEAN, launch : BOOLEAN, alive : BOOLEAN] /\ file \in Directories
  BY DEF Typed, TypedWd
<1>1. /\ wdSees'.sup <=> wdSees.sup \/ file.state # "none"
      /\ wdSees'.alive <=> TargetAlive
      /\ wd' = "act" /\ UNCHANGED <<clock, sup, wrap, leader, file, sent>>
  BY <1>0 DEF WdSamples, Seen, TargetAlive, SupAlive, WrapAlive
<1>2. Seen.sup <=> file.state # "none"
  BY <1>0 DEF Seen, Stages
<1>3. ~TargetAlive => Gone \/ file.complete
  BY <1>2 DEF TargetAlive, SupAlive, WrapAlive, Stages, Gone, Unbound
<1>4. ~wdSees'.sup /\ clock >= Deadline.readiness => Harmless
  BY <1>1 DEF Stages, Harmless, NoLaunch, Early
<1>5. (Gone <=> Gone') /\ (Harmless <=> Harmless')
  BY <1>1 DEF Gone, Harmless, Unbound, NoLaunch, WrapAlive
<1>. HIDE DEF Gone, Harmless
<1>. QED
  BY <1>1, <1>3, <1>4, <1>5 DEF Watching, Cutting, Failing

LEMMA WatchingWatchdog ==
    ASSUME Typed, Stages, Watching, Watchdog
    PROVE  Watching'
<1>. USE DEF supVars, wdVars, groupVars, wrapVars, counts
<1>0. file \in Directories /\ clock \in 0 .. AccountingLimit
  BY DEF Typed
<1>1. (Gone => Gone') /\ (Harmless => Harmless') /\ file'.complete = file.complete
  BY StillAfterWatchdog
<1>. DEFINE Kept == file'.hard = file.hard /\ file'.wdFailure = file.wdFailure /\ file'.exit = file.exit
\* A step to where nothing is relied on, or to where what holds already is.
<1>2. ASSUME Kept, wd' \notin {"act", "abnormal"} \cup Cutting \cup Failing
      PROVE  Watching'
  <2>. HIDE DEF Gone, Harmless
  <2>. QED
    BY <1>1, <1>2 DEF Watching
<1>3. CASE WdStarts
  <2>1. Kept /\ wd' \in {"poll", "failing"}
    BY <1>0, <1>3 DEF WdStarts, Directories
  <2>. QED
    BY <1>2, <2>1 DEF Cutting, Failing
<1>4. CASE WdPolls
  <2>1. /\ wd' \in {"sample", "ended"}
        /\ file'.hard = file.hard /\ file'.wdFailure = file.wdFailure
        /\ file'.exit \in {file.exit, "NORMAL_COMPLETION"}
    BY <1>0, <1>4 DEF WdPolls, Directories
  <2>. HIDE DEF Gone, Harmless
  <2>. QED
    BY <1>1, <2>1 DEF Watching, Cutting, Failing
<1>5. CASE WdSamples
  BY <1>5, WatchingSample
<1>6. CASE WdIdles
  BY <1>2, <1>6 DEF WdIdles, Cutting, Failing
<1>7. CASE WdSeesTheEnd
  <2>1. Gone /\ wd' = "abnormal" /\ UNCHANGED <<file, wdSees, sent>>
    BY <1>7 DEF WdSeesTheEnd, Watching
  <2>. HIDE DEF Gone, Harmless
  <2>. QED
    BY <1>1, <2>1 DEF Watching, Cutting, Failing
<1>8. CASE WdActs
  <2>1. CASE wd' = "poll"
    BY <1>2, <1>8, <2>1 DEF WdActs, Cutting, Failing
  <2>2. CASE wd' # "poll"
    <3>1. PICK ok \in BOOLEAN : /\ wd' = "cut" /\ "cut" \in Overdue(ok)
                                /\ sent' = sent \cup (Overdue(ok) \ sent) \cup
                                     (IF "readiness" \in Overdue(ok) \ sent THEN {"soft"} ELSE {})
      BY <1>8, <2>2 DEF WdActs
    <3>2. "cut" \in sent' /\ UNCHANGED <<file, wdSees>> /\ wd = "act"
      BY <1>8, <3>1 DEF WdActs
    <3>3. clock >= Deadline.readiness
      BY <1>0, <3>1, ReadinessLimit DEF Overdue, AccountingLimit
    <3>. HIDE DEF Gone, Harmless
    <3>. QED
      BY <1>1, <3>1, <3>2, <3>3 DEF Watching, Cutting, Failing
  <2>. QED
    BY <2>1, <2>2
<1>9. CASE WdCuts
  <2>1. /\ file'.hard = "CUT_OFF_IN_PROGRESS" /\ file'.wdFailure = file.wdFailure
        /\ file'.exit = file.exit /\ wd = "cut" /\ wd' = "cut_group" /\ UNCHANGED <<wdSees, sent>>
    BY <1>0, <1>9 DEF WdCuts, Directories
  <2>. HIDE DEF Gone, Harmless
  <2>. QED
    BY <1>1, <2>1 DEF Watching, Cutting, Failing
<1>10. CASE WdCutsGroup
  <2>1. wd = "cut_group" /\ wd' = "cut_supervisor" /\ UNCHANGED <<file, wdSees, sent>>
    BY <1>10 DEF WdCutsGroup
  <2>. HIDE DEF Gone, Harmless
  <2>. QED
    BY <1>1, <2>1 DEF Watching, Cutting, Failing
<1>11. CASE WdCutsSupervisor
  <2>1. wd = "cut_supervisor" /\ wd' = "record" /\ UNCHANGED <<file, wdSees, sent>>
    BY <1>11 DEF WdCutsSupervisor
  <2>2. Harmless'
    BY <1>1, <1>11 DEF WdCutsSupervisor, EndSupervisor, Watching, Cutting, Harmless
  <2>. HIDE DEF Gone, Harmless
  <2>. QED
    BY <1>1, <2>1, <2>2 DEF Watching, Cutting, Failing
<1>12. CASE WdEndsGroup
  <2>1. wd = "abnormal" /\ wd' = "record" /\ UNCHANGED <<file, wdSees, sent>>
    BY <1>12 DEF WdEndsGroup
  <2>2. Gone /\ Harmless
    BY <2>1 DEF Watching, Gone, Harmless
  <2>. HIDE DEF Gone, Harmless
  <2>. QED
    BY <1>1, <2>1, <2>2 DEF Watching, Cutting, Failing
<1>13. CASE WdRecords
  <2>1. /\ file'.wdFailure = file.wdFailure /\ file'.exit = file.exit
        /\ wd = "record" /\ wd' = "receipts" /\ UNCHANGED <<wdSees, sent>>
    BY <1>0, <1>13 DEF WdRecords, Directories
  <2>. HIDE DEF Gone, Harmless
  <2>. QED
    BY <1>1, <2>1 DEF Watching, Cutting, Failing
<1>14. CASE WdWritesReceipts
  <2>1. /\ file'.exit = file.exit /\ wd = "receipts" /\ wd' = "exit" /\ UNCHANGED <<wdSees, sent>>
    BY <1>0, <1>14, ReceiptFields DEF WdWritesReceipts
  <2>. HIDE DEF Gone, Harmless
  <2>. QED
    BY <1>1, <2>1 DEF Watching, Cutting, Failing
<1>15. CASE WdExits
  <2>1. /\ file'.hard = file.hard /\ file'.wdFailure = file.wdFailure
        /\ file'.exit = "SUPERVISOR_EXIT_WITHOUT_RECEIPT" => "cut" \notin sent
        /\ wd = "exit" /\ wd' = "ended"
    BY <1>0, <1>15 DEF WdExits, Directories
  <2>. HIDE DEF Gone, Harmless
  <2>. QED
    BY <1>1, <2>1 DEF Watching, Cutting, Failing
<1>16. CASE WdFailureKills
  BY <1>2, <1>16 DEF WdFailureKills, Cutting, Failing
<1>17. CASE WdFailureRecords
  <2>1. PICK ok \in BOOLEAN : file' = [FailureReceipts(ok) EXCEPT !.wdFailure = TRUE]
    BY <1>17 DEF WdFailureRecords
  <2>2. FailureReceipts(ok) \in Directories
    BY <1>0, ReceiptsTyped
  <2>3. file'.wdFailure /\ file'.exit = file.exit /\ wd' = "ended"
    BY <1>0, <1>17, <2>1, <2>2, ReceiptFields DEF WdFailureRecords, Directories
  <2>. HIDE DEF Gone, Harmless
  <2>. QED
    BY <1>1, <2>3 DEF Watching, Cutting, Failing
<1>. QED
  BY <1>3, <1>4, <1>5, <1>6, <1>7, <1>8, <1>9, <1>10, <1>11, <1>12, <1>13, <1>14, <1>15,
     <1>16, <1>17 DEF Watchdog

-----------------------------------------------------------------------------
(* The theorems.                                                             *)

IInv == Typed /\ Stages /\ Cleanup /\ Verdicts /\ Watching

LEMMA IInvInit == Init => IInv
BY TypedInit, StagesInit, CleanupInit, VerdictsInit, WatchingInit DEF IInv

LEMMA IInvStep == IInv /\ [Next]_vars => IInv'
<1>. SUFFICES ASSUME IInv, [Next]_vars PROVE IInv'
  OBVIOUS
<1>0. Typed /\ Stages /\ Cleanup /\ Verdicts /\ Watching
  BY DEF IInv
<1>1. Typed' /\ Stages' /\ Cleanup' /\ Verdicts'
  BY <1>0, TypedStep, StagesStep, CleanupStep, VerdictsStep
<1>2. CASE UNCHANGED vars
  <2>1. Watching'
    BY <1>0, <1>2 DEF vars, supVars, wdVars, groupVars, wrapVars, counts, Watching, Gone,
       Harmless, Unbound, NoLaunch, WrapAlive
  <2>. QED
    BY <1>1, <2>1 DEF IInv
<1>3. CASE Next
  <2>1. Watching'
    BY <1>0, <1>3, WatchingOthers, WatchingWatchdog DEF Next
  <2>. QED
    BY <1>1, <2>1 DEF IInv
<1>. QED
  BY <1>2, <1>3

LEMMA Invariance == Spec => []IInv
BY IInvInit, IInvStep, PTL DEF Spec

\* Every variable of the three processes, of the launch group and of the run
\* directory keeps its type (the receipts of tools/rviz_navigation).
THEOREM TypeCorrect == Spec => []TypeOK
<1>1. IInv => TypeOK
  BY DEF IInv, Typed, TypedWrap, TypedSup, TypedGroup, TypedWd, TypedCounts, TypeOK, Rcs,
     Directories, Statuses
<1>. QED
  BY <1>1, Invariance, PTL

\* What the result says of the run is so, whoever wrote it last: a PASS the
\* wrapper leaves is one both children, every phase and the collected launch
\* group bear out, a verified cleanup is one, and a BLOCKED run launched nothing
\* (record_watchdog_exit, final_status, the failure receipts of the watchdog).
THEOREM ReceiptTrue == Spec => []ReceiptIsTrue
<1>1. IInv => ReceiptIsTrue
  BY DEF IInv, Cleanup, Verdicts, Collapsed, ReceiptIsTrue, PassIsReal
<1>. QED
  BY <1>1, Invariance, PTL

\* A supervisor that left its completion receipt is never reported as one that
\* exited without it: the watchdog reads the receipt again after the process.
THEOREM NoAbnormalExit == Spec => []NoFalseAbnormalExit
<1>1. IInv => NoFalseAbnormalExit
  BY DEF IInv, Watching, Gone, NoFalseAbnormalExit
<1>. QED
  BY <1>1, Invariance, PTL

\* Only the supervisor writes PASS, and what it writes is its verdict.
LEMMA PassIsWritten ==
    ASSUME Typed, [Next]_vars, file.result.status # "PASS", file'.result.status = "PASS"
    PROVE  sup = "result" /\ verdict = "PASS"
<1>. USE DEF supVars, wdVars, groupVars, wrapVars, counts
<1>0. file \in Directories
  BY DEF Typed
<1>1. CASE Tick \/ Group \/ Crash \/ UNCHANGED vars
  BY <1>1 DEF Tick, Group, LeaderEnds, KidsEnd, InitReaps, Crash, WrapInterrupted, SupKilled,
     WdFails, WdKilled, vars
<1>2. CASE Watchdog
  BY <1>2, WatchdogReaches DEF WatchdogReach
<1>3. CASE Wrapper
  <2>1. ASSUME SetupFailure PROVE FALSE
    <3>1. file'.result.status = "BLOCKED"
      BY <1>0, <2>1 DEF SetupFailure, Directories
    <3>. QED
      BY <3>1
  <2>2. ~WrapBinds
    BY <1>0 DEF WrapBinds, Directories
  <2>3. ~WrapFinalizes
    BY <1>0, ReceiptFields DEF WrapFinalizes, Directories
  <2>. QED
    BY <1>3, <2>1, <2>2, <2>3 DEF Wrapper, WrapSetupFails, WrapStartsWatchdog,
       WrapStartsSupervisor, WrapGivesUp, WrapStopsWatchdog, WrapCannotBind,
       WrapCollectsSupervisor, WrapCollectsWatchdog
<1>4. CASE Supervisor
  <2>1. ~SupRejected /\ ~SupRecordsLaunch
    BY <1>0 DEF SupRejected, SupRecordsLaunch, Directories
  <2>2. ASSUME NEW ready \in SUBSET Phases PROVE ~LoopAdvances(ready) /\ ~LoopLoses(ready)
    BY <1>0 DEF LoopAdvances, LoopLoses, RecordPhases, Directories
  <2>3. file' # file
    OBVIOUS
  <2>4. SupWrites
    BY <1>4, <2>1, <2>2, <2>3 DEF Supervisor, SupAdmitted, SupPreflight, SupLaunches,
       LoopSeesCutoff, LoopStops, LoopRejects, SupAsksLaunch, SupWaits, SupSignals, SupReaps,
       SupRechecks, SupExits
  <2>. QED
    BY <1>0, <2>4 DEF SupWrites, Directories
<1>. QED
  BY <1>1, <1>2, <1>3, <1>4 DEF Next

\* A failure the watchdog recorded stands: when its receipts are written the
\* supervisor is dead, or was never admitted, or has nothing a PASS could be
\* said of (_force_cutoff, _write_failure).
THEOREM FailureIsFinal == Spec => FailureStands
<1>1. ASSUME IInv, [Next]_vars, file.hard = "FAIL_CLOSED", ~file.wdFailure,
             file.result.status = "FAIL"
      PROVE  file'.result.status # "PASS"
  <2>1. SUFFICES ASSUME file'.result.status = "PASS" PROVE FALSE
    OBVIOUS
  <2>2. sup = "result" /\ verdict = "PASS"
    BY <1>1, <2>1, PassIsWritten DEF IInv
  <2>3. leader = "none"
    BY <1>1, <2>2 DEF IInv, Watching, Harmless, Unbound, NoLaunch, Early
  <2>4. leader = "reaped"
    BY <1>1, <2>2 DEF IInv, Verdicts, Cleanup, Collapsed
  <2>. QED
    BY <2>3, <2>4
<1>2. IInv /\ [Next]_vars
      => [file.hard = "FAIL_CLOSED" /\ ~file.wdFailure /\ file.result.status = "FAIL"
             => file'.result.status # "PASS"]_vars
  BY <1>1
<1>. QED
  BY <1>2, Invariance, PTL DEF Spec, FailureStands

=============================================================================

---- MODULE PhaseLedger ----
(***************************************************************************)
(* The ledger of readiness phases the run supervisor keeps                 *)
(* (tools/rviz_navigation/supervisor_policy.py, class PhaseLedger): phases *)
(* are admitted in order, a failure blocks every later phase, and a loss   *)
(* before motion puts the lost phase and the later ones back to NOT RUN.   *)
(***************************************************************************)
EXTENDS Integers

CONSTANT NPhases                 \* phases of a run, eight in the code

ASSUME PhasesExist == NPhases \in Nat \ {0}

Phases == 1 .. NPhases
PhaseStates == {"NOT RUN", "PASS", "FAIL", "BLOCKED"}
Ledgers == [Phases -> PhaseStates]

NewLedger == [p \in Phases |-> "NOT RUN"]
AllPass(l) == \A p \in Phases : l[p] = "PASS"
Failed(l) == \E p \in Phases : l[p] = "FAIL"

(* The phases pass in order, and a failure blocks all the later ones. *)
Ordered(l) ==
    /\ \A p, q \in Phases : p < q /\ l[q] = "PASS" => l[p] = "PASS"
    /\ \A p, q \in Phases : p < q /\ l[p] = "FAIL" => l[q] = "BLOCKED"
    /\ \A q \in Phases : l[q] = "BLOCKED" => \E p \in Phases : p < q /\ l[p] = "FAIL"

(* A phase passes when it and all before it have passed or are ready now. *)
Advance(l, ready) ==
    IF Failed(l) THEN l
    ELSE [p \in Phases |-> IF \A q \in 1 .. p : l[q] = "PASS" \/ q \in ready
                           THEN "PASS" ELSE l[p]]

FailAt(l, phase) ==
    [p \in Phases |-> IF p = phase THEN "FAIL" ELSE IF p > phase THEN "BLOCKED" ELSE l[p]]

ReopenFrom(l, phase) == [p \in Phases |-> IF p >= phase THEN "NOT RUN" ELSE l[p]]

(* The admitted phases that are not ready any more; the first one counts. *)
Lost(l, ready) == {p \in Phases : l[p] = "PASS" /\ p \notin ready}
FirstLost(l, ready) ==
    CHOOSE p \in Lost(l, ready) : \A q \in Lost(l, ready) : p <= q
====

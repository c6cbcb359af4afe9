--------------------------- MODULE MotionAuthority ---------------------------
(***************************************************************************)
(* What the safety gate promises to the vehicle, without any of its         *)
(* services, timers or ages.  At any time at most one party is allowed to   *)
(* move the base: an execution that holds the lease, or an operator's timed *)
(* permission.  Taking the permission away and stopping the base are one    *)
(* step, an execution never takes over from another execution directly, and *)
(* nobody is granted anything while the interlock is closed.                *)
(***************************************************************************)
CONSTANTS Executions,  \* the executions that may hold the lease
          Timed,       \* the operator's timed permission
          Nobody       \* no permission

VARIABLES interlocked, \* emergency stop or block_all
          authority,   \* who may move the base
          moving       \* the last command published on /cmd_vel is not zero

vars == <<interlocked, authority, moving>>

Init == /\ interlocked \in BOOLEAN
        /\ authority = Nobody
        /\ moving = FALSE

\* Permission is given by an open interlock only, never from one execution to
\* another.
Grant(a) == /\ ~interlocked
            /\ authority \in {Nobody, Timed, a}
            /\ authority' = a
            /\ UNCHANGED interlocked
            /\ moving' \in {moving, FALSE}

\* Permission ends, and with it the motion.
Revoke == /\ authority' = Nobody
          /\ moving' = FALSE
          /\ UNCHANGED interlocked

\* The interlock closes or opens; either way nobody holds a permission after.
Interlock == /\ interlocked' \in BOOLEAN
             /\ authority' = Nobody
             /\ moving' = FALSE

\* A command is published: a moving one only under a permission.
Command == /\ moving' \in BOOLEAN
           /\ moving' => authority # Nobody
           /\ UNCHANGED <<interlocked, authority>>

Next == \/ \E a \in Executions \union {Timed} : Grant(a)
        \/ Revoke
        \/ Interlock
        \/ Command

Spec == Init /\ [][Next]_vars
=============================================================================

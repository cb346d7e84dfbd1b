------------------------------ MODULE TaskSet -------------------------------
(***************************************************************************)
(* What fast_base/TaskPool.go promises its users: tasks are submitted      *)
(* until the pool is closed, each one is executed exactly once, and        *)
(* waiting for the pool ends when, and only when, all have been.           *)
(***************************************************************************)
CONSTANT Tasks

VARIABLES pending, done, state

setVars == <<pending, done, state>>

Init == pending = {} /\ done = {} /\ state = "open"

Submit(t) ==
    /\ state = "open"
    /\ t \notin pending \cup done
    /\ pending' = pending \cup {t}
    /\ UNCHANGED <<done, state>>

Execute(t) ==
    /\ t \in pending
    /\ pending' = pending \ {t}
    /\ done' = done \cup {t}
    /\ UNCHANGED state

Close ==
    /\ state = "open"
    /\ state' = "closed"
    /\ UNCHANGED <<pending, done>>

Return ==
    /\ state = "closed" /\ pending = {}
    /\ state' = "returned"
    /\ UNCHANGED <<pending, done>>

Next == Close \/ Return \/ \E t \in Tasks : Submit(t) \/ Execute(t)

Safety == Init /\ [][Next]_setVars

Fairness == WF_setVars(Return) /\ \A t \in Tasks : WF_setVars(Execute(t))

Spec == Safety /\ Fairness
=============================================================================

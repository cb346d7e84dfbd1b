----------------------------- MODULE SnowTables -----------------------------
(***************************************************************************)
(* GetIdForTable of fast_db/InitDBSnowFlake.go: the registry that gives    *)
(* every table its own SnowWorker, created by the first call for it.       *)
(*                                                                         *)
(* The two reads before the mutex is taken race with the map assignment    *)
(* made under it.  While an assignment is under way such a read returns    *)
(* the old entry or the new one, or the Go runtime notices the race and    *)
(* kills the process.  What GetId does with a worker is module SnowWorker; *)
(* no name of this module is one of that module, so that one module of     *)
(* proofs can extend both.                                                 *)
(***************************************************************************)
EXTENDS Naturals

CONSTANTS
    Goroutines,  \* goroutines that call GetIdForTable
    Tables,      \* table names
    NoGoroutine, \* the holder of a free lock
    NoTable      \* no assignment to the map is under way

ASSUME TablesAssumption == NoGoroutine \notin Goroutines /\ NoTable \notin Tables

Nil == 0         \* the nil *SnowWorker; the workers are numbered from 1

VARIABLES
    workers,     \* map[string]*SnowWorker
    lock,        \* holder of the registry's mutex
    assigning,   \* the table whose map entry is being assigned
    made,        \* how many workers were ever allocated
    step,        \* where each caller is
    tableName,   \* argument of each caller's current call
    worker,      \* local variable `worker` of each caller
    used,        \* ghost: pairs of a table and the worker that made an ID for it
    aborted      \* the runtime threw "concurrent map read and map write"

tablesVars == <<workers, lock, assigning, made, step, tableName, worker, used, aborted>>

TablesInit ==
    /\ workers = [t \in Tables |-> Nil]
    /\ lock = NoGoroutine /\ assigning = NoTable /\ made = 0
    /\ step = [c \in Goroutines |-> "idle"]
    /\ tableName \in [Goroutines -> Tables]
    /\ worker = [c \in Goroutines |-> Nil]
    /\ used = {} /\ aborted = FALSE

-----------------------------------------------------------------------------

Goto(c, l) == step' = [step EXCEPT ![c] = l]

Call(c, t) ==
    /\ step[c] = "idle"
    /\ tableName' = [tableName EXCEPT ![c] = t]
    /\ Goto(c, "read")
    /\ UNCHANGED <<workers, lock, assigning, made, worker, used, aborted>>

\* What an unlocked read of the map entry of c's table may return.
Entry(c) ==
    {workers[tableName[c]]} \cup (IF assigning = tableName[c] THEN {made} ELSE {})

\* worker := workers[tableName]
Read(c) ==
    /\ step[c] = "read"
    /\ \E o \in Entry(c) : worker' = [worker EXCEPT ![c] = o]
    /\ Goto(c, "check")
    /\ UNCHANGED <<workers, lock, assigning, made, tableName, used, aborted>>

\* if workers[tableName] == nil: a second read of the map, not of `worker`
Check(c) ==
    /\ step[c] = "check"
    /\ \E o \in Entry(c) : Goto(c, IF o = Nil THEN "lock" ELSE "use")
    /\ UNCHANGED <<workers, lock, assigning, made, tableName, worker, used, aborted>>

\* The runtime notices a read during an assignment, and throws.
Throw(c) ==
    /\ step[c] \in {"read", "check"}
    /\ assigning # NoTable
    /\ aborted' = TRUE
    /\ UNCHANGED <<workers, lock, assigning, made, step, tableName, worker, used>>

\* Mutant of LockTables: the mutex is taken for reading only, and keeps no one out.
LockTablesShared(c) ==
    /\ step[c] = "lock"
    /\ lock' = c
    /\ Goto(c, "recheck")
    /\ UNCHANGED <<workers, assigning, made, tableName, worker, used, aborted>>

LockTables(c) ==
    /\ step[c] = "lock"
    /\ lock = NoGoroutine
    /\ lock' = c
    /\ Goto(c, "recheck")
    /\ UNCHANGED <<workers, assigning, made, tableName, worker, used, aborted>>

\* Mutant of Create: no second look under the lock.
CreateUnchecked(c) ==
    /\ step[c] = "recheck"
    /\ made' = made + 1
    /\ worker' = [worker EXCEPT ![c] = made']
    /\ assigning' = tableName[c]
    /\ Goto(c, "assign")
    /\ UNCHANGED <<workers, lock, tableName, used, aborted>>

\* Still nil under the lock: allocate a worker and start assigning it.
Create(c) ==
    /\ step[c] = "recheck"
    /\ workers[tableName[c]] = Nil
    /\ made' = made + 1
    /\ worker' = [worker EXCEPT ![c] = made']
    /\ assigning' = tableName[c]
    /\ Goto(c, "assign")
    /\ UNCHANGED <<workers, lock, tableName, used, aborted>>

\* Mutant of Lost: an early return that forgets the mutex.
LostLocked(c) ==
    /\ step[c] = "recheck"
    /\ workers[tableName[c]] # Nil
    /\ Goto(c, "use")
    /\ UNCHANGED <<workers, lock, assigning, made, tableName, worker, used, aborted>>

\* Another caller was first.  `worker` keeps what the first read returned.
Lost(c) ==
    /\ step[c] = "recheck"
    /\ workers[tableName[c]] # Nil
    /\ Goto(c, "unlock")
    /\ UNCHANGED <<workers, lock, assigning, made, tableName, worker, used, aborted>>

\* workers[tableName] = worker
Assign(c) ==
    /\ step[c] = "assign"
    /\ workers' = [workers EXCEPT ![tableName[c]] = worker[c]]
    /\ assigning' = NoTable
    /\ Goto(c, "unlock")
    /\ UNCHANGED <<lock, made, tableName, worker, used, aborted>>

Unlock(c) ==
    /\ step[c] = "unlock"
    /\ lock' = NoGoroutine
    /\ Goto(c, "use")
    /\ UNCHANGED <<workers, assigning, made, tableName, worker, used, aborted>>

\* return worker.GetId()
Use(c) ==
    /\ step[c] = "use"
    /\ worker[c] # Nil
    /\ used' = used \cup {<<tableName[c], worker[c]>>}
    /\ Goto(c, "idle")
    /\ UNCHANGED <<workers, lock, assigning, made, tableName, worker, aborted>>

\* GetId locks w.mu first: on a nil receiver that is a nil dereference.
UseNil(c) ==
    /\ step[c] = "use"
    /\ worker[c] = Nil
    /\ Goto(c, "panicked")
    /\ UNCHANGED <<workers, lock, assigning, made, tableName, worker, used, aborted>>

GetIdForTable(c) ==
    \/ Read(c) \/ Check(c) \/ Throw(c)
    \/ LockTables(c) \/ Create(c) \/ Lost(c) \/ Assign(c) \/ Unlock(c)
    \/ Use(c) \/ UseNil(c)

TablesNext ==
    /\ ~aborted
    /\ \E c \in Goroutines : GetIdForTable(c) \/ \E t \in Tables : Call(c, t)

Fairness == \A c \in Goroutines : WF_tablesVars(~aborted /\ GetIdForTable(c))

TablesSpec == TablesInit /\ [][TablesNext]_tablesVars /\ Fairness

-----------------------------------------------------------------------------

\* Every worker in the map, in a local variable or in use was made, and the map
\* is only ever assigned by the holder of the mutex: two assignments at the same
\* time end the process, whatever tables they are for.
TablesTypeOK ==
    /\ workers \in [Tables -> 0..made]
    /\ lock \in Goroutines \cup {NoGoroutine}
    /\ assigning \in Tables \cup {NoTable}
    /\ made \in Nat
    /\ step \in [Goroutines -> {"idle", "read", "check", "lock", "recheck",
                             "assign", "unlock", "use", "panicked"}]
    /\ tableName \in [Goroutines -> Tables]
    /\ worker \in [Goroutines -> 0..made]
    /\ used \subseteq Tables \X (1..made)
    /\ aborted \in BOOLEAN
    /\ \A c \in Goroutines : step[c] = "assign" => lock = c /\ assigning = tableName[c]

\* All the IDs of a table come from one worker, and no worker serves two
\* tables: two workers of a table share their worker id, and would repeat IDs.
OneWorkerPerTable ==
    \A u, v \in used : u[1] = v[1] <=> u[2] = v[2]

\* Every call ends, unless the process does: no caller is left waiting for a
\* mutex that is never released.
CallsEnd ==
    \A c \in Goroutines : step[c] = "read" ~> aborted \/ step[c] \in {"idle", "panicked"}

\* The lock makes concurrent first calls for a table safe: none ends in a nil
\* dereference.  (The code does not achieve it: a caller goes on with what Read
\* returned, also when Check or Lost has seen an entry since.)
NoNilWorker == \A c \in Goroutines : step[c] # "panicked"
=============================================================================

----------------------------- MODULE SnowWorker -----------------------------
(***************************************************************************)
(* fast_db/InitDBSnowFlake.go: the snowflake ID generator.  Every worker   *)
(* object hands out IDs to concurrent callers under its own mutex, from    *)
(* the wall clock of the host, which may be stepped back.                  *)
(*                                                                         *)
(* An ID is the bitwise OR of (now - startTime) << 22, workerId << 12 and  *)
(* number; it is kept here as the record of its three bit fields.  The     *)
(* clock counts the milliseconds of the absolute wall clock.               *)
(***************************************************************************)
EXTENDS Integers

CONSTANTS
    Callers,      \* goroutines that call GetId
    Workers,      \* worker objects, each named by its workerId
    NumberMax,    \* numberMax, 4095 in the code
    MaxClock,     \* bound: last millisecond explored
    MaxEpoch,     \* bound: how often the wall clock is stepped back
    NoCaller      \* the holder of a free mutex

WorkerMax == 1023
NoWorker  == -1        \* the receiver of a caller that is in no call

ASSUME ConstantsAssumption ==
    /\ Workers \subseteq 0..WorkerMax       \* checked by NewSnowWorker
    /\ NumberMax \in Nat /\ MaxClock \in Nat \ {0} /\ MaxEpoch \in Nat
    /\ MaxEpoch <= NumberMax                \* number never outgrows two fields
    /\ NoCaller \notin Callers

VARIABLES
    clock,       \* what time.Now() returns, in ms
    epoch,       \* ghost: number of times the clock was stepped back
    mu,          \* holder of each worker's mutex
    timestamp,   \* w.timestamp
    number,      \* w.number
    pc,          \* where each caller is in GetId
    w,           \* the receiver of each caller's current call
    now,         \* local variable `now` of each caller
    at,          \* ghost: the epoch in which `now` was last read
    served,      \* ghost: how many IDs each worker has issued
    issued       \* ghost: the IDs issued, with worker, rank and epoch

objects == <<mu, timestamp, number>>
locals  == <<pc, w, now, at>>
history == <<served, issued>>
vars    == <<clock, epoch, objects, locals, history>>

-----------------------------------------------------------------------------

\* What OR-ing a number past numberMax into the ID does to the worker field:
\* bit 12 of the number is bit 0 of the worker id.
OrOne(id) == id + 1 - (id % 2)

\* (now-startTime)<<timeShift | workerId<<workerShift | number, by bit field.
ID(t, id, n) ==
    IF n <= NumberMax
    THEN [t |-> t, field |-> id,        seq |-> n]
    ELSE [t |-> t, field |-> OrOne(id), seq |-> n - (NumberMax + 1)]

Init ==
    /\ clock \in 1..MaxClock /\ epoch = 0
    /\ mu        = [x \in Workers |-> NoCaller]
    /\ timestamp = [x \in Workers |-> 0]
    /\ number    = [x \in Workers |-> 0]
    /\ pc  = [c \in Callers |-> "idle"]
    /\ w   = [c \in Callers |-> NoWorker]
    /\ now = [c \in Callers |-> 0]
    /\ at  = [c \in Callers |-> 0]
    /\ served = [x \in Workers |-> 0]
    /\ issued = {}

-----------------------------------------------------------------------------
(* GetId.                                                                  *)

\* Mutant of Lock: the mutex is not waited for.
LockFree(c, x) ==
    /\ pc[c] = "idle"
    /\ mu' = [mu EXCEPT ![x] = c]
    /\ pc' = [pc EXCEPT ![c] = "locked"]
    /\ w'  = [w EXCEPT ![c] = x]
    /\ UNCHANGED <<clock, epoch, timestamp, number, now, at, history>>

\* w.mu.Lock()
Lock(c, x) ==
    /\ pc[c] = "idle"
    /\ mu[x] = NoCaller
    /\ mu' = [mu EXCEPT ![x] = c]
    /\ pc' = [pc EXCEPT ![c] = "locked"]
    /\ w'  = [w EXCEPT ![c] = x]
    /\ UNCHANGED <<clock, epoch, timestamp, number, now, at, history>>

\* now := time.Now().UnixNano() / 1e6, in this epoch of the clock
ReadClock(c) ==
    /\ now' = [now EXCEPT ![c] = clock]
    /\ at'  = [at  EXCEPT ![c] = epoch]

\* Mutant of SameMillisecond: no look at numberMax, and so no spinning.
SameMillisecondNoSpin(c) ==
    /\ pc[c] = "locked"
    /\ timestamp[w[c]] = clock
    /\ ReadClock(c)
    /\ number' = [number EXCEPT ![w[c]] = @ + 1]
    /\ pc' = [pc EXCEPT ![c] = "emit"]
    /\ UNCHANGED <<clock, epoch, mu, timestamp, w, history>>

\* Same millisecond as the worker's last one: the next number of that
\* millisecond; past numberMax the caller goes on to spin.
SameMillisecond(c) ==
    /\ pc[c] = "locked"
    /\ timestamp[w[c]] = clock
    /\ ReadClock(c)
    /\ number' = [number EXCEPT ![w[c]] = @ + 1]
    /\ pc' = [pc EXCEPT ![c] =
                IF number[w[c]] + 1 > NumberMax THEN "spin" ELSE "emit"]
    /\ UNCHANGED <<clock, epoch, mu, timestamp, w, history>>

\* Mutant of OtherMillisecond: the new millisecond is not remembered.
OtherMillisecondForgotten(c) ==
    /\ pc[c] = "locked"
    /\ timestamp[w[c]] # clock
    /\ ReadClock(c)
    /\ number' = [number EXCEPT ![w[c]] = 0]
    /\ pc' = [pc EXCEPT ![c] = "emit"]
    /\ UNCHANGED <<clock, epoch, mu, timestamp, w, history>>

\* Any other millisecond, earlier ones too: restart the numbering.
OtherMillisecond(c) ==
    /\ pc[c] = "locked"
    /\ timestamp[w[c]] # clock
    /\ ReadClock(c)
    /\ number'    = [number EXCEPT ![w[c]] = 0]
    /\ timestamp' = [timestamp EXCEPT ![w[c]] = clock]
    /\ pc' = [pc EXCEPT ![c] = "emit"]
    /\ UNCHANGED <<clock, epoch, mu, w, history>>

\* One turn of `for now <= w.timestamp`.  Leaving the loop touches neither
\* number nor timestamp.
Spin(c) ==
    /\ pc[c] = "spin"
    /\ ReadClock(c)
    /\ pc' = [pc EXCEPT ![c] = IF clock <= timestamp[w[c]] THEN "spin" ELSE "emit"]
    /\ UNCHANGED <<clock, epoch, objects, w, history>>

\* The ID a call returns, as the history keeps it.
Ticket(c) ==
    LET i == ID(now[c], w[c], number[w[c]])
    IN  [worker |-> w[c], rank |-> served[w[c]] + 1, epoch |-> at[c],
         t |-> i.t, field |-> i.field, seq |-> i.seq]

\* Build the ID, return it, and run the deferred w.mu.Unlock().  The call's
\* locals end with it.
Emit(c) ==
    /\ pc[c] = "emit"
    /\ issued' = issued \cup {Ticket(c)}
    /\ served' = [served EXCEPT ![w[c]] = @ + 1]
    /\ mu' = [mu EXCEPT ![w[c]] = NoCaller]
    /\ pc'  = [pc  EXCEPT ![c] = "idle"]
    /\ w'   = [w   EXCEPT ![c] = NoWorker]
    /\ now' = [now EXCEPT ![c] = 0]
    /\ at'  = [at  EXCEPT ![c] = 0]
    /\ UNCHANGED <<clock, epoch, timestamp, number>>

-----------------------------------------------------------------------------
(* The host's wall clock.                                                  *)

Tick ==
    /\ clock < MaxClock
    /\ clock' = clock + 1
    /\ UNCHANGED <<epoch, objects, locals, history>>

StepBack ==
    /\ epoch < MaxEpoch
    /\ clock' \in 1..(clock - 1)
    /\ epoch' = epoch + 1
    /\ UNCHANGED <<objects, locals, history>>

GetId(c) ==
    \/ \E x \in Workers : Lock(c, x)
    \/ SameMillisecond(c)
    \/ OtherMillisecond(c)
    \/ Spin(c)
    \/ Emit(c)

Next == Tick \/ StepBack \/ \E c \in Callers : GetId(c)

Spec == Init /\ [][Next]_vars

-----------------------------------------------------------------------------
(* Properties.                                                             *)

Records == [worker : Workers, rank : Nat, epoch : 0..MaxEpoch,
            t : 1..MaxClock, field : 0..WorkerMax, seq : 0..NumberMax]

\* Types of the variables.  It also says that number exceeds numberMax by at
\* most one plus the number of clock steps, so that the overflow only ever
\* reaches bit 0 of the worker field and never the time field.
TypeOK ==
    /\ clock \in 1..MaxClock /\ epoch \in 0..MaxEpoch
    /\ mu \in [Workers -> Callers \cup {NoCaller}]
    /\ timestamp \in [Workers -> 0..MaxClock]
    /\ number \in [Workers -> 0..(NumberMax + 1 + MaxEpoch)]
    /\ pc \in [Callers -> {"idle", "locked", "spin", "emit"}]
    /\ w \in [Callers -> Workers \cup {NoWorker}]
    /\ now \in [Callers -> 0..MaxClock]
    /\ at \in [Callers -> 0..MaxEpoch]
    /\ served \in [Workers -> Nat]
    /\ issued \subseteq Records

SameID(r, s) == r.t = s.t /\ r.field = s.field /\ r.seq = s.seq

SameIssue(r, s) == r.worker = s.worker /\ r.rank = s.rank

\* No two calls of GetId, on one worker or on two, return the same ID as long
\* as their clock readings were not separated by a step back of the clock.
UniqueInEpoch ==
    \A r, s \in issued :
        r.epoch = s.epoch /\ SameID(r, s) => SameIssue(r, s)

\* The IDs of one worker are sorted by time in the order in which the mutex
\* served the calls, the call that spun across an overflow included.
TimeOrdered ==
    \A r, s \in issued :
        r.worker = s.worker /\ r.epoch = s.epoch /\ r.rank < s.rank
            => r.t <= s.t
=============================================================================

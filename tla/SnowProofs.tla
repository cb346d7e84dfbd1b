----------------------------- MODULE SnowProofs -----------------------------
(***************************************************************************)
(* Proofs about SnowWorker, for every set of callers and workers and every *)
(* value of the bounds, and about SnowTables, for every number of callers  *)
(* and tables.                                                             *)
(***************************************************************************)
EXTENDS SnowWorker, SnowTables, TLAPS

\* A caller is inside a call exactly while it holds its receiver's mutex.
LockInv ==
    \A c \in Callers :
        IF pc[c] = "idle" THEN w[c] = NoWorker
                          ELSE w[c] \in Workers /\ mu[w[c]] = c

Spinning(x) == \E c \in Callers : pc[c] = "spin" /\ w[c] = x

\* A number past numberMax grows again only after a step back of the clock:
\* the spin that followed the overflow left its millisecond behind.
NumberInv ==
    \A x \in Workers :
        /\ number[x] <= NumberMax + 1 + epoch
        /\ ~Spinning(x) /\ number[x] > NumberMax /\ clock <= timestamp[x]
              => number[x] <= NumberMax + epoch

\* A caller that is about to build its ID holds a clock reading.
ReadingInv ==
    \A c \in Callers :
        /\ at[c] <= epoch
        /\ pc[c] = "emit" => now[c] >= 1

TypeInv == TypeOK /\ LockInv /\ NumberInv /\ ReadingInv

LEMMA OrOneRange == ASSUME NEW id \in 0..WorkerMax
                    PROVE  OrOne(id) \in 0..WorkerMax
BY SMT DEF OrOne, WorkerMax

LEMMA IDType ==
    ASSUME NEW t \in 1..MaxClock, NEW id \in Workers,
           NEW n \in 0..(NumberMax + 1 + MaxEpoch)
    PROVE  /\ ID(t, id, n).t \in 1..MaxClock
           /\ ID(t, id, n).field \in 0..WorkerMax
           /\ ID(t, id, n).seq \in 0..NumberMax
<1>1. id \in 0..WorkerMax /\ OrOne(id) \in 0..WorkerMax
  BY OrOneRange, ConstantsAssumption
<1>2. CASE n <= NumberMax
  BY <1>1, <1>2, ConstantsAssumption DEF ID
<1>3. CASE n > NumberMax
  <2>1. n - (NumberMax + 1) \in 0..NumberMax
    BY <1>3, ConstantsAssumption
  <2>2. ID(t, id, n) = [t |-> t, field |-> OrOne(id), seq |-> n - (NumberMax + 1)]
    BY <1>3, ConstantsAssumption DEF ID
  <2> QED BY <1>1, <2>1, <2>2
<1> QED BY <1>2, <1>3, ConstantsAssumption

LEMMA TypeInit == Init => TypeInv
<1> SUFFICES ASSUME Init PROVE TypeInv
  OBVIOUS
<1> USE ConstantsAssumption DEF Init
<1>1. TypeOK
  BY DEF TypeOK
<1>2. LockInv /\ ReadingInv
  BY DEF LockInv, ReadingInv
<1>3. NumberInv
  BY DEF NumberInv
<1> QED BY <1>1, <1>2, <1>3 DEF TypeInv

\* Two callers that are both inside a call use two workers.
LEMMA Exclusion ==
    ASSUME LockInv, NEW c \in Callers, NEW d \in Callers,
           pc[c] # "idle", pc[d] # "idle", w[c] = w[d]
    PROVE  c = d
BY DEF LockInv

\* A worker whose last millisecond is the current one still has room to count.
LEMMA NumberRoom ==
    ASSUME TypeInv, NEW x \in Workers, ~Spinning(x), timestamp[x] = clock
    PROVE  number[x] \in Nat /\ number[x] + 1 <= NumberMax + 1 + epoch
<1>1. /\ number[x] \in Nat /\ NumberMax \in Nat
      /\ timestamp[x] \in Nat /\ clock \in Nat /\ epoch \in Nat
  BY ConstantsAssumption DEF TypeInv, TypeOK
<1>2. number[x] > NumberMax => number[x] <= NumberMax + epoch
  BY <1>1 DEF TypeInv, NumberInv
<1> QED BY <1>1, <1>2

\* What a caller about to build its ID builds it from.
LEMMA EmitType ==
    ASSUME TypeInv, NEW c \in Callers, pc[c] = "emit"
    PROVE  /\ w[c] \in Workers /\ served[w[c]] + 1 \in Nat
           /\ Ticket(c) \in Records
           /\ Ticket(c).t = now[c]
<1>1. w[c] \in Workers
  BY DEF TypeInv, LockInv
<1>2. /\ now[c] \in 1..MaxClock /\ number[w[c]] \in 0..(NumberMax + 1 + MaxEpoch)
      /\ served[w[c]] \in Nat /\ at[c] \in 0..MaxEpoch
  <2>1. now[c] \in 0..MaxClock /\ at[c] \in 0..MaxEpoch /\ now[c] >= 1
    BY DEF TypeInv, ReadingInv, TypeOK
  <2>2. number[w[c]] \in 0..(NumberMax + 1 + MaxEpoch)
    BY <1>1 DEF TypeInv, TypeOK
  <2>3. served[w[c]] \in Nat
    BY <1>1 DEF TypeInv, TypeOK
  <2> QED BY <2>1, <2>2, <2>3, ConstantsAssumption
<1>3. LET i == ID(now[c], w[c], number[w[c]])
      IN  i.t \in 1..MaxClock /\ i.field \in 0..WorkerMax /\ i.seq \in 0..NumberMax
  BY <1>1, <1>2, IDType
<1>4. Ticket(c) \in Records
  <2> DEFINE i == ID(now[c], w[c], number[w[c]])
  <2>1. /\ i.t \in 1..MaxClock /\ i.field \in 0..WorkerMax /\ i.seq \in 0..NumberMax
    BY <1>3
  <2>2. Ticket(c) = [worker |-> w[c], rank |-> served[w[c]] + 1, epoch |-> at[c],
                     t |-> i.t, field |-> i.field, seq |-> i.seq]
    BY DEF Ticket
  <2> HIDE DEF i
  <2>3. served[w[c]] + 1 \in Nat
    BY <1>2
  <2> QED BY <1>1, <1>2, <2>1, <2>2, <2>3 DEF Records
<1>5. Ticket(c).t = now[c]
  BY DEF Ticket, ID
<1> QED BY <1>1, <1>2, <1>4, <1>5

LEMMA TypeStep == TypeInv /\ [Next]_vars => TypeInv'
<1> SUFFICES ASSUME TypeInv, [Next]_vars PROVE TypeInv'
  OBVIOUS
<1> USE ConstantsAssumption DEF TypeInv, objects, locals, history
<1>1. ASSUME NEW c \in Callers, NEW x \in Workers, Lock(c, x)
      PROVE  TypeInv'
  <2> USE <1>1 DEF Lock
  <2>1. TypeOK'
    BY DEF TypeOK
  <2>2. LockInv'
    BY DEF LockInv, TypeOK
  <2>3. \A y \in Workers : Spinning(y) => Spinning(y)'
    BY DEF Spinning, TypeOK
  <2>4. NumberInv'
    BY <2>3 DEF NumberInv, TypeOK
  <2>5. ReadingInv'
    BY DEF ReadingInv, TypeOK
  <2> QED BY <2>1, <2>2, <2>4, <2>5
<1>2. ASSUME NEW c \in Callers, SameMillisecond(c) PROVE TypeInv'
  <2> USE <1>2 DEF SameMillisecond, ReadClock
  <2>1. w[c] \in Workers /\ ~Spinning(w[c])
    BY Exclusion DEF LockInv, Spinning
  <2>2. number[w[c]] \in Nat /\ number[w[c]] + 1 <= NumberMax + 1 + epoch
    BY <2>1, NumberRoom
  <2>3. number' = [number EXCEPT ![w[c]] = number[w[c]] + 1]
    OBVIOUS
  <2>4. TypeOK'
    <3>1. number[w[c]] + 1 \in 0..(NumberMax + 1 + MaxEpoch)
      BY <2>2 DEF TypeOK
    <3>2. number' \in [Workers -> 0..(NumberMax + 1 + MaxEpoch)]
      BY <2>1, <2>3, <3>1 DEF TypeOK
    <3>3. now' \in [Callers -> 0..MaxClock] /\ at' \in [Callers -> 0..MaxEpoch]
      BY DEF TypeOK
    <3>4. pc' \in [Callers -> {"idle", "locked", "spin", "emit"}]
      BY DEF TypeOK
    <3> QED BY <3>2, <3>3, <3>4 DEF TypeOK
  <2>5. LockInv'
    BY DEF LockInv, TypeOK
  <2>6. NumberInv'
    <3> SUFFICES ASSUME NEW x \in Workers
                 PROVE  /\ number'[x] <= NumberMax + 1 + epoch
                        /\ ~Spinning(x)' /\ number'[x] > NumberMax /\ clock <= timestamp[x]
                              => number'[x] <= NumberMax + epoch
      BY DEF NumberInv
    <3>1. CASE x = w[c]
      <4>1. number'[x] > NumberMax => Spinning(x)'
        BY <2>3, <3>1 DEF Spinning, TypeOK
      <4> QED BY <2>1, <2>2, <2>3, <3>1, <4>1 DEF TypeOK
    <3>2. CASE x # w[c]
      <4>1. number'[x] = number[x]
        BY <3>2 DEF TypeOK
      <4>2. Spinning(x) => Spinning(x)'
        BY <3>2 DEF Spinning, TypeOK
      <4> QED BY <4>1, <4>2 DEF NumberInv, TypeOK
    <3> QED BY <3>1, <3>2
  <2>7. ReadingInv'
    BY DEF ReadingInv, TypeOK
  <2> QED BY <2>4, <2>5, <2>6, <2>7
<1>3. ASSUME NEW c \in Callers, OtherMillisecond(c) PROVE TypeInv'
  <2> USE <1>3 DEF OtherMillisecond, ReadClock
  <2>1. w[c] \in Workers
    BY DEF LockInv
  <2>2. TypeOK'
    BY <2>1 DEF TypeOK
  <2>3. LockInv'
    BY DEF LockInv, TypeOK
  <2>4. NumberInv'
    <3> SUFFICES ASSUME NEW x \in Workers, x # w[c]
                 PROVE  /\ number'[x] <= NumberMax + 1 + epoch
                        /\ ~Spinning(x)' /\ number'[x] > NumberMax /\ clock <= timestamp'[x]
                              => number'[x] <= NumberMax + epoch
      BY <2>1 DEF NumberInv, TypeOK
    <3>1. Spinning(x) => Spinning(x)'
      BY DEF Spinning, TypeOK
    <3> QED BY <3>1 DEF NumberInv, TypeOK
  <2>5. ReadingInv'
    BY DEF ReadingInv, TypeOK
  <2> QED BY <2>2, <2>3, <2>4, <2>5
<1>4. ASSUME NEW c \in Callers, Spin(c) PROVE TypeInv'
  <2> USE <1>4 DEF Spin, ReadClock
  <2>1. TypeOK'
    BY DEF TypeOK
  <2>2. LockInv'
    BY DEF LockInv, TypeOK
  <2>3. NumberInv'
    <3> SUFFICES ASSUME NEW x \in Workers, ~Spinning(x)', clock <= timestamp[x]
                 PROVE  ~Spinning(x)
      BY DEF NumberInv
    <3> QED BY DEF Spinning, TypeOK
  <2>4. ReadingInv'
    BY DEF ReadingInv, TypeOK
  <2> QED BY <2>1, <2>2, <2>3, <2>4
<1>5. ASSUME NEW c \in Callers, Emit(c) PROVE TypeInv'
  <2> USE <1>5 DEF Emit
  <2>1. w[c] \in Workers /\ served[w[c]] + 1 \in Nat
    BY EmitType
  <2>3. issued' \subseteq Records
    BY EmitType DEF TypeOK
  <2>4. TypeOK'
    <3>1. mu' \in [Workers -> Callers \cup {NoCaller}]
      BY <2>1 DEF TypeOK
    <3>1a. served' \in [Workers -> Nat]
      <4>1. served' = [served EXCEPT ![w[c]] = served[w[c]] + 1]
        OBVIOUS
      <4> QED BY <2>1, <4>1 DEF TypeOK
    <3>2. pc' \in [Callers -> {"idle", "locked", "spin", "emit"}]
      BY DEF TypeOK
    <3>3. w' \in [Callers -> Workers \cup {NoWorker}]
      BY DEF TypeOK
    <3>4. now' \in [Callers -> 0..MaxClock] /\ at' \in [Callers -> 0..MaxEpoch]
      BY DEF TypeOK
    <3> QED BY <2>3, <3>1, <3>1a, <3>2, <3>3, <3>4 DEF TypeOK
  <2>5. LockInv'
    BY DEF LockInv, TypeOK, NoWorker
  <2>6. NumberInv'
    <3>1. ASSUME NEW x \in Workers PROVE Spinning(x) => Spinning(x)'
      BY <2>1 DEF Spinning, TypeOK
    <3> QED BY <3>1 DEF NumberInv
  <2>7. ReadingInv'
    BY DEF ReadingInv, TypeOK
  <2> QED BY <2>4, <2>5, <2>6, <2>7
<1>6. CASE Tick
  <2> USE <1>6 DEF Tick
  <2>1. TypeOK'
    BY DEF TypeOK
  <2>2. LockInv' /\ ReadingInv'
    BY DEF LockInv, ReadingInv
  <2>3. NumberInv'
    BY DEF NumberInv, TypeOK, Spinning
  <2> QED BY <2>1, <2>2, <2>3
<1>7. CASE StepBack
  <2> USE <1>7 DEF StepBack
  <2>1. TypeOK'
    BY DEF TypeOK
  <2>2. LockInv' /\ ReadingInv'
    BY DEF LockInv, ReadingInv, TypeOK
  <2>3. NumberInv'
    BY DEF NumberInv, TypeOK, Spinning
  <2> QED BY <2>1, <2>2, <2>3
<1>8. CASE UNCHANGED vars
  BY <1>8 DEF vars, TypeOK, LockInv, NumberInv, ReadingInv, Spinning
<1> QED BY <1>1, <1>2, <1>3, <1>4, <1>5, <1>6, <1>7, <1>8 DEF Next, GetId

\* In every reachable state the variables have their types; in particular an
\* overflowing number reaches only bit 0 of the worker field of an ID.
THEOREM TypeCorrect == Spec => []TypeOK
<1>1. Spec => []TypeInv
  BY TypeInit, TypeStep, PTL DEF Spec
<1> QED BY <1>1, PTL DEF TypeInv

-----------------------------------------------------------------------------
(***************************************************************************)
(* IDs of one worker are sorted by time.  The clock of the current epoch   *)
(* is an upper bound of the epoch's IDs, and so is the reading of a caller *)
(* about to issue one, for the IDs of its worker and epoch.                *)
(***************************************************************************)
IssuedInv ==
    \A r \in issued :
        /\ r.rank <= served[r.worker]
        /\ r.epoch <= epoch
        /\ r.epoch = epoch => r.t <= clock

ReaderInv ==
    \A c \in Callers :
        pc[c] = "emit" =>
            /\ at[c] = epoch => now[c] <= clock
            /\ \A r \in issued :
                   r.worker = w[c] /\ r.epoch = at[c] => r.t <= now[c]

OrderInv == IssuedInv /\ ReaderInv /\ TimeOrdered

LEMMA IssuedType ==
    ASSUME TypeOK, NEW r \in issued
    PROVE  /\ r.worker \in Workers /\ r.rank \in Nat /\ r.epoch \in Nat
           /\ r.t \in Nat /\ r.seq \in Nat /\ served[r.worker] \in Nat
BY DEF TypeOK, Records

LEMMA StateType ==
    ASSUME TypeOK
    PROVE  /\ clock \in Nat /\ epoch \in Nat
           /\ \A c \in Callers : now[c] \in Nat /\ at[c] \in Nat
           /\ \A x \in Workers : timestamp[x] \in Nat /\ number[x] \in Nat
                                /\ served[x] \in Nat
BY ConstantsAssumption DEF TypeOK

\* A caller that reads the clock reads a bound of its epoch's IDs.
LEMMA ReaderStep ==
    ASSUME TypeInv, OrderInv, NEW c \in Callers, ReadClock(c),
           pc' \in [Callers -> {"idle", "locked", "spin", "emit"}],
           \A d \in Callers \ {c} : pc'[d] = pc[d],
           UNCHANGED <<clock, epoch, w, history>>
    PROVE  OrderInv'
<1> USE DEF TypeInv, OrderInv, history
<1>1. IssuedInv' /\ TimeOrdered'
  BY DEF IssuedInv, TimeOrdered
<1>2. ASSUME NEW d \in Callers, pc'[d] = "emit"
      PROVE  /\ at'[d] = epoch => now'[d] <= clock
             /\ \A r \in issued :
                   r.worker = w[d] /\ r.epoch = at'[d] => r.t <= now'[d]
  <2>1. CASE d = c
    <3>1. now'[c] = clock /\ at'[c] = epoch
      BY DEF ReadClock, TypeOK
    <3> QED BY <2>1, <3>1, StateType DEF IssuedInv
  <2>2. CASE d # c
    <3>1. now'[d] = now[d] /\ at'[d] = at[d] /\ pc[d] = "emit"
      BY <1>2, <2>2 DEF ReadClock, TypeOK
    <3> QED BY <3>1 DEF ReaderInv
  <2> QED BY <2>1, <2>2
<1>3. ReaderInv'
  BY <1>2 DEF ReaderInv
<1> QED BY <1>1, <1>3

LEMMA OrderInit == Init => OrderInv
BY DEF Init, OrderInv, IssuedInv, ReaderInv, TimeOrdered

LEMMA OrderStep == TypeInv /\ OrderInv /\ [Next]_vars => OrderInv'
<1> SUFFICES ASSUME TypeInv, OrderInv, [Next]_vars PROVE OrderInv'
  OBVIOUS
<1> USE DEF objects, locals, history
<1>1. ASSUME NEW c \in Callers, NEW x \in Workers, Lock(c, x)
      PROVE  OrderInv'
  <2>1. IssuedInv' /\ TimeOrdered'
    BY <1>1 DEF Lock, OrderInv, IssuedInv, TimeOrdered
  <2>2. \A d \in Callers : pc'[d] = "emit" => pc[d] = "emit" /\ w'[d] = w[d]
    BY <1>1 DEF Lock, TypeInv, TypeOK
  <2>3. ReaderInv'
    BY <1>1, <2>2 DEF Lock, OrderInv, ReaderInv
  <2> QED BY <2>1, <2>3 DEF OrderInv
<1>2. ASSUME NEW c \in Callers, SameMillisecond(c) PROVE OrderInv'
  BY <1>2, ReaderStep DEF SameMillisecond, TypeInv, TypeOK
<1>3. ASSUME NEW c \in Callers, OtherMillisecond(c) PROVE OrderInv'
  BY <1>3, ReaderStep DEF OtherMillisecond, TypeInv, TypeOK
<1>4. ASSUME NEW c \in Callers, Spin(c) PROVE OrderInv'
  BY <1>4, ReaderStep DEF Spin, TypeInv, TypeOK
<1>5. ASSUME NEW c \in Callers, Emit(c) PROVE OrderInv'
  <2> DEFINE n == Ticket(c)
  <2>1. /\ n.worker = w[c] /\ n.rank = served[w[c]] + 1 /\ n.epoch = at[c]
        /\ n.t = now[c] /\ w[c] \in Workers
    BY <1>5, EmitType DEF Emit, Ticket
  <2>2. /\ issued' = issued \cup {n} /\ epoch' = epoch /\ clock' = clock
        /\ served' = [served EXCEPT ![w[c]] = @ + 1]
    BY <1>5 DEF Emit
  <2> HIDE DEF n
  <2>3. /\ served'[w[c]] = served[w[c]] + 1
        /\ \A x \in Workers : served[x] <= served'[x]
    BY <2>1, <2>2, StateType DEF TypeInv, TypeOK
  <2>4. /\ at[c] <= epoch /\ (at[c] = epoch => now[c] <= clock)
        /\ \A r \in issued : r.worker = w[c] /\ r.epoch = at[c] => r.t <= now[c]
    BY <1>5 DEF Emit, TypeInv, ReadingInv, OrderInv, ReaderInv
  <2>5. \A r \in issued : r.rank <= served'[r.worker]
    <3> TAKE r \in issued
    <3>1. r.rank <= served[r.worker] /\ r.rank \in Nat /\ r.worker \in Workers
      BY IssuedType DEF OrderInv, IssuedInv, TypeInv
    <3>2. served[r.worker] <= served'[r.worker] /\ served[r.worker] \in Nat
          /\ served'[r.worker] \in Nat
      BY <2>2, <2>3, <3>1, StateType DEF TypeInv, TypeOK
    <3> QED BY <3>1, <3>2
  <2>6. IssuedInv'
    <3>1. n.rank <= served'[n.worker]
      BY <2>1, <2>3, StateType DEF TypeInv
    <3>2. n.epoch <= epoch /\ (n.epoch = epoch => n.t <= clock)
      BY <2>1, <2>4
    <3> QED BY <2>2, <2>5, <3>1, <3>2 DEF OrderInv, IssuedInv
  <2>7. TimeOrdered'
    <3>1. \A r \in issued : ~(r.worker = n.worker /\ n.rank < r.rank)
      BY <2>1, IssuedType DEF OrderInv, IssuedInv, TypeInv
    <3>2. \A r \in issued : r.worker = n.worker /\ r.epoch = n.epoch => r.t <= n.t
      BY <2>1, <2>4
    <3>3. ~(n.rank < n.rank)
      BY <2>1, StateType DEF TypeInv
    <3> QED BY <2>2, <3>1, <3>2, <3>3 DEF OrderInv, TimeOrdered
  <2>8. ReaderInv'
    <3> SUFFICES ASSUME NEW d \in Callers, pc'[d] = "emit"
                 PROVE  /\ at'[d] = epoch => now'[d] <= clock
                        /\ \A r \in issued' :
                             r.worker = w'[d] /\ r.epoch = at'[d] => r.t <= now'[d]
      BY <2>2 DEF ReaderInv
    <3>1. /\ d # c /\ pc[d] = "emit"
          /\ now'[d] = now[d] /\ at'[d] = at[d] /\ w'[d] = w[d]
      BY <1>5 DEF Emit, TypeInv, TypeOK
    <3>2. n.worker # w[d]
      BY <1>5, <2>1, <3>1, Exclusion DEF Emit, TypeInv
    <3> QED BY <2>2, <3>1, <3>2 DEF OrderInv, ReaderInv
  <2> QED BY <2>6, <2>7, <2>8 DEF OrderInv
<1>6. CASE Tick
  <2>1. /\ clock' = clock + 1 /\ clock \in Nat
        /\ UNCHANGED <<epoch, pc, w, now, at, served, issued>>
    BY <1>6, StateType DEF Tick, TypeInv
  <2>2. IssuedInv' /\ TimeOrdered'
    BY <2>1, IssuedType DEF OrderInv, IssuedInv, TimeOrdered, TypeInv
  <2>3. ReaderInv'
    BY <2>1, StateType DEF OrderInv, ReaderInv, TypeInv
  <2> QED BY <2>2, <2>3 DEF OrderInv
<1>7. CASE StepBack
  <2>1. /\ epoch' = epoch + 1 /\ epoch \in Nat
        /\ UNCHANGED <<pc, w, now, at, served, issued>>
    BY <1>7, StateType DEF StepBack, TypeInv
  <2>2. IssuedInv' /\ TimeOrdered'
    BY <2>1, IssuedType DEF OrderInv, IssuedInv, TimeOrdered, TypeInv
  <2>3. ReaderInv'
    BY <2>1, StateType DEF OrderInv, ReaderInv, TypeInv, ReadingInv
  <2> QED BY <2>2, <2>3 DEF OrderInv
<1>8. CASE UNCHANGED vars
  BY <1>8 DEF vars, OrderInv, IssuedInv, ReaderInv, TimeOrdered
<1> QED BY <1>1, <1>2, <1>3, <1>4, <1>5, <1>6, <1>7, <1>8 DEF Next, GetId

\* Whatever the interleaving of callers, clock ticks and clock steps, the IDs
\* of one worker and epoch are issued in the order of their times.
THEOREM TimeSorted == Spec => []TimeOrdered
<1>1. Spec => [](TypeInv /\ OrderInv)
  BY TypeInit, TypeStep, OrderInit, OrderStep, PTL DEF Spec
<1> QED BY <1>1, PTL DEF OrderInv

-----------------------------------------------------------------------------
(***************************************************************************)
(* Uniqueness, when every worker id is even: the bit that an overflowing   *)
(* number sets in the worker field is then a bit no worker uses.  An ID of *)
(* the current epoch that kept its worker's field lies in a slot (time and *)
(* number) the worker has already used up; an overflowed ID is later than  *)
(* all the IDs of its worker and epoch that went before it.                *)
(***************************************************************************)
EvenWorkers == \A x \in Workers : x % 2 = 0

FieldInv == \A r \in issued : r.field \in {r.worker, r.worker + 1}

SlotInv ==
    \A r \in issued :
        LET x == r.worker
        IN  r.epoch = epoch =>
              /\ timestamp[x] <= clock
              /\ r.field = x =>
                    /\ r.t <= timestamp[x]
                    /\ r.t = timestamp[x] => r.seq <= number[x]

\* Reader c is past every ID of its worker and of the epoch it read in.
Fresh(c) ==
    LET x == w[c]
    IN  /\ number[x] <= NumberMax => now[c] = timestamp[x]
        /\ number[x] > NumberMax => now[c] > timestamp[x]
        /\ \A r \in issued :
              r.worker = x /\ r.epoch = at[c] =>
                /\ number[x] > NumberMax => r.t < now[c]
                /\ number[x] <= NumberMax /\ r.t = now[c] /\ r.field = x
                      => r.seq < number[x]

\* Spinner c waits out the last millisecond that its worker has used.
Behind(c) ==
    LET x == w[c]
    IN  /\ number[x] > NumberMax
        /\ \A r \in issued :
              r.worker = x /\ r.epoch = epoch => r.t <= timestamp[x]

CallerInv ==
    \A c \in Callers : /\ pc[c] = "emit" => Fresh(c)
                       /\ pc[c] = "spin" => Behind(c)

UniqueInv == FieldInv /\ SlotInv /\ CallerInv /\ UniqueInEpoch

LEMMA EvenOrOne ==
    ASSUME EvenWorkers, NEW x \in Workers
    PROVE  x \in Nat /\ OrOne(x) = x + 1
BY ConstantsAssumption DEF EvenWorkers, OrOne, WorkerMax

LEMMA FieldsApart ==
    ASSUME EvenWorkers, NEW x \in Workers, NEW y \in Workers, x # y,
           NEW f \in {x, x + 1}
    PROVE  f \notin {y, y + 1}
<1>1. x \in Nat /\ y \in Nat /\ x % 2 = 0 /\ y % 2 = 0
  BY ConstantsAssumption DEF EvenWorkers, WorkerMax
<1> QED BY <1>1

LEMMA TicketFields ==
    ASSUME TypeInv, EvenWorkers, NEW c \in Callers, pc[c] = "emit"
    PROVE  LET x == w[c]  n == Ticket(c)
           IN  /\ n.worker = x /\ n.epoch = at[c] /\ n.t = now[c]
               /\ x \in Workers /\ x \in Nat
               /\ number[x] <= NumberMax => n.field = x /\ n.seq = number[x]
               /\ number[x] > NumberMax => n.field = x + 1
<1>1. w[c] \in Workers
  BY EmitType
<1>2. w[c] \in Nat /\ OrOne(w[c]) = w[c] + 1
  BY <1>1, EvenOrOne
<1>3. number[w[c]] \in Nat /\ NumberMax \in Nat
  BY <1>1, StateType, ConstantsAssumption DEF TypeInv
<1> QED BY <1>1, <1>2, <1>3 DEF Ticket, ID

\* An issued ID, its worker and the clock.
LEMMA IssuedFacts ==
    ASSUME TypeInv, OrderInv, NEW r \in issued
    PROVE  /\ r.worker \in Workers /\ r.epoch \in Nat /\ r.t \in Nat /\ r.seq \in Nat
           /\ timestamp[r.worker] \in Nat /\ number[r.worker] \in Nat
           /\ r.epoch <= epoch
           /\ r.epoch = epoch => r.t <= clock
<1>1. r.worker \in Workers /\ r.epoch \in Nat /\ r.t \in Nat /\ r.seq \in Nat
  BY IssuedType DEF TypeInv
<1>2. timestamp[r.worker] \in Nat /\ number[r.worker] \in Nat
  BY <1>1, StateType DEF TypeInv
<1> QED BY <1>1, <1>2 DEF OrderInv, IssuedInv

LEMMA SlotFacts ==
    ASSUME UniqueInv, NEW r \in issued, r.epoch = epoch
    PROVE  /\ timestamp[r.worker] <= clock
           /\ r.field = r.worker =>
                /\ r.t <= timestamp[r.worker]
                /\ r.t = timestamp[r.worker] => r.seq <= number[r.worker]
BY DEF UniqueInv, SlotInv

LEMMA UniqueInit == Init => UniqueInv
BY DEF Init, UniqueInv, FieldInv, SlotInv, CallerInv, UniqueInEpoch

\* A step of caller c leaves what the other callers rely on alone.
LEMMA OtherCaller ==
    ASSUME TypeInv, CallerInv, NEW c \in Callers, NEW d \in Callers, d # c,
           pc[c] # "idle",
           pc'[d] = pc[d], w'[d] = w[d], now'[d] = now[d], at'[d] = at[d],
           epoch' = epoch,
           \A x \in Workers : x # w[c] =>
                timestamp'[x] = timestamp[x] /\ number'[x] = number[x],
           \A r \in issued' : r \in issued \/ r.worker = w[c]
    PROVE  /\ pc'[d] = "emit" => Fresh(d)'
           /\ pc'[d] = "spin" => Behind(d)'
<1> SUFFICES ASSUME pc[d] \in {"emit", "spin"}
             PROVE  (pc[d] = "emit" => Fresh(d)') /\ (pc[d] = "spin" => Behind(d)')
  OBVIOUS
<1>1. w[d] # w[c] /\ w[d] \in Workers
  BY Exclusion DEF TypeInv, LockInv
<1>2. /\ timestamp'[w[d]] = timestamp[w[d]] /\ number'[w[d]] = number[w[d]]
      /\ \A r \in issued' : r.worker = w[d] => r \in issued
  BY <1>1
<1>3. CASE pc[d] = "emit"
  BY <1>2, <1>3 DEF CallerInv, Fresh
<1>4. CASE pc[d] = "spin"
  BY <1>2, <1>4 DEF CallerInv, Behind
<1> QED BY <1>3, <1>4

LEMMA UniqueStep ==
    EvenWorkers /\ TypeInv /\ OrderInv /\ UniqueInv /\ [Next]_vars => UniqueInv'
<1> SUFFICES ASSUME EvenWorkers, TypeInv, OrderInv, UniqueInv, [Next]_vars
             PROVE  UniqueInv'
  OBVIOUS
<1> USE DEF objects, locals, history
<1>a. /\ clock \in Nat /\ epoch \in Nat /\ NumberMax \in Nat
      /\ \A c \in Callers : now[c] \in Nat /\ at[c] \in Nat
      /\ \A x \in Workers : timestamp[x] \in Nat /\ number[x] \in Nat
  BY StateType, ConstantsAssumption DEF TypeInv
<1>b. \A r \in issued : /\ r.worker \in Workers /\ r.epoch \in Nat
                         /\ r.t \in Nat /\ r.seq \in Nat
                         /\ r.epoch <= epoch
                         /\ r.epoch = epoch => r.t <= clock
  BY IssuedType DEF TypeInv, OrderInv, IssuedInv
<1>1. ASSUME NEW c \in Callers, NEW x \in Workers, Lock(c, x)
      PROVE  UniqueInv'
  <2>1. FieldInv' /\ SlotInv' /\ UniqueInEpoch'
    BY <1>1 DEF Lock, UniqueInv, FieldInv, SlotInv, UniqueInEpoch
  <2>2. \A d \in Callers : pc'[d] \in {"emit", "spin"} => pc'[d] = pc[d] /\ w'[d] = w[d]
    BY <1>1 DEF Lock, TypeInv, TypeOK
  <2>3. CallerInv'
    BY <1>1, <2>2 DEF Lock, UniqueInv, CallerInv, Fresh, Behind
  <2> QED BY <2>1, <2>3 DEF UniqueInv
<1>2. ASSUME NEW c \in Callers, SameMillisecond(c) PROVE UniqueInv'
  <2> DEFINE x == w[c]
  <2>1. /\ x \in Workers /\ timestamp[x] = clock /\ pc[c] = "locked"
        /\ number' = [number EXCEPT ![x] = number[x] + 1]
        /\ UNCHANGED <<clock, epoch, timestamp, w, issued>>
    BY <1>2 DEF SameMillisecond, TypeInv, LockInv
  <2>2. /\ now'[c] = clock /\ at'[c] = epoch /\ number'[x] = number[x] + 1
        /\ pc'[c] = IF number[x] + 1 > NumberMax THEN "spin" ELSE "emit"
        /\ \A y \in Workers : y # x => number'[y] = number[y]
        /\ \A d \in Callers : d # c =>
              pc'[d] = pc[d] /\ now'[d] = now[d] /\ at'[d] = at[d]
    BY <1>2, <2>1 DEF SameMillisecond, ReadClock, TypeInv, TypeOK
  <2> HIDE DEF x
  <2>3. FieldInv' /\ UniqueInEpoch'
    BY <2>1 DEF UniqueInv, FieldInv, UniqueInEpoch
  <2>4. SlotInv'
    <3> SUFFICES ASSUME NEW r \in issued, r.epoch = epoch
                 PROVE  LET y == r.worker
                        IN  /\ timestamp[y] <= clock
                            /\ r.field = y =>
                                  /\ r.t <= timestamp[y]
                                  /\ r.t = timestamp[y] => r.seq <= number'[y]
      BY <2>1 DEF SlotInv
    <3>1. number'[r.worker] \in {number[r.worker], number[r.worker] + 1}
      BY <2>2, IssuedFacts
    <3> QED BY <3>1, IssuedFacts, SlotFacts
  <2>5. \A r \in issued : r.worker = x /\ r.epoch = epoch =>
           /\ r.t <= timestamp[x]
           /\ r.t = timestamp[x] /\ r.field = x => r.seq < number[x] + 1
    BY <2>1, IssuedFacts, SlotFacts
  <2>6. ASSUME NEW d \in Callers
        PROVE  (pc'[d] = "emit" => Fresh(d)') /\ (pc'[d] = "spin" => Behind(d)')
    <3>1. CASE d # c
      BY <2>1, <2>2, <3>1, OtherCaller DEF UniqueInv, x
    <3>2. CASE d = c /\ number[x] + 1 > NumberMax
      <4>1. Behind(c)'
        BY <2>1, <2>2, <2>5, <3>2 DEF Behind, x
      <4> QED BY <2>2, <3>2, <4>1
    <3>3. CASE d = c /\ number[x] + 1 <= NumberMax
      <4>1. Fresh(c)'
        BY <1>a, <2>1, <2>2, <2>5, <3>3 DEF Fresh, x
      <4> QED BY <1>a, <2>1, <2>2, <3>3, <4>1
    <3> QED BY <1>a, <2>1, <3>1, <3>2, <3>3
  <2> QED BY <2>3, <2>4, <2>6 DEF UniqueInv, CallerInv
<1>3. ASSUME NEW c \in Callers, OtherMillisecond(c) PROVE UniqueInv'
  <2> DEFINE x == w[c]
  <2>1. /\ x \in Workers /\ timestamp[x] # clock /\ pc[c] = "locked"
        /\ number' = [number EXCEPT ![x] = 0]
        /\ timestamp' = [timestamp EXCEPT ![x] = clock]
        /\ UNCHANGED <<clock, epoch, w, issued>>
    BY <1>3 DEF OtherMillisecond, TypeInv, LockInv
  <2>2. /\ now'[c] = clock /\ at'[c] = epoch /\ pc'[c] = "emit"
        /\ number'[x] = 0 /\ timestamp'[x] = clock
        /\ \A y \in Workers : y # x =>
              number'[y] = number[y] /\ timestamp'[y] = timestamp[y]
        /\ \A d \in Callers : d # c =>
              pc'[d] = pc[d] /\ now'[d] = now[d] /\ at'[d] = at[d]
    BY <1>3, <2>1 DEF OtherMillisecond, ReadClock, TypeInv, TypeOK
  <2> HIDE DEF x
  <2>3. FieldInv' /\ UniqueInEpoch'
    BY <2>1 DEF UniqueInv, FieldInv, UniqueInEpoch
  <2>4. \A r \in issued : r.worker = x /\ r.epoch = epoch /\ r.field = x => r.t < clock
    <3> SUFFICES ASSUME NEW r \in issued, r.worker = x, r.epoch = epoch, r.field = x
                 PROVE  r.t < clock
      OBVIOUS
    <3>1. r.t \in Nat /\ timestamp[x] \in Nat /\ r.t <= timestamp[x] /\ timestamp[x] <= clock
      BY IssuedFacts, SlotFacts
    <3> QED BY <1>a, <2>1, <3>1
  <2>5. SlotInv'
    <3> SUFFICES ASSUME NEW r \in issued, r.epoch = epoch
                 PROVE  LET y == r.worker
                        IN  /\ timestamp'[y] <= clock
                            /\ r.field = y =>
                                  /\ r.t <= timestamp'[y]
                                  /\ r.t = timestamp'[y] => r.seq <= number'[y]
      BY <2>1 DEF SlotInv
    <3>1. CASE r.worker = x
      <4>1. r.field = r.worker => r.t < clock
        BY <2>4, <3>1
      <4> QED BY <1>a, <2>2, <3>1, <4>1, IssuedFacts
    <3>2. CASE r.worker # x
      <4>1. timestamp'[r.worker] = timestamp[r.worker] /\ number'[r.worker] = number[r.worker]
        BY <2>2, <3>2, IssuedFacts
      <4> QED BY <4>1, SlotFacts
    <3> QED BY <3>1, <3>2
  <2>6. ASSUME NEW d \in Callers
        PROVE  (pc'[d] = "emit" => Fresh(d)') /\ (pc'[d] = "spin" => Behind(d)')
    <3>1. CASE d # c
      BY <2>1, <2>2, <3>1, OtherCaller DEF UniqueInv, x
    <3>2. CASE d = c
      <4>1. Fresh(c)'
        BY <1>a, <1>b, <2>1, <2>2, <2>4 DEF Fresh, x
      <4> QED BY <2>2, <3>2, <4>1
    <3> QED BY <3>1, <3>2
  <2> QED BY <2>3, <2>5, <2>6 DEF UniqueInv, CallerInv
<1>4. ASSUME NEW c \in Callers, Spin(c) PROVE UniqueInv'
  <2> DEFINE x == w[c]
  <2>1. /\ x \in Workers /\ pc[c] = "spin"
        /\ UNCHANGED <<clock, epoch, timestamp, number, w, issued>>
        /\ now'[c] = clock /\ at'[c] = epoch
        /\ pc'[c] = IF clock <= timestamp[x] THEN "spin" ELSE "emit"
        /\ \A d \in Callers : d # c =>
              pc'[d] = pc[d] /\ now'[d] = now[d] /\ at'[d] = at[d]
    BY <1>4 DEF Spin, ReadClock, TypeInv, TypeOK, LockInv
  <2>2. Behind(c)
    BY <2>1 DEF UniqueInv, CallerInv
  <2> HIDE DEF x
  <2>3. FieldInv' /\ SlotInv' /\ UniqueInEpoch'
    BY <2>1 DEF UniqueInv, FieldInv, SlotInv, UniqueInEpoch
  <2>4. ASSUME NEW d \in Callers
        PROVE  (pc'[d] = "emit" => Fresh(d)') /\ (pc'[d] = "spin" => Behind(d)')
    <3>1. CASE d # c
      BY <2>1, <3>1, OtherCaller DEF UniqueInv, x
    <3>2. CASE d = c /\ clock <= timestamp[x]
      <4>1. Behind(c)'
        BY <2>1, <2>2 DEF Behind
      <4> QED BY <2>1, <3>2, <4>1
    <3>3. CASE d = c /\ clock > timestamp[x]
      <4>1. Fresh(c)'
        <5>1. \A r \in issued : r.worker = x /\ r.epoch = epoch => r.t < clock
          <6> SUFFICES ASSUME NEW r \in issued, r.worker = x, r.epoch = epoch
                       PROVE  r.t < clock
            OBVIOUS
          <6>1. r.t <= timestamp[x]
            BY <2>2 DEF Behind, x
          <6> QED BY <1>a, <2>1, <3>3, <6>1, IssuedFacts
        <5>2. number[x] > NumberMax /\ ~(number[x] <= NumberMax)
          BY <1>a, <2>1, <2>2 DEF Behind, x
        <5> QED BY <2>1, <3>3, <5>1, <5>2 DEF Fresh, x
      <4> QED BY <1>a, <2>1, <3>3, <4>1
    <3> QED BY <1>a, <2>1, <3>1, <3>2, <3>3
  <2> QED BY <2>3, <2>4 DEF UniqueInv, CallerInv
<1>5. ASSUME NEW c \in Callers, Emit(c) PROVE UniqueInv'
  <2> DEFINE x == w[c]
             n == Ticket(c)
  <2>1. /\ n.worker = x /\ n.epoch = at[c] /\ n.t = now[c]
        /\ x \in Workers /\ x \in Nat
        /\ number[x] <= NumberMax => n.field = x /\ n.seq = number[x]
        /\ number[x] > NumberMax => n.field = x + 1
    BY <1>5, TicketFields DEF Emit
  <2>2. /\ issued' = issued \cup {n}
        /\ UNCHANGED <<clock, epoch, timestamp, number>>
        /\ pc[c] = "emit" /\ pc'[c] = "idle"
        /\ \A d \in Callers : d # c =>
              pc'[d] = pc[d] /\ w'[d] = w[d] /\ now'[d] = now[d] /\ at'[d] = at[d]
    BY <1>5 DEF Emit, TypeInv, TypeOK
  <2>3. /\ number[x] <= NumberMax => now[c] = timestamp[x]
        /\ number[x] > NumberMax => now[c] > timestamp[x]
        /\ \A r \in issued :
              r.worker = x /\ r.epoch = at[c] =>
                /\ number[x] > NumberMax => r.t < now[c]
                /\ number[x] <= NumberMax /\ r.t = now[c] /\ r.field = x
                      => r.seq < number[x]
    BY <2>2 DEF UniqueInv, CallerInv, Fresh
  <2>4. at[c] = epoch => now[c] <= clock
    BY <2>2 DEF OrderInv, ReaderInv
  <2> HIDE DEF x, n
  <2>5. FieldInv'
    <3>1. n.field \in {x, x + 1}
      BY <1>a, <2>1
    <3> QED BY <2>1, <2>2, <3>1 DEF UniqueInv, FieldInv
  <2>6. SlotInv'
    <3>1. n.epoch = epoch =>
            /\ timestamp[x] <= clock
            /\ n.field = x => n.t <= timestamp[x] /\ (n.t = timestamp[x] => n.seq <= number[x])
      BY <1>a, <2>1, <2>3, <2>4
    <3> QED BY <2>1, <2>2, <3>1 DEF UniqueInv, SlotInv
  <2>7. UniqueInEpoch'
    <3>1. ASSUME NEW r \in issued, r.epoch = n.epoch PROVE ~SameID(r, n)
      <4>1. CASE r.worker # x
        <5>1. r.field \in {r.worker, r.worker + 1} /\ n.field \in {x, x + 1}
          BY <1>a, <2>1 DEF UniqueInv, FieldInv
        <5>2. r.field # n.field
          BY <2>1, <4>1, <5>1, FieldsApart, IssuedFacts
        <5> QED BY <5>2 DEF SameID
      <4>2. CASE r.worker = x
        BY <1>a, <1>b, <2>1, <2>3, <3>1, <4>2 DEF SameID
      <4> QED BY <4>1, <4>2
    <3>2. \A r \in issued : SameID(n, r) => SameID(r, n)
      BY DEF SameID
    <3>3. SameIssue(n, n)
      BY DEF SameIssue
    <3> QED BY <2>2, <3>1, <3>2, <3>3 DEF UniqueInv, UniqueInEpoch
  <2>8. ASSUME NEW d \in Callers
        PROVE  (pc'[d] = "emit" => Fresh(d)') /\ (pc'[d] = "spin" => Behind(d)')
    <3>1. CASE d # c
      BY <2>1, <2>2, <3>1, OtherCaller DEF UniqueInv, x
    <3>2. CASE d = c
      BY <2>2, <3>2
    <3> QED BY <3>1, <3>2
  <2> QED BY <2>5, <2>6, <2>7, <2>8 DEF UniqueInv, CallerInv
<1>6. CASE Tick
  <2>1. /\ clock' = clock + 1
        /\ UNCHANGED <<epoch, timestamp, number, pc, w, now, at, issued>>
    BY <1>6 DEF Tick
  <2>2. FieldInv' /\ UniqueInEpoch'
    BY <2>1 DEF UniqueInv, FieldInv, UniqueInEpoch
  <2>3. SlotInv'
    <3> SUFFICES ASSUME NEW r \in issued, r.epoch = epoch
                 PROVE  timestamp[r.worker] <= clock + 1
      BY <2>1, SlotFacts DEF SlotInv
    <3> QED BY <1>a, IssuedFacts, SlotFacts
  <2>4. CallerInv'
    BY <2>1 DEF UniqueInv, CallerInv, Fresh, Behind
  <2> QED BY <2>2, <2>3, <2>4 DEF UniqueInv
<1>7. CASE StepBack
  <2>1. /\ epoch' = epoch + 1
        /\ UNCHANGED <<timestamp, number, pc, w, now, at, issued>>
    BY <1>7 DEF StepBack
  <2>2. ASSUME NEW r \in issued PROVE r.epoch # epoch'
    BY <1>a, <2>1, IssuedFacts
  <2>3. FieldInv' /\ UniqueInEpoch' /\ SlotInv'
    BY <2>1, <2>2 DEF UniqueInv, FieldInv, UniqueInEpoch, SlotInv
  <2>4. CallerInv'
    BY <2>1, <2>2 DEF UniqueInv, CallerInv, Fresh, Behind
  <2> QED BY <2>3, <2>4 DEF UniqueInv
<1>8. CASE UNCHANGED vars
  BY <1>8 DEF vars, UniqueInv, FieldInv, SlotInv, CallerInv, Fresh, Behind, UniqueInEpoch
<1> QED BY <1>1, <1>2, <1>3, <1>4, <1>5, <1>6, <1>7, <1>8 DEF Next, GetId

\* When every worker id is even, no ID is issued twice between two steps back
\* of the clock, by one worker or by two, overflowed milliseconds included.
THEOREM Unique == ASSUME EvenWorkers PROVE Spec => []UniqueInEpoch
<1>1. Spec => [](TypeInv /\ OrderInv /\ UniqueInv)
  BY EvenWorkers, TypeInit, TypeStep, OrderInit, OrderStep, UniqueInit, UniqueStep, PTL
     DEF Spec
<1> QED BY <1>1, PTL DEF UniqueInv

-----------------------------------------------------------------------------
\* The registry of the workers, SnowTables.

\* The worker a table has or is just being given.
Final(t) == IF assigning = t THEN made ELSE workers[t]

\* The registry's mutex guards creation: an assignment is always that of its
\* one holder, of the newest worker and for a table that had none.
HolderInv ==
    /\ \A c \in Goroutines : step[c] \in {"recheck", "assign", "unlock"} => lock = c
    /\ \A c \in Goroutines : step[c] = "assign" =>
          /\ assigning = tableName[c] /\ worker[c] = made /\ made # Nil
          /\ workers[tableName[c]] = Nil
    /\ assigning # NoTable => \E c \in Goroutines : step[c] = "assign"

FinalInv ==
    \A t, u \in Tables : Final(t) = Final(u) /\ Final(t) # Nil => t = u

Past(c) == step[c] \in {"check", "lock", "recheck", "assign", "unlock", "use"}

\* A caller past its first read has no worker or its table's.
ReadInv ==
    \A c \in Goroutines : Past(c) /\ worker[c] # Nil => worker[c] = Final(tableName[c])

UsedInv == \A v \in used : v[2] # Nil /\ v[2] = Final(v[1])

TablesInv == TablesTypeOK /\ HolderInv /\ FinalInv /\ ReadInv /\ UsedInv

LEMMA TablesInvInit == TablesInit => TablesInv
<1> SUFFICES ASSUME TablesInit PROVE TablesInv
  OBVIOUS
<1> USE TablesAssumption DEF TablesInit, Nil
<1>1. TablesTypeOK
  <2>1. workers \in [Tables -> 0..made] /\ worker \in [Goroutines -> 0..made]
    OBVIOUS
  <2>2. used \subseteq Tables \X (1..made)
    OBVIOUS
  <2> QED BY <2>1, <2>2 DEF TablesTypeOK
<1>2. HolderInv /\ FinalInv /\ ReadInv /\ UsedInv
  BY DEF HolderInv, FinalInv, ReadInv, UsedInv, Past, Final
<1> QED BY <1>1, <1>2 DEF TablesInv

LEMMA OneWorkerInv == TablesInv => OneWorkerPerTable
<1> SUFFICES ASSUME TablesInv, NEW u \in used, NEW v \in used
             PROVE  u[1] = v[1] <=> u[2] = v[2]
  BY DEF OneWorkerPerTable
<1>1. u[1] \in Tables /\ v[1] \in Tables
  BY DEF TablesInv, TablesTypeOK
<1> QED BY <1>1 DEF TablesInv, UsedInv, FinalInv

\* Nobody assigns while a caller that found no entry holds the mutex.
LEMMA RecheckAlone ==
    ASSUME TablesInv, NEW c \in Goroutines, step[c] \in {"recheck", "unlock"}
    PROVE  assigning = NoTable
<1>1. \A d \in Goroutines : step[d] = "assign" => d = c
  BY DEF TablesInv, HolderInv
<1> QED BY <1>1 DEF TablesInv, HolderInv

\* A step that changes neither the registry nor the number of workers.
LEMMA NoAssignment ==
    ASSUME TablesInv, UNCHANGED <<workers, assigning, made>>
    PROVE  /\ \A t \in Tables : Final(t)' = Final(t)
           /\ FinalInv'
BY DEF TablesInv, FinalInv, Final

LEMMA EntryFinal ==
    ASSUME TablesInv, NEW c \in Goroutines, NEW o \in Entry(c), o # Nil
    PROVE  o = Final(tableName[c])
<1>1. tableName[c] \in Tables
  BY DEF TablesInv, TablesTypeOK
<1>2. CASE assigning = tableName[c]
  <2>1. PICK d \in Goroutines : step[d] = "assign"
    BY <1>1, <1>2, TablesAssumption DEF TablesInv, HolderInv
  <2>2. workers[tableName[c]] = Nil
    BY <1>2, <2>1 DEF TablesInv, HolderInv
  <2> QED BY <1>2, <2>2 DEF Entry, Final
<1>3. CASE assigning # tableName[c]
  BY <1>3 DEF Entry, Final
<1> QED BY <1>2, <1>3

LEMMA TablesTypeStep ==
    TablesInv /\ [TablesNext]_tablesVars => TablesTypeOK'
<1> SUFFICES ASSUME TablesInv, [TablesNext]_tablesVars PROVE TablesTypeOK'
  OBVIOUS
<1>1. TablesTypeOK
  BY DEF TablesInv
<1>h. HolderInv
  BY DEF TablesInv
<1> USE <1>1, TablesAssumption DEF TablesTypeOK, Goto
<1>2. ASSUME NEW c \in Goroutines, NEW t \in Tables, Call(c, t) PROVE TablesTypeOK'
  BY <1>2 DEF Call
<1>3. ASSUME NEW c \in Goroutines, Read(c) PROVE TablesTypeOK'
  <2>1. Entry(c) \subseteq 0..made
    BY DEF Entry
  <2> QED BY <1>3, <2>1 DEF Read
<1>4. ASSUME NEW c \in Goroutines, Check(c) \/ Throw(c) \/ LockTables(c)
                                 \/ Lost(c) \/ Unlock(c) \/ UseNil(c)
      PROVE  TablesTypeOK'
  BY <1>4, <1>h DEF Check, Throw, LockTables, Lost, Unlock, UseNil, HolderInv
<1>5. ASSUME NEW c \in Goroutines, Create(c) PROVE TablesTypeOK'
  BY <1>5, <1>h DEF Create, HolderInv
<1>6. ASSUME NEW c \in Goroutines, Assign(c) PROVE TablesTypeOK'
  BY <1>6, <1>h DEF Assign, HolderInv
<1>7. ASSUME NEW c \in Goroutines, Use(c) PROVE TablesTypeOK'
  BY <1>7 DEF Use, Nil
<1>8. CASE UNCHANGED tablesVars
  BY <1>8 DEF tablesVars
<1> QED BY <1>2, <1>3, <1>4, <1>5, <1>6, <1>7, <1>8 DEF TablesNext, GetIdForTable

LEMMA TablesStep ==
    TablesInv /\ [TablesNext]_tablesVars => TablesInv'
<1> SUFFICES ASSUME TablesInv, [TablesNext]_tablesVars PROVE TablesInv'
  OBVIOUS
<1> USE DEF Goto
<1>1. TablesTypeOK /\ TablesTypeOK'
  BY TablesTypeStep DEF TablesInv
<1>2. \A c \in Goroutines : tableName[c] \in Tables /\ tableName'[c] \in Tables
  BY <1>1 DEF TablesTypeOK
<1>3. ASSUME NEW c \in Goroutines, NEW t \in Tables, Call(c, t) PROVE TablesInv'
  <2>1. FinalInv' /\ \A u \in Tables : Final(u)' = Final(u)
    BY <1>3, NoAssignment DEF Call
  <2>2. HolderInv'
    BY <1>1, <1>3 DEF Call, TablesInv, HolderInv, TablesTypeOK
  <2>3. ReadInv' /\ UsedInv'
    BY <1>1, <1>2, <1>3, <2>1 DEF Call, TablesInv, ReadInv, UsedInv, Past, TablesTypeOK
  <2> QED BY <1>1, <2>1, <2>2, <2>3 DEF TablesInv
<1>4. ASSUME NEW c \in Goroutines, Read(c) PROVE TablesInv'
  <2>1. FinalInv' /\ \A u \in Tables : Final(u)' = Final(u)
    BY <1>4, NoAssignment DEF Read
  <2>2. HolderInv'
    BY <1>1, <1>4 DEF Read, TablesInv, HolderInv, TablesTypeOK
  <2>3. PICK o \in Entry(c) : worker' = [worker EXCEPT ![c] = o]
    BY <1>4 DEF Read
  <2>4. o # Nil => o = Final(tableName[c])
    BY EntryFinal
  <2>5. ReadInv' /\ UsedInv'
    BY <1>1, <1>2, <1>4, <2>1, <2>3, <2>4 DEF Read, TablesInv, ReadInv, UsedInv, Past, TablesTypeOK
  <2> QED BY <1>1, <2>1, <2>2, <2>5 DEF TablesInv
<1>5. ASSUME NEW c \in Goroutines, Check(c) \/ Throw(c) \/ LockTables(c)
                                 \/ Lost(c) \/ Unlock(c) \/ UseNil(c)
      PROVE  TablesInv'
  <2> USE DEF Check, Throw, LockTables, Lost, Unlock, UseNil
  <2>1. FinalInv' /\ \A u \in Tables : Final(u)' = Final(u)
    BY <1>5, NoAssignment
  <2>2. HolderInv'
    <3>1. CASE Check(c) \/ Throw(c) \/ UseNil(c) \/ Lost(c)
      BY <1>1, <3>1 DEF TablesInv, HolderInv, TablesTypeOK
    <3>2. CASE LockTables(c)
      BY <1>1, <3>2, TablesAssumption DEF TablesInv, HolderInv, TablesTypeOK
    <3>3. CASE Unlock(c)
      BY <1>1, <3>3 DEF TablesInv, HolderInv, TablesTypeOK
    <3> QED BY <1>5, <3>1, <3>2, <3>3
  <2>3. /\ UNCHANGED <<worker, tableName, used>>
        /\ \A d \in Goroutines : Past(d)' => Past(d)
    BY <1>1, <1>5 DEF Past, TablesTypeOK
  <2>4. ReadInv' /\ UsedInv'
    BY <1>1, <1>2, <2>1, <2>3 DEF TablesInv, ReadInv, UsedInv, TablesTypeOK
  <2> QED BY <1>1, <2>1, <2>2, <2>4 DEF TablesInv
<1>6. ASSUME NEW c \in Goroutines, Create(c) PROVE TablesInv'
  <2>0. PICK t \in Tables : t = tableName[c]
    BY <1>2
  <2>1. /\ assigning = NoTable /\ assigning' = t /\ made' = made + 1 /\ workers[t] = Nil
        /\ worker' = [worker EXCEPT ![c] = made + 1] /\ step[c] = "recheck"
        /\ step' = [step EXCEPT ![c] = "assign"] /\ UNCHANGED <<workers, lock, tableName, used>>
    BY <1>6, <2>0, RecheckAlone DEF Create
  <2>2. made \in Nat /\ made + 1 # Nil /\ \A u \in Tables : workers[u] # made + 1
    BY <1>1 DEF TablesTypeOK, Nil
  <2>3. /\ Final(t) = Nil /\ Final(t)' = made + 1
        /\ \A u \in Tables \ {t} : Final(u)' = Final(u) /\ Final(u) # made + 1
    BY <2>1, <2>2, TablesAssumption DEF Final
  <2>4. FinalInv'
    <3> SUFFICES ASSUME NEW u \in Tables, NEW v \in Tables,
                        Final(u)' = Final(v)', Final(u)' # Nil
                 PROVE  u = v
      BY DEF FinalInv, Nil
    <3>1. CASE u = t \/ v = t
      BY <2>3, <3>1
    <3>2. CASE u # t /\ v # t
      BY <2>3, <3>2 DEF TablesInv, FinalInv
    <3> QED BY <3>1, <3>2
  <2>5. HolderInv'
    <3>1. \A d \in Goroutines \ {c} : step'[d] = step[d] /\ step[d] \notin {"recheck", "assign", "unlock"}
      BY <1>1, <2>1 DEF TablesInv, HolderInv, TablesTypeOK
    <3>2. lock = c /\ step'[c] = "assign" /\ worker'[c] = made + 1
      BY <1>1, <2>1 DEF TablesInv, HolderInv, TablesTypeOK
    <3> QED BY <2>0, <2>1, <2>2, <3>1, <3>2 DEF HolderInv
  <2>6. ReadInv'
    <3> SUFFICES ASSUME NEW d \in Goroutines, Past(d)', worker'[d] # Nil
                 PROVE  worker'[d] = Final(tableName[d])'
      BY DEF ReadInv
    <3>1. CASE d = c
      BY <1>1, <2>0, <2>1, <2>3, <3>1 DEF TablesTypeOK
    <3>2. CASE d # c
      <4>1. Past(d) /\ worker'[d] = worker[d] /\ worker[d] # Nil
        BY <1>1, <2>1, <3>2 DEF Past, TablesTypeOK
      <4>2. worker[d] = Final(tableName[d])
        BY <4>1 DEF TablesInv, ReadInv
      <4>3. tableName[d] # t
        BY <2>3, <4>1, <4>2
      <4> QED BY <1>2, <2>1, <2>3, <4>1, <4>2, <4>3
    <3> QED BY <3>1, <3>2
  <2>7. UsedInv'
    <3> SUFFICES ASSUME NEW v \in used PROVE v[2] # Nil /\ v[2] = Final(v[1])'
      BY <2>1 DEF UsedInv
    <3>1. v[1] \in Tables /\ v[2] # Nil /\ v[2] = Final(v[1])
      BY <1>1 DEF TablesTypeOK, TablesInv, UsedInv
    <3> QED BY <2>3, <3>1
  <2> QED BY <1>1, <2>4, <2>5, <2>6, <2>7 DEF TablesInv
<1>7. ASSUME NEW c \in Goroutines, Assign(c) PROVE TablesInv'
  <2> DEFINE t == tableName[c]
  <2>1. /\ assigning = t /\ assigning' = NoTable /\ worker[c] = made /\ t \in Tables
        /\ workers' = [workers EXCEPT ![t] = made] /\ step[c] = "assign"
        /\ step' = [step EXCEPT ![c] = "unlock"] /\ lock = c
        /\ UNCHANGED <<lock, made, tableName, worker, used>>
    BY <1>2, <1>7 DEF Assign, TablesInv, HolderInv
  <2> HIDE DEF t
  <2>2. \A u \in Tables : Final(u)' = Final(u)
    BY <1>1, <2>1, TablesAssumption DEF Final, TablesTypeOK
  <2>3. FinalInv'
    BY <2>2 DEF TablesInv, FinalInv
  <2>4. HolderInv'
    <3>1. \A d \in Goroutines \ {c} : step'[d] = step[d] /\ step[d] \notin {"recheck", "assign", "unlock"}
      BY <1>1, <2>1 DEF TablesInv, HolderInv, TablesTypeOK
    <3>2. step'[c] = "unlock"
      BY <1>1, <2>1 DEF TablesTypeOK
    <3> QED BY <2>1, <3>1, <3>2 DEF HolderInv
  <2>5. ReadInv' /\ UsedInv'
    <3>1. \A d \in Goroutines : Past(d)' => Past(d)
      BY <1>1, <2>1 DEF Past, TablesTypeOK
    <3>2. \A v \in used : v[1] \in Tables
      BY <1>1 DEF TablesTypeOK
    <3> QED BY <1>2, <2>1, <2>2, <3>1, <3>2 DEF TablesInv, ReadInv, UsedInv
  <2> QED BY <1>1, <2>3, <2>4, <2>5 DEF TablesInv
<1>8. ASSUME NEW c \in Goroutines, Use(c) PROVE TablesInv'
  <2>1. FinalInv' /\ \A u \in Tables : Final(u)' = Final(u)
    BY <1>8, NoAssignment DEF Use
  <2>2. HolderInv'
    BY <1>1, <1>8 DEF Use, TablesInv, HolderInv, TablesTypeOK
  <2>3. worker[c] # Nil /\ worker[c] = Final(tableName[c])
    BY <1>8 DEF Use, TablesInv, ReadInv, Past
  <2>4. UsedInv'
    <3>1. \A v \in used : v[1] \in Tables
      BY <1>1 DEF TablesTypeOK
    <3> QED BY <1>2, <1>8, <2>1, <2>3, <3>1 DEF Use, TablesInv, UsedInv
  <2>5. ReadInv'
    <3>1. \A d \in Goroutines : Past(d)' => Past(d)
      BY <1>1, <1>8 DEF Use, Past, TablesTypeOK
    <3> QED BY <1>2, <1>8, <2>1, <3>1 DEF Use, TablesInv, ReadInv
  <2> QED BY <1>1, <2>1, <2>2, <2>4, <2>5 DEF TablesInv
<1>9. CASE UNCHANGED tablesVars
  <2>1. FinalInv' /\ \A u \in Tables : Final(u)' = Final(u)
    BY <1>9, NoAssignment DEF tablesVars
  <2>2. HolderInv'
    BY <1>9 DEF tablesVars, TablesInv, HolderInv
  <2>3. ReadInv' /\ UsedInv'
    BY <1>1, <1>2, <1>9, <2>1 DEF tablesVars, TablesInv, ReadInv, UsedInv, Past, TablesTypeOK
  <2> QED BY <1>1, <2>1, <2>2, <2>3 DEF TablesInv
<1> QED BY <1>3, <1>4, <1>5, <1>6, <1>7, <1>8, <1>9 DEF TablesNext, GetIdForTable

LEMMA TablesInvariance == TablesSpec => []TablesInv
BY TablesInvInit, TablesStep, PTL DEF TablesSpec

\* Type correctness: whatever worker is in the map, held by a caller or used is one
\* that was made, and the map is assigned by the holder of the mutex alone.
THEOREM TablesTypeCorrect == TablesSpec => []TablesTypeOK
<1>1. TablesInv => TablesTypeOK
  BY DEF TablesInv
<1> QED BY <1>1, TablesInvariance, PTL

\* However many callers race for the first IDs of a table, one worker serves it,
\* and serves no other table.
THEOREM WorkerIsUnique ==
    TablesSpec => []OneWorkerPerTable
BY TablesInvariance, OneWorkerInv, PTL
=============================================================================

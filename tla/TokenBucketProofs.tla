------------------------- MODULE TokenBucketProofs --------------------------
(***************************************************************************)
(* Proofs about TokenBucket, for every capacity, quantum, interval, number *)
(* of callers and order of calls.                                          *)
(***************************************************************************)
EXTENDS TokenBucket, SequenceTheorems, TLAPS

\* Available holds a tick that was the current one.
StaleInv == \A c \in Callers : pc[c] = "available" => until[c] <= tick

\* What was handed out since a grant, and what is still there, comes from the
\* full bucket of that moment and the ticks since.
LedgerInv ==
    \A j \in 1..Len(grants) :
        /\ grants[j].at <= tick
        /\ Taken - grants[j].total + grants[j].n + Level
              <= Capacity + Quantum * (tick - grants[j].at)

\* A grant that is not due yet is waited for no longer than it must be: one tick
\* earlier the bucket would still be overdrawn.
OwedInv ==
    \A j \in 1..Len(grants) :
        grants[j].ready > tick => Level + Quantum * (grants[j].ready - 1 - tick) < 0

Inv == TypeOK /\ StaleInv /\ LedgerInv /\ OwedInv /\ RateBound /\ ServedInOrder

Grants == [n : Nat \ {0}, at : Nat, ready : Nat, total : Nat]

-----------------------------------------------------------------------------
(* Arithmetic.                                                             *)

LEMMA RoundUp ==
    ASSUME NEW q \in Nat \ {0}, NEW x \in Nat
    PROVE  /\ (x + q - 1) \div q \in Nat
           /\ q * ((x + q - 1) \div q) >= x
           /\ q * ((x + q - 1) \div q - 1) < x
OBVIOUS

LEMMA Monotone ==
    ASSUME NEW q \in Nat \ {0}, NEW x \in Int, NEW y \in Int
    PROVE  x <= y <=> q * x <= q * y
OBVIOUS

\* T tokens handed out, t of them up to a grant of g at tick a; L is the level
\* and C the capacity, k the tick, n and r a new grant and its tick.
LEMMA RateArithmetic ==
    ASSUME NEW q \in Nat \ {0}, NEW T \in Int, NEW t \in Int, NEW g \in Int, NEW L \in Int,
           NEW C \in Int, NEW k \in Int, NEW a \in Int, NEW n \in Int, NEW r \in Int,
           T - t + g + L <= C + q * (k - a),
           L - n + q * (r - k) >= 0
    PROVE  T + n - t + g <= C + q * (r - a)
<1>1. q * (r - a) = q * (k - a) + q * (r - k)
  OBVIOUS
<1> DEFINE x == q * (k - a)
           y == q * (r - k)
<1>2. x \in Int /\ y \in Int
  OBVIOUS
<1> HIDE DEF x, y
<1> QED BY <1>1, <1>2 DEF x, y

LEMMA OrderArithmetic ==
    ASSUME NEW q \in Nat \ {0}, NEW L \in Int, NEW n \in Nat, NEW k \in Int,
           NEW o \in Int, NEW r \in Int,
           L + q * (o - 1 - k) < 0, L - n + q * (r - k) >= 0
    PROVE  o <= r
<1> DEFINE x == o - 1 - k
           y == r - k
<1>1. x \in Int /\ y \in Int /\ q * x \in Int /\ q * y \in Int
  OBVIOUS
<1>2. q * x < q * y
  <2> DEFINE u == q * x
             v == q * y
  <2> HIDE DEF u, v
  <2> QED BY <1>1 DEF u, v
<1> HIDE DEF x, y
<1>3. x < y
  BY <1>1, <1>2, Monotone
<1> QED BY <1>3 DEF x, y

-----------------------------------------------------------------------------
(* The level of the bucket.                                                *)

LEMMA AdjustedType ==
    ASSUME TypeOK, NEW u \in Nat
    PROVE  Adjusted(u) \in Int /\ Adjusted(u) <= Capacity
BY BucketAssumption DEF TypeOK, Adjusted, AtMost

LEMMA LevelType == TypeOK => Level \in Int /\ Level <= Capacity
BY AdjustedType DEF TypeOK, Level

\* Adjusting the bucket to a tick that is not in the future keeps its level.
LEMMA Adjust ==
    ASSUME TypeOK, NEW u \in Nat, u <= tick,
           tick' = tick, availableTokens' = Adjusted(u), latestTick' = u
    PROVE  Level' = Level
<1> DEFINE a == availableTokens
           l == latestTick
<1>1. /\ a \in Int /\ a <= Capacity /\ l \in Nat /\ tick \in Nat
      /\ Capacity \in Nat /\ Quantum \in Nat \ {0}
  BY BucketAssumption DEF TypeOK
<1>2. (u - l) * Quantum + (tick - u) * Quantum = (tick - l) * Quantum
  BY <1>1
<1>3. (tick - u) * Quantum >= 0
  BY <1>1
<1>4. Level' = IF Adjusted(u) >= Capacity THEN Adjusted(u)
               ELSE AtMost(Adjusted(u) + (tick - u) * Quantum, Capacity)
  BY DEF Level, Adjusted
<1>5. CASE a >= Capacity
  BY <1>1, <1>4, <1>5 DEF Level, Adjusted
<1>6. CASE a < Capacity /\ a + (u - l) * Quantum >= Capacity
  <2>1. Adjusted(u) = Capacity
    BY <1>1, <1>6 DEF Adjusted, AtMost
  <2>2. Level = Capacity
    BY <1>1, <1>2, <1>3, <1>6 DEF Level, Adjusted, AtMost
  <2> QED BY <1>1, <1>4, <2>1, <2>2
<1>7. CASE a < Capacity /\ a + (u - l) * Quantum < Capacity
  <2>1. Adjusted(u) = a + (u - l) * Quantum
    BY <1>1, <1>7 DEF Adjusted, AtMost
  <2>2. Level = AtMost(a + (tick - l) * Quantum, Capacity)
    BY <1>1, <1>7 DEF Level, Adjusted
  <2> QED BY <1>1, <1>2, <1>4, <1>7, <2>1, <2>2
<1> QED BY <1>1, <1>5, <1>6, <1>7

\* Taking n tokens lowers the level by n.
LEMMA Deduct ==
    ASSUME TypeOK, NEW n \in Nat \ {0},
           tick' = tick, availableTokens' = Level - n, latestTick' = tick
    PROVE  Level' = Level - n
<1>1. Level \in Int /\ Level - n < Capacity /\ tick \in Nat /\ Capacity \in Nat /\ Quantum \in Nat
  BY LevelType, BucketAssumption DEF TypeOK
<1>2. Level' = AtMost(Level - n + (tick - tick) * Quantum, Capacity)
  BY <1>1 DEF Level, Adjusted
<1> QED BY <1>1, <1>2 DEF AtMost

\* A tick adds the quantum, up to the capacity.
LEMMA Filled ==
    ASSUME TypeOK, tick' = tick + 1, UNCHANGED bucketVars
    PROVE  Level' = AtMost(Level + Quantum, Capacity)
<1> DEFINE a == availableTokens
           l == latestTick
<1>1. /\ a \in Int /\ a <= Capacity /\ l \in Nat /\ tick \in Nat
      /\ Capacity \in Nat /\ Quantum \in Nat \ {0}
  BY BucketAssumption DEF TypeOK
<1>2. (tick + 1 - l) * Quantum = (tick - l) * Quantum + Quantum
  BY <1>1
<1>3. Level' = IF a >= Capacity THEN a ELSE AtMost(a + (tick + 1 - l) * Quantum, Capacity)
  <2>1. availableTokens' = a /\ latestTick' = l
    BY DEF bucketVars
  <2> QED BY <1>1, <2>1 DEF Level, Adjusted, AtMost
<1>4. CASE a >= Capacity
  BY <1>1, <1>3, <1>4 DEF Level, Adjusted, AtMost
<1>5. CASE a < Capacity
  BY <1>1, <1>2, <1>3, <1>5 DEF Level, Adjusted, AtMost
<1> QED BY <1>1, <1>4, <1>5

-----------------------------------------------------------------------------
(* The kinds of steps.                                                     *)

\* A successful call: n tokens, for the start of tick r.
Grants1(n, r) ==
    /\ n \in Nat \ {0} /\ r \in Nat
    /\ availableTokens' = Level - n /\ latestTick' = tick
    /\ grants' = Grant(n, r)
    /\ UNCHANGED clockVars
    /\ \/ r = tick /\ n <= Level
       \/ /\ r > tick /\ n - Level <= Quantum * (r - tick)
          /\ n - Level > Quantum * (r - 1 - tick)

\* The bucket is adjusted, and nothing else.
Adjusts ==
    /\ Level' = Level /\ availableTokens' <= Capacity /\ availableTokens' \in Int
    /\ UNCHANGED <<clockVars, grants>>
    /\ latestTick' \in 0..tick

LEMMA TakeNowKind ==
    ASSUME TypeOK, NEW c \in Callers, NEW n \in Counts, TakeNow(c, n)
    PROVE  Grants1(n, tick)
BY BucketAssumption DEF TakeNow, Grants1, Level, TypeOK

LEMMA TakeLaterKind ==
    ASSUME TypeOK, NEW c \in Callers, NEW n \in Counts, NEW d \in MaxWaits, TakeLater(c, n, d)
    PROVE  Grants1(n, EndTick(n - Level))
<1> DEFINE m == n - Level
           k == (m + Quantum - 1) \div Quantum
<1>1. /\ m \in Nat \ {0} /\ n \in Nat \ {0} /\ tick \in Nat /\ Quantum \in Nat \ {0}
      /\ Level \in Int
  BY LevelType, BucketAssumption DEF TypeOK, TakeLater, Level
<1> HIDE DEF m
<1>2. k \in Nat /\ Quantum * k >= m /\ Quantum * (k - 1) < m
  BY <1>1, RoundUp
<1>3. EndTick(m) = tick + k
  BY DEF EndTick
<1> HIDE DEF k
<1>4. k > 0
  BY <1>1, <1>2
<1>5. /\ EndTick(m) \in Nat /\ EndTick(m) > tick
      /\ m <= Quantum * (EndTick(m) - tick) /\ m > Quantum * (EndTick(m) - 1 - tick)
  BY <1>1, <1>2, <1>3, <1>4
<1> QED BY <1>1, <1>5 DEF TakeLater, Grants1, Level, m

LEMMA TakeAvailableKind ==
    ASSUME TypeOK, NEW c \in Callers, NEW n \in Counts, TakeAvailable(c, n)
    PROVE  Grants1(AtMost(n, Level), tick) \/ Adjusts
<1>1. n \in Nat \ {0} /\ Level \in Int /\ Level <= Capacity /\ tick \in Nat
  BY LevelType, BucketAssumption DEF TypeOK
<1>2. CASE AtMost(n, Level) > 0
  BY <1>1, <1>2 DEF TakeAvailable, Grants1, Level, AtMost
<1>3. CASE ~(AtMost(n, Level) > 0)
  <2>1. /\ availableTokens' = Adjusted(tick) /\ latestTick' = tick
        /\ UNCHANGED <<clockVars, grants>>
    BY <1>3 DEF TakeAvailable, Level
  <2>2. Level' = Level
    BY <1>1, <2>1, Adjust DEF clockVars
  <2> QED BY <1>1, <2>1, <2>2 DEF Adjusts, Level
<1> QED BY <1>2, <1>3

LEMMA RefuseKind ==
    ASSUME TypeOK, NEW c \in Callers, NEW n \in Counts, NEW d \in MaxWaits, Refuse(c, n, d)
    PROVE  Adjusts
<1>1. Level \in Int /\ Level <= Capacity /\ tick \in Nat
  BY LevelType DEF TypeOK
<1>2. /\ availableTokens' = Adjusted(tick) /\ latestTick' = tick
      /\ UNCHANGED <<clockVars, grants>>
  BY DEF Refuse
<1>3. Level' = Level
  BY <1>1, <1>2, Adjust DEF clockVars
<1> QED BY <1>1, <1>2, <1>3 DEF Adjusts, Level

LEMMA AvailableLockedKind ==
    ASSUME TypeOK, StaleInv, NEW c \in Callers, AvailableLocked(c)
    PROVE  Adjusts
<1>1. until[c] \in Nat /\ until[c] <= tick /\ tick \in Nat
  BY DEF TypeOK, StaleInv, AvailableLocked
<1>2. /\ availableTokens' = Adjusted(until[c]) /\ latestTick' = until[c]
      /\ UNCHANGED <<clockVars, grants>>
  BY DEF AvailableLocked
<1>3. Level' = Level
  BY <1>1, <1>2, Adjust DEF clockVars
<1> QED BY <1>1, <1>2, <1>3, AdjustedType DEF Adjusts

LEMMA QuietKind ==
    ASSUME TypeOK, UNCHANGED <<clockVars, bucketVars, grants>>
    PROVE  Adjusts
BY DEF Adjusts, TypeOK, clockVars, bucketVars, Level, Adjusted

\* Every step is of one of three kinds.
LEMMA Kinds ==
    ASSUME TypeOK, StaleInv, [Next]_vars
    PROVE  \/ \E n, r \in Nat : Grants1(n, r)
           \/ Adjusts
           \/ Tick
<1>1. ASSUME NEW c \in Callers, Call(c)
      PROVE  Adjusts \/ \E n, r \in Nat : Grants1(n, r)
  <2>1. CASE \E n \in Counts : TakeNow(c, n)
    BY <2>1, TakeNowKind DEF Grants1
  <2>2. CASE \E n \in Counts : TakeAvailable(c, n)
    BY <2>2, TakeAvailableKind DEF Grants1
  <2>3. CASE \E n \in Counts, d \in MaxWaits : TakeLater(c, n, d)
    BY <2>3, TakeLaterKind DEF Grants1
  <2>4. CASE \E n \in Counts, d \in MaxWaits : Refuse(c, n, d)
    BY <2>4, RefuseKind
  <2>5. CASE Available(c) \/ Wake(c)
    BY <2>5, QuietKind DEF Available, Wake
  <2>6. CASE AvailableLocked(c)
    BY <2>6, AvailableLockedKind
  <2> QED BY <1>1, <2>1, <2>2, <2>3, <2>4, <2>5, <2>6 DEF Call
<1>2. CASE UNCHANGED vars
  BY <1>2, QuietKind DEF vars
<1> QED BY <1>1, <1>2 DEF Next

-----------------------------------------------------------------------------
(* Invariance.                                                             *)

LEMMA InvInit == Init => Inv
<1> SUFFICES ASSUME Init PROVE Inv
  OBVIOUS
<1>1. TypeOK
  BY BucketAssumption DEF Init, TypeOK
<1>2. 1..Len(grants) = {}
  BY DEF Init
<1> QED BY <1>1, <1>2 DEF Init, Inv, StaleInv, LedgerInv, OwedInv, RateBound, ServedInOrder

LEMMA TakenType == TypeOK => Taken \in Nat
<1> SUFFICES ASSUME TypeOK, grants # <<>> PROVE grants[Len(grants)].total \in Nat
  BY DEF Taken
<1>1. grants \in Seq(Grants)
  BY DEF TypeOK, Grants
<1>2. Len(grants) \in 1..Len(grants)
  BY <1>1
<1>3. grants[Len(grants)] \in Grants
  BY <1>1, <1>2
<1> QED BY <1>3 DEF Grants

\* The history after one more grant.
LEMMA Granted ==
    ASSUME TypeOK, NEW n, NEW r, Grants1(n, r)
    PROVE  /\ Len(grants') = Len(grants) + 1 /\ Len(grants) \in Nat
           /\ \A j \in 1..Len(grants) : grants'[j] = grants[j]
           /\ grants'[Len(grants) + 1]
                 = [n |-> n, at |-> tick, ready |-> r, total |-> Taken + n]
           /\ Taken' = Taken + n /\ Taken \in Nat
           /\ grants' \in Seq(Grants)
<1>1. grants \in Seq(Grants) /\ tick \in Nat
  BY DEF TypeOK, Grants
<1>2. Taken \in Nat
  BY TakenType
<1>3. n \in Nat \ {0} /\ r \in Nat
  BY DEF Grants1
<1> DEFINE g == [n |-> n, at |-> tick, ready |-> r, total |-> Taken + n]
<1>4. g \in Grants
  BY <1>1, <1>2, <1>3 DEF Grants
<1>5. grants' = Append(grants, g)
  BY DEF Grants1, Grant
<1> HIDE DEF g
<1>6. /\ Len(grants') = Len(grants) + 1 /\ grants' \in Seq(Grants)
      /\ \A j \in 1..Len(grants) : grants'[j] = grants[j]
      /\ grants'[Len(grants) + 1] = g /\ Len(grants) \in Nat
  BY <1>1, <1>4, <1>5
<1>7. grants' # <<>>
  BY <1>6
<1>8. Taken' = g.total
  BY <1>6, <1>7 DEF Taken
<1> QED BY <1>2, <1>6, <1>8 DEF g

\* TypeOK and StaleInv, the bucket's part and the callers' part.
BucketOK ==
    /\ tick \in Nat /\ part \in 0..(FillInterval - 1)
    /\ availableTokens \in Int /\ availableTokens <= Capacity
    /\ latestTick \in 0..tick
    /\ grants \in Seq(Grants)

CallersOK ==
    /\ pc \in [Callers -> {"idle", "asleep", "available"}]
    /\ until \in [Callers -> Nat]
    /\ StaleInv

LEMMA Parts == TypeOK /\ StaleInv <=> BucketOK /\ CallersOK
BY DEF TypeOK, BucketOK, CallersOK, Grants

LEMMA PartsNext == TypeOK' /\ StaleInv' <=> BucketOK' /\ CallersOK'
BY DEF TypeOK, BucketOK, CallersOK, Grants

LEMMA BucketStep ==
    ASSUME TypeOK, StaleInv, [Next]_vars
    PROVE  BucketOK' /\ tick' >= tick
<1>1. /\ BucketOK /\ Level \in Int /\ Level <= Capacity
      /\ FillInterval \in Nat \ {0} /\ Capacity \in Nat \ {0}
  BY LevelType, Parts, BucketAssumption
<1>2. ASSUME NEW n \in Nat, NEW r \in Nat, Grants1(n, r)
      PROVE  BucketOK' /\ tick' >= tick
  <2>1. grants' \in Seq(Grants)
    BY <1>2, Granted
  <2> QED BY <1>1, <1>2, <2>1 DEF Grants1, clockVars, BucketOK
<1>3. CASE Adjusts
  BY <1>1, <1>3 DEF Adjusts, clockVars, BucketOK
<1>4. CASE Tick
  BY <1>1, <1>4 DEF Tick, bucketVars, BucketOK
<1> QED BY <1>2, <1>3, <1>4, Kinds

LEMMA CallersStep ==
    ASSUME TypeOK, StaleInv, [Next]_vars
    PROVE  CallersOK'
<1>1. CallersOK /\ tick \in Nat /\ tick' >= tick /\ tick' \in Nat
  BY BucketStep, Parts DEF BucketOK
<1>2. ASSUME NEW c \in Callers, Call(c) PROVE CallersOK'
  <2>1. CASE \E n \in Counts : TakeNow(c, n) \/ TakeAvailable(c, n)
    BY <1>1, <2>1 DEF TakeNow, TakeAvailable, CallersOK, StaleInv, clockVars
  <2>2. ASSUME NEW n \in Counts, NEW d \in MaxWaits, TakeLater(c, n, d)
        PROVE  CallersOK'
    <3>1. EndTick(n - Level) \in Nat
      BY <2>2, TakeLaterKind DEF Grants1
    <3> QED BY <1>1, <2>2, <3>1 DEF TakeLater, CallersOK, StaleInv, clockVars, Level
  <2>3. CASE \E n \in Counts, d \in MaxWaits : Refuse(c, n, d)
    BY <1>1, <2>3 DEF Refuse, CallersOK, StaleInv, clockVars
  <2>4. CASE Available(c) \/ AvailableLocked(c) \/ Wake(c)
    BY <1>1, <2>4 DEF Available, AvailableLocked, Wake, CallersOK, StaleInv, clockVars
  <2> QED BY <1>2, <2>1, <2>2, <2>3, <2>4 DEF Call
<1>3. CASE Tick
  BY <1>1, <1>3 DEF Tick, CallersOK, StaleInv
<1>4. CASE UNCHANGED vars
  BY <1>1, <1>4 DEF vars, clockVars, CallersOK, StaleInv
<1> QED BY <1>2, <1>3, <1>4 DEF Next

\* The part of Inv that is about the grants.
History == LedgerInv /\ OwedInv /\ RateBound /\ ServedInOrder

LEMMA HistoryTypes ==
    ASSUME Inv
    PROVE  /\ tick \in Nat /\ Level \in Int /\ Level <= Capacity
           /\ Len(grants) \in Nat /\ Taken \in Nat
           /\ Capacity \in Nat /\ Quantum \in Nat \ {0}
           /\ \A j \in 1..Len(grants) :
                 /\ grants[j].n \in Nat \ {0} /\ grants[j].at \in Nat
                 /\ grants[j].ready \in Nat /\ grants[j].total \in Nat
<1>1. TypeOK
  BY DEF Inv
<1>2. grants \in Seq(Grants)
  BY <1>1 DEF TypeOK, Grants
<1>3. \A j \in 1..Len(grants) : grants[j] \in Grants
  BY <1>2
<1>4. \A j \in 1..Len(grants) :
         /\ grants[j].n \in Nat \ {0} /\ grants[j].at \in Nat
         /\ grants[j].ready \in Nat /\ grants[j].total \in Nat
  BY <1>3 DEF Grants
<1>5. Len(grants) \in Nat
  BY <1>2
<1>6. tick \in Nat
  BY <1>1 DEF TypeOK
<1> QED BY <1>1, <1>4, <1>5, <1>6, LevelType, TakenType, BucketAssumption

LEMMA GrantStep ==
    ASSUME Inv, NEW n \in Nat, NEW r \in Nat, Grants1(n, r)
    PROVE  History'
<1> DEFINE m == Len(grants) + 1
<1>1. /\ tick \in Nat /\ Level \in Int /\ Level <= Capacity
      /\ Len(grants) \in Nat /\ Taken \in Nat
      /\ Capacity \in Nat /\ Quantum \in Nat \ {0}
  BY HistoryTypes
<1>2. \A j \in 1..Len(grants) :
         /\ grants[j].n \in Nat \ {0} /\ grants[j].at \in Nat
         /\ grants[j].ready \in Nat /\ grants[j].total \in Nat
  BY HistoryTypes
<1>3. /\ Len(grants') = m /\ m \in Nat /\ Taken' = Taken + n
      /\ \A j \in 1..Len(grants) : grants'[j] = grants[j]
      /\ grants'[m].n = n /\ grants'[m].at = tick
      /\ grants'[m].ready = r /\ grants'[m].total = Taken + n
  <2>1. TypeOK
    BY DEF Inv
  <2>2. grants'[m] = [n |-> n, at |-> tick, ready |-> r, total |-> Taken + n]
    BY <2>1, Granted
  <2> QED BY <2>1, <2>2, Granted
<1>4. n \in Nat \ {0} /\ tick' = tick /\ Level' = Level - n
  BY Deduct DEF Inv, Grants1, clockVars
<1>5. \A j \in 1..m : j \in 1..Len(grants) \/ j = m
  BY <1>1
<1>6. Level - n + Quantum * (r - tick) >= 0 /\ r >= tick
  BY <1>1, <1>4 DEF Grants1
<1>7. r > tick => Level - n + Quantum * (r - 1 - tick) < 0
  BY <1>1, <1>4 DEF Grants1
<1>8. Len(grants)' = m
  BY <1>3
<1> HIDE DEF m
<1>9. LedgerInv'
  <2> SUFFICES ASSUME NEW j \in 1..m
               PROVE  /\ grants'[j].at <= tick
                      /\ Taken' - grants'[j].total + grants'[j].n + Level'
                            <= Capacity + Quantum * (tick - grants'[j].at)
    BY <1>4, <1>8 DEF LedgerInv
  <2>1. CASE j \in 1..Len(grants)
    <3> DEFINE t == grants[j].total
               g == grants[j].n
               x == Quantum * (tick - grants[j].at)
    <3>1. t \in Int /\ g \in Int /\ x \in Int /\ grants'[j] = grants[j]
      BY <1>1, <1>2, <1>3, <2>1
    <3>2. grants[j].at <= tick /\ Taken - t + g + Level <= Capacity + x
      BY <2>1 DEF Inv, LedgerInv
    <3>3. Taken' - grants'[j].total + grants'[j].n + Level' = (Taken + n) - t + g + (Level - n)
      BY <1>3, <1>4, <3>1
    <3> HIDE DEF t, g, x
    <3>4. (Taken + n) - t + g + (Level - n) <= Capacity + x
      BY <1>1, <1>4, <3>1, <3>2
    <3> QED BY <3>1, <3>2, <3>3, <3>4 DEF x
  <2>2. CASE j = m
    <3>1. Quantum * (tick - tick) = 0
      BY <1>1
    <3> QED BY <1>1, <1>3, <1>4, <2>2, <3>1
  <2> QED BY <1>5, <2>1, <2>2
<1>10. OwedInv'
  <2> SUFFICES ASSUME NEW j \in 1..m, grants'[j].ready > tick
               PROVE  Level' + Quantum * (grants'[j].ready - 1 - tick) < 0
    BY <1>4, <1>8 DEF OwedInv
  <2>1. CASE j \in 1..Len(grants)
    <3> DEFINE x == Quantum * (grants[j].ready - 1 - tick)
    <3>1. grants'[j] = grants[j] /\ x \in Int
      BY <1>1, <1>2, <1>3, <2>1
    <3>2. Level + x < 0
      BY <2>1, <3>1 DEF Inv, OwedInv
    <3> HIDE DEF x
    <3>3. Level' + x < 0
      BY <1>1, <1>4, <3>1, <3>2
    <3> QED BY <3>1, <3>3 DEF x
  <2>2. CASE j = m
    BY <1>3, <1>4, <1>7, <2>2
  <2> QED BY <1>5, <2>1, <2>2
<1>11. RateBound'
  <2> SUFFICES ASSUME NEW j \in 1..m, NEW k \in 1..m, j <= k
               PROVE  grants'[k].total - grants'[j].total + grants'[j].n
                         <= Capacity + Quantum * (grants'[k].ready - grants'[j].at)
    BY <1>8 DEF RateBound
  <2>1. CASE k \in 1..Len(grants)
    <3>1. j \in 1..Len(grants)
      BY <1>1, <2>1
    <3> QED BY <1>3, <2>1, <3>1 DEF Inv, RateBound
  <2>2. CASE k = m /\ j \in 1..Len(grants)
    <3> DEFINE t == grants[j].total
               g == grants[j].n
               a == grants[j].at
    <3>1. t \in Int /\ g \in Int /\ a \in Int /\ grants'[j] = grants[j]
      BY <1>2, <1>3, <2>2
    <3>2. Taken - t + g + Level <= Capacity + Quantum * (tick - a)
      BY <2>2 DEF Inv, LedgerInv
    <3> HIDE DEF t, g, a
    <3>3. Taken + n - t + g <= Capacity + Quantum * (r - a)
      BY <1>1, <1>6, <3>1, <3>2, RateArithmetic
    <3>4. /\ grants'[k].total = Taken + n /\ grants'[k].ready = r
          /\ grants'[j].total = t /\ grants'[j].n = g /\ grants'[j].at = a
      BY <1>3, <2>2, <3>1 DEF t, g, a
    <3> QED BY <1>1, <3>1, <3>3, <3>4
  <2>3. CASE k = m /\ j = m
    <3>1. n <= Capacity + Quantum * (r - tick)
      BY <1>1, <1>6
    <3>2. Taken + n - (Taken + n) + n = n
      BY <1>1
    <3> QED BY <1>3, <2>3, <3>1, <3>2
  <2> QED BY <1>5, <2>1, <2>2, <2>3
<1>12. ServedInOrder'
  <2> SUFFICES ASSUME NEW j \in 1..m, NEW k \in 1..m, j <= k
               PROVE  grants'[j].ready <= grants'[k].ready
    BY <1>8 DEF ServedInOrder
  <2>1. CASE k \in 1..Len(grants)
    <3>1. j \in 1..Len(grants)
      BY <1>1, <2>1
    <3> QED BY <1>3, <2>1, <3>1 DEF Inv, ServedInOrder
  <2>2. CASE k = m /\ j \in 1..Len(grants)
    <3> DEFINE o == grants[j].ready
    <3>1. o \in Nat /\ (o > tick => Level + Quantum * (o - 1 - tick) < 0)
      BY <1>2, <2>2 DEF Inv, OwedInv
    <3> HIDE DEF o
    <3>2. o > tick => o <= r
      BY <1>1, <1>6, <3>1, OrderArithmetic
    <3>3. o <= r
      BY <1>1, <1>6, <3>1, <3>2
    <3> QED BY <1>3, <2>2, <3>3 DEF o
  <2>3. CASE k = m /\ j = m
    BY <1>3, <2>3
  <2> QED BY <1>5, <2>1, <2>2, <2>3
<1> QED BY <1>9, <1>10, <1>11, <1>12 DEF History

LEMMA TickStep ==
    ASSUME Inv, Tick
    PROVE  History'
<1>1. grants' = grants /\ Taken' = Taken
  BY DEF Tick, Taken
<1>2. CASE tick' = tick
  <2>1. Level' = Level
    BY <1>2 DEF Tick, bucketVars, Level, Adjusted
  <2> QED BY <1>1, <1>2, <2>1
          DEF Inv, History, LedgerInv, OwedInv, RateBound, ServedInOrder
<1>3. CASE tick' = tick + 1
  <2>1. /\ tick \in Nat /\ Level \in Int /\ Level <= Capacity /\ Taken \in Nat
        /\ Capacity \in Nat /\ Quantum \in Nat \ {0}
    BY HistoryTypes
  <2>2. \A j \in 1..Len(grants) :
           /\ grants[j].n \in Nat \ {0} /\ grants[j].at \in Nat
           /\ grants[j].ready \in Nat /\ grants[j].total \in Nat
    BY HistoryTypes
  <2> DEFINE q == Quantum
  <2>0. q \in Int /\ q > 0
    BY <2>1
  <2>3. PICK M \in Int : Level' = M /\ M <= Level + q
    BY <1>3, <2>1, Filled DEF Inv, Tick, AtMost
  <2>4. LedgerInv'
    <3> SUFFICES ASSUME NEW j \in 1..Len(grants)
                 PROVE  /\ grants[j].at <= tick'
                        /\ Taken' - grants[j].total + grants[j].n + Level'
                              <= Capacity + Quantum * (tick' - grants[j].at)
      BY <1>1 DEF LedgerInv
    <3> DEFINE t == grants[j].total
               g == grants[j].n
               a == grants[j].at
               x == Quantum * (tick - a)
    <3>1. t \in Int /\ g \in Int /\ a \in Int /\ x \in Int
      BY <2>1, <2>2
    <3>2. a <= tick /\ Taken - t + g + Level <= Capacity + x
      BY DEF Inv, LedgerInv
    <3> HIDE DEF t, g, a
    <3>3. Quantum * (tick' - a) = x + q
      BY <1>3, <2>1, <3>1
    <3> HIDE DEF x, q
    <3>4. Taken - t + g + M <= Capacity + (x + q)
      BY <2>1, <2>0, <2>3, <3>1, <3>2
    <3>5. a <= tick'
      BY <1>3, <2>1, <3>1, <3>2
    <3> QED BY <1>1, <2>3, <3>3, <3>4, <3>5 DEF t, g, a
  <2>5. OwedInv'
    <3> SUFFICES ASSUME NEW j \in 1..Len(grants), grants[j].ready > tick + 1
                 PROVE  Level' + Quantum * (grants[j].ready - 1 - (tick + 1)) < 0
      BY <1>1, <1>3 DEF OwedInv
    <3> DEFINE o == grants[j].ready
               x == Quantum * (o - 1 - tick)
    <3>1. o \in Int /\ Level + x < 0
      BY <2>1, <2>2 DEF Inv, OwedInv
    <3> HIDE DEF o
    <3>2. x \in Int
      BY <2>1, <3>1
    <3>3. Quantum * (o - 1 - (tick + 1)) = x - q
      BY <2>1, <3>1
    <3> HIDE DEF x, q
    <3>4. M + (x - q) < 0
      BY <2>1, <2>0, <2>3, <3>1, <3>2
    <3> QED BY <2>3, <3>3, <3>4 DEF o
  <2> QED BY <1>1, <2>4, <2>5 DEF Inv, History, RateBound, ServedInOrder
<1> QED BY <1>2, <1>3 DEF Tick

LEMMA InvStep == Inv /\ [Next]_vars => Inv'
<1> SUFFICES ASSUME Inv, [Next]_vars PROVE Inv'
  OBVIOUS
<1>1. TypeOK' /\ StaleInv'
  BY BucketStep, CallersStep, PartsNext DEF Inv
<1>2. ASSUME Adjusts PROVE History'
  <2>1. Level' = Level /\ tick' = tick /\ grants' = grants /\ Taken' = Taken
    BY <1>2 DEF Adjusts, clockVars, Taken
  <2> QED BY <2>1 DEF Inv, History, LedgerInv, OwedInv, RateBound, ServedInOrder
<1>3. History'
  BY <1>2, GrantStep, TickStep, Kinds DEF Inv
<1> QED BY <1>1, <1>3 DEF Inv, History

LEMMA Invariance == Spec => []Inv
BY InvInit, InvStep, PTL DEF Spec

-----------------------------------------------------------------------------

\* The bucket keeps its types and never holds more than its capacity.
THEOREM TypeCorrect == Spec => []TypeOK
<1>1. Inv => TypeOK
  BY DEF Inv
<1> QED BY <1>1, Invariance, PTL

\* However calls interleave, stale clock readings of Available included, no
\* stretch of calls gets more than a full bucket and the ticks that passed.
THEOREM RateLimited == Spec => []RateBound
<1>1. Inv => RateBound
  BY DEF Inv
<1> QED BY <1>1, Invariance, PTL

\* Tokens are promised in the order of the calls.
THEOREM InOrder == Spec => []ServedInOrder
<1>1. Inv => ServedInOrder
  BY DEF Inv
<1> QED BY <1>1, Invariance, PTL

\* The lazy bucket implements the one that is filled at every tick.
THEOREM Implements == Spec => FillsEagerly
<1>1. Init => Eager!Init
  BY BucketAssumption DEF Init, Eager!Init, Level, Adjusted, Taken
<1>2. ASSUME Inv, [Next]_vars PROVE [Eager!Next]_(Eager!bucketVars)
  <2> USE <1>2 DEF Inv
  <2>1. ASSUME NEW n \in Nat, NEW r \in Nat, Grants1(n, r) PROVE Eager!Take
    <3>1. n \in Nat \ {0} /\ tick' = tick /\ Level' = Level - n
      BY <2>1, Deduct DEF Grants1, clockVars
    <3>2. Taken' = Taken + n /\ Taken \in Nat /\ Level \in Int
      BY <2>1, Granted, LevelType
    <3> QED BY <3>1, <3>2 DEF Eager!Take
  <2>2. CASE Adjusts
    BY <2>2 DEF Adjusts, clockVars, Taken, Eager!bucketVars
  <2>3. CASE Tick
    <3>1. Taken' = Taken
      BY <2>3 DEF Tick, Taken
    <3>2. CASE tick' = tick
      BY <2>3, <3>1, <3>2 DEF Tick, bucketVars, Level, Adjusted, Eager!bucketVars
    <3>3. CASE tick' = tick + 1
      <4>1. Level' = AtMost(Level + Quantum, Capacity)
        BY <2>3, <3>3, Filled DEF Tick
      <4>2. Eager!Fill
        BY <3>1, <3>3, <4>1 DEF Eager!Fill, AtMost, Eager!AtMost
      <4> QED BY <4>2 DEF Eager!Next
    <3> QED BY <2>3, <3>2, <3>3 DEF Tick
  <2> QED BY <2>1, <2>2, <2>3, Kinds DEF Eager!Next
<1> QED BY <1>1, <1>2, Invariance, PTL DEF Spec, FillsEagerly, Eager!Spec
=============================================================================

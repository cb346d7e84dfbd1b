---------------------------- MODULE TokenBucket -----------------------------
(***************************************************************************)
(* fast_web/web/RateLimit.go: a token bucket filled lazily.  The bucket    *)
(* keeps the tokens it had at some tick, and every operation first brings  *)
(* them up to its own tick.                                                *)
(*                                                                         *)
(* An operation reads the clock while it holds tb.mu, and is one step; but *)
(* Available reads the clock first and locks afterwards, so that it may    *)
(* bring the bucket "up" to a tick that is already over.                   *)
(*                                                                         *)
(* Time since tb.startTime is kept as tick * FillInterval + part.          *)
(***************************************************************************)
EXTENDS Integers, Sequences

CONSTANTS
    Callers,        \* goroutines using the bucket
    Capacity, Quantum, FillInterval,
    Counts,         \* arguments of the calls
    MaxWaits,       \* limits of TakeMaxDuration; a large one stands for Take
    MaxGrants,      \* bound: successful calls that took tokens
    MaxTick         \* bound: last tick, unless callers are still asleep then

\* What NewBucketWithQuantumAndClock checks; a count <= 0 returns at once.
ASSUME BucketAssumption ==
    /\ Capacity \in Nat \ {0} /\ Quantum \in Nat \ {0} /\ FillInterval \in Nat \ {0}
    /\ Counts \subseteq Nat \ {0} /\ MaxWaits \subseteq Nat
    /\ MaxGrants \in Nat /\ MaxTick \in Nat

VARIABLES
    tick, part,         \* the clock
    availableTokens,    \* tb.availableTokens
    latestTick,         \* tb.latestTick
    pc,                 \* "idle", asleep in Wait, or in Available before its lock
    until,              \* the tick a sleeper waits for, or the one Available has read
    grants              \* ghost: the successful takes, in order

clockVars  == <<tick, part>>
bucketVars == <<availableTokens, latestTick>>
vars       == <<clockVars, bucketVars, pc, until, grants>>

Taken == IF grants = <<>> THEN 0 ELSE grants[Len(grants)].total

\* n tokens taken now, and promised for the start of tick `ready` (or for now);
\* total counts all the tokens taken so far.
Grant(n, ready) ==
    Append(grants, [n |-> n, at |-> tick, ready |-> ready, total |-> Taken + n])

Init ==
    /\ tick = 0 /\ part = 0
    /\ availableTokens = Capacity /\ latestTick = 0
    /\ pc = [c \in Callers |-> "idle"]
    /\ until = [c \in Callers |-> 0]
    /\ grants = <<>>

-----------------------------------------------------------------------------

AtMost(x, bound) == IF x > bound THEN bound ELSE x

\* Mutant of Adjusted: the capacity is not enforced.
AdjustedUncapped(now) ==
    IF availableTokens >= Capacity THEN availableTokens
    ELSE availableTokens + (now - latestTick) * Quantum

\* adjustAvailableTokens: the tokens at a tick, earlier than latestTick or not.
Adjusted(now) ==
    IF availableTokens >= Capacity THEN availableTokens
    ELSE AtMost(availableTokens + (now - latestTick) * Quantum, Capacity)

\* Mutant of EndTick: the waiting time is rounded down.
EndTickRoundedDown(missing) == tick + missing \div Quantum

\* The tick that will have brought the missing tokens.
EndTick(missing) == tick + (missing + Quantum - 1) \div Quantum

\* take, when the bucket has the tokens.
TakeNow(c, n) ==
    /\ pc[c] = "idle" /\ Len(grants) < MaxGrants
    /\ Adjusted(tick) >= n
    /\ availableTokens' = Adjusted(tick) - n
    /\ latestTick' = tick
    /\ grants' = Grant(n, tick)
    /\ UNCHANGED <<clockVars, pc, until>>

\* Mutant of TakeLater: the tokens promised are not taken out of the bucket.
TakeLaterUnpaid(c, n, maxWait) ==
    LET missing == n - Adjusted(tick)
        end     == EndTick(missing)
    IN  /\ pc[c] = "idle" /\ Len(grants) < MaxGrants
        /\ missing > 0
        /\ (end - tick) * FillInterval - part <= maxWait
        /\ availableTokens' = Adjusted(tick)
        /\ latestTick' = tick
        /\ grants' = Grant(n, end)
        /\ pc' = [pc EXCEPT ![c] = "asleep"]
        /\ until' = [until EXCEPT ![c] = end]
        /\ UNCHANGED clockVars

\* take, when the missing tokens are waited for: the caller sleeps.
TakeLater(c, n, maxWait) ==
    LET missing == n - Adjusted(tick)
        end     == EndTick(missing)
    IN  /\ pc[c] = "idle" /\ Len(grants) < MaxGrants
        /\ missing > 0
        /\ (end - tick) * FillInterval - part <= maxWait
        /\ availableTokens' = Adjusted(tick) - n
        /\ latestTick' = tick
        /\ grants' = Grant(n, end)
        /\ pc' = [pc EXCEPT ![c] = "asleep"]
        /\ until' = [until EXCEPT ![c] = end]
        /\ UNCHANGED clockVars

\* take, when the wait would be too long: only the adjustment remains.
Refuse(c, n, maxWait) ==
    LET missing == n - Adjusted(tick)
    IN  /\ pc[c] = "idle"
        /\ missing > 0
        /\ (EndTick(missing) - tick) * FillInterval - part > maxWait
        /\ availableTokens' = Adjusted(tick)
        /\ latestTick' = tick
        /\ UNCHANGED <<clockVars, pc, until, grants>>

\* takeAvailable: as many as there are, but none of those that are owed.
TakeAvailable(c, n) ==
    LET got == AtMost(n, Adjusted(tick))
    IN  /\ pc[c] = "idle"
        /\ latestTick' = tick
        /\ IF got > 0
           THEN /\ Len(grants) < MaxGrants
                /\ availableTokens' = Adjusted(tick) - got
                /\ grants' = Grant(got, tick)
           ELSE availableTokens' = Adjusted(tick) /\ UNCHANGED grants
        /\ UNCHANGED <<clockVars, pc, until>>

\* Available: tb.clock.Now(), and only then tb.mu.Lock().
Available(c) ==
    /\ pc[c] = "idle"
    /\ pc' = [pc EXCEPT ![c] = "available"]
    /\ until' = [until EXCEPT ![c] = tick]
    /\ UNCHANGED <<clockVars, bucketVars, grants>>

\* Mutant of AvailableLocked: only the tick is stored.
AvailableLockedTickOnly(c) ==
    /\ pc[c] = "available"
    /\ latestTick' = until[c]
    /\ pc' = [pc EXCEPT ![c] = "idle"]
    /\ until' = [until EXCEPT ![c] = 0]
    /\ UNCHANGED <<clockVars, availableTokens, grants>>

\* available, under the lock.
AvailableLocked(c) ==
    /\ pc[c] = "available"
    /\ availableTokens' = Adjusted(until[c])
    /\ latestTick' = until[c]
    /\ pc' = [pc EXCEPT ![c] = "idle"]
    /\ until' = [until EXCEPT ![c] = 0]
    /\ UNCHANGED <<clockVars, grants>>

\* The clock's Sleep ends; it never ends early.
Wake(c) ==
    /\ pc[c] = "asleep" /\ tick >= until[c]
    /\ pc' = [pc EXCEPT ![c] = "idle"]
    /\ until' = [until EXCEPT ![c] = 0]
    /\ UNCHANGED <<clockVars, bucketVars, grants>>

Tick ==
    /\ tick < MaxTick \/ \E c \in Callers : pc[c] = "asleep" /\ tick < until[c]
    /\ IF part + 1 < FillInterval
       THEN part' = part + 1 /\ UNCHANGED tick
       ELSE part' = 0 /\ tick' = tick + 1
    /\ UNCHANGED <<bucketVars, pc, until, grants>>

Call(c) ==
    \/ \E n \in Counts : \/ TakeNow(c, n) \/ TakeAvailable(c, n)
                         \/ \E d \in MaxWaits : TakeLater(c, n, d) \/ Refuse(c, n, d)
    \/ Available(c) \/ AvailableLocked(c) \/ Wake(c)

Next == Tick \/ \E c \in Callers : Call(c)

Spec == Init /\ [][Next]_vars

-----------------------------------------------------------------------------
(* Properties.                                                             *)

\* Types, and that the bucket never holds more than its capacity.
TypeOK ==
    /\ tick \in Nat /\ part \in 0..(FillInterval - 1)
    /\ availableTokens \in Int /\ availableTokens <= Capacity
    /\ latestTick \in 0..tick
    /\ pc \in [Callers -> {"idle", "asleep", "available"}]
    /\ until \in [Callers -> Nat]
    /\ grants \in Seq([n : Nat \ {0}, at : Nat, ready : Nat, total : Nat])

\* Over any stretch of calls, the tokens handed out by the time the last one is
\* served are at most a full bucket and what the ticks since the first one
\* added.  This is the rate limit; a TakeAvailable, a Take that is told to wait
\* and an Available with an old clock reading may come in any order.
RateBound ==
    \A j, k \in 1..Len(grants) : j <= k =>
        grants[k].total - grants[j].total + grants[j].n
            <= Capacity + Quantum * (grants[k].ready - grants[j].at)

\* Nobody overtakes: who took later is not told to wait for an earlier tick.
ServedInOrder ==
    \A j, k \in 1..Len(grants) : j <= k => grants[j].ready <= grants[k].ready

\* The tokens there would be now, had they been added at every tick.
Level == Adjusted(tick)

Eager == INSTANCE EagerBucket WITH tokens <- Level, taken <- Taken

\* Filling lazily makes no difference: seen at the current tick, the bucket is
\* one that is filled at every tick, whatever tick Available left it at.
FillsEagerly == Eager!Spec
=============================================================================

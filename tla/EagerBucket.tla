---------------------------- MODULE EagerBucket -----------------------------
(***************************************************************************)
(* What the comments of fast_web/web/RateLimit.go promise: a bucket that   *)
(* starts full, to which every tick adds quantum tokens up to its          *)
(* capacity, and which is overdrawn while consumers wait for tokens.       *)
(***************************************************************************)
EXTENDS Integers

CONSTANTS Capacity, Quantum

VARIABLES
    tick,      \* the current tick
    tokens,    \* tokens in the bucket; what is owed to waiting consumers if negative
    taken      \* tokens ever taken

bucketVars == <<tick, tokens, taken>>

AtMost(x, bound) == IF x > bound THEN bound ELSE x

Init == tick = 0 /\ tokens = Capacity /\ taken = 0

Fill ==
    /\ tick' = tick + 1
    /\ tokens' = AtMost(tokens + Quantum, Capacity)
    /\ UNCHANGED taken

\* Some tokens are taken, perhaps more than there are.
Take ==
    /\ taken' \in Nat /\ taken' > taken
    /\ tokens' = tokens - (taken' - taken)
    /\ UNCHANGED tick

Next == Fill \/ Take

Spec == Init /\ [][Next]_bucketVars
=============================================================================

---------------------------- MODULE TokenProofs -----------------------------
(***************************************************************************)
(* Proofs about TokenManager and TokenStore, for every number of requests, *)
(* users and tokens, and every lifetime and grace time.                    *)
(***************************************************************************)
EXTENDS TokenStore, TLAPS

-----------------------------------------------------------------------------
(* What the cache holds.                                                   *)

AccessOf(k)      == cache[<<"access", k>>]
RefreshOf(k)     == cache[<<"refresh", k>>]
AccessUserOf(u)  == cache[<<"access_user", u>>]
RefreshUserOf(u) == cache[<<"refresh_user", u>>]

Issued == 1..Len(issued)

\* No token is cached before it is created, a user's entry names a token of that
\* user, and no entry of a token outlives what it was set with.
CacheInv ==
    /\ clock \in 0..MaxTime /\ disturbed \subseteq Users
    /\ issued \in Seq([user : Users, born : 0..MaxTime]) /\ Len(issued) <= MaxTokens
    /\ cache \in [Keys -> Nat]
    /\ \A k \in Issued :
          /\ issued[k].born <= clock
          /\ RefreshOf(k) \in {None, issued[k].born + Duration}
          /\ \/ AccessOf(k) \in {None, issued[k].born + Duration}
             \/ AccessOf(k) <= clock + Grace
    /\ \A k \in Tokens \ Issued : AccessOf(k) = None /\ RefreshOf(k) = None
    /\ \A u \in Users :
          /\ AccessUserOf(u) # None => AccessUserOf(u) \in OwnedBy(u)
          /\ RefreshUserOf(u) # None => RefreshUserOf(u) \in OwnedBy(u)

-----------------------------------------------------------------------------
(* What a request is doing.                                                *)

Labels == {"idle", "getAccessUser", "getRefreshUser", "getToken", "deleteExpired",
           "deleteAccess", "setGrace", "deleteRefresh", "setAccess", "setRefresh",
           "setAccessUser", "setRefreshUser"}
Calls  == [mode : 0..2, user : Users \cup {None}, d1 : Nat, d2 : Nat, tok : Nat,
           key : Keys \cup {None}, exp : Nat]

\* A request has created its token, and not yet recorded it as its user's.
Pending(p) == pc[p] \in {"setRefresh", "setAccessUser"}
Created(p) == Pending(p) \/ pc[p] = "setRefreshUser"

\* Each local has a value exactly where the code has assigned one, and a token
\* read from a user's entry, or created for a user, is that user's.
CallOK(p) ==
    LET c == call[p]
    IN  /\ pc[p] = "idle" => c = NoCall
        /\ c.mode = 2 => /\ c.user = None /\ c.d1 = None /\ c.d2 = None
                         /\ pc[p] \in {"idle", "deleteExpired"}
        /\ c.mode # 2 => c.user \in Users
        /\ c.d1 # None => c.d1 \in OwnedBy(c.user)
        /\ c.d2 # None => c.d2 \in OwnedBy(c.user)
        /\ pc[p] = "getAccessUser" => c.d1 = None
        /\ pc[p] \in {"deleteAccess", "setGrace"} => c.d1 # None
        /\ pc[p] \in {"getToken", "deleteExpired"} =>
              /\ c.mode # 0 /\ c.key \in ({"access", "refresh"} \X Issued) \cup UserKeys
              /\ c.mode = 1 => c.d1 # None /\ c.key = <<"access", c.d1>>
        /\ IF Created(p) THEN /\ c.tok \in OwnedBy(c.user)
                              /\ c.exp = issued[c.tok].born + Duration
                         ELSE c.tok = None

CallInv ==
    /\ pc \in [Procs -> Labels] /\ call \in [Procs -> Calls]
    /\ \A p \in Procs : CallOK(p)

\* A new token is known to nobody but its request, until it is recorded.
PendingInv ==
    /\ \A p, q \in Procs : Created(p) /\ Created(q) /\ call[p].tok = call[q].tok => p = q
    /\ \A p \in Procs : Pending(p) =>
          /\ \A u \in Users : AccessUserOf(u) # call[p].tok
          /\ \A q \in Procs : call[q].d1 # call[p].tok

-----------------------------------------------------------------------------
(* Sessions that are over.                                                 *)

Lapsed(k) == clock >= issued[k].born + Duration

\* A request that read token k as the current one is still to replace it.
Replacing(p, k) == pc[p] # "idle" /\ call[p].d1 = k

Unrecorded(k) ==
    /\ AccessUserOf(issued[k].user) # k
    /\ \A p \in Procs : Pending(p) => call[p].tok # k

Retired(k) == Lapsed(k) \/ (\E p \in Procs : Replacing(p, k)) \/ Unrecorded(k)

\* An access token is shortened or deleted only when it is over, is being
\* replaced, or has been replaced for good.
RetiredInv ==
    /\ \A p \in Procs : pc[p] = "setRefreshUser" /\ call[p].d1 # None =>
          AccessUserOf(call[p].user) # call[p].d1
    /\ \A k \in Issued : AccessOf(k) = issued[k].born + Duration \/ Retired(k)
    /\ \A p \in Procs, k \in Issued :
          pc[p] = "deleteExpired" /\ call[p].key = <<"access", k>> => Retired(k)

-----------------------------------------------------------------------------
(* One session.                                                            *)

Active(p, u) == pc[p] # "idle" /\ call[p].user = u

\* No other refresh token of u is valid than k; no other access token is, for
\* longer than the grace time.
OnlyRefresh(u, k) == \A j \in OwnedBy(u) : RefreshOf(j) > clock => j = k
OnlyAccess(u, k)  == \A j \in OwnedBy(u) : AccessOf(j) > clock + Grace => j = k

\* What holds between two requests of a user.
Settled(u) ==
    /\ AccessUserOf(u) # None /\ RefreshUserOf(u) # None =>
          AccessUserOf(u) = RefreshUserOf(u)
    /\ OnlyRefresh(u, RefreshUserOf(u)) /\ OnlyAccess(u, AccessUserOf(u))

\* How far the only request of user u has come in replacing the old session.
Progress(p, u) ==
    LET c == call[p]
    IN  /\ pc[p] \in {"getAccessUser", "getRefreshUser"} => Settled(u)
        /\ pc[p] = "getRefreshUser" => OnlyAccess(u, c.d1)
        /\ pc[p] \in {"deleteAccess", "setGrace", "getToken", "deleteExpired"} =>
              OnlyRefresh(u, c.d2) /\ OnlyAccess(u, c.d1)
        /\ pc[p] = "deleteRefresh" => OnlyRefresh(u, c.d2) /\ OnlyAccess(u, None)
        /\ pc[p] = "setAccess" => OnlyRefresh(u, None) /\ OnlyAccess(u, None)
        /\ pc[p] = "setRefresh" => OnlyRefresh(u, None) /\ OnlyAccess(u, c.tok)
        /\ pc[p] = "setAccessUser" => OnlyRefresh(u, c.tok) /\ OnlyAccess(u, c.tok)
        /\ pc[p] = "setRefreshUser" =>
              /\ OnlyRefresh(u, c.tok) /\ OnlyAccess(u, AccessUserOf(u))
              /\ AccessUserOf(u) \in {None, c.tok}

SessionOf(u) ==
    /\ \A p, q \in Procs : Active(p, u) /\ Active(q, u) => p = q
    /\ (\A p \in Procs : ~Active(p, u)) => Settled(u)
    /\ \A p \in Procs : Active(p, u) => Progress(p, u)

SessionInv == \A u \in Users \ disturbed : SessionOf(u)

Inv == CacheInv /\ CallInv /\ PendingInv /\ RetiredInv /\ SessionInv

-----------------------------------------------------------------------------

LEMMA IssuedType ==
    ASSUME CacheInv, NEW k \in Issued
    PROVE  /\ k \in Nat /\ k # None /\ k \in Tokens /\ issued[k].user \in Users
           /\ issued[k].born \in 0..MaxTime /\ issued[k].born \in Nat
           /\ issued[k].born <= clock /\ clock \in Nat /\ k \in OwnedBy(issued[k].user)
<1>1. issued \in Seq([user : Users, born : 0..MaxTime]) /\ Len(issued) <= MaxTokens
  BY DEF CacheInv
<1>2. issued[k] \in [user : Users, born : 0..MaxTime] /\ k \in 1..Len(issued)
      /\ Len(issued) \in Nat
  <2>1. k \in 1..Len(issued)
    BY DEF Issued
  <2>2. ASSUME NEW S, issued \in Seq(S) PROVE Len(issued) \in Nat /\ issued[k] \in S
    BY <2>1, <2>2
  <2> QED
    BY <1>1, <2>1, <2>2
<1>3. clock \in Nat /\ issued[k].born <= clock
  BY TokenAssumption DEF CacheInv
<1> QED
  BY <1>1, <1>2, <1>3, TokenAssumption DEF None, Tokens, OwnedBy

LEMMA OwnedIssued ==
    ASSUME NEW u, NEW k \in OwnedBy(u) PROVE k \in Issued /\ issued[k].user = u
BY DEF OwnedBy, Issued

LEMMA InvType == Inv => TypeOK
<1> SUFFICES ASSUME Inv PROVE TypeOK
    OBVIOUS
<1> USE TokenAssumption DEF None
<1>1. CacheInv /\ CallInv
  BY DEF Inv
<1>2. ASSUME NEW k \in Tokens
      PROVE  /\ AccessOf(k) \in Expiry /\ RefreshOf(k) \in Expiry
             /\ k > Len(issued) => AccessOf(k) = None /\ RefreshOf(k) = None
  <2>1. <<"access", k>> \in Keys /\ <<"refresh", k>> \in Keys
    BY DEF Keys
  <2>2. AccessOf(k) \in Nat /\ RefreshOf(k) \in Nat /\ clock \in 0..MaxTime
        /\ Len(issued) \in Nat
    BY <1>1, <2>1 DEF CacheInv, AccessOf, RefreshOf
  <2>3. CASE k \in Issued
    <3>1. issued[k].born \in 0..MaxTime
      BY <1>1, <2>3, IssuedType
    <3>2. /\ RefreshOf(k) \in {None, issued[k].born + Duration}
          /\ \/ AccessOf(k) \in {None, issued[k].born + Duration}
             \/ AccessOf(k) <= clock + Grace
      BY <1>1, <2>3 DEF CacheInv
    <3> QED
      BY <2>2, <2>3, <3>1, <3>2 DEF Expiry, Issued
  <2>4. CASE k \notin Issued
    BY <1>1, <2>4 DEF CacheInv, Expiry
  <2> QED
    BY <2>3, <2>4
<1>3. ASSUME NEW u \in Users
      PROVE  AccessUserOf(u) \in 0..Len(issued) /\ RefreshUserOf(u) \in 0..Len(issued)
  <2>1. Len(issued) \in Nat
    BY <1>1 DEF CacheInv
  <2> QED
    BY <1>1, <2>1 DEF CacheInv, OwnedBy
<1>4. ASSUME NEW p \in Procs
      PROVE  /\ call[p].mode \in 0..2 /\ call[p].user \in Users \cup {None}
             /\ {call[p].d1, call[p].d2, call[p].tok} \subseteq 0..Len(issued)
  <2>1. Len(issued) \in Nat /\ CallOK(p) /\ call[p] \in Calls
    BY <1>1 DEF CacheInv, CallInv
  <2>2. \A k \in OwnedBy(call[p].user) : k \in 0..Len(issued)
    BY <2>1 DEF OwnedBy
  <2> QED
    BY <2>1, <2>2 DEF CallOK, Calls
<1> QED
  BY <1>1, <1>2, <1>3, <1>4 DEF TypeOK, CacheInv, AccessOf, RefreshOf, AccessUserOf,
     RefreshUserOf

LEMMA InvAlive == Inv => CurrentSessionAlive
<1> SUFFICES ASSUME Inv, NEW u \in Users, NEW k, k = AccessUserOf(u), k # None,
                    AccessOf(k) = None, ~(clock >= issued[k].born + Duration)
             PROVE  \E p \in Procs : pc[p] # "idle" /\ call[p].user = u /\ call[p].d1 = k
    BY DEF CurrentSessionAlive, AccessUserOf, AccessOf
<1>1. k \in OwnedBy(u) /\ k \in Issued /\ issued[k].user = u
      /\ issued[k].born \in Nat /\ clock \in Nat
  <2>1. k \in OwnedBy(u)
    BY DEF Inv, CacheInv
  <2> QED
    BY <2>1, OwnedIssued, IssuedType DEF Inv
<1>2. AccessOf(k) # issued[k].born + Duration
  BY <1>1, TokenAssumption DEF None
<1>3. PICK p \in Procs : Replacing(p, k)
  BY <1>1, <1>2 DEF Inv, RetiredInv, Retired, Lapsed, Unrecorded
<1>4. k \in OwnedBy(call[p].user)
  BY <1>3 DEF Inv, CallInv, CallOK, Replacing
<1> QED
  BY <1>1, <1>3, <1>4 DEF Replacing, OwnedBy

LEMMA InvOneSession == Inv => OneSessionUnlessDisturbed
<1> SUFFICES ASSUME Inv, NEW u \in Users \ disturbed, ~Busy(u)
             PROVE  /\ AccessUserOf(u) # None /\ RefreshUserOf(u) # None =>
                           AccessUserOf(u) = RefreshUserOf(u)
                    /\ \A k \in OwnedBy(u) :
                         /\ Live(<<"refresh", k>>) => k = RefreshUserOf(u)
                         /\ Live(<<"access", k>>) =>
                                k = AccessUserOf(u) \/ AccessOf(k) <= clock + Grace
    BY DEF OneSessionUnlessDisturbed, AccessUserOf, RefreshUserOf, AccessOf
<1>1. Settled(u)
  BY DEF Inv, SessionInv, SessionOf, Active, Busy
<1>2. ASSUME NEW k \in OwnedBy(u)
      PROVE  /\ Live(<<"refresh", k>>) => k = RefreshUserOf(u)
             /\ Live(<<"access", k>>) =>
                    k = AccessUserOf(u) \/ AccessOf(k) <= clock + Grace
  <2>1. k \in Tokens /\ clock \in Nat
    BY TokenAssumption DEF Inv, CacheInv, OwnedBy, Tokens
  <2>2. <<"access", k>> \in Keys /\ <<"refresh", k>> \in Keys
    BY <2>1 DEF Keys
  <2>3. AccessOf(k) \in Nat /\ RefreshOf(k) \in Nat
    BY <2>2 DEF Inv, CacheInv, AccessOf, RefreshOf
  <2>4. Live(<<"refresh", k>>) => RefreshOf(k) > clock
    BY <2>1, <2>3 DEF Live, IsValid, RefreshOf
  <2> QED
    BY <1>1, <2>1, <2>3, <2>4, TokenAssumption DEF Settled, OnlyRefresh, OnlyAccess
<1> QED
  BY <1>1, <1>2 DEF Settled

LEMMA InvInit == Init => Inv
<1> SUFFICES ASSUME Init PROVE Inv
    OBVIOUS
<1> USE TokenAssumption DEF None
<1>1. /\ clock = 0 /\ cache = [k \in Keys |-> 0] /\ issued = <<>> /\ disturbed = {}
      /\ pc = [p \in Procs |-> "idle"] /\ call = [p \in Procs |-> NoCall]
  BY DEF Init
<1>2. \A k \in Tokens : AccessOf(k) = 0 /\ RefreshOf(k) = 0
  BY <1>1 DEF AccessOf, RefreshOf, Keys
<1>3. \A u \in Users : AccessUserOf(u) = 0 /\ RefreshUserOf(u) = 0
  BY <1>1 DEF AccessUserOf, RefreshUserOf, Keys, UserKeys
<1>4. Issued = {} /\ \A u : OwnedBy(u) = {}
  BY <1>1 DEF Issued, OwnedBy
<1>5. CacheInv
  BY <1>1, <1>2, <1>3, <1>4 DEF CacheInv
<1>6. CallInv
  BY <1>1, <1>4 DEF CallInv, CallOK, Labels, Calls, NoCall, Created, Pending
<1>7. PendingInv /\ RetiredInv
  BY <1>1, <1>4 DEF PendingInv, RetiredInv, Created, Pending
<1>8. SessionInv
  BY <1>1, <1>3, <1>4 DEF SessionInv, SessionOf, Active, Settled, OnlyRefresh, OnlyAccess
<1> QED
  BY <1>5, <1>6, <1>7, <1>8 DEF Inv

-----------------------------------------------------------------------------
(* One operation on the cache.                                             *)

LEMMA CacheKeys ==
    /\ \A k \in Tokens : <<"access", k>> \in Keys /\ <<"refresh", k>> \in Keys
    /\ \A u \in Users : <<"access_user", u>> \in Keys /\ <<"refresh_user", u>> \in Keys
BY DEF Keys, UserKeys

LEMMA SetType ==
    ASSUME cache \in [Keys -> Nat], NEW key \in Keys, NEW v \in Nat, Set(key, v)
    PROVE  /\ cache' \in [Keys -> Nat]
           /\ cache'[key] = v /\ \A j \in Keys : j # key => cache'[j] = cache[j]
BY DEF Set

LEMMA SetAccessOf ==
    ASSUME cache \in [Keys -> Nat], NEW k \in Tokens, NEW v \in Nat,
           Set(<<"access", k>>, v)
    PROVE  /\ cache' \in [Keys -> Nat] /\ AccessOf(k)' = v
           /\ \A j \in Tokens : j # k => AccessOf(j)' = AccessOf(j)
           /\ \A j \in Tokens : RefreshOf(j)' = RefreshOf(j)
           /\ \A u \in Users : /\ AccessUserOf(u)' = AccessUserOf(u)
                               /\ RefreshUserOf(u)' = RefreshUserOf(u)
<1>1. <<"access", k>> \in Keys
  BY CacheKeys
<1>2. /\ cache' \in [Keys -> Nat] /\ cache'[<<"access", k>>] = v
      /\ \A j \in Keys : j # <<"access", k>> => cache'[j] = cache[j]
  BY <1>1, SetType
<1> QED
  BY <1>2, CacheKeys DEF AccessOf, RefreshOf, AccessUserOf, RefreshUserOf

LEMMA SetRefreshOf ==
    ASSUME cache \in [Keys -> Nat], NEW k \in Tokens, NEW v \in Nat,
           Set(<<"refresh", k>>, v)
    PROVE  /\ cache' \in [Keys -> Nat] /\ RefreshOf(k)' = v
           /\ \A j \in Tokens : j # k => RefreshOf(j)' = RefreshOf(j)
           /\ \A j \in Tokens : AccessOf(j)' = AccessOf(j)
           /\ \A u \in Users : /\ AccessUserOf(u)' = AccessUserOf(u)
                               /\ RefreshUserOf(u)' = RefreshUserOf(u)
<1>1. <<"refresh", k>> \in Keys
  BY CacheKeys
<1>2. /\ cache' \in [Keys -> Nat] /\ cache'[<<"refresh", k>>] = v
      /\ \A j \in Keys : j # <<"refresh", k>> => cache'[j] = cache[j]
  BY <1>1, SetType
<1> QED
  BY <1>2, CacheKeys DEF AccessOf, RefreshOf, AccessUserOf, RefreshUserOf

LEMMA SetAccessUserOf ==
    ASSUME cache \in [Keys -> Nat], NEW u \in Users, NEW v \in Nat,
           Set(<<"access_user", u>>, v)
    PROVE  /\ cache' \in [Keys -> Nat] /\ AccessUserOf(u)' = v
           /\ \A w \in Users : w # u => AccessUserOf(w)' = AccessUserOf(w)
           /\ \A w \in Users : RefreshUserOf(w)' = RefreshUserOf(w)
           /\ \A j \in Tokens : /\ AccessOf(j)' = AccessOf(j)
                                /\ RefreshOf(j)' = RefreshOf(j)
<1>1. <<"access_user", u>> \in Keys
  BY CacheKeys
<1>2. /\ cache' \in [Keys -> Nat] /\ cache'[<<"access_user", u>>] = v
      /\ \A j \in Keys : j # <<"access_user", u>> => cache'[j] = cache[j]
  BY <1>1, SetType
<1> QED
  BY <1>2, CacheKeys DEF AccessOf, RefreshOf, AccessUserOf, RefreshUserOf

LEMMA SetRefreshUserOf ==
    ASSUME cache \in [Keys -> Nat], NEW u \in Users, NEW v \in Nat,
           Set(<<"refresh_user", u>>, v)
    PROVE  /\ cache' \in [Keys -> Nat] /\ RefreshUserOf(u)' = v
           /\ \A w \in Users : w # u => RefreshUserOf(w)' = RefreshUserOf(w)
           /\ \A w \in Users : AccessUserOf(w)' = AccessUserOf(w)
           /\ \A j \in Tokens : /\ AccessOf(j)' = AccessOf(j)
                                /\ RefreshOf(j)' = RefreshOf(j)
<1>1. <<"refresh_user", u>> \in Keys
  BY CacheKeys
<1>2. /\ cache' \in [Keys -> Nat] /\ cache'[<<"refresh_user", u>>] = v
      /\ \A j \in Keys : j # <<"refresh_user", u>> => cache'[j] = cache[j]
  BY <1>1, SetType
<1> QED
  BY <1>2, CacheKeys DEF AccessOf, RefreshOf, AccessUserOf, RefreshUserOf

LEMMA SetNothing ==
    ASSUME cache \in [Keys -> Nat], UNCHANGED cache
    PROVE  /\ cache' \in [Keys -> Nat]
           /\ \A j \in Tokens : /\ AccessOf(j)' = AccessOf(j)
                                /\ RefreshOf(j)' = RefreshOf(j)
           /\ \A u \in Users : /\ AccessUserOf(u)' = AccessUserOf(u)
                               /\ RefreshUserOf(u)' = RefreshUserOf(u)
BY DEF AccessOf, RefreshOf, AccessUserOf, RefreshUserOf

-----------------------------------------------------------------------------
(* What a step keeps.                                                      *)

\* Only request p moves.
Others(p) == \A q \in Procs : q # p => pc'[q] = pc[q] /\ call'[q] = call[q]

\* No token is created or recorded, and no request that is replacing one ends.
Quiet ==
    /\ clock' \in Nat /\ clock' >= clock /\ UNCHANGED issued
    /\ \A q \in Procs : pc[q] # "idle" /\ call[q].d1 # None =>
          pc'[q] # "idle" /\ call'[q].d1 = call[q].d1
    /\ \A q \in Procs : call'[q].d1 \in {call[q].d1, None}
                           \/ \E u \in Users : call'[q].d1 = AccessUserOf(u)
    /\ \A q \in Procs : Created(q)' => Created(q) /\ call'[q].tok = call[q].tok
    /\ \A q \in Procs : Pending(q)' => Pending(q)
    /\ \A u \in Users : AccessUserOf(u)' \in {AccessUserOf(u), None}

LEMMA QuietPending ==
    ASSUME CacheInv, CallInv, PendingInv, Quiet PROVE PendingInv'
<1>1. \A p, q \in Procs :
          Created(p)' /\ Created(q)' /\ call'[p].tok = call'[q].tok => p = q
  BY DEF Quiet, PendingInv
<1>2. ASSUME NEW p \in Procs, Pending(p)'
      PROVE  /\ \A u \in Users : AccessUserOf(u)' # call'[p].tok
             /\ \A q \in Procs : call'[q].d1 # call'[p].tok
  <2>1. Pending(p) /\ Created(p) /\ call'[p].tok = call[p].tok
    BY <1>2 DEF Quiet, Created
  <2>2. call[p].tok \in OwnedBy(call[p].user)
    BY <2>1 DEF CallInv, CallOK
  <2>3. call[p].tok # None
    BY <2>2, OwnedIssued, IssuedType
  <2> QED
    BY <2>1, <2>3 DEF Quiet, PendingInv
<1> QED
  BY <1>1, <1>2 DEF PendingInv

LEMMA QuietRetired ==
    ASSUME CacheInv, CallInv, Quiet, NEW k \in Issued, Retired(k) PROVE Retired(k)'
<1>1. k # None /\ issued[k].user \in Users /\ issued[k].born \in Nat /\ clock \in Nat
  BY IssuedType
<1>2. CASE Lapsed(k)
  <2>1. issued' = issued /\ clock' \in Nat /\ clock' >= clock
    BY DEF Quiet
  <2>2. Lapsed(k)'
    BY <1>1, <1>2, <2>1, TokenAssumption DEF Lapsed
  <2> QED
    BY <2>2 DEF Retired
<1>3. CASE \E p \in Procs : Replacing(p, k)
  <2>1. \E p \in Procs : Replacing(p, k)'
    BY <1>1, <1>3 DEF Quiet, Replacing
  <2> QED
    BY <2>1 DEF Retired
<1>4. CASE Unrecorded(k)
  <2>1. Unrecorded(k)'
    BY <1>1, <1>4 DEF Quiet, Unrecorded, Created
  <2> QED
    BY <2>1 DEF Retired
<1> QED
  BY <1>2, <1>3, <1>4 DEF Retired

LEMMA QuietRetiredInv ==
    ASSUME CacheInv, CallInv, RetiredInv, Quiet,
           \A k \in Issued : AccessOf(k)' = AccessOf(k) \/ Retired(k),
           \A q \in Procs : pc'[q] = "setRefreshUser" =>
               pc[q] = "setRefreshUser" /\ call'[q] = call[q],
           \A q \in Procs, k \in Issued :
               pc'[q] = "deleteExpired" /\ call'[q].key = <<"access", k>> =>
                   (pc[q] = "deleteExpired" /\ call'[q] = call[q]) \/ Retired(k)
    PROVE  RetiredInv'
<1>1. Issued' = Issued /\ issued' = issued
  BY DEF Quiet, Issued
<1>2. \A k \in Issued : Retired(k) => Retired(k)'
  BY QuietRetired
<1>3. \A p \in Procs : pc'[p] = "setRefreshUser" /\ call'[p].d1 # None =>
          AccessUserOf(call[p].user)' # call'[p].d1
  <2>1. ASSUME NEW p \in Procs, pc[p] = "setRefreshUser" PROVE call[p].user \in Users
    BY <2>1 DEF CallInv, CallOK, Calls
  <2> QED
    BY <2>1 DEF RetiredInv, Quiet
<1>4. \A k \in Issued : AccessOf(k)' = issued[k].born + Duration \/ Retired(k)'
  BY <1>2 DEF RetiredInv
<1>5. \A p \in Procs, k \in Issued :
          pc'[p] = "deleteExpired" /\ call'[p].key = <<"access", k>> => Retired(k)'
  BY <1>2 DEF RetiredInv
<1> QED
  BY <1>1, <1>3, <1>4, <1>5 DEF RetiredInv, AccessUserOf

LEMMA CacheFrame ==
    ASSUME CacheInv, UNCHANGED issued, disturbed' \subseteq Users,
           clock' \in 0..MaxTime, clock' >= clock, cache' \in [Keys -> Nat],
           \A k \in Issued :
               /\ RefreshOf(k)' \in {RefreshOf(k), None, issued[k].born + Duration}
               /\ AccessOf(k)' \in {AccessOf(k), None} \/ AccessOf(k)' <= clock' + Grace,
           \A k \in Tokens \ Issued :
               AccessOf(k)' = AccessOf(k) /\ RefreshOf(k)' = RefreshOf(k),
           \A u \in Users :
               /\ AccessUserOf(u)' \in {AccessUserOf(u), None} \cup OwnedBy(u)
               /\ RefreshUserOf(u)' \in {RefreshUserOf(u), None} \cup OwnedBy(u)
    PROVE  CacheInv'
<1>1. Issued' = Issued /\ issued' = issued /\ \A u : OwnedBy(u)' = OwnedBy(u)
  BY DEF Issued, OwnedBy
<1>2. ASSUME NEW k \in Issued
      PROVE  /\ issued[k].born <= clock'
             /\ RefreshOf(k)' \in {None, issued[k].born + Duration}
             /\ \/ AccessOf(k)' \in {None, issued[k].born + Duration}
                \/ AccessOf(k)' <= clock' + Grace
  <2>1. /\ issued[k].born \in Nat /\ issued[k].born <= clock /\ clock \in Nat
        /\ clock' \in Nat /\ k \in Tokens
    BY IssuedType, TokenAssumption
  <2>2. AccessOf(k) \in Nat /\ AccessOf(k)' \in Nat
    BY <2>1, CacheKeys DEF CacheInv, AccessOf
  <2>3. /\ RefreshOf(k) \in {None, issued[k].born + Duration}
        /\ \/ AccessOf(k) \in {None, issued[k].born + Duration}
           \/ AccessOf(k) <= clock + Grace
    BY DEF CacheInv
  <2>4. AccessOf(k)' \in {AccessOf(k), None} \/ AccessOf(k)' <= clock' + Grace
    OBVIOUS
  <2>5. RefreshOf(k)' \in {RefreshOf(k), None, issued[k].born + Duration}
    OBVIOUS
  <2> QED
    BY <2>1, <2>2, <2>3, <2>4, <2>5, TokenAssumption
<1>3. \A k \in Tokens \ Issued : AccessOf(k)' = None /\ RefreshOf(k)' = None
  BY DEF CacheInv
<1>4. \A u \in Users : /\ AccessUserOf(u)' # None => AccessUserOf(u)' \in OwnedBy(u)
                       /\ RefreshUserOf(u)' # None => RefreshUserOf(u)' \in OwnedBy(u)
  BY DEF CacheInv
<1> QED
  BY <1>1, <1>2, <1>3, <1>4 DEF CacheInv

\* The locals of a request.
LEMMA CallFacts ==
    ASSUME CacheInv, CallInv, NEW p \in Procs
    PROVE  /\ call[p] \in Calls /\ CallOK(p) /\ pc[p] \in Labels
           /\ call[p].user \in Users \/ (call[p].mode = 2 /\ call[p].user \notin Users)
           /\ call[p].d1 # None => call[p].d1 \in OwnedBy(call[p].user) /\ call[p].d1 \in Issued
           /\ call[p].d2 # None => call[p].d2 \in OwnedBy(call[p].user) /\ call[p].d2 \in Issued
           /\ Created(p) => /\ call[p].tok \in OwnedBy(call[p].user)
                            /\ call[p].tok \in Issued /\ call[p].tok # None
                            /\ call[p].exp = issued[call[p].tok].born + Duration
           /\ ~Created(p) => call[p].tok = None
<1>1. call[p] \in Calls /\ CallOK(p) /\ pc[p] \in Labels
  BY DEF CallInv
<1>2. call[p].user \in Users \/ (call[p].mode = 2 /\ call[p].user \notin Users)
  <2>1. /\ call[p].mode = 2 => call[p].user = None
        /\ call[p].mode # 2 => call[p].user \in Users
    BY <1>1 DEF CallOK
  <2> QED
    BY <2>1, TokenAssumption
<1>3. \A k \in OwnedBy(call[p].user) : k \in Issued
  BY OwnedIssued
<1>4. Created(p) => /\ call[p].tok \in OwnedBy(call[p].user)
                    /\ call[p].exp = issued[call[p].tok].born + Duration
  BY <1>1 DEF CallOK
<1>5. Created(p) => call[p].tok \in Issued /\ call[p].tok # None
  BY <1>3, <1>4, IssuedType
<1> QED
  BY <1>1, <1>2, <1>3, <1>4, <1>5 DEF CallOK

LEMMA GotoPc ==
    ASSUME CallInv, NEW p \in Procs, NEW l \in Labels, Goto(p, l)
    PROVE  /\ pc' \in [Procs -> Labels] /\ pc'[p] = l
           /\ \A q \in Procs : q # p => pc'[q] = pc[q]
BY DEF CallInv, Goto

LEMMA CallFrame ==
    ASSUME CallInv, NEW p \in Procs, Others(p), UNCHANGED issued,
           pc' \in [Procs -> Labels], call' \in [Procs -> Calls], CallOK(p)'
    PROVE  CallInv'
<1>1. ASSUME NEW q \in Procs, q # p PROVE CallOK(q)'
  <2>1. pc'[q] = pc[q] /\ call'[q] = call[q] /\ CallOK(q) /\ issued' = issued
    BY <1>1 DEF Others, CallInv
  <2>2. \A u : OwnedBy(u)' = OwnedBy(u) /\ Issued' = Issued
    BY DEF OwnedBy, Issued
  <2>3. Created(q)' <=> Created(q)
    BY <2>1 DEF Created, Pending
  <2> QED
    BY <2>1, <2>2, <2>3 DEF CallOK
<1> QED
  BY <1>1 DEF CallInv

\* The locals do not change, and the request goes on to l.
LEMMA CallGoto ==
    ASSUME CacheInv, CallInv, NEW p \in Procs, NEW l \in Labels, Goto(p, l),
           UNCHANGED call, UNCHANGED issued,
           l \notin {"idle", "getAccessUser", "deleteAccess", "setGrace"},
           call[p].mode # 2,
           l \in {"getToken", "deleteExpired"} =>
               /\ call[p].mode = 1 /\ call[p].key \in {"access", "refresh"} \X Issued
               /\ call[p].d1 # None /\ call[p].key = <<"access", call[p].d1>>,
           Created(p) <=> l \in {"setRefresh", "setAccessUser", "setRefreshUser"}
    PROVE  Others(p) /\ CallInv'
<1>1. /\ pc' \in [Procs -> Labels] /\ pc'[p] = l
      /\ \A q \in Procs : q # p => pc'[q] = pc[q]
  BY GotoPc
<1>2. Others(p)
  BY <1>1 DEF Others
<1>3. CallOK(p) /\ call'[p] = call[p] /\ issued' = issued
  BY DEF CallInv
<1>4. \A u : OwnedBy(u)' = OwnedBy(u) /\ Issued' = Issued
  BY DEF OwnedBy, Issued
<1>5. Created(p)' <=> Created(p)
  BY <1>1 DEF Created, Pending
<1>6. CallOK(p)'
  BY <1>1, <1>3, <1>4, <1>5 DEF CallOK
<1> QED
  BY <1>1, <1>2, <1>6, CallFrame DEF CallInv

LEMMA ReturnCall ==
    ASSUME CacheInv, CallInv, NEW p \in Procs, Return(p), UNCHANGED issued
    PROVE  /\ Others(p) /\ CallInv' /\ pc'[p] = "idle" /\ call'[p] = NoCall
           /\ \A q \in Procs : q # p => pc'[q] = pc[q] /\ call'[q] = call[q]
<1>1. /\ pc' \in [Procs -> Labels] /\ pc'[p] = "idle"
      /\ \A q \in Procs : q # p => pc'[q] = pc[q]
  BY GotoPc DEF Return, Labels
<1>2. NoCall \in Calls
  BY DEF NoCall, Calls, None
<1>3. /\ call' \in [Procs -> Calls] /\ call'[p] = NoCall
      /\ \A q \in Procs : q # p => call'[q] = call[q]
  BY <1>2 DEF Return, CallInv
<1>4. CallOK(p)'
  BY <1>1, <1>3 DEF CallOK, NoCall, Created, Pending, None
<1>5. Others(p)
  BY <1>1, <1>3 DEF Others
<1> QED
  BY <1>1, <1>3, <1>4, <1>5, CallFrame

-----------------------------------------------------------------------------
(* What a step does to a session.                                          *)

\* No entry of user w begins to count.
Shrinks(w) ==
    /\ clock \in Nat /\ clock' \in Nat /\ clock' >= clock
    /\ OwnedBy(w)' = OwnedBy(w) /\ OwnedBy(w) \subseteq Tokens
    /\ \A j \in OwnedBy(w) :
          /\ AccessOf(j)' = AccessOf(j) \/ AccessOf(j)' <= clock' + Grace
          /\ RefreshOf(j)' = RefreshOf(j) \/ RefreshOf(j)' <= clock'

\* The entries of user w stay, or disappear when their token is over.
KeepsUser(w) ==
    /\ AccessUserOf(w)' = AccessUserOf(w)
         \/ /\ AccessUserOf(w)' = None
            /\ \A k \in OwnedBy(w) : AccessUserOf(w) = k => AccessOf(k) <= clock + Grace
    /\ RefreshUserOf(w)' = RefreshUserOf(w)
         \/ /\ RefreshUserOf(w)' = None
            /\ \A k \in OwnedBy(w) : RefreshUserOf(w) = k => RefreshOf(k) <= clock

LEMMA OnlyKept ==
    ASSUME cache \in [Keys -> Nat], cache' \in [Keys -> Nat], NEW w, Shrinks(w), NEW k
    PROVE  /\ OnlyRefresh(w, k) => \A j \in OwnedBy(w)' : RefreshOf(j)' > clock' => j = k
           /\ OnlyAccess(w, k) =>
                 \A j \in OwnedBy(w)' : AccessOf(j)' > clock' + Grace => j = k
<1>1. ASSUME NEW j \in OwnedBy(w)'
      PROVE  /\ RefreshOf(j)' > clock' => RefreshOf(j) > clock
             /\ AccessOf(j)' > clock' + Grace => AccessOf(j) > clock + Grace
             /\ j \in OwnedBy(w)
  <2>1. j \in OwnedBy(w) /\ j \in Tokens
    BY DEF Shrinks
  <2>2. AccessOf(j)' \in Nat /\ RefreshOf(j)' \in Nat
    BY <2>1, CacheKeys DEF AccessOf, RefreshOf
  <2> QED
    BY <2>1, <2>2, TokenAssumption DEF Shrinks
<1> QED
  BY <1>1 DEF OnlyRefresh, OnlyAccess

LEMMA SettledKept ==
    ASSUME cache \in [Keys -> Nat], cache' \in [Keys -> Nat], NEW w \in Users,
           Shrinks(w), KeepsUser(w), Settled(w)
    PROVE  Settled(w)'
<1>1. PICK a, r, b, s : /\ a = AccessUserOf(w) /\ r = RefreshUserOf(w)
                        /\ b = AccessUserOf(w)' /\ s = RefreshUserOf(w)'
  OBVIOUS
<1>2. ASSUME NEW j \in OwnedBy(w)
      PROVE  /\ j \in Tokens /\ AccessOf(j) \in Nat /\ RefreshOf(j) \in Nat /\ clock \in Nat
  BY CacheKeys DEF Shrinks, AccessOf, RefreshOf
<1>3. OnlyAccess(w, b)
  BY <1>1, <1>2, TokenAssumption DEF Settled, KeepsUser, OnlyAccess
<1>4. OnlyRefresh(w, s)
  BY <1>1, <1>2 DEF Settled, KeepsUser, OnlyRefresh
<1>5. /\ \A j \in OwnedBy(w)' : RefreshOf(j)' > clock' => j = s
      /\ \A j \in OwnedBy(w)' : AccessOf(j)' > clock' + Grace => j = b
  BY <1>3, <1>4, OnlyKept
<1>6. b # None /\ s # None => b = s
  BY <1>1 DEF Settled, KeepsUser
<1>7. /\ AccessUserOf(w)' # None /\ RefreshUserOf(w)' # None =>
             AccessUserOf(w)' = RefreshUserOf(w)'
      /\ OnlyRefresh(w, RefreshUserOf(w))' /\ OnlyAccess(w, AccessUserOf(w))'
  BY <1>1, <1>5, <1>6 DEF OnlyRefresh, OnlyAccess
<1> QED
  BY <1>7 DEF Settled

LEMMA ProgressKept ==
    ASSUME cache \in [Keys -> Nat], cache' \in [Keys -> Nat], NEW w \in Users,
           Shrinks(w), KeepsUser(w), NEW p \in Procs, Progress(p, w),
           pc'[p] = pc[p], call'[p] = call[p]
    PROVE  Progress(p, w)'
<1>1. PICK c : c = call[p] /\ c = call'[p]
  OBVIOUS
<1>2. \A k : OnlyRefresh(w, k) => \A j \in OwnedBy(w)' : RefreshOf(j)' > clock' => j = k
  BY OnlyKept
<1>3. \A k : OnlyAccess(w, k) =>
                \A j \in OwnedBy(w)' : AccessOf(j)' > clock' + Grace => j = k
  BY OnlyKept
<1>4. pc[p] \in {"getAccessUser", "getRefreshUser"} => Settled(w)'
  BY SettledKept DEF Progress
<1>5. /\ pc'[p] = "getRefreshUser" => OnlyAccess(w, c.d1)'
      /\ pc'[p] \in {"deleteAccess", "setGrace", "getToken", "deleteExpired"} =>
              OnlyRefresh(w, c.d2)' /\ OnlyAccess(w, c.d1)'
      /\ pc'[p] = "deleteRefresh" => OnlyRefresh(w, c.d2)' /\ OnlyAccess(w, None)'
      /\ pc'[p] = "setAccess" => OnlyRefresh(w, None)' /\ OnlyAccess(w, None)'
      /\ pc'[p] = "setRefresh" => OnlyRefresh(w, None)' /\ OnlyAccess(w, c.tok)'
      /\ pc'[p] = "setAccessUser" => OnlyRefresh(w, c.tok)' /\ OnlyAccess(w, c.tok)'
      /\ pc'[p] = "setRefreshUser" => OnlyRefresh(w, c.tok)'
  BY <1>1, <1>2, <1>3 DEF Progress, OnlyRefresh, OnlyAccess
<1>6. ASSUME pc'[p] = "setRefreshUser"
      PROVE  OnlyAccess(w, AccessUserOf(w))' /\ AccessUserOf(w)' \in {None, c.tok}
  <2>1. AccessUserOf(w) \in {None, c.tok} /\ OnlyAccess(w, AccessUserOf(w))
    BY <1>1, <1>6 DEF Progress
  <2>2. PICK a, b : a = AccessUserOf(w) /\ b = AccessUserOf(w)'
    OBVIOUS
  <2>3. ASSUME NEW j \in OwnedBy(w)
        PROVE  j \in Tokens /\ AccessOf(j) \in Nat /\ clock \in Nat
    BY CacheKeys DEF Shrinks, AccessOf
  <2>4. OnlyAccess(w, b)
    BY <2>1, <2>2, <2>3, TokenAssumption DEF KeepsUser, OnlyAccess
  <2>5. \A j \in OwnedBy(w)' : AccessOf(j)' > clock' + Grace => j = b
    BY <1>3, <2>4
  <2> QED
    BY <2>1, <2>2, <2>5 DEF OnlyAccess, KeepsUser
<1> QED
  BY <1>1, <1>4, <1>5, <1>6 DEF Progress

\* A user of whom no request moves.
LEMMA SessionOther ==
    ASSUME cache \in [Keys -> Nat], cache' \in [Keys -> Nat], NEW w \in Users,
           Shrinks(w), KeepsUser(w), SessionOf(w),
           \A q \in Procs : Active(q, w)' <=> Active(q, w),
           \A q \in Procs : Active(q, w) => pc'[q] = pc[q] /\ call'[q] = call[q]
    PROVE  SessionOf(w)'
<1>1. \A p, q \in Procs : Active(p, w)' /\ Active(q, w)' => p = q
  BY DEF SessionOf
<1>2. (\A p \in Procs : ~Active(p, w)') => Settled(w)'
  BY SettledKept DEF SessionOf
<1>3. ASSUME NEW p \in Procs, Active(p, w)' PROVE Progress(p, w)'
  BY <1>3, ProgressKept DEF SessionOf
<1> QED
  BY <1>1, <1>2, <1>3 DEF SessionOf

\* The user whose only request is p.
LEMMA SessionOwn ==
    ASSUME CallInv, NEW p \in Procs, NEW u \in Users, SessionOf(u), Active(p, u),
           Others(p), Active(p, u)', Progress(p, u)'
    PROVE  SessionOf(u)'
<1>1. \A q \in Procs : q # p => ~Active(q, u)'
  BY DEF SessionOf, Others, Active
<1> QED
  BY <1>1 DEF SessionOf

LEMMA SessionReturn ==
    ASSUME CallInv, NEW p \in Procs, NEW u \in Users, SessionOf(u), Active(p, u),
           Others(p), pc'[p] = "idle", Settled(u)'
    PROVE  SessionOf(u)'
<1>1. \A q \in Procs : ~Active(q, u)'
  BY DEF SessionOf, Others, Active
<1> QED
  BY <1>1 DEF SessionOf

\* All users, when request p of user u goes on.
LEMMA SessionStep ==
    ASSUME CacheInv, CallInv, SessionInv, NEW p \in Procs, Others(p),
           NEW u \in Users, call[p].user = u, pc[p] # "idle",
           pc'[p] = "idle" \/ call'[p].user = u,
           cache' \in [Keys -> Nat], UNCHANGED disturbed,
           \A w \in Users : w # u => Shrinks(w) /\ KeepsUser(w),
           (SessionOf(u) /\ Progress(p, u)) =>
               IF pc'[p] = "idle" THEN Settled(u)' ELSE Progress(p, u)'
    PROVE  SessionInv'
<1>1. Active(p, u)
  BY DEF Active
<1>2. ASSUME NEW w \in Users \ disturbed, w # u PROVE SessionOf(w)'
  <2>1. ~Active(p, w) /\ ~Active(p, w)'
    BY <1>2 DEF Active
  <2>2. /\ \A q \in Procs : Active(q, w)' <=> Active(q, w)
        /\ \A q \in Procs : Active(q, w) => pc'[q] = pc[q] /\ call'[q] = call[q]
    BY <2>1 DEF Active, Others
  <2>3. SessionOf(w) /\ cache \in [Keys -> Nat]
    BY DEF SessionInv, CacheInv
  <2> QED
    BY <1>2, <2>2, <2>3, SessionOther
<1>3. ASSUME u \notin disturbed PROVE SessionOf(u)'
  <2>1. SessionOf(u) /\ Progress(p, u)
    BY <1>1, <1>3 DEF SessionInv, SessionOf
  <2>2. CASE pc'[p] = "idle"
    BY <1>1, <2>1, <2>2, SessionReturn
  <2>3. CASE pc'[p] # "idle"
    <3>1. Active(p, u)'
      BY <2>3 DEF Active
    <3> QED
      BY <1>1, <2>1, <2>3, <3>1, SessionOwn
  <2> QED
    BY <2>2, <2>3
<1> QED
  BY <1>2, <1>3 DEF SessionInv

\* All users that are not disturbed, when no login or refresh moves.
LEMMA SessionIdle ==
    ASSUME CacheInv, CallInv, SessionInv, disturbed \subseteq disturbed',
           cache' \in [Keys -> Nat],
           \A w \in Users \ disturbed' : Shrinks(w) /\ KeepsUser(w),
           \A w \in Users, q \in Procs : Active(q, w)' <=> Active(q, w),
           \A w \in Users, q \in Procs :
               Active(q, w) => pc'[q] = pc[q] /\ call'[q] = call[q]
    PROVE  SessionInv'
<1>1. ASSUME NEW w \in Users \ disturbed' PROVE SessionOf(w)'
  <2>1. SessionOf(w) /\ cache \in [Keys -> Nat]
    BY DEF SessionInv, CacheInv
  <2> QED
    BY <2>1, SessionOther
<1> QED
  BY <1>1 DEF SessionInv

-----------------------------------------------------------------------------
(* One operation after the other.                                          *)

LEMMA NoWrite ==
    ASSUME CacheInv, UNCHANGED <<clock, cache, issued>>, disturbed' \subseteq Users
    PROVE  /\ CacheInv' /\ cache' \in [Keys -> Nat]
           /\ clock' \in Nat /\ clock' >= clock
           /\ \A w \in Users : Shrinks(w) /\ KeepsUser(w)
           /\ \A j \in Tokens : /\ AccessOf(j)' = AccessOf(j)
                                /\ RefreshOf(j)' = RefreshOf(j)
           /\ \A u \in Users : /\ AccessUserOf(u)' = AccessUserOf(u)
                               /\ RefreshUserOf(u)' = RefreshUserOf(u)
<1>1. cache \in [Keys -> Nat] /\ clock \in 0..MaxTime /\ clock \in Nat
      /\ Len(issued) <= MaxTokens /\ clock >= clock
  BY TokenAssumption DEF CacheInv
<1>2. /\ cache' \in [Keys -> Nat]
      /\ \A j \in Tokens : /\ AccessOf(j)' = AccessOf(j) /\ RefreshOf(j)' = RefreshOf(j)
      /\ \A u \in Users : /\ AccessUserOf(u)' = AccessUserOf(u)
                          /\ RefreshUserOf(u)' = RefreshUserOf(u)
  BY <1>1, SetNothing
<1>3. \A k \in Issued : k \in Tokens
  BY IssuedType
<1>4. CacheInv'
  BY <1>1, <1>2, <1>3, CacheFrame
<1>5. \A w : OwnedBy(w)' = OwnedBy(w) /\ OwnedBy(w) \subseteq Tokens
  BY <1>3, OwnedIssued DEF OwnedBy
<1> QED
  BY <1>1, <1>2, <1>4, <1>5 DEF Shrinks, KeepsUser

LEMMA QuietStep ==
    ASSUME CacheInv, CallInv, NEW p \in Procs, Others(p), UNCHANGED <<clock, issued>>,
           call[p].d1 # None => pc'[p] # "idle" /\ call'[p].d1 = call[p].d1,
           call'[p].d1 \in {call[p].d1, None}
               \/ \E u \in Users : call'[p].d1 = AccessUserOf(u),
           Created(p)' => Created(p) /\ call'[p].tok = call[p].tok,
           Pending(p)' => Pending(p),
           \A u \in Users : AccessUserOf(u)' \in {AccessUserOf(u), None}
    PROVE  Quiet
<1>1. clock' \in Nat /\ clock' >= clock
  BY TokenAssumption DEF CacheInv
<1>2. \A q \in Procs : q # p => (Created(q)' <=> Created(q)) /\ (Pending(q)' <=> Pending(q))
  BY DEF Others, Created, Pending
<1> QED
  BY <1>1, <1>2 DEF Others, Quiet

\* A quiet step of a request that neither deletes nor records anything wrong.
LEMMA QuietInv ==
    ASSUME Inv, Quiet, CacheInv', CallInv', SessionInv', NEW p \in Procs, Others(p),
           \A k \in Issued : AccessOf(k)' = AccessOf(k) \/ Retired(k),
           pc'[p] = "setRefreshUser" =>
               pc[p] = "setRefreshUser" /\ call'[p] = call[p],
           \A k \in Issued :
               pc'[p] = "deleteExpired" /\ call'[p].key = <<"access", k>> => Retired(k)
    PROVE  Inv'
<1>1. \A q \in Procs : pc'[q] = "setRefreshUser" =>
          pc[q] = "setRefreshUser" /\ call'[q] = call[q]
  BY DEF Others
<1>2. \A q \in Procs, k \in Issued :
          pc'[q] = "deleteExpired" /\ call'[q].key = <<"access", k>> =>
             (pc[q] = "deleteExpired" /\ call'[q] = call[q]) \/ Retired(k)
  BY DEF Others
<1>3. PendingInv' /\ RetiredInv'
  BY <1>1, <1>2, QuietPending, QuietRetiredInv DEF Inv
<1> QED
  BY <1>3 DEF Inv

LEMMA GetAccessUserStep ==
    ASSUME Inv, NEW p \in Procs, GetAccessUser(p) PROVE Inv'
<1>1. /\ pc[p] = "getAccessUser" /\ Goto(p, "getRefreshUser")
      /\ UNCHANGED <<clock, cache, issued, disturbed>>
      /\ CacheInv /\ CallInv /\ SessionInv /\ disturbed' \subseteq Users
  BY DEF GetAccessUser, At, Inv, CacheInv
<1>2. PICK u, a : u = call[p].user /\ a = AccessUserOf(u)
  OBVIOUS
<1>3. /\ call[p] \in Calls /\ CallOK(p) /\ u \in Users /\ call[p].d1 = None
      /\ call[p].mode # 2 /\ call[p].tok = None
  BY <1>1, <1>2, CallFacts DEF CallOK, Created, Pending
<1>4. /\ CacheInv' /\ cache' \in [Keys -> Nat]
      /\ \A w \in Users : Shrinks(w) /\ KeepsUser(w)
      /\ \A j \in Tokens : AccessOf(j)' = AccessOf(j)
      /\ \A w \in Users : AccessUserOf(w)' = AccessUserOf(w)
  BY <1>1, NoWrite
<1>5. a \in Nat /\ (a # None => a \in OwnedBy(u))
  BY <1>1, <1>2, <1>3, CacheKeys DEF CacheInv, AccessUserOf
<1>6. /\ pc' \in [Procs -> Labels] /\ pc'[p] = "getRefreshUser"
      /\ \A q \in Procs : q # p => pc'[q] = pc[q]
  BY <1>1, GotoPc DEF Labels
<1>7. /\ call' \in [Procs -> Calls] /\ call'[p] = [call[p] EXCEPT !.d1 = a]
      /\ \A q \in Procs : q # p => call'[q] = call[q]
  <2>1. call' = [call EXCEPT ![p].d1 = a]
    BY <1>2 DEF GetAccessUser, AccessUserOf
  <2>2. [call[p] EXCEPT !.d1 = a] \in Calls
    BY <1>3, <1>5 DEF Calls
  <2> QED
    BY <1>1, <2>1, <2>2 DEF CallInv
<1>8. /\ call'[p].d1 = a /\ call'[p].user = u /\ call'[p].mode = call[p].mode
      /\ call'[p].d2 = call[p].d2 /\ call'[p].tok = call[p].tok
  BY <1>2, <1>3, <1>7 DEF Calls
<1>9. Others(p)
  BY <1>6, <1>7 DEF Others
<1>10. CallOK(p)'
  <2>1. \A w : OwnedBy(w)' = OwnedBy(w)
    BY <1>1 DEF OwnedBy
  <2> QED
    BY <1>2, <1>3, <1>5, <1>6, <1>8, <2>1 DEF CallOK, Created, Pending
<1>11. CallInv'
  BY <1>1, <1>6, <1>7, <1>9, <1>10, CallFrame
<1>12. Quiet
  BY <1>1, <1>2, <1>3, <1>4, <1>6, <1>8, <1>9, QuietStep DEF Created, Pending
<1>13. Progress(p, u) => Progress(p, u)'
  <2>1. ASSUME Settled(u) PROVE Settled(u)' /\ OnlyAccess(u, a)'
    <3>1. OnlyAccess(u, a)
      BY <1>2, <2>1 DEF Settled
    <3>2. \A j \in OwnedBy(u)' : AccessOf(j)' > clock' + Grace => j = a
      BY <1>1, <1>3, <1>4, <3>1, OnlyKept DEF CacheInv
    <3> QED
      BY <1>1, <1>3, <1>4, <2>1, <3>2, SettledKept DEF OnlyAccess, CacheInv
  <2> QED
    BY <1>1, <1>6, <1>8, <2>1 DEF Progress
<1>14. SessionInv'
  BY <1>1, <1>2, <1>3, <1>4, <1>6, <1>8, <1>9, <1>13, SessionStep
<1>15. \A k \in Issued : AccessOf(k)' = AccessOf(k)
  BY <1>1, <1>4, IssuedType
<1> QED
  BY <1>4, <1>6, <1>9, <1>11, <1>12, <1>14, <1>15, QuietInv

LEMMA GetRefreshUserStep ==
    ASSUME Inv, NEW p \in Procs, GetRefreshUser(p) PROVE Inv'
<1>1. /\ pc[p] = "getRefreshUser"
      /\ UNCHANGED <<clock, cache, issued, disturbed>>
      /\ CacheInv /\ CallInv /\ SessionInv /\ disturbed' \subseteq Users
  BY DEF GetRefreshUser, At, Inv, CacheInv
<1>2. PICK c, u, r, key, l :
          /\ c = call[p] /\ u = c.user /\ r = RefreshUserOf(u)
          /\ key = IF c.d1 = None \/ c.mode = 0 THEN None ELSE <<"access", c.d1>>
          /\ l = IF c.d1 = None THEN "deleteRefresh"
                 ELSE IF c.mode = 0 THEN "deleteAccess" ELSE "getToken"
  OBVIOUS
<1>3. /\ c \in Calls /\ CallOK(p) /\ u \in Users /\ c.mode \in {0, 1} /\ c.tok = None
      /\ c.d1 # None => c.d1 \in OwnedBy(u) /\ c.d1 \in Issued /\ c.d1 \in Tokens
      /\ ~Created(p)
  <2>1. /\ c \in Calls /\ CallOK(p) /\ u \in Users /\ c.tok = None /\ c.mode # 2
        /\ c.d1 # None => c.d1 \in OwnedBy(u) /\ c.d1 \in Issued
        /\ ~Created(p)
    BY <1>1, <1>2, CallFacts DEF CallOK, Created, Pending
  <2> QED
    BY <1>1, <2>1, IssuedType DEF Calls
<1>4. /\ CacheInv' /\ cache' \in [Keys -> Nat]
      /\ \A w \in Users : Shrinks(w) /\ KeepsUser(w)
      /\ \A j \in Tokens : AccessOf(j)' = AccessOf(j)
      /\ \A w \in Users : AccessUserOf(w)' = AccessUserOf(w)
  BY <1>1, NoWrite
<1>5. r \in Nat /\ (r # None => r \in OwnedBy(u))
  BY <1>1, <1>2, <1>3, CacheKeys DEF CacheInv, RefreshUserOf
<1>6. /\ pc' \in [Procs -> Labels] /\ pc'[p] = l
      /\ \A q \in Procs : q # p => pc'[q] = pc[q]
  <2>1. l \in Labels /\ Goto(p, l)
    BY <1>2 DEF Labels, GetRefreshUser
  <2> QED
    BY <1>1, <2>1, GotoPc
<1>7. /\ call' \in [Procs -> Calls] /\ call'[p] = [c EXCEPT !.d2 = r, !.key = key]
      /\ \A q \in Procs : q # p => call'[q] = call[q]
  <2>1. call' = [call EXCEPT ![p].d2 = r, ![p].key = key]
    BY <1>2 DEF GetRefreshUser, RefreshUserOf
  <2>2. key \in Keys \cup {None}
    BY <1>2, <1>3, CacheKeys
  <2>3. [c EXCEPT !.d2 = r, !.key = key] \in Calls
    BY <1>3, <1>5, <2>2 DEF Calls
  <2> QED
    BY <1>1, <1>2, <2>1, <2>3 DEF CallInv
<1>8. /\ call'[p].d1 = c.d1 /\ call'[p].user = u /\ call'[p].mode = c.mode
      /\ call'[p].d2 = r /\ call'[p].tok = c.tok /\ call'[p].key = key
  BY <1>2, <1>3, <1>7 DEF Calls
<1>9. Others(p)
  BY <1>6, <1>7 DEF Others
<1>10. CallOK(p)'
  <2>1. (\A w : OwnedBy(w)' = OwnedBy(w)) /\ Issued' = Issued
    BY <1>1 DEF OwnedBy, Issued
  <2>2. l = "getToken" => /\ c.mode = 1 /\ c.d1 # None /\ key = <<"access", c.d1>>
                          /\ key \in {"access", "refresh"} \X Issued
    BY <1>2, <1>3
  <2>3. l \in {"deleteRefresh", "deleteAccess", "getToken"}
        /\ (l = "deleteAccess" => c.d1 # None)
    BY <1>2
  <2>4. ~Created(p)'
    BY <1>6, <2>3 DEF Created, Pending
  <2> QED
    BY <1>3, <1>5, <1>6, <1>8, <2>1, <2>2, <2>3, <2>4 DEF CallOK
<1>11. CallInv'
  BY <1>1, <1>6, <1>7, <1>9, <1>10, CallFrame
<1>12. Quiet
  <2>1. ~Created(p)' /\ ~Pending(p)' /\ pc'[p] # "idle"
    BY <1>2, <1>6 DEF Created, Pending
  <2> QED
    BY <1>1, <1>2, <1>4, <1>8, <1>9, <2>1, QuietStep
<1>13. Progress(p, u) => Progress(p, u)'
  <2>1. ASSUME Progress(p, u)
        PROVE  OnlyRefresh(u, r)' /\ OnlyAccess(u, c.d1)'
    <3>1. OnlyAccess(u, c.d1) /\ OnlyRefresh(u, r)
      BY <1>1, <1>2, <2>1 DEF Progress, Settled
    <3>2. /\ \A j \in OwnedBy(u)' : AccessOf(j)' > clock' + Grace => j = c.d1
          /\ \A j \in OwnedBy(u)' : RefreshOf(j)' > clock' => j = r
      BY <1>1, <1>3, <1>4, <3>1, OnlyKept DEF CacheInv
    <3> QED
      BY <3>2 DEF OnlyAccess, OnlyRefresh
  <2>2. l \in {"deleteRefresh", "deleteAccess", "getToken"}
        /\ (l = "deleteRefresh" => c.d1 = None)
    BY <1>2
  <2> QED
    BY <1>6, <1>8, <2>1, <2>2 DEF Progress
<1>14. SessionInv'
  <2>1. pc'[p] # "idle"
    BY <1>2, <1>6
  <2> QED
    BY <1>1, <1>2, <1>3, <1>4, <1>8, <1>9, <1>13, <2>1, SessionStep
<1>15. \A k \in Issued : AccessOf(k)' = AccessOf(k)
  BY <1>1, <1>4, IssuedType
<1>16. pc'[p] \notin {"setRefreshUser", "deleteExpired"}
  BY <1>2, <1>6
<1> QED
  BY <1>4, <1>9, <1>11, <1>12, <1>14, <1>15, <1>16, QuietInv

LEMMA BeginStep ==
    ASSUME Inv, NEW p \in Procs, NEW u \in Users, NEW mode \in {0, 1}, Begin(p, u, mode)
    PROVE  Inv'
<1>1. /\ pc[p] = "idle" /\ Goto(p, "getAccessUser")
      /\ UNCHANGED <<clock, cache, issued>>
      /\ CacheInv /\ CallInv /\ SessionInv /\ disturbed' \subseteq Users
      /\ disturbed \subseteq disturbed' /\ (Busy(u) => u \in disturbed')
  BY DEF Begin, At, Inv, CacheInv
<1>2. call[p] = NoCall
  BY <1>1 DEF CallInv, CallOK
<1>3. /\ CacheInv' /\ cache' \in [Keys -> Nat]
      /\ \A w \in Users : Shrinks(w) /\ KeepsUser(w)
      /\ \A j \in Tokens : AccessOf(j)' = AccessOf(j)
      /\ \A w \in Users : AccessUserOf(w)' = AccessUserOf(w)
  BY <1>1, NoWrite
<1>4. /\ pc' \in [Procs -> Labels] /\ pc'[p] = "getAccessUser"
      /\ \A q \in Procs : q # p => pc'[q] = pc[q]
  BY <1>1, GotoPc DEF Labels
<1>5. /\ call' \in [Procs -> Calls]
      /\ call'[p] = [NoCall EXCEPT !.mode = mode, !.user = u]
      /\ \A q \in Procs : q # p => call'[q] = call[q]
  <2>1. call' = [call EXCEPT ![p].mode = mode, ![p].user = u]
    BY DEF Begin
  <2>2. [NoCall EXCEPT !.mode = mode, !.user = u] \in Calls
    <3>1. NoCall \in Calls /\ mode \in 0..2 /\ u \in Users \cup {None}
      BY DEF Calls, NoCall, None
    <3> QED
      BY <3>1 DEF Calls
  <2> QED
    BY <1>1, <1>2, <2>1, <2>2 DEF CallInv
<1>6. /\ call'[p].d1 = None /\ call'[p].user = u /\ call'[p].mode = mode
      /\ call'[p].d2 = None /\ call'[p].tok = None
  BY <1>5 DEF NoCall
<1>7. Others(p)
  BY <1>4, <1>5 DEF Others
<1>8. CallOK(p)'
  BY <1>4, <1>6 DEF CallOK, Created, Pending
<1>9. CallInv'
  BY <1>1, <1>4, <1>5, <1>7, <1>8, CallFrame
<1>10. Quiet
  BY <1>1, <1>2, <1>3, <1>4, <1>6, <1>7, QuietStep DEF Created, Pending, NoCall
<1>11. ASSUME NEW w \in Users \ disturbed', w # u PROVE SessionOf(w)'
  <2>1. ~Active(p, w) /\ ~Active(p, w)'
    BY <1>1, <1>6, <1>11 DEF Active
  <2>2. /\ \A q \in Procs : Active(q, w)' <=> Active(q, w)
        /\ \A q \in Procs : Active(q, w) => pc'[q] = pc[q] /\ call'[q] = call[q]
    BY <1>7, <2>1 DEF Active, Others
  <2> QED
    BY <1>1, <1>3, <2>2, SessionOther DEF SessionInv, CacheInv
<1>12. ASSUME u \notin disturbed' PROVE SessionOf(u)'
  <2>1. \A q \in Procs : ~Active(q, u)
    BY <1>1, <1>12 DEF Busy, Active
  <2>2. Settled(u)
    BY <1>1, <1>12, <2>1 DEF SessionInv, SessionOf
  <2>3. Settled(u)'
    BY <1>1, <1>3, <2>2, SettledKept DEF CacheInv
  <2>4. Progress(p, u)'
    BY <1>4, <2>3 DEF Progress
  <2>5. \A q \in Procs : Active(q, u)' <=> q = p
    BY <1>4, <1>6, <1>7, <2>1 DEF Others, Active
  <2> QED
    BY <2>4, <2>5 DEF SessionOf
<1>13. SessionInv'
  BY <1>11, <1>12 DEF SessionInv
<1>14. \A k \in Issued : AccessOf(k)' = AccessOf(k)
  BY <1>1, <1>3, IssuedType
<1> QED
  BY <1>3, <1>4, <1>7, <1>9, <1>10, <1>13, <1>14, QuietInv

\* A token that is stale is over, or was shortened or replaced before.
LEMMA StaleRetired ==
    ASSUME CacheInv, RetiredInv, NEW k \in Issued, Stale(<<"access", k>>)
    PROVE  Retired(k)
<1>1. /\ AccessOf(k) \in Nat /\ clock \in Nat /\ issued[k].born \in Nat
      /\ <<"access", k>> \notin UserKeys
  BY IssuedType, CacheKeys DEF AccessOf, CacheInv, UserKeys
<1>2. clock >= AccessOf(k)
  BY <1>1 DEF Stale, IsValid, AccessOf
<1> QED
  BY <1>1, <1>2 DEF RetiredInv, Retired, Lapsed

LEMMA LookUpStep ==
    ASSUME Inv, NEW p \in Procs,
           NEW key \in ({"access", "refresh"} \X Issued) \cup UserKeys,
           LookUp(p, key), Stale(key)
    PROVE  Inv'
<1>1. /\ pc[p] = "idle" /\ Goto(p, "deleteExpired") /\ Stale(key)
      /\ UNCHANGED <<clock, cache, issued, disturbed>>
      /\ CacheInv /\ CallInv /\ SessionInv /\ RetiredInv /\ disturbed' \subseteq Users
  BY DEF LookUp, At, Inv, CacheInv
<1>2. call[p] = NoCall
  BY <1>1 DEF CallInv, CallOK
<1>3. /\ CacheInv' /\ cache' \in [Keys -> Nat]
      /\ \A w \in Users : Shrinks(w) /\ KeepsUser(w)
      /\ \A j \in Tokens : AccessOf(j)' = AccessOf(j)
      /\ \A w \in Users : AccessUserOf(w)' = AccessUserOf(w)
  BY <1>1, NoWrite
<1>4. /\ pc' \in [Procs -> Labels] /\ pc'[p] = "deleteExpired"
      /\ \A q \in Procs : q # p => pc'[q] = pc[q]
  BY <1>1, GotoPc DEF Labels
<1>5. /\ call' \in [Procs -> Calls]
      /\ call'[p] = [NoCall EXCEPT !.key = key]
      /\ \A q \in Procs : q # p => call'[q] = call[q]
  <2>1. call' = [call EXCEPT ![p].key = key]
    BY DEF LookUp
  <2>2. key \in Keys
    BY <1>1, IssuedType, CacheKeys DEF Keys
  <2>3. [NoCall EXCEPT !.key = key] \in Calls
    BY <2>2 DEF Calls, NoCall, None
  <2> QED
    BY <1>1, <1>2, <2>1, <2>3 DEF CallInv
<1>6. /\ call'[p].d1 = None /\ call'[p].user = None /\ call'[p].mode = 2
      /\ call'[p].d2 = None /\ call'[p].tok = None /\ call'[p].key = key
  BY <1>5 DEF NoCall
<1>7. Others(p)
  BY <1>4, <1>5 DEF Others
<1>8. CallOK(p)'
  <2>1. Issued' = Issued
    BY <1>1 DEF Issued
  <2> QED
    BY <1>4, <1>6, <2>1 DEF CallOK, Created, Pending
<1>9. CallInv'
  BY <1>1, <1>4, <1>5, <1>7, <1>8, CallFrame
<1>10. Quiet
  BY <1>1, <1>2, <1>3, <1>4, <1>6, <1>7, QuietStep DEF Created, Pending, NoCall
<1>11. \A w \in Users : ~Active(p, w) /\ ~Active(p, w)'
  BY <1>1, <1>6, TokenAssumption DEF Active
<1>12. SessionInv'
  BY <1>1, <1>3, <1>7, <1>11, SessionIdle DEF Others, Active
<1>13. \A j \in Issued : AccessOf(j)' = AccessOf(j)
  BY <1>1, <1>3, IssuedType
<1>14. \A k \in Issued : key = <<"access", k>> => Retired(k)
  BY <1>1, StaleRetired
<1> QED
  BY <1>3, <1>4, <1>6, <1>7, <1>9, <1>10, <1>12, <1>13, <1>14, QuietInv

\* An access token is deleted or shortened.
LEMMA AccessWrite ==
    ASSUME CacheInv, NEW k \in Issued, NEW v \in Nat, v = None \/ v <= clock + Grace,
           Set(<<"access", k>>, v), UNCHANGED <<clock, issued, disturbed>>
    PROVE  /\ CacheInv' /\ cache' \in [Keys -> Nat] /\ AccessOf(k)' = v
           /\ \A w \in Users : Shrinks(w) /\ KeepsUser(w)
           /\ \A j \in Issued : j # k => AccessOf(j)' = AccessOf(j)
           /\ \A u \in Users : AccessUserOf(u)' = AccessUserOf(u)
<1>1. cache \in [Keys -> Nat] /\ clock \in 0..MaxTime /\ clock \in Nat /\ k \in Tokens
      /\ disturbed' \subseteq Users /\ clock' = clock
  BY IssuedType, TokenAssumption DEF CacheInv
<1>2. /\ cache' \in [Keys -> Nat] /\ AccessOf(k)' = v
      /\ \A j \in Tokens : j # k => AccessOf(j)' = AccessOf(j)
      /\ \A j \in Tokens : RefreshOf(j)' = RefreshOf(j)
      /\ \A u \in Users : /\ AccessUserOf(u)' = AccessUserOf(u)
                          /\ RefreshUserOf(u)' = RefreshUserOf(u)
  BY <1>1, SetAccessOf
<1>3. \A j \in Issued : j \in Tokens
  BY IssuedType
<1>4. v <= clock' + Grace
  BY <1>1, TokenAssumption DEF None
<1>5. CacheInv'
  <2>1. clock' \in 0..MaxTime /\ clock' >= clock
    BY <1>1
  <2>2. \A j \in Issued :
               /\ RefreshOf(j)' \in {RefreshOf(j), None, issued[j].born + Duration}
               /\ AccessOf(j)' \in {AccessOf(j), None} \/ AccessOf(j)' <= clock' + Grace
    BY <1>2, <1>3, <1>4
  <2>3. \A j \in Tokens \ Issued :
               AccessOf(j)' = AccessOf(j) /\ RefreshOf(j)' = RefreshOf(j)
    BY <1>2
  <2>4. \A u \in Users :
               /\ AccessUserOf(u)' \in {AccessUserOf(u), None} \cup OwnedBy(u)
               /\ RefreshUserOf(u)' \in {RefreshUserOf(u), None} \cup OwnedBy(u)
    BY <1>2
  <2> QED
    BY <1>1, <1>2, <2>1, <2>2, <2>3, <2>4, CacheFrame
<1>6. \A w : OwnedBy(w)' = OwnedBy(w) /\ OwnedBy(w) \subseteq Tokens
  BY <1>3, OwnedIssued DEF OwnedBy
<1>7. ASSUME NEW w \in Users PROVE Shrinks(w) /\ KeepsUser(w)
  BY <1>1, <1>2, <1>4, <1>6, <1>7 DEF Shrinks, KeepsUser
<1> QED
  BY <1>2, <1>3, <1>5, <1>7

LEMMA RefreshDelete ==
    ASSUME CacheInv, NEW k \in Issued, Set(<<"refresh", k>>, None),
           UNCHANGED <<clock, issued, disturbed>>
    PROVE  /\ CacheInv' /\ cache' \in [Keys -> Nat] /\ RefreshOf(k)' = None
           /\ \A w \in Users : Shrinks(w) /\ KeepsUser(w)
           /\ \A j \in Issued : AccessOf(j)' = AccessOf(j)
           /\ \A j \in Issued : j # k => RefreshOf(j)' = RefreshOf(j)
           /\ \A u \in Users : AccessUserOf(u)' = AccessUserOf(u)
<1>1. cache \in [Keys -> Nat] /\ clock \in 0..MaxTime /\ clock \in Nat /\ k \in Tokens
      /\ disturbed' \subseteq Users /\ clock' = clock /\ None \in Nat
  BY IssuedType, TokenAssumption DEF CacheInv, None
<1>2. /\ cache' \in [Keys -> Nat] /\ RefreshOf(k)' = None
      /\ \A j \in Tokens : j # k => RefreshOf(j)' = RefreshOf(j)
      /\ \A j \in Tokens : AccessOf(j)' = AccessOf(j)
      /\ \A u \in Users : /\ AccessUserOf(u)' = AccessUserOf(u)
                          /\ RefreshUserOf(u)' = RefreshUserOf(u)
  BY <1>1, SetRefreshOf
<1>3. \A j \in Issued : j \in Tokens
  BY IssuedType
<1>4. CacheInv'
  <2>1. clock' \in 0..MaxTime /\ clock' >= clock
    BY <1>1
  <2>2. \A j \in Issued :
               /\ RefreshOf(j)' \in {RefreshOf(j), None, issued[j].born + Duration}
               /\ AccessOf(j)' \in {AccessOf(j), None} \/ AccessOf(j)' <= clock' + Grace
    BY <1>2, <1>3
  <2>3. \A j \in Tokens \ Issued :
               AccessOf(j)' = AccessOf(j) /\ RefreshOf(j)' = RefreshOf(j)
    BY <1>2
  <2>4. \A u \in Users :
               /\ AccessUserOf(u)' \in {AccessUserOf(u), None} \cup OwnedBy(u)
               /\ RefreshUserOf(u)' \in {RefreshUserOf(u), None} \cup OwnedBy(u)
    BY <1>2
  <2> QED
    BY <1>1, <1>2, <2>1, <2>2, <2>3, <2>4, CacheFrame
<1>5. \A w : OwnedBy(w)' = OwnedBy(w) /\ OwnedBy(w) \subseteq Tokens
  BY <1>3, OwnedIssued DEF OwnedBy
<1>6. ASSUME NEW w \in Users PROVE Shrinks(w) /\ KeepsUser(w)
  <2>1. RefreshOf(k)' <= clock'
    BY <1>1, <1>2 DEF None
  <2> QED
    BY <1>1, <1>2, <1>5, <2>1 DEF Shrinks, KeepsUser
<1> QED
  BY <1>2, <1>3, <1>4, <1>6

\* A step of a request that changes none of its locals.
LEMMA GotoQuiet ==
    ASSUME Inv, NEW p \in Procs, NEW l \in Labels, Goto(p, l), UNCHANGED call,
           UNCHANGED <<clock, issued>>, pc[p] # "idle", l # "idle",
           l \in {"setRefresh", "setAccessUser", "setRefreshUser"} => Created(p),
           l \in {"setRefresh", "setAccessUser"} => Pending(p),
           \A u \in Users : AccessUserOf(u)' \in {AccessUserOf(u), None}
    PROVE  Quiet
<1>1. /\ pc'[p] = l /\ \A q \in Procs : q # p => pc'[q] = pc[q]
  BY GotoPc DEF Inv
<1>2. Others(p)
  BY <1>1 DEF Others
<1> QED
  BY <1>1, <1>2, QuietStep DEF Inv, Created, Pending

LEMMA DeleteAccessStep ==
    ASSUME Inv, NEW p \in Procs, DeleteAccess(p) PROVE Inv'
<1>1. /\ pc[p] = "deleteAccess" /\ Goto(p, "deleteRefresh") /\ call' = call
      /\ UNCHANGED <<clock, issued, disturbed>>
      /\ CacheInv /\ CallInv /\ SessionInv
  BY DEF DeleteAccess, At, Inv
<1>2. PICK c, u, k : c = call[p] /\ u = c.user /\ k = c.d1
  OBVIOUS
<1>3. /\ CallOK(p) /\ u \in Users /\ c.mode # 2 /\ k # None /\ k \in Issued /\ ~Created(p)
  BY <1>1, <1>2, CallFacts DEF CallOK, Created, Pending
<1>4. /\ CacheInv' /\ cache' \in [Keys -> Nat] /\ AccessOf(k)' = None
      /\ \A w \in Users : Shrinks(w) /\ KeepsUser(w)
      /\ \A j \in Issued : j # k => AccessOf(j)' = AccessOf(j)
      /\ \A w \in Users : AccessUserOf(w)' = AccessUserOf(w)
  <2>1. Set(<<"access", k>>, None) /\ None \in Nat
    BY <1>2 DEF DeleteAccess, Delete, None
  <2> QED
    BY <1>1, <1>3, <2>1, AccessWrite
<1>5. pc'[p] = "deleteRefresh" /\ call'[p] = c
  BY <1>1, <1>2, GotoPc DEF Labels
<1>6. Others(p) /\ CallInv'
  BY <1>1, <1>2, <1>3, CallGoto DEF Labels
<1>7. Quiet
  BY <1>1, <1>4, GotoQuiet DEF Labels
<1>8. Progress(p, u) => Progress(p, u)'
  <2>1. ASSUME Progress(p, u) PROVE OnlyRefresh(u, c.d2)' /\ OnlyAccess(u, None)'
    <3>1. OnlyAccess(u, k) /\ OnlyRefresh(u, c.d2)
      BY <1>1, <1>2, <2>1 DEF Progress
    <3>2. /\ \A j \in OwnedBy(u)' : AccessOf(j)' > clock' + Grace => j = k
          /\ \A j \in OwnedBy(u)' : RefreshOf(j)' > clock' => j = c.d2
      BY <1>1, <1>3, <1>4, <3>1, OnlyKept DEF CacheInv
    <3>3. ~(AccessOf(k)' > clock' + Grace)
      BY <1>1, <1>4, TokenAssumption DEF CacheInv, None
    <3> QED
      BY <3>2, <3>3 DEF OnlyAccess, OnlyRefresh
  <2> QED
    BY <1>5, <2>1 DEF Progress
<1>9. SessionInv'
  BY <1>1, <1>2, <1>3, <1>4, <1>5, <1>6, <1>8, SessionStep
<1>10. Retired(k)
  BY <1>1, <1>2 DEF Retired, Replacing
<1> QED
  BY <1>4, <1>5, <1>6, <1>7, <1>9, <1>10, QuietInv

LEMMA SetGraceStep ==
    ASSUME Inv, NEW p \in Procs, SetGrace(p) PROVE Inv'
<1>1. /\ pc[p] = "setGrace" /\ Goto(p, "deleteRefresh") /\ call' = call
      /\ UNCHANGED <<clock, issued, disturbed>>
      /\ CacheInv /\ CallInv /\ SessionInv
  BY DEF SetGrace, At, Inv
<1>2. PICK c, u, k : c = call[p] /\ u = c.user /\ k = c.d1
  OBVIOUS
<1>3. /\ CallOK(p) /\ u \in Users /\ c.mode # 2 /\ k # None /\ k \in Issued /\ ~Created(p)
  BY <1>1, <1>2, CallFacts DEF CallOK, Created, Pending
<1>4. /\ CacheInv' /\ cache' \in [Keys -> Nat] /\ AccessOf(k)' = clock + Grace
      /\ \A w \in Users : Shrinks(w) /\ KeepsUser(w)
      /\ \A j \in Issued : j # k => AccessOf(j)' = AccessOf(j)
      /\ \A w \in Users : AccessUserOf(w)' = AccessUserOf(w)
  <2>1. PICK v : v = clock + Grace
    OBVIOUS
  <2>2. Set(<<"access", k>>, v) /\ v \in Nat /\ v <= clock + Grace
    BY <1>1, <1>2, <2>1, TokenAssumption DEF SetGrace, CacheInv
  <2> QED
    BY <1>1, <1>3, <2>1, <2>2, AccessWrite
<1>5. pc'[p] = "deleteRefresh" /\ call'[p] = c
  BY <1>1, <1>2, GotoPc DEF Labels
<1>6. Others(p) /\ CallInv'
  BY <1>1, <1>2, <1>3, CallGoto DEF Labels
<1>7. Quiet
  BY <1>1, <1>4, GotoQuiet DEF Labels
<1>8. Progress(p, u) => Progress(p, u)'
  <2>1. ASSUME Progress(p, u) PROVE OnlyRefresh(u, c.d2)' /\ OnlyAccess(u, None)'
    <3>1. OnlyAccess(u, k) /\ OnlyRefresh(u, c.d2)
      BY <1>1, <1>2, <2>1 DEF Progress
    <3>2. /\ \A j \in OwnedBy(u)' : AccessOf(j)' > clock' + Grace => j = k
          /\ \A j \in OwnedBy(u)' : RefreshOf(j)' > clock' => j = c.d2
      BY <1>1, <1>3, <1>4, <3>1, OnlyKept DEF CacheInv
    <3>3. ~(AccessOf(k)' > clock' + Grace)
      BY <1>1, <1>4, TokenAssumption DEF CacheInv
    <3> QED
      BY <3>2, <3>3 DEF OnlyAccess, OnlyRefresh
  <2> QED
    BY <1>5, <2>1 DEF Progress
<1>9. SessionInv'
  BY <1>1, <1>2, <1>3, <1>4, <1>5, <1>6, <1>8, SessionStep
<1>10. Retired(k)
  BY <1>1, <1>2 DEF Retired, Replacing
<1> QED
  BY <1>4, <1>5, <1>6, <1>7, <1>9, <1>10, QuietInv

LEMMA DeleteRefreshStep ==
    ASSUME Inv, NEW p \in Procs, DeleteRefresh(p) PROVE Inv'
<1>1. /\ pc[p] = "deleteRefresh" /\ Goto(p, "setAccess") /\ call' = call
      /\ UNCHANGED <<clock, issued, disturbed>>
      /\ CacheInv /\ CallInv /\ SessionInv /\ disturbed' \subseteq Users
  BY DEF DeleteRefresh, At, Inv, CacheInv
<1>2. PICK c, u, k : c = call[p] /\ u = c.user /\ k = c.d2
  OBVIOUS
<1>3. /\ CallOK(p) /\ u \in Users /\ c.mode # 2 /\ ~Created(p)
      /\ k # None => k \in Issued /\ k \in Tokens
  BY <1>1, <1>2, CallFacts, IssuedType DEF CallOK, Created, Pending
<1>4. /\ CacheInv' /\ cache' \in [Keys -> Nat]
      /\ k # None => ~(RefreshOf(k)' > clock')
      /\ \A w \in Users : Shrinks(w) /\ KeepsUser(w)
      /\ \A j \in Issued : AccessOf(j)' = AccessOf(j)
      /\ \A w \in Users : AccessUserOf(w)' = AccessUserOf(w)
  <2>1. CASE k = None
    <3>1. UNCHANGED cache
      BY <1>2, <2>1 DEF DeleteRefresh
    <3> QED
      BY <1>1, <2>1, <3>1, NoWrite, IssuedType
  <2>2. CASE k # None
    <3>1. Set(<<"refresh", k>>, None)
      BY <1>2, <2>2 DEF DeleteRefresh, Delete
    <3>2. RefreshOf(k)' = None
      BY <1>1, <1>3, <2>2, <3>1, RefreshDelete
    <3>3. ~(RefreshOf(k)' > clock')
      BY <1>1, <3>2, TokenAssumption DEF CacheInv, None
    <3> QED
      BY <1>1, <1>3, <2>2, <3>1, <3>3, RefreshDelete
  <2> QED
    BY <2>1, <2>2
<1>5. pc'[p] = "setAccess" /\ call'[p] = c
  BY <1>1, <1>2, GotoPc DEF Labels
<1>6. Others(p) /\ CallInv'
  BY <1>1, <1>2, <1>3, CallGoto DEF Labels
<1>7. Quiet
  BY <1>1, <1>4, GotoQuiet DEF Labels
<1>8. Progress(p, u) => Progress(p, u)'
  <2>1. ASSUME Progress(p, u) PROVE OnlyRefresh(u, None)' /\ OnlyAccess(u, None)'
    <3>1. OnlyAccess(u, None) /\ OnlyRefresh(u, k)
      BY <1>1, <1>2, <2>1 DEF Progress
    <3>2. /\ \A j \in OwnedBy(u)' : AccessOf(j)' > clock' + Grace => j = None
          /\ \A j \in OwnedBy(u)' : RefreshOf(j)' > clock' => j = k
      BY <1>1, <1>3, <1>4, <3>1, OnlyKept DEF CacheInv
    <3> QED
      BY <1>4, <3>2 DEF OnlyAccess, OnlyRefresh
  <2> QED
    BY <1>5, <2>1 DEF Progress
<1>9. SessionInv'
  BY <1>1, <1>2, <1>3, <1>4, <1>5, <1>6, <1>8, SessionStep
<1> QED
  BY <1>4, <1>5, <1>6, <1>7, <1>9, QuietInv

\* A look-up ends.
LEMMA LookUpEnds ==
    ASSUME Inv, NEW p \in Procs, call[p].mode = 2, pc[p] # "idle", Return(p),
           UNCHANGED <<clock, issued>>, CacheInv', cache' \in [Keys -> Nat],
           disturbed \subseteq disturbed',
           \A w \in Users \ disturbed' : Shrinks(w) /\ KeepsUser(w),
           \A k \in Issued : AccessOf(k)' = AccessOf(k) \/ Retired(k),
           \A u \in Users : AccessUserOf(u)' \in {AccessUserOf(u), None}
    PROVE  Inv'
<1>1. CacheInv /\ CallInv /\ SessionInv /\ CallOK(p)
  BY DEF Inv, CallInv
<1>2. call[p].d1 = None /\ call[p].user = None
  BY <1>1 DEF CallOK
<1>3. /\ Others(p) /\ CallInv' /\ pc'[p] = "idle" /\ call'[p] = NoCall
  BY <1>1, ReturnCall
<1>4. call'[p].d1 = None /\ call'[p].user = None
  BY <1>3 DEF NoCall
<1>5. Quiet
  BY <1>1, <1>2, <1>3, <1>4, QuietStep DEF Created, Pending
<1>6. SessionInv'
  <2>1. \A w \in Users : ~Active(p, w) /\ ~Active(p, w)'
    BY <1>2, <1>4, TokenAssumption DEF Active
  <2> QED
    BY <1>1, <1>3, <2>1, SessionIdle DEF Others, Active
<1> QED
  BY <1>3, <1>5, <1>6, QuietInv

LEMMA GetTokenStep ==
    ASSUME Inv, NEW p \in Procs, GetToken(p) PROVE Inv'
<1>1. /\ pc[p] = "getToken" /\ UNCHANGED <<clock, cache, issued, disturbed>>
      /\ CacheInv /\ CallInv /\ SessionInv /\ RetiredInv /\ disturbed' \subseteq Users
  BY DEF GetToken, At, Inv, CacheInv
<1>2. PICK c, exp : c = call[p] /\ exp = cache[c.key]
  OBVIOUS
<1>3. /\ c \in Calls /\ CallOK(p) /\ c.mode = 1 /\ ~Created(p) /\ c.tok = None
      /\ c.user \in Users /\ c.d1 # None
      /\ c.key = <<"access", c.d1>> /\ c.d1 \in Issued
  <2>1. /\ c \in Calls /\ CallOK(p) /\ ~Created(p) /\ c.tok = None
        /\ c.d1 # None => c.d1 \in Issued
    BY <1>1, <1>2, CallFacts DEF Created, Pending
  <2>2. /\ c.mode # 0 /\ c.mode # 2
        /\ c.mode = 1 => c.d1 # None /\ c.key = <<"access", c.d1>>
        /\ c.mode # 2 => c.user \in Users
    BY <1>1, <1>2, <2>1 DEF CallOK
  <2>3. c.mode \in 0..2
    BY <2>1 DEF Calls
  <2> QED
    BY <2>1, <2>2, <2>3
<1>4. /\ CacheInv' /\ cache' \in [Keys -> Nat]
      /\ \A w \in Users : Shrinks(w) /\ KeepsUser(w)
      /\ \A j \in Issued : AccessOf(j)' = AccessOf(j)
      /\ \A w \in Users : AccessUserOf(w)' = AccessUserOf(w)
  BY <1>1, NoWrite, IssuedType
<1>5. CASE Stale(c.key)
  <2>1. Goto(p, "deleteExpired") /\ call' = call
    BY <1>1, <1>2, <1>5 DEF GetToken
  <2>2. /\ pc' \in [Procs -> Labels] /\ pc'[p] = "deleteExpired" /\ call'[p] = c
        /\ \A q \in Procs : q # p => pc'[q] = pc[q]
    BY <1>1, <1>2, <2>1, GotoPc DEF Labels
  <2>3. Others(p)
    BY <2>1, <2>2 DEF Others
  <2>4. CallOK(p)'
    <3>1. (\A w : OwnedBy(w)' = OwnedBy(w)) /\ Issued' = Issued
      BY <1>1 DEF OwnedBy, Issued
    <3>2. ~Created(p)'
      BY <2>2 DEF Created, Pending
    <3> QED
      BY <1>1, <1>2, <1>3, <2>2, <3>1, <3>2 DEF CallOK
  <2>5. CallInv'
    BY <1>1, <2>1, <2>2, <2>3, <2>4, CallFrame DEF CallInv
  <2>6. Quiet
    BY <1>1, <1>4, <2>1, GotoQuiet DEF Labels
  <2>7. SessionInv'
    <3>1. PICK u \in Users : u = c.user
      BY <1>3
    <3>2. Progress(p, u) => Progress(p, u)'
      <4>1. ASSUME Progress(p, u)
            PROVE  OnlyRefresh(u, c.d2)' /\ OnlyAccess(u, c.d1)'
        <5>1. OnlyRefresh(u, c.d2) /\ OnlyAccess(u, c.d1)
          BY <1>1, <1>2, <4>1 DEF Progress
        <5>2. /\ \A j \in OwnedBy(u)' : AccessOf(j)' > clock' + Grace => j = c.d1
              /\ \A j \in OwnedBy(u)' : RefreshOf(j)' > clock' => j = c.d2
          BY <1>1, <1>4, <5>1, OnlyKept DEF CacheInv
        <5> QED
          BY <5>2 DEF OnlyAccess, OnlyRefresh
      <4> QED
        BY <2>2, <4>1 DEF Progress
    <3> QED
      BY <1>1, <1>2, <1>4, <2>2, <2>3, <3>1, <3>2, SessionStep
  <2>8. \A k \in Issued : c.key = <<"access", k>> => Retired(k)
    BY <1>1, <1>5, StaleRetired
  <2> QED
    BY <1>4, <2>2, <2>3, <2>5, <2>6, <2>7, <2>8, QuietInv
<1>6. CASE ~Stale(c.key)
  <2>1. PICK l, u, k : /\ l = IF exp = None THEN "deleteRefresh" ELSE "setGrace"
                       /\ u = c.user /\ k = c.d1
    OBVIOUS
  <2>2. Goto(p, l) /\ call' = call /\ l \in Labels
    BY <1>2, <1>6, <2>1 DEF GetToken, Labels
  <2>3. /\ pc'[p] = l /\ call'[p] = c /\ u \in Users
    BY <1>1, <1>2, <1>3, <1>6, <2>1, <2>2, GotoPc
  <2>4. l \in {"deleteRefresh", "setGrace"}
    BY <2>1
  <2>5. Others(p) /\ CallInv'
    <3>1. /\ pc' \in [Procs -> Labels] /\ \A q \in Procs : q # p => pc'[q] = pc[q]
      BY <1>1, <2>2, GotoPc
    <3>2. Others(p)
      BY <2>2, <3>1 DEF Others
    <3>3. \A w : OwnedBy(w)' = OwnedBy(w)
      BY <1>1 DEF OwnedBy
    <3>4. ~Created(p)'
      BY <2>3, <2>4 DEF Created, Pending
    <3>5. CallOK(p)'
      BY <1>2, <1>3, <1>6, <2>3, <2>4, <3>3, <3>4 DEF CallOK
    <3> QED
      BY <1>1, <2>2, <3>1, <3>2, <3>5, CallFrame DEF CallInv
  <2>6. Quiet
    BY <1>1, <1>4, <2>2, <2>4, GotoQuiet
  <2>7. Progress(p, u) => Progress(p, u)'
    <3>1. ASSUME Progress(p, u)
          PROVE  /\ OnlyRefresh(u, c.d2)' /\ OnlyAccess(u, k)'
                 /\ l = "deleteRefresh" => OnlyAccess(u, None)'
      <4>1. OnlyRefresh(u, c.d2) /\ OnlyAccess(u, k)
        BY <1>1, <1>2, <2>1, <3>1 DEF Progress
      <4>2. /\ \A j \in OwnedBy(u)' : AccessOf(j)' > clock' + Grace => j = k
            /\ \A j \in OwnedBy(u)' : RefreshOf(j)' > clock' => j = c.d2
        BY <1>1, <1>4, <2>3, <4>1, OnlyKept DEF CacheInv
      <4>3. ASSUME l = "deleteRefresh" PROVE ~(AccessOf(k)' > clock' + Grace)
        <5>1. AccessOf(k) = None
          BY <1>2, <1>3, <1>6, <2>1, <4>3 DEF AccessOf
        <5> QED
          BY <1>1, <1>3, <1>4, <1>6, <2>1, <5>1, TokenAssumption DEF CacheInv, None
      <4> QED
        BY <4>2, <4>3 DEF OnlyAccess, OnlyRefresh
    <3> QED
      BY <2>1, <2>3, <2>4, <3>1 DEF Progress
  <2>8. SessionInv'
    BY <1>1, <1>2, <1>4, <2>1, <2>3, <2>4, <2>5, <2>7, SessionStep
  <2> QED
    BY <1>4, <2>3, <2>4, <2>5, <2>6, <2>8, QuietInv
<1> QED
  BY <1>5, <1>6

\* The entry of a user is removed, by a look-up.
LEMMA UserDelete ==
    ASSUME CacheInv, NEW u \in Users, NEW key \in {<<"access_user", u>>, <<"refresh_user", u>>},
           Set(key, None), UNCHANGED <<clock, issued>>, disturbed' \subseteq Users
    PROVE  /\ CacheInv' /\ cache' \in [Keys -> Nat]
           /\ \A j \in Issued : AccessOf(j)' = AccessOf(j)
           /\ \A w \in Users : AccessUserOf(w)' \in {AccessUserOf(w), None}
           /\ \A w \in Users : w # u => Shrinks(w) /\ KeepsUser(w)
<1>1. cache \in [Keys -> Nat] /\ clock \in 0..MaxTime /\ clock \in Nat
      /\ clock' = clock /\ None \in Nat
  BY TokenAssumption DEF CacheInv, None
<1>2. /\ cache' \in [Keys -> Nat]
      /\ \A j \in Tokens : AccessOf(j)' = AccessOf(j) /\ RefreshOf(j)' = RefreshOf(j)
      /\ \A w \in Users : w # u => /\ AccessUserOf(w)' = AccessUserOf(w)
                                   /\ RefreshUserOf(w)' = RefreshUserOf(w)
      /\ AccessUserOf(u)' \in {AccessUserOf(u), None}
      /\ RefreshUserOf(u)' \in {RefreshUserOf(u), None}
  <2>1. CASE key = <<"access_user", u>>
    BY <1>1, <2>1, SetAccessUserOf
  <2>2. CASE key = <<"refresh_user", u>>
    BY <1>1, <2>2, SetRefreshUserOf
  <2> QED
    BY <2>1, <2>2
<1>3. \A j \in Issued : j \in Tokens
  BY IssuedType
<1>4. CacheInv'
  <2>1. clock' \in 0..MaxTime /\ clock' >= clock
    BY <1>1
  <2>2. \A j \in Issued :
               /\ RefreshOf(j)' \in {RefreshOf(j), None, issued[j].born + Duration}
               /\ AccessOf(j)' \in {AccessOf(j), None} \/ AccessOf(j)' <= clock' + Grace
    BY <1>2, <1>3
  <2>3. \A j \in Tokens \ Issued :
               AccessOf(j)' = AccessOf(j) /\ RefreshOf(j)' = RefreshOf(j)
    BY <1>2
  <2>4. \A w \in Users :
               /\ AccessUserOf(w)' \in {AccessUserOf(w), None} \cup OwnedBy(w)
               /\ RefreshUserOf(w)' \in {RefreshUserOf(w), None} \cup OwnedBy(w)
    BY <1>2
  <2> QED
    BY <1>1, <1>2, <2>1, <2>2, <2>3, <2>4, CacheFrame
<1>5. \A w : OwnedBy(w)' = OwnedBy(w) /\ OwnedBy(w) \subseteq Tokens
  BY <1>3, OwnedIssued DEF OwnedBy
<1>6. ASSUME NEW w \in Users, w # u PROVE Shrinks(w) /\ KeepsUser(w)
  BY <1>1, <1>2, <1>5, <1>6 DEF Shrinks, KeepsUser
<1> QED
  BY <1>2, <1>3, <1>4, <1>6

LEMMA DeleteExpiredStep ==
    ASSUME Inv, NEW p \in Procs, DeleteExpired(p) PROVE Inv'
<1>1. /\ pc[p] = "deleteExpired" /\ UNCHANGED <<clock, issued>>
      /\ CacheInv /\ CallInv /\ SessionInv /\ RetiredInv /\ disturbed \subseteq Users
  BY DEF DeleteExpired, At, Inv, CacheInv
<1>2. PICK c : c = call[p]
  OBVIOUS
<1>3. /\ CallOK(p) /\ ~Created(p) /\ c.mode \in {1, 2}
      /\ c.key \in ({"access", "refresh"} \X Issued) \cup UserKeys
      /\ c.mode = 1 => /\ c.user \in Users /\ c.d1 # None
                       /\ c.key = <<"access", c.d1>> /\ c.d1 \in Issued
  <2>1. /\ c \in Calls /\ CallOK(p) /\ ~Created(p) /\ c.tok = None
        /\ c.d1 # None => c.d1 \in Issued
    BY <1>1, <1>2, CallFacts DEF Created, Pending
  <2>2. /\ c.mode # 0 /\ c.key \in ({"access", "refresh"} \X Issued) \cup UserKeys
        /\ c.mode = 1 => c.d1 # None /\ c.key = <<"access", c.d1>>
        /\ c.mode # 2 => c.user \in Users
    BY <1>1, <1>2, <2>1 DEF CallOK
  <2>3. c.mode \in 0..2
    BY <2>1 DEF Calls
  <2> QED
    BY <2>1, <2>2, <2>3
<1>5. Set(c.key, None) /\ None \in Nat
  BY <1>2 DEF DeleteExpired, Delete, None
<1>6. ASSUME NEW k \in Issued, c.key = <<"access", k>> \/ c.key = <<"refresh", k>>
      PROVE  /\ CacheInv' /\ cache' \in [Keys -> Nat] /\ UNCHANGED disturbed
             /\ \A w \in Users : Shrinks(w) /\ KeepsUser(w)
             /\ \A j \in Issued : AccessOf(j)' = AccessOf(j) \/ Retired(j)
             /\ \A u \in Users : AccessUserOf(u)' = AccessUserOf(u)
             /\ c.key = <<"access", k>> => AccessOf(k)' = None
  <2>0. UNCHANGED disturbed
    BY <1>2, <1>6 DEF DeleteExpired, UserKeys
  <2>1. CASE c.key = <<"access", k>>
    <3>1. Retired(k)
      BY <1>1, <1>2, <2>1 DEF RetiredInv
    <3> QED
      BY <1>1, <1>5, <2>0, <2>1, <3>1, AccessWrite
  <2>2. CASE c.key = <<"refresh", k>>
    BY <1>1, <1>5, <2>0, <2>2, RefreshDelete
  <2> QED
    BY <1>6, <2>1, <2>2
<1>7. CASE c.mode = 2
  <2>1. Return(p)
    BY <1>2, <1>7 DEF DeleteExpired
  <2>2. CASE c.key \in {"access", "refresh"} \X Issued
    <3>1. PICK k \in Issued : c.key = <<"access", k>> \/ c.key = <<"refresh", k>>
      BY <2>2
    <3> QED
      BY <1>1, <1>2, <1>6, <1>7, <2>1, <3>1, LookUpEnds
  <2>3. CASE c.key \in UserKeys
    <3>1. PICK u \in Users : c.key \in {<<"access_user", u>>, <<"refresh_user", u>>}
      BY <2>3 DEF UserKeys
    <3>2. disturbed' = disturbed \cup {u}
      BY <1>2, <2>3, <3>1 DEF DeleteExpired
    <3>3. /\ CacheInv' /\ cache' \in [Keys -> Nat]
          /\ \A j \in Issued : AccessOf(j)' = AccessOf(j)
          /\ \A w \in Users : AccessUserOf(w)' \in {AccessUserOf(w), None}
          /\ \A w \in Users : w # u => Shrinks(w) /\ KeepsUser(w)
      BY <1>1, <1>5, <3>1, <3>2, UserDelete
    <3> QED
      BY <1>1, <1>2, <1>7, <2>1, <3>2, <3>3, LookUpEnds
  <2> QED
    BY <1>3, <2>2, <2>3
<1>8. CASE c.mode = 1
  <2>1. PICK k \in Issued, u \in Users : u = c.user /\ k = c.d1
    BY <1>3, <1>8
  <2>0. /\ CacheInv' /\ cache' \in [Keys -> Nat] /\ UNCHANGED disturbed
        /\ \A w \in Users : Shrinks(w) /\ KeepsUser(w)
        /\ \A j \in Issued : AccessOf(j)' = AccessOf(j) \/ Retired(j)
        /\ \A w \in Users : AccessUserOf(w)' = AccessUserOf(w)
        /\ AccessOf(k)' = None
    BY <1>3, <1>6, <1>8, <2>1
  <2>2. Goto(p, "deleteRefresh") /\ call' = call /\ u \in Users /\ c.d1 = k
        /\ AccessOf(k)' = None
    BY <1>2, <1>3, <1>8, <2>0, <2>1 DEF DeleteExpired
  <2>3. pc'[p] = "deleteRefresh" /\ call'[p] = c
    BY <1>1, <1>2, <2>2, GotoPc DEF Labels
  <2>4. Others(p) /\ CallInv'
    BY <1>1, <1>2, <1>3, <1>8, <2>2, CallGoto DEF Labels
  <2>5. Quiet
    BY <1>1, <2>0, <2>2, GotoQuiet DEF Labels
  <2>6. Progress(p, u) => Progress(p, u)'
    <3>1. ASSUME Progress(p, u) PROVE OnlyRefresh(u, c.d2)' /\ OnlyAccess(u, None)'
      <4>1. OnlyAccess(u, k) /\ OnlyRefresh(u, c.d2)
        BY <1>1, <1>2, <2>2, <3>1 DEF Progress
      <4>2. /\ \A j \in OwnedBy(u)' : AccessOf(j)' > clock' + Grace => j = k
            /\ \A j \in OwnedBy(u)' : RefreshOf(j)' > clock' => j = c.d2
        BY <1>1, <2>0, <2>2, <4>1, OnlyKept DEF CacheInv
      <4>3. ~(AccessOf(k)' > clock' + Grace)
        BY <1>1, <2>2, TokenAssumption DEF CacheInv, None
      <4> QED
        BY <4>2, <4>3 DEF OnlyAccess, OnlyRefresh
    <3> QED
      BY <2>3, <3>1 DEF Progress
  <2>7. SessionInv'
    BY <1>1, <1>2, <2>0, <2>1, <2>2, <2>3, <2>4, <2>6, SessionStep
  <2> QED
    BY <2>0, <2>3, <2>4, <2>5, <2>7, QuietInv
<1> QED
  BY <1>3, <1>7, <1>8

LEMMA SetRefreshStep ==
    ASSUME Inv, NEW p \in Procs, SetRefresh(p) PROVE Inv'
<1>1. /\ pc[p] = "setRefresh" /\ Goto(p, "setAccessUser") /\ call' = call
      /\ UNCHANGED <<clock, issued, disturbed>>
      /\ CacheInv /\ CallInv /\ SessionInv /\ disturbed' \subseteq Users
      /\ clock' \in 0..MaxTime /\ clock \in Nat /\ clock' >= clock
  BY TokenAssumption DEF SetRefresh, At, Inv, CacheInv
<1>2. PICK c, u, k : c = call[p] /\ u = c.user /\ k = c.tok
  OBVIOUS
<1>3. /\ CallOK(p) /\ u \in Users /\ c.mode # 2 /\ Created(p) /\ Pending(p)
      /\ k \in Issued /\ k \in OwnedBy(u) /\ k \in Tokens
      /\ c.exp = issued[k].born + Duration /\ c.exp \in Nat
  <2>1. Created(p) /\ Pending(p)
    BY <1>1 DEF Created, Pending
  <2>2. /\ c \in Calls /\ CallOK(p) /\ u \in Users /\ c.mode # 2
        /\ k \in Issued /\ k \in OwnedBy(u) /\ c.exp = issued[k].born + Duration
    BY <1>1, <1>2, <2>1, CallFacts DEF CallOK
  <2> QED
    BY <1>1, <2>1, <2>2, IssuedType DEF Calls
<1>4. /\ cache' \in [Keys -> Nat] /\ RefreshOf(k)' = c.exp
      /\ \A j \in Tokens : j # k => RefreshOf(j)' = RefreshOf(j)
      /\ \A j \in Tokens : AccessOf(j)' = AccessOf(j)
      /\ \A w \in Users : /\ AccessUserOf(w)' = AccessUserOf(w)
                          /\ RefreshUserOf(w)' = RefreshUserOf(w)
  <2>1. Set(<<"refresh", k>>, c.exp)
    BY <1>2 DEF SetRefresh
  <2> QED
    BY <1>1, <1>3, <2>1, SetRefreshOf DEF CacheInv
<1>5. \A j \in Issued : j \in Tokens
  BY <1>1, IssuedType
<1>6. CacheInv'
  <2>1. \A j \in Issued :
               /\ RefreshOf(j)' \in {RefreshOf(j), None, issued[j].born + Duration}
               /\ AccessOf(j)' \in {AccessOf(j), None} \/ AccessOf(j)' <= clock' + Grace
    BY <1>3, <1>4, <1>5
  <2>2. \A j \in Tokens \ Issued :
               AccessOf(j)' = AccessOf(j) /\ RefreshOf(j)' = RefreshOf(j)
    BY <1>3, <1>4
  <2>3. \A w \in Users :
               /\ AccessUserOf(w)' \in {AccessUserOf(w), None} \cup OwnedBy(w)
               /\ RefreshUserOf(w)' \in {RefreshUserOf(w), None} \cup OwnedBy(w)
    BY <1>4
  <2> QED
    BY <1>1, <1>4, <2>1, <2>2, <2>3, CacheFrame
<1>7. pc'[p] = "setAccessUser" /\ call'[p] = c
  BY <1>1, <1>2, GotoPc DEF Labels
<1>8. Others(p) /\ CallInv'
  BY <1>1, <1>2, <1>3, CallGoto DEF Labels
<1>9. Quiet
  BY <1>1, <1>3, <1>4, GotoQuiet DEF Labels
<1>10. \A w : OwnedBy(w)' = OwnedBy(w) /\ OwnedBy(w) \subseteq Tokens
  BY <1>1, <1>5, OwnedIssued DEF OwnedBy
<1>11. ASSUME NEW w \in Users, w # u PROVE Shrinks(w) /\ KeepsUser(w)
  <2>1. \A j \in OwnedBy(w) : j # k
    BY <1>3, <1>11 DEF OwnedBy
  <2> QED
    BY <1>1, <1>4, <1>10, <2>1 DEF Shrinks, KeepsUser
<1>12. Progress(p, u) => Progress(p, u)'
  <2>1. ASSUME Progress(p, u) PROVE OnlyRefresh(u, k)' /\ OnlyAccess(u, k)'
    <3>1. OnlyRefresh(u, None) /\ OnlyAccess(u, k)
      BY <1>1, <1>2, <2>1 DEF Progress
    <3>2. /\ \A j \in OwnedBy(u)' : AccessOf(j)' > clock' + Grace => j = k
          /\ \A j \in OwnedBy(u)' : RefreshOf(j)' > clock' => j = k
      <4>1. ASSUME NEW j \in OwnedBy(u)
            PROVE  /\ AccessOf(j)' = AccessOf(j) /\ j # None
                   /\ j # k => RefreshOf(j)' = RefreshOf(j)
        BY <1>1, <1>4, <1>10, OwnedIssued, IssuedType
      <4> QED
        BY <1>1, <1>10, <3>1, <4>1 DEF OnlyRefresh, OnlyAccess
    <3> QED
      BY <3>2 DEF OnlyAccess, OnlyRefresh
  <2> QED
    BY <1>2, <1>7, <2>1 DEF Progress
<1>13. SessionInv'
  BY <1>1, <1>2, <1>3, <1>4, <1>7, <1>8, <1>11, <1>12, SessionStep
<1> QED
  BY <1>4, <1>5, <1>6, <1>7, <1>8, <1>9, <1>13, QuietInv

\* A new token is the newest: no entry and no request can know it.
LEMMA SetAccessStep ==
    ASSUME Inv, NEW p \in Procs, SetAccess(p) PROVE Inv'
<1>1. /\ pc[p] = "setAccess" /\ Goto(p, "setRefresh")
      /\ UNCHANGED <<clock, disturbed>>
      /\ CacheInv /\ CallInv /\ PendingInv /\ RetiredInv /\ SessionInv
      /\ disturbed' \subseteq Users
      /\ cache \in [Keys -> Nat]
      /\ clock \in 0..MaxTime /\ clock \in Nat /\ clock + Duration \in Nat
  BY TokenAssumption DEF SetAccess, At, Inv, CacheInv
<1>2. PICK c, u, k, e :
          c = call[p] /\ u = c.user /\ k = Len(issued) + 1 /\ e = clock + Duration
  OBVIOUS
<1>3. /\ c \in Calls /\ CallOK(p) /\ u \in Users /\ c.mode \in {0, 1}
      /\ ~Created(p) /\ ~Pending(p)
      /\ c.d1 # None => c.d1 \in OwnedBy(u)
      /\ c.d2 # None => c.d2 \in OwnedBy(u)
  <2>1. ~Created(p) /\ ~Pending(p)
    BY <1>1 DEF Created, Pending
  <2>2. /\ c \in Calls /\ CallOK(p) /\ u \in Users /\ c.mode # 2
        /\ c.d1 # None => c.d1 \in OwnedBy(u)
        /\ c.d2 # None => c.d2 \in OwnedBy(u)
    BY <1>1, <1>2, CallFacts DEF CallOK
  <2> QED
    BY <2>1, <2>2 DEF Calls
<1>4. /\ k \in Tokens /\ k \in Nat /\ k # None /\ k \notin Issued
      /\ issued' \in Seq([user : Users, born : 0..MaxTime]) /\ Len(issued') <= MaxTokens
      /\ Issued' = Issued \cup {k}
      /\ \A j \in Issued : issued'[j] = issued[j] /\ j \in Tokens
      /\ issued'[k] = [user |-> u, born |-> clock]
  <2>1. PICK n : n = [user |-> u, born |-> clock]
    OBVIOUS
  <2>2. issued' = Append(issued, n) /\ k \in Tokens
    BY <1>2, <2>1 DEF SetAccess
  <2>3. n \in [user : Users, born : 0..MaxTime]
    BY <1>1, <1>3, <2>1
  <2>4. issued \in Seq([user : Users, born : 0..MaxTime])
    BY <1>1 DEF CacheInv
  <2>5. ASSUME NEW S, issued \in Seq(S), n \in S
        PROVE  /\ issued' \in Seq(S) /\ Len(issued') = k /\ Len(issued) \in Nat
               /\ issued'[k] = n /\ \A j \in 1..Len(issued) : issued'[j] = issued[j]
    BY <1>2, <2>2, <2>5
  <2>6. /\ issued' \in Seq([user : Users, born : 0..MaxTime]) /\ Len(issued') = k
        /\ Len(issued) \in Nat
        /\ issued'[k] = n /\ \A j \in 1..Len(issued) : issued'[j] = issued[j]
    BY <2>3, <2>4, <2>5
  <2> QED
    BY <1>2, <2>1, <2>2, <2>6, TokenAssumption DEF Issued, Tokens, None
<1>5. /\ cache' \in [Keys -> Nat] /\ AccessOf(k)' = e
      /\ \A j \in Tokens : j # k => AccessOf(j)' = AccessOf(j)
      /\ \A j \in Tokens : RefreshOf(j)' = RefreshOf(j)
      /\ \A w \in Users : /\ AccessUserOf(w)' = AccessUserOf(w)
                          /\ RefreshUserOf(w)' = RefreshUserOf(w)
  <2>1. Set(<<"access", k>>, e) /\ e \in Nat
    BY <1>1, <1>2 DEF SetAccess
  <2> QED
    BY <1>1, <1>4, <2>1, SetAccessOf
<1>6. /\ \A w : OwnedBy(w) \subseteq OwnedBy(w)' /\ OwnedBy(w) \subseteq Tokens
      /\ \A w : w # u => OwnedBy(w)' = OwnedBy(w)
      /\ OwnedBy(u)' = OwnedBy(u) \cup {k}
  <2>1. \A w : OwnedBy(w) = {j \in Issued : issued[j].user = w}
               /\ OwnedBy(w)' = {j \in Issued' : issued'[j].user = w}
    BY DEF OwnedBy, Issued
  <2>2. issued'[k].user = u /\ \A j \in Issued : issued'[j].user = issued[j].user
    BY <1>4
  <2>3. ASSUME NEW w PROVE OwnedBy(w) \subseteq OwnedBy(w)' /\ OwnedBy(w) \subseteq Tokens
    BY <1>4, <2>1, <2>2
  <2>4. ASSUME NEW w, w # u PROVE OwnedBy(w)' = OwnedBy(w)
    BY <1>4, <2>1, <2>2, <2>4
  <2>5. OwnedBy(u)' = OwnedBy(u) \cup {k}
    BY <1>4, <2>1, <2>2
  <2> QED
    BY <2>3, <2>4, <2>5
<1>7. AccessOf(k) = None /\ RefreshOf(k) = None
  BY <1>1, <1>4 DEF CacheInv
<1>8. CacheInv'
  <2>1. ASSUME NEW j \in Issued'
        PROVE  /\ issued'[j].born <= clock
               /\ RefreshOf(j)' \in {None, issued'[j].born + Duration}
               /\ \/ AccessOf(j)' \in {None, issued'[j].born + Duration}
                  \/ AccessOf(j)' <= clock + Grace
    <3>1. CASE j = k
      BY <1>1, <1>2, <1>4, <1>5, <1>7, <3>1
    <3>2. CASE j # k
      <4>1. j \in Issued
        BY <1>4, <3>2
      <4>2. /\ issued[j].born <= clock
            /\ RefreshOf(j) \in {None, issued[j].born + Duration}
            /\ \/ AccessOf(j) \in {None, issued[j].born + Duration}
               \/ AccessOf(j) <= clock + Grace
        BY <1>1, <4>1 DEF CacheInv
      <4> QED
        BY <1>4, <1>5, <3>2, <4>1, <4>2
    <3> QED
      BY <3>1, <3>2
  <2>2. \A j \in Tokens \ Issued' : AccessOf(j)' = None /\ RefreshOf(j)' = None
    BY <1>1, <1>4, <1>5 DEF CacheInv
  <2>3. \A w \in Users : /\ AccessUserOf(w)' # None => AccessUserOf(w)' \in OwnedBy(w)'
                         /\ RefreshUserOf(w)' # None => RefreshUserOf(w)' \in OwnedBy(w)'
    BY <1>1, <1>5, <1>6 DEF CacheInv
  <2>4. clock' = clock
    BY <1>1
  <2> QED
    BY <1>1, <1>4, <1>5, <2>1, <2>2, <2>3, <2>4 DEF CacheInv
<1>9. /\ pc' \in [Procs -> Labels] /\ pc'[p] = "setRefresh"
      /\ \A q \in Procs : q # p => pc'[q] = pc[q]
  BY <1>1, GotoPc DEF Labels
<1>10. /\ call' \in [Procs -> Calls] /\ call'[p] = [c EXCEPT !.tok = k, !.exp = e]
       /\ \A q \in Procs : q # p => call'[q] = call[q]
  <2>1. call' = [call EXCEPT ![p].tok = k, ![p].exp = e]
    BY <1>2 DEF SetAccess
  <2>2. [c EXCEPT !.tok = k, !.exp = e] \in Calls
    BY <1>1, <1>2, <1>3, <1>4 DEF Calls
  <2> QED
    BY <1>1, <1>2, <2>1, <2>2 DEF CallInv
<1>11. /\ call'[p].d1 = c.d1 /\ call'[p].user = u /\ call'[p].mode = c.mode
       /\ call'[p].d2 = c.d2 /\ call'[p].tok = k /\ call'[p].exp = e
  BY <1>2, <1>3, <1>10 DEF Calls
<1>12. Others(p)
  BY <1>9, <1>10 DEF Others
<1>13. CallInv'
  <2>1. CallOK(p)'
    <3>1. k \in OwnedBy(u)' /\ e = issued'[k].born + Duration
      BY <1>2, <1>4, <1>6
    <3>2. /\ c.d1 # None => c.d1 \in OwnedBy(u)'
          /\ c.d2 # None => c.d2 \in OwnedBy(u)'
      BY <1>3, <1>6
    <3> QED
      BY <1>3, <1>9, <1>11, <3>1, <3>2 DEF CallOK, Created, Pending
  <2>2. ASSUME NEW q \in Procs, q # p PROVE CallOK(q)'
    <3>1. PICK d : d = call[q] /\ d = call'[q]
      BY <1>10, <2>2
    <3>2. pc'[q] = pc[q] /\ CallOK(q) /\ (Created(q)' <=> Created(q))
      BY <1>1, <1>9, <2>2 DEF CallInv, Created, Pending
    <3>3. Created(q) => /\ d.tok \in OwnedBy(d.user)'
                        /\ d.exp = issued'[d.tok].born + Duration
      <4>1. ASSUME Created(q)
            PROVE  /\ d.tok \in OwnedBy(d.user) /\ d.tok \in Issued
                   /\ d.exp = issued[d.tok].born + Duration
        BY <1>1, <3>1, <4>1, CallFacts
      <4> QED
        BY <1>4, <1>6, <4>1
    <3>4. d.key \in {"access", "refresh"} \X Issued =>
             d.key \in {"access", "refresh"} \X Issued'
      BY <1>4
    <3>5. /\ d.d1 # None => d.d1 \in OwnedBy(d.user)'
          /\ d.d2 # None => d.d2 \in OwnedBy(d.user)'
      BY <1>6, <3>1, <3>2 DEF CallOK
    <3> QED
      BY <3>1, <3>2, <3>3, <3>4, <3>5 DEF CallOK
  <2> QED
    BY <1>9, <1>10, <2>1, <2>2 DEF CallInv
<1>14. ASSUME NEW q \in Procs
       PROVE  call[q].d1 # k /\ call[q].tok # k /\ call'[q].d1 = call[q].d1
              /\ call[q].user = call'[q].user
  <2>1. /\ call[q].d1 # None => call[q].d1 \in Issued
        /\ call[q].tok # None => call[q].tok \in Issued
    BY <1>1, CallFacts
  <2> QED
    BY <1>2, <1>4, <1>10, <1>11, <2>1
<1>15. \A w \in Users : AccessUserOf(w)' # k /\ AccessUserOf(w)' = AccessUserOf(w)
  BY <1>1, <1>4, <1>5, OwnedIssued DEF CacheInv
<1>16. PendingInv'
  <2>1. \A q \in Procs : q # p => /\ Created(q)' <=> Created(q)
                                  /\ Pending(q)' <=> Pending(q)
                                  /\ call'[q].tok = call[q].tok
    BY <1>9, <1>10 DEF Created, Pending
  <2>2. \A q, r \in Procs :
            Created(q)' /\ Created(r)' /\ call'[q].tok = call'[r].tok => q = r
    BY <1>1, <1>11, <1>14, <2>1 DEF PendingInv
  <2>3. ASSUME NEW q \in Procs, Pending(q)'
        PROVE  /\ \A w \in Users : AccessUserOf(w)' # call'[q].tok
               /\ \A r \in Procs : call'[r].d1 # call'[q].tok
    BY <1>1, <1>11, <1>14, <1>15, <2>1, <2>3 DEF PendingInv
  <2> QED
    BY <2>2, <2>3 DEF PendingInv
<1>17. RetiredInv'
  <2>1. \A q \in Procs : pc'[q] = "setRefreshUser" /\ call'[q].d1 # None =>
            AccessUserOf(call[q].user)' # call'[q].d1
    <3>1. ASSUME NEW q \in Procs, pc[q] = "setRefreshUser" PROVE call[q].user \in Users
      BY <1>1, <3>1, CallFacts DEF CallOK
    <3>2. ASSUME NEW q \in Procs, pc'[q] = "setRefreshUser", call'[q].d1 # None
          PROVE  AccessUserOf(call[q].user)' # call'[q].d1
      <4>1. PICK v : v = call'[q].user
        OBVIOUS
      <4>2. q # p /\ pc[q] = "setRefreshUser" /\ v = call[q].user /\ v \in Users
        BY <1>9, <1>14, <3>1, <3>2, <4>1
      <4>3. AccessUserOf(v) # call[q].d1
        BY <1>1, <1>14, <3>2, <4>2 DEF RetiredInv
      <4>4. AccessUserOf(v)' # call'[q].d1
        BY <1>14, <1>15, <4>2, <4>3
      <4> QED
        BY <4>1, <4>4 DEF AccessUserOf
    <3> QED
      BY <3>2
  <2>2. ASSUME NEW j \in Issued, Retired(j) PROVE Retired(j)'
    <3>1. issued'[j] = issued[j] /\ clock' = clock /\ issued[j].user \in Users /\ j # k
      BY <1>1, <1>4, IssuedType
    <3>2. CASE Lapsed(j)
      BY <3>1, <3>2 DEF Lapsed, Retired
    <3>3. CASE \E q \in Procs : Replacing(q, j)
      <4>1. \E q \in Procs : Replacing(q, j)'
        BY <1>1, <1>9, <1>14, <3>3 DEF Replacing
      <4> QED
        BY <4>1 DEF Retired
    <3>4. CASE Unrecorded(j)
      <4>1. PICK v : v = issued[j].user /\ v = issued'[j].user
        BY <3>1
      <4>2. AccessUserOf(v)' # j
        BY <1>15, <3>1, <3>4, <4>1 DEF Unrecorded
      <4>3. \A q \in Procs : Pending(q)' => call'[q].tok # j
        BY <1>9, <1>10, <1>11, <3>1, <3>4 DEF Unrecorded, Pending
      <4>4. Unrecorded(j)'
        BY <4>1, <4>2, <4>3 DEF Unrecorded, AccessUserOf
      <4> QED
        BY <4>4 DEF Retired
    <3> QED
      BY <2>2, <3>2, <3>3, <3>4 DEF Retired
  <2>3. ASSUME NEW j \in Issued'
        PROVE  AccessOf(j)' = issued'[j].born + Duration \/ Retired(j)'
    <3>1. CASE j = k
      BY <1>2, <1>4, <1>5, <3>1
    <3>2. CASE j \in Issued
      <4>1. AccessOf(j)' = AccessOf(j) /\ issued'[j] = issued[j]
        BY <1>4, <1>5, <3>2
      <4>2. AccessOf(j) = issued[j].born + Duration \/ Retired(j)
        BY <1>1, <3>2 DEF RetiredInv
      <4> QED
        BY <2>2, <3>2, <4>1, <4>2
    <3> QED
      BY <1>4, <3>1, <3>2
  <2>4. ASSUME NEW q \in Procs, NEW j \in Issued', pc'[q] = "deleteExpired",
               call'[q].key = <<"access", j>>
        PROVE  Retired(j)'
    <3>1. q # p /\ pc[q] = "deleteExpired" /\ call[q].key = <<"access", j>>
      BY <1>9, <1>10, <2>4
    <3>2. call[q].key \in ({"access", "refresh"} \X Issued) \cup UserKeys
      BY <1>1, <3>1, CallFacts DEF CallOK
    <3>3. j \in Issued
      BY <3>1, <3>2 DEF UserKeys
    <3> QED
      BY <1>1, <2>2, <3>1, <3>3 DEF RetiredInv
  <2> QED
    BY <2>1, <2>3, <2>4 DEF RetiredInv
<1>18. ASSUME NEW w \in Users, w # u PROVE Shrinks(w) /\ KeepsUser(w)
  <2>1. \A j \in OwnedBy(w) : j # k /\ j \in Tokens
    BY <1>4, OwnedIssued, <1>6
  <2>2. clock' >= clock /\ clock' \in Nat
    BY <1>1
  <2> QED
    BY <1>1, <1>5, <1>6, <1>18, <2>1, <2>2 DEF Shrinks, KeepsUser
<1>19. Progress(p, u) => Progress(p, u)'
  <2>1. ASSUME Progress(p, u) PROVE OnlyRefresh(u, None)' /\ OnlyAccess(u, k)'
    <3>1. OnlyRefresh(u, None) /\ OnlyAccess(u, None)
      BY <1>1, <2>1 DEF Progress
    <3>2. \A j \in OwnedBy(u) : j # None /\ j # k /\ j \in Tokens
      BY <1>1, <1>4, OwnedIssued, IssuedType
    <3>3. \A j \in OwnedBy(u)' : AccessOf(j)' > clock' + Grace => j = k
      BY <1>1, <1>5, <1>6, <3>1, <3>2 DEF OnlyAccess
    <3>4. ~(RefreshOf(k)' > clock')
      BY <1>1, <1>4, <1>5, <1>7 DEF None
    <3>5. \A j \in OwnedBy(u)' : RefreshOf(j)' > clock' => j = None
      BY <1>1, <1>5, <1>6, <3>1, <3>2, <3>4 DEF OnlyRefresh
    <3> QED
      BY <3>3, <3>5 DEF OnlyAccess, OnlyRefresh
  <2> QED
    BY <1>9, <1>11, <2>1 DEF Progress
<1>20. SessionInv'
  BY <1>1, <1>2, <1>3, <1>5, <1>9, <1>11, <1>12, <1>18, <1>19, SessionStep
<1> QED
  BY <1>8, <1>13, <1>16, <1>17, <1>20 DEF Inv

LEMMA SetAccessUserStep ==
    ASSUME Inv, NEW p \in Procs, SetAccessUser(p) PROVE Inv'
<1>1. /\ pc[p] = "setAccessUser" /\ Goto(p, "setRefreshUser") /\ call' = call
      /\ UNCHANGED <<clock, issued, disturbed>>
      /\ CacheInv /\ CallInv /\ PendingInv /\ RetiredInv /\ SessionInv
      /\ disturbed' \subseteq Users
      /\ clock' \in 0..MaxTime /\ clock \in Nat /\ clock' >= clock
  BY TokenAssumption DEF SetAccessUser, At, Inv, CacheInv
<1>2. PICK c, u, k : c = call[p] /\ u = c.user /\ k = c.tok
  OBVIOUS
<1>3. /\ CallOK(p) /\ u \in Users /\ c.mode # 2 /\ Created(p) /\ Pending(p)
      /\ k \in Issued /\ k \in OwnedBy(u) /\ k \in Nat
  <2>1. Created(p) /\ Pending(p)
    BY <1>1 DEF Created, Pending
  <2>2. /\ CallOK(p) /\ u \in Users /\ c.mode # 2 /\ k \in Issued /\ k \in OwnedBy(u)
    BY <1>1, <1>2, <2>1, CallFacts DEF CallOK
  <2> QED
    BY <1>1, <2>1, <2>2, IssuedType
<1>4. /\ cache' \in [Keys -> Nat] /\ AccessUserOf(u)' = k
      /\ \A w \in Users : w # u => AccessUserOf(w)' = AccessUserOf(w)
      /\ \A w \in Users : RefreshUserOf(w)' = RefreshUserOf(w)
      /\ \A j \in Tokens : /\ AccessOf(j)' = AccessOf(j)
                           /\ RefreshOf(j)' = RefreshOf(j)
  <2>1. Set(<<"access_user", u>>, k)
    BY <1>2 DEF SetAccessUser
  <2> QED
    BY <1>1, <1>3, <2>1, SetAccessUserOf DEF CacheInv
<1>5. \A j \in Issued : j \in Tokens
  BY <1>1, IssuedType
<1>6. CacheInv'
  <2>1. \A j \in Issued :
               /\ RefreshOf(j)' \in {RefreshOf(j), None, issued[j].born + Duration}
               /\ AccessOf(j)' \in {AccessOf(j), None} \/ AccessOf(j)' <= clock' + Grace
    BY <1>4, <1>5
  <2>2. \A j \in Tokens \ Issued :
               AccessOf(j)' = AccessOf(j) /\ RefreshOf(j)' = RefreshOf(j)
    BY <1>4
  <2>3. \A w \in Users :
               /\ AccessUserOf(w)' \in {AccessUserOf(w), None} \cup OwnedBy(w)
               /\ RefreshUserOf(w)' \in {RefreshUserOf(w), None} \cup OwnedBy(w)
    BY <1>3, <1>4
  <2> QED
    BY <1>1, <1>4, <2>1, <2>2, <2>3, CacheFrame
<1>7. /\ pc'[p] = "setRefreshUser" /\ call'[p] = c
      /\ \A q \in Procs : q # p => pc'[q] = pc[q]
  BY <1>1, <1>2, GotoPc DEF Labels
<1>8. Others(p) /\ CallInv'
  BY <1>1, <1>2, <1>3, CallGoto DEF Labels
<1>9. ~Pending(p)' /\ \A q \in Procs : /\ Created(q)' <=> Created(q)
                                       /\ q # p => (Pending(q)' <=> Pending(q))
  BY <1>3, <1>7 DEF Created, Pending
<1>10. PendingInv'
  <2>1. ASSUME NEW q \in Procs, Pending(q)'
        PROVE  /\ \A w \in Users : AccessUserOf(w)' # call[q].tok
               /\ \A r \in Procs : call[r].d1 # call[q].tok
    <3>1. q # p /\ Pending(q) /\ Created(q)
      BY <1>9, <2>1 DEF Created
    <3>2. call[q].tok # k
      BY <1>1, <1>2, <1>3, <3>1 DEF PendingInv
    <3> QED
      BY <1>1, <1>4, <3>1, <3>2 DEF PendingInv
  <2> QED
    BY <1>1, <1>9, <2>1 DEF PendingInv
<1>11. \A q \in Procs : call[q].d1 # k
  BY <1>1, <1>2, <1>3 DEF PendingInv
<1>12. RetiredInv'
  <2>1. ASSUME NEW q \in Procs, pc'[q] = "setRefreshUser", call[q].d1 # None
        PROVE  AccessUserOf(call[q].user)' # call[q].d1
    <3>1. PICK v : v = call[q].user /\ v \in Users
      <4>1. Created(q)
        BY <1>9, <2>1 DEF Created
      <4> QED
        BY <1>1, <4>1, CallFacts DEF CallOK, Created, Pending
    <3>2. CASE v = u
      BY <1>1, <1>4, <1>11, <3>1, <3>2 DEF AccessUserOf
    <3>3. CASE v # u
      <4>1. pc[q] = "setRefreshUser"
        BY <1>2, <1>7, <2>1, <3>1, <3>3
      <4>2. AccessUserOf(v) # call[q].d1
        BY <1>1, <2>1, <3>1, <4>1 DEF RetiredInv
      <4>3. AccessUserOf(v)' # call[q].d1
        BY <1>4, <3>1, <3>3, <4>2
      <4> QED
        BY <1>1, <3>1, <4>3 DEF AccessUserOf
    <3> QED
      BY <3>2, <3>3
  <2>2. ASSUME NEW j \in Issued, Retired(j) PROVE Retired(j)'
    <3>1. issued' = issued /\ clock' = clock /\ issued[j].user \in Users /\ pc'[p] # "idle"
      BY <1>1, <1>7, IssuedType
    <3>2. CASE Lapsed(j)
      BY <3>1, <3>2 DEF Lapsed, Retired
    <3>3. CASE \E q \in Procs : Replacing(q, j)
      <4>1. \E q \in Procs : Replacing(q, j)'
        BY <1>1, <1>7, <3>3 DEF Replacing
      <4> QED
        BY <4>1 DEF Retired
    <3>4. CASE Unrecorded(j)
      <4>1. j # k
        BY <1>2, <1>3, <3>4 DEF Unrecorded
      <4>2. PICK v \in Users : v = issued[j].user
        BY <3>1
      <4>3. AccessUserOf(v)' # j
        BY <1>4, <3>4, <4>1, <4>2 DEF Unrecorded
      <4>4. \A q \in Procs : Pending(q)' => call[q].tok # j
        BY <1>9, <3>4 DEF Unrecorded
      <4>5. Unrecorded(j)'
        BY <1>1, <3>1, <4>2, <4>3, <4>4 DEF Unrecorded, AccessUserOf
      <4> QED
        BY <4>5 DEF Retired
    <3> QED
      BY <2>2, <3>2, <3>3, <3>4 DEF Retired
  <2>3. Issued' = Issued
    BY <1>1 DEF Issued
  <2>4. ASSUME NEW j \in Issued
        PROVE  AccessOf(j)' = issued[j].born + Duration \/ Retired(j)'
    BY <1>1, <1>4, <1>5, <2>2 DEF RetiredInv
  <2>5. ASSUME NEW q \in Procs, NEW j \in Issued, pc'[q] = "deleteExpired",
               call[q].key = <<"access", j>>
        PROVE  Retired(j)'
    <3>1. pc[q] = "deleteExpired"
      BY <1>7, <2>5
    <3> QED
      BY <1>1, <2>2, <2>5, <3>1 DEF RetiredInv
  <2> QED
    BY <1>1, <2>1, <2>3, <2>4, <2>5 DEF RetiredInv, AccessUserOf
<1>13. \A w : OwnedBy(w)' = OwnedBy(w) /\ OwnedBy(w) \subseteq Tokens
  BY <1>1, <1>5, OwnedIssued DEF OwnedBy
<1>14. \A w \in Users : w # u => Shrinks(w) /\ KeepsUser(w)
  BY <1>1, <1>4, <1>13 DEF Shrinks, KeepsUser
<1>15. Progress(p, u) => Progress(p, u)'
  <2>1. ASSUME Progress(p, u) PROVE OnlyRefresh(u, k)' /\ OnlyAccess(u, k)'
    <3>1. OnlyRefresh(u, k) /\ OnlyAccess(u, k)
      BY <1>1, <1>2, <2>1 DEF Progress
    <3>2. Shrinks(u)
      BY <1>1, <1>4, <1>13 DEF Shrinks
    <3>3. /\ \A j \in OwnedBy(u)' : AccessOf(j)' > clock' + Grace => j = k
          /\ \A j \in OwnedBy(u)' : RefreshOf(j)' > clock' => j = k
      BY <1>1, <1>4, <3>1, <3>2, OnlyKept DEF CacheInv
    <3> QED
      BY <3>3 DEF OnlyAccess, OnlyRefresh
  <2>2. OnlyAccess(u, k)' => OnlyAccess(u, AccessUserOf(u))'
    BY <1>4 DEF OnlyAccess
  <2> QED
    BY <1>2, <1>4, <1>7, <2>1, <2>2 DEF Progress
<1>16. SessionInv'
  BY <1>1, <1>2, <1>3, <1>4, <1>7, <1>8, <1>14, <1>15, SessionStep
<1> QED
  BY <1>6, <1>8, <1>10, <1>12, <1>16 DEF Inv

\* The old session's token is no longer any request's to replace: it is not
\* recorded either, and never will be.
LEMMA SetRefreshUserStep ==
    ASSUME Inv, NEW p \in Procs, SetRefreshUser(p) PROVE Inv'
<1>1. /\ pc[p] = "setRefreshUser" /\ Return(p)
      /\ UNCHANGED <<clock, issued, disturbed>>
      /\ CacheInv /\ CallInv /\ PendingInv /\ RetiredInv /\ SessionInv
      /\ disturbed' \subseteq Users
      /\ clock' \in 0..MaxTime /\ clock \in Nat /\ clock' >= clock
  BY TokenAssumption DEF SetRefreshUser, At, Inv, CacheInv
<1>2. PICK c, u, k : c = call[p] /\ u = c.user /\ k = c.tok
  OBVIOUS
<1>3. /\ CallOK(p) /\ u \in Users /\ c.mode # 2 /\ Created(p)
      /\ k \in Issued /\ k \in OwnedBy(u) /\ k \in Nat
      /\ c.d1 # None => c.d1 \in Issued /\ issued[c.d1].user = u
  <2>1. Created(p)
    BY <1>1 DEF Created, Pending
  <2>2. /\ CallOK(p) /\ u \in Users /\ c.mode # 2 /\ k \in Issued /\ k \in OwnedBy(u)
        /\ c.d1 # None => c.d1 \in OwnedBy(u)
    BY <1>1, <1>2, <2>1, CallFacts DEF CallOK
  <2> QED
    BY <1>1, <2>1, <2>2, IssuedType, OwnedIssued
<1>4. /\ cache' \in [Keys -> Nat] /\ RefreshUserOf(u)' = k
      /\ \A w \in Users : w # u => RefreshUserOf(w)' = RefreshUserOf(w)
      /\ \A w \in Users : AccessUserOf(w)' = AccessUserOf(w)
      /\ \A j \in Tokens : /\ AccessOf(j)' = AccessOf(j)
                           /\ RefreshOf(j)' = RefreshOf(j)
  <2>1. Set(<<"refresh_user", u>>, k)
    BY <1>2 DEF SetRefreshUser
  <2> QED
    BY <1>1, <1>3, <2>1, SetRefreshUserOf DEF CacheInv
<1>5. \A j \in Issued : j \in Tokens
  BY <1>1, IssuedType
<1>6. CacheInv'
  <2>1. \A j \in Issued :
               /\ RefreshOf(j)' \in {RefreshOf(j), None, issued[j].born + Duration}
               /\ AccessOf(j)' \in {AccessOf(j), None} \/ AccessOf(j)' <= clock' + Grace
    BY <1>4, <1>5
  <2>2. \A j \in Tokens \ Issued :
               AccessOf(j)' = AccessOf(j) /\ RefreshOf(j)' = RefreshOf(j)
    BY <1>4
  <2>3. \A w \in Users :
               /\ AccessUserOf(w)' \in {AccessUserOf(w), None} \cup OwnedBy(w)
               /\ RefreshUserOf(w)' \in {RefreshUserOf(w), None} \cup OwnedBy(w)
    BY <1>3, <1>4
  <2> QED
    BY <1>1, <1>4, <2>1, <2>2, <2>3, CacheFrame
<1>7. /\ Others(p) /\ CallInv' /\ pc'[p] = "idle" /\ call'[p].d1 = None
      /\ \A q \in Procs : q # p => pc'[q] = pc[q] /\ call'[q] = call[q]
  BY <1>1, ReturnCall DEF NoCall
<1>8. /\ ~Pending(p)' /\ ~Created(p)' /\ ~Pending(p)
      /\ \A q \in Procs : q # p => /\ Created(q)' <=> Created(q)
                                   /\ Pending(q)' <=> Pending(q)
  BY <1>1, <1>7 DEF Created, Pending
<1>9. PendingInv'
  <2>1. \A q, r \in Procs :
            Created(q)' /\ Created(r)' /\ call'[q].tok = call'[r].tok => q = r
    BY <1>1, <1>7, <1>8 DEF PendingInv
  <2>2. ASSUME NEW q \in Procs, Pending(q)'
        PROVE  /\ \A w \in Users : AccessUserOf(w)' # call'[q].tok
               /\ \A r \in Procs : call'[r].d1 # call'[q].tok
    <3>1. q # p /\ Pending(q) /\ Created(q) /\ call'[q] = call[q]
      BY <1>7, <1>8, <2>2 DEF Created
    <3>2. call[q].tok # None
      BY <1>1, <3>1, CallFacts
    <3> QED
      BY <1>1, <1>4, <1>7, <3>1, <3>2 DEF PendingInv
  <2> QED
    BY <2>1, <2>2 DEF PendingInv
<1>10. RetiredInv'
  <2>1. ASSUME NEW q \in Procs, pc'[q] = "setRefreshUser", call'[q].d1 # None
        PROVE  AccessUserOf(call[q].user)' # call'[q].d1
    <3>1. q # p /\ pc[q] = "setRefreshUser" /\ call'[q] = call[q]
      BY <1>7, <2>1
    <3>2. PICK v \in Users : v = call[q].user
      <4>1. Created(q)
        BY <3>1 DEF Created
      <4> QED
        BY <1>1, <4>1, CallFacts DEF CallOK, Created, Pending
    <3>3. AccessUserOf(v) # call[q].d1
      BY <1>1, <2>1, <3>1, <3>2 DEF RetiredInv
    <3>4. AccessUserOf(v)' # call[q].d1
      BY <1>4, <3>3
    <3> QED
      BY <3>1, <3>2, <3>4 DEF AccessUserOf
  <2>2. ASSUME NEW j \in Issued, Unrecorded(j) PROVE Unrecorded(j)'
    <3>1. PICK v \in Users : v = issued[j].user /\ v = issued'[j].user
      BY <1>1, IssuedType
    <3>2. AccessUserOf(v)' # j
      BY <1>4, <2>2, <3>1 DEF Unrecorded
    <3>3. \A q \in Procs : Pending(q)' => call'[q].tok # j
      BY <1>7, <1>8, <2>2 DEF Unrecorded
    <3> QED
      BY <3>1, <3>2, <3>3 DEF Unrecorded, AccessUserOf
  <2>3. ASSUME c.d1 # None PROVE Unrecorded(c.d1)
    <3>1. AccessUserOf(u) # c.d1
      BY <1>1, <1>2, <2>3 DEF RetiredInv
    <3>2. \A q \in Procs : Pending(q) => call[q].tok # c.d1
      BY <1>1, <1>2 DEF PendingInv
    <3> QED
      BY <1>3, <2>3, <3>1, <3>2 DEF Unrecorded
  <2>4. ASSUME NEW j \in Issued, Retired(j) PROVE Retired(j)'
    <3>1. issued' = issued /\ clock' = clock
      BY <1>1
    <3>2. CASE Lapsed(j)
      BY <3>1, <3>2 DEF Lapsed, Retired
    <3>3. CASE \E q \in Procs : q # p /\ Replacing(q, j)
      <4>1. \E q \in Procs : Replacing(q, j)'
        BY <1>7, <3>3 DEF Replacing
      <4> QED
        BY <4>1 DEF Retired
    <3>4. CASE Replacing(p, j)
      <4>1. j = c.d1 /\ j # None
        BY <1>1, <1>2, <3>4, IssuedType DEF Replacing
      <4>2. Unrecorded(j)'
        BY <2>2, <2>3, <4>1
      <4> QED
        BY <4>2 DEF Retired
    <3>5. CASE Unrecorded(j)
      <4>1. Unrecorded(j)'
        BY <2>2, <3>5
      <4> QED
        BY <4>1 DEF Retired
    <3> QED
      BY <2>4, <3>2, <3>3, <3>4, <3>5 DEF Retired
  <2>5. Issued' = Issued /\ issued' = issued
    BY <1>1 DEF Issued
  <2>6. ASSUME NEW j \in Issued
        PROVE  AccessOf(j)' = issued[j].born + Duration \/ Retired(j)'
    BY <1>1, <1>4, <1>5, <2>4 DEF RetiredInv
  <2>7. ASSUME NEW q \in Procs, NEW j \in Issued, pc'[q] = "deleteExpired",
               call'[q].key = <<"access", j>>
        PROVE  Retired(j)'
    <3>1. pc[q] = "deleteExpired" /\ call'[q] = call[q]
      BY <1>7, <2>7
    <3> QED
      BY <1>1, <2>4, <2>7, <3>1 DEF RetiredInv
  <2>8. ASSUME NEW q \in Procs, pc'[q] = "setRefreshUser", call'[q].d1 # None
        PROVE  (AccessUserOf(call[q].user) # call[q].d1)'
    BY <1>7, <2>1, <2>8 DEF AccessUserOf
  <2> QED
    BY <2>5, <2>6, <2>7, <2>8 DEF RetiredInv
<1>11. \A w : OwnedBy(w)' = OwnedBy(w) /\ OwnedBy(w) \subseteq Tokens
  BY <1>1, <1>5, OwnedIssued DEF OwnedBy
<1>12. \A w \in Users : w # u => Shrinks(w) /\ KeepsUser(w)
  BY <1>1, <1>4, <1>11 DEF Shrinks, KeepsUser
<1>13. Progress(p, u) => Settled(u)'
  <2>1. ASSUME Progress(p, u) PROVE Settled(u)'
    <3>1. PICK a : a = AccessUserOf(u) /\ a = AccessUserOf(u)'
      BY <1>3, <1>4
    <3>2. OnlyRefresh(u, k) /\ OnlyAccess(u, a) /\ a \in {None, k}
      BY <1>1, <1>2, <2>1, <3>1 DEF Progress
    <3>3. Shrinks(u)
      BY <1>1, <1>4, <1>11 DEF Shrinks
    <3>4. /\ \A j \in OwnedBy(u)' : AccessOf(j)' > clock' + Grace => j = a
          /\ \A j \in OwnedBy(u)' : RefreshOf(j)' > clock' => j = k
      BY <1>1, <1>4, <3>2, <3>3, OnlyKept DEF CacheInv
    <3>5. /\ AccessUserOf(u)' # None /\ RefreshUserOf(u)' # None =>
                AccessUserOf(u)' = RefreshUserOf(u)'
          /\ OnlyRefresh(u, RefreshUserOf(u))' /\ OnlyAccess(u, AccessUserOf(u))'
      BY <1>4, <3>1, <3>2, <3>4 DEF OnlyAccess, OnlyRefresh
    <3> QED
      BY <3>5 DEF Settled
  <2> QED
    BY <2>1
<1>14. SessionInv'
  BY <1>1, <1>2, <1>3, <1>4, <1>7, <1>12, <1>13, SessionStep
<1> QED
  BY <1>6, <1>7, <1>9, <1>10, <1>14 DEF Inv

\* No request moves.
LEMMA IdleInv ==
    ASSUME Inv, UNCHANGED <<issued, pc, call, disturbed>>, CacheInv',
           clock' \in Nat, clock' >= clock, cache' \in [Keys -> Nat],
           \A w \in Users : Shrinks(w) /\ KeepsUser(w),
           \A k \in Issued : AccessOf(k)' = AccessOf(k) \/ Retired(k)
    PROVE  Inv'
<1>1. CacheInv /\ CallInv /\ PendingInv /\ RetiredInv /\ SessionInv
  BY DEF Inv
<1>2. \A u \in Users : AccessUserOf(u)' \in {AccessUserOf(u), None}
  BY DEF KeepsUser
<1>3. \A q \in Procs : (Created(q)' <=> Created(q)) /\ (Pending(q)' <=> Pending(q))
  BY DEF Created, Pending
<1>4. Quiet
  BY <1>2, <1>3 DEF Quiet
<1>5. PendingInv' /\ RetiredInv'
  BY <1>1, <1>4, QuietPending, QuietRetiredInv
<1>6. CallInv'
  <2>1. ASSUME NEW q \in Procs PROVE CallOK(q)'
    <3>1. (\A w : OwnedBy(w)' = OwnedBy(w)) /\ Issued' = Issued
      BY DEF OwnedBy, Issued
    <3>2. CallOK(q)
      BY <1>1 DEF CallInv
    <3> QED
      BY <1>3, <3>1, <3>2 DEF CallOK
  <2> QED
    BY <1>1, <2>1 DEF CallInv
<1>7. SessionInv'
  BY <1>1, SessionIdle DEF Active
<1> QED
  BY <1>5, <1>6, <1>7 DEF Inv

LEMMA TickStep == ASSUME Inv, Tick PROVE Inv'
<1>1. /\ CacheInv /\ UNCHANGED <<cache, issued, pc, call, disturbed>>
      /\ clock \in Nat /\ clock' = clock + 1 /\ clock' \in 0..MaxTime
      /\ clock' >= clock /\ clock' \in Nat
      /\ cache \in [Keys -> Nat] /\ disturbed' \subseteq Users
  BY TokenAssumption DEF Tick, Inv, CacheInv
<1>2. /\ cache' \in [Keys -> Nat]
      /\ \A j \in Tokens : AccessOf(j)' = AccessOf(j) /\ RefreshOf(j)' = RefreshOf(j)
      /\ \A u \in Users : /\ AccessUserOf(u)' = AccessUserOf(u)
                          /\ RefreshUserOf(u)' = RefreshUserOf(u)
  BY <1>1, SetNothing
<1>3. \A k \in Issued : k \in Tokens
  BY <1>1, IssuedType
<1>4. CacheInv'
  BY <1>1, <1>2, <1>3, CacheFrame
<1>5. \A w : OwnedBy(w)' = OwnedBy(w) /\ OwnedBy(w) \subseteq Tokens
  BY <1>1, <1>3, OwnedIssued DEF OwnedBy
<1>6. \A w \in Users : Shrinks(w) /\ KeepsUser(w)
  BY <1>1, <1>2, <1>5 DEF Shrinks, KeepsUser
<1> QED
  BY <1>1, <1>2, <1>3, <1>4, <1>6, IdleInv

\* Both entries of a token are over a Duration after its creation, but for the
\* grace time of a refresh.
LEMMA TokenOver ==
    ASSUME CacheInv, NEW k \in Issued, issued[k].born + Duration < clock
    PROVE  AccessOf(k) <= clock + Grace /\ RefreshOf(k) <= clock
<1>1. issued[k].born \in Nat /\ clock \in Nat
  BY IssuedType
<1>2. /\ RefreshOf(k) \in {None, issued[k].born + Duration}
      /\ \/ AccessOf(k) \in {None, issued[k].born + Duration}
         \/ AccessOf(k) <= clock + Grace
  BY DEF CacheInv
<1> QED
  BY <1>1, <1>2, TokenAssumption DEF None

LEMMA EvictStep == ASSUME Inv, NEW key \in Keys, Evict(key) PROVE Inv'
<1>1. /\ CacheInv /\ RetiredInv /\ UNCHANGED <<clock, issued, pc, call, disturbed>>
      /\ clock \in 0..MaxTime /\ clock \in Nat /\ clock' >= clock /\ clock' \in Nat
      /\ cache \in [Keys -> Nat] /\ disturbed' \subseteq Users
      /\ Set(key, None) /\ cache[key] # None /\ None \in Nat
  BY TokenAssumption DEF Evict, Evictable, Delete, Inv, CacheInv, None
<1>2. \A k \in Issued : k \in Tokens
  BY <1>1, IssuedType
<1>3. CASE key \in {"access", "refresh"} \X Tokens
  <2>1. PICK k \in Tokens : key = <<"access", k>> \/ key = <<"refresh", k>>
    BY <1>3
  <2>2. cache[key] <= clock
    BY <2>1 DEF Evict, Evictable
  <2>3. k \in Issued
    BY <1>1, <2>1 DEF CacheInv, AccessOf, RefreshOf
  <2>4. CASE key = <<"access", k>>
    <3>1. Retired(k)
      <4>1. AccessOf(k) <= clock /\ issued[k].born \in Nat
        BY <1>1, <2>2, <2>3, <2>4, IssuedType DEF AccessOf
      <4> QED
        BY <1>1, <2>3, <4>1 DEF RetiredInv, Retired, Lapsed
    <3> QED
      BY <1>1, <2>3, <2>4, <3>1, AccessWrite, IdleInv
  <2>5. CASE key = <<"refresh", k>>
    BY <1>1, <2>3, <2>5, RefreshDelete, IdleInv
  <2> QED
    BY <2>1, <2>4, <2>5
<1>4. CASE key \in {"access_user", "refresh_user"} \X Users
  <2>0. PICK u \in Users : key = <<"access_user", u>> \/ key = <<"refresh_user", u>>
    BY <1>4
  <2>1. PICK k : (key = <<"access_user", u>> \/ key = <<"refresh_user", u>>)
                 /\ k = cache[key]
    BY <2>0
  <2>2. k \in OwnedBy(u) /\ k \in Issued
    BY <1>1, <2>1, OwnedIssued DEF CacheInv, AccessUserOf, RefreshUserOf
  <2>3. issued[k].born + Duration < clock
    BY <2>1 DEF Evict, Evictable
  <2>4. AccessOf(k) <= clock + Grace /\ RefreshOf(k) <= clock
    BY <1>1, <2>2, <2>3, TokenOver
  <2>5. /\ cache' \in [Keys -> Nat]
        /\ \A j \in Tokens : AccessOf(j)' = AccessOf(j) /\ RefreshOf(j)' = RefreshOf(j)
        /\ \A w \in Users :
              /\ \/ AccessUserOf(w)' = AccessUserOf(w)
                 \/ w = u /\ AccessUserOf(w) = k /\ AccessUserOf(w)' = None
              /\ \/ RefreshUserOf(w)' = RefreshUserOf(w)
                 \/ w = u /\ RefreshUserOf(w) = k /\ RefreshUserOf(w)' = None
    <3>1. CASE key = <<"access_user", u>>
      BY <1>1, <2>1, <3>1, SetAccessUserOf DEF AccessUserOf
    <3>2. CASE key = <<"refresh_user", u>>
      BY <1>1, <2>1, <3>2, SetRefreshUserOf DEF RefreshUserOf
    <3> QED
      BY <2>1, <3>1, <3>2
  <2>6. CacheInv'
    <3>1. \A j \in Issued :
               /\ RefreshOf(j)' \in {RefreshOf(j), None, issued[j].born + Duration}
               /\ AccessOf(j)' \in {AccessOf(j), None} \/ AccessOf(j)' <= clock' + Grace
      BY <1>2, <2>5
    <3>2. \A j \in Tokens \ Issued :
               AccessOf(j)' = AccessOf(j) /\ RefreshOf(j)' = RefreshOf(j)
      BY <2>5
    <3>3. \A w \in Users :
               /\ AccessUserOf(w)' \in {AccessUserOf(w), None} \cup OwnedBy(w)
               /\ RefreshUserOf(w)' \in {RefreshUserOf(w), None} \cup OwnedBy(w)
      BY <2>5
    <3> QED
      BY <1>1, <2>5, <3>1, <3>2, <3>3, CacheFrame
  <2>7. \A w : OwnedBy(w)' = OwnedBy(w) /\ OwnedBy(w) \subseteq Tokens
    BY <1>1, <1>2, OwnedIssued DEF OwnedBy
  <2>8. ASSUME NEW w \in Users PROVE Shrinks(w) /\ KeepsUser(w)
    <3>1. Shrinks(w)
      BY <1>1, <2>5, <2>7 DEF Shrinks
    <3>2. KeepsUser(w)
      BY <2>4, <2>5 DEF KeepsUser
    <3> QED
      BY <3>1, <3>2
  <2> QED
    BY <1>1, <1>2, <2>5, <2>6, <2>8, IdleInv
<1> QED
  BY <1>3, <1>4 DEF Keys, UserKeys

LEMMA InvNext == ASSUME Inv, [Next]_vars PROVE Inv'
<1>0. ASSUME UNCHANGED vars PROVE Inv'
  <2>1. /\ CacheInv /\ disturbed' \subseteq Users
        /\ UNCHANGED <<clock, cache, issued, pc, call, disturbed>>
    BY <1>0 DEF vars, Inv, CacheInv
  <2> QED
    BY <2>1, NoWrite, IssuedType, IdleInv
<1>1. ASSUME NEW p \in Procs, NEW u \in Users, CreateNewToken(p, u) \/ RefreshNewToken(p, u)
      PROVE  Inv'
  BY <1>1, BeginStep DEF CreateNewToken, RefreshNewToken
<1>2. ASSUME NEW p \in Procs, NEW key,
             \/ \E k \in 1..Len(issued), kind \in {"access", "refresh"} : key = <<kind, k>>
             \/ key \in UserKeys,
             LookUp(p, key)
      PROVE  Inv'
  <2>1. key \in ({"access", "refresh"} \X Issued) \cup UserKeys
    BY <1>2 DEF Issued
  <2>2. CASE Stale(key)
    BY <1>2, <2>1, <2>2, LookUpStep
  <2>3. CASE ~Stale(key)
    BY <1>0, <1>2, <2>3 DEF LookUp, vars
  <2> QED
    BY <2>2, <2>3
<1>3. ASSUME NEW p \in Procs, Step(p) PROVE Inv'
  BY <1>3, GetAccessUserStep, GetRefreshUserStep, DeleteAccessStep, SetGraceStep,
     DeleteRefreshStep, SetAccessStep, SetRefreshStep, SetAccessUserStep,
     SetRefreshUserStep, GetTokenStep, DeleteExpiredStep DEF Step
<1> QED
  BY <1>0, <1>1, <1>2, <1>3, TickStep, EvictStep DEF Next, Serve, Request

LEMMA Invariant == Spec => []Inv
BY InvInit, InvNext, PTL DEF Spec

\* TypeOK: a user's entry, and every token a request has read or created, is a
\* token that was issued, and no entry is set past the last ExpireTime.
THEOREM TypeCorrect == Spec => []TypeOK
BY Invariant, InvType, PTL

\* CurrentSessionAlive: however logins, refreshes and look-ups interleave, they
\* never revoke the session that a user's entry names, but to replace it.
THEOREM SessionStaysAlive == Spec => []CurrentSessionAlive
BY Invariant, InvAlive, PTL

\* OneSessionUnlessDisturbed: a user has one session between two logins or
\* refreshes, unless two of them overlapped or a look-up removed an entry of the
\* user.
THEOREM OneSession == Spec => []OneSessionUnlessDisturbed
BY Invariant, InvOneSession, PTL

-----------------------------------------------------------------------------
(* The file.                                                               *)

IsMap(m) == m = [key \in Keys |-> m[key]]

\* What the saver has copied, and what the cache holds, is in seen.
SnapshotInv ==
    /\ saver = "iterating" =>
          /\ Pairs(cache) \subseteq seen
          /\ \A key \in Keys \ todo : <<key, items[key]>> \in seen
    /\ saver = "writing" => \A key \in Keys : <<key, items[key]>> \in seen

\* Outside a write the file is the last completed save, unless one was cut short.
FileInv ==
    /\ IsMap(cache) /\ IsMap(items) /\ (file # Unreadable => IsMap(file))
    /\ saved # Unreadable /\ saver # "writing" => file = saved

StoreInv == SnapshotInv /\ FileInv

\* An operation on the cache sets one entry at most.
LEMMA NextMap ==
    ASSUME IsMap(cache), Next PROVE IsMap(cache)'
<1>1. ASSUME NEW key, NEW v, cache' = [cache EXCEPT ![key] = v] PROVE IsMap(cache)'
  BY <1>1 DEF IsMap
<1>2. ASSUME UNCHANGED cache PROVE IsMap(cache)'
  BY <1>2 DEF IsMap
<1>3. ASSUME NEW p \in Procs, Request(p) PROVE IsMap(cache)'
  BY <1>2, <1>3 DEF Request, CreateNewToken, RefreshNewToken, Begin, LookUp
<1>4. ASSUME NEW p \in Procs, Step(p) PROVE IsMap(cache)'
  <2>1. CASE GetAccessUser(p) \/ GetRefreshUser(p) \/ GetToken(p)
    BY <1>2, <2>1 DEF GetAccessUser, GetRefreshUser, GetToken
  <2>2. CASE DeleteAccess(p) \/ SetGrace(p) \/ DeleteRefresh(p)
    BY <1>1, <1>2, <2>2 DEF DeleteAccess, SetGrace, DeleteRefresh, Delete, Set
  <2>3. CASE SetAccess(p) \/ SetRefresh(p)
    BY <1>1, <2>3 DEF SetAccess, SetRefresh, Set
  <2>4. CASE SetAccessUser(p) \/ SetRefreshUser(p) \/ DeleteExpired(p)
    BY <1>1, <2>4 DEF SetAccessUser, SetRefreshUser, DeleteExpired, Delete, Set
  <2> QED
    BY <1>4, <2>1, <2>2, <2>3, <2>4 DEF Step
<1>5. CASE Tick
  BY <1>2, <1>5 DEF Tick
<1>6. ASSUME NEW key \in Keys, Evict(key) PROVE IsMap(cache)'
  BY <1>1, <1>6 DEF Evict, Delete, Set
<1> QED
  BY <1>3, <1>4, <1>5, <1>6 DEF Next, Serve

LEMMA StoreInvInit == StoreInit => StoreInv
<1> SUFFICES ASSUME StoreInit PROVE StoreInv
    OBVIOUS
<1>1. cache = [key \in Keys |-> None] /\ items = Empty /\ saved = Unreadable /\ saver = "asleep"
      /\ file = Unreadable
  BY DEF StoreInit, Init
<1>2. IsMap(cache) /\ IsMap(items)
  BY <1>1 DEF IsMap, Empty
<1> QED
  BY <1>1, <1>2 DEF StoreInv, SnapshotInv, FileInv

LEMMA StoreInvNext == ASSUME StoreInv, [StoreNext]_allVars PROVE StoreInv'
<1>1. SnapshotInv /\ FileInv /\ IsMap(Empty)
  BY DEF StoreInv, IsMap, Empty
<1>2. CASE ServeOrTick \/ EvictEntry
  <2>1. /\ Next /\ UNCHANGED <<file, saver, items, todo, saved>>
        /\ seen' = IF saver = "iterating" THEN seen \cup Pairs(cache') ELSE seen
    BY <1>2 DEF ServeOrTick, EvictEntry, Observe, Next
  <2>2. IsMap(cache)'
    BY <1>1, <2>1, NextMap DEF FileInv
  <2>3. Pairs(cache') = Pairs(cache)'
    BY DEF Pairs
  <2>4. SnapshotInv'
    BY <1>1, <2>1, <2>3 DEF SnapshotInv
  <2>5. FileInv'
    BY <1>1, <2>1, <2>2 DEF FileInv, IsMap
  <2> QED
    BY <2>4, <2>5 DEF StoreInv
<1>3. CASE SaveBegin
  <2>1. /\ cache' = cache /\ file' = file /\ saved' = saved
        /\ items' = Empty /\ todo' = Keys /\ seen' = Pairs(cache)
        /\ saver = "asleep" /\ saver' = "iterating"
    BY <1>3 DEF SaveBegin, vars
  <2>2. SnapshotInv'
    BY <2>1 DEF SnapshotInv, Pairs
  <2>3. FileInv'
    BY <1>1, <2>1 DEF FileInv, IsMap
  <2> QED
    BY <2>2, <2>3 DEF StoreInv
<1>4. ASSUME NEW key \in Keys, SaveEntry(key) PROVE StoreInv'
  <2>1. /\ cache' = cache /\ file' = file /\ saved' = saved /\ seen' = seen
        /\ items' = [items EXCEPT ![key] = cache[key]] /\ todo' = todo \ {key}
        /\ saver = "iterating" /\ saver' = "iterating"
    BY <1>4 DEF SaveEntry, vars
  <2>2. /\ items'[key] = cache[key]
        /\ \A k \in Keys : k # key => items'[k] = items[k]
    BY <1>1, <2>1 DEF FileInv, IsMap
  <2>3. <<key, cache[key]>> \in seen
    BY <1>1, <2>1 DEF SnapshotInv, Pairs
  <2>4. SnapshotInv'
    BY <1>1, <2>1, <2>2, <2>3 DEF SnapshotInv, Pairs
  <2>5. FileInv'
    BY <1>1, <2>1 DEF FileInv, IsMap
  <2> QED
    BY <2>4, <2>5 DEF StoreInv
<1>5. CASE SaveFail \/ SaveOpenFails
  <2>1. /\ cache' = cache /\ file' = file /\ saved' = saved /\ items' = Empty
        /\ saver = "iterating" /\ saver' = "asleep"
    BY <1>5 DEF SaveFail, SaveOpenFails, vars
  <2> QED
    BY <1>1, <2>1 DEF StoreInv, SnapshotInv, FileInv, IsMap
<1>6. CASE SaveTruncate
  <2>1. /\ cache' = cache /\ file' = Unreadable /\ items' = items /\ seen' = seen
        /\ saver = "iterating" /\ saver' = "writing" /\ todo = {}
    BY <1>6 DEF SaveTruncate, vars
  <2> QED
    BY <1>1, <2>1 DEF StoreInv, SnapshotInv, FileInv, IsMap
<1>7. CASE SaveWrite
  <2>1. /\ cache' = cache /\ file' = items /\ saved' = items /\ items' = Empty
        /\ saver = "writing" /\ saver' = "asleep"
    BY <1>7 DEF SaveWrite, vars
  <2>2. IsMap(items) /\ items # Unreadable
    BY <1>1, StoreAssumption DEF FileInv, IsMap
  <2> QED
    BY <1>1, <2>1, <2>2 DEF StoreInv, SnapshotInv, FileInv, IsMap
<1>8. CASE SaveWriteFails
  <2>1. /\ cache' = cache /\ file' = file /\ saved' = Unreadable /\ items' = Empty
        /\ saver = "writing" /\ saver' = "asleep"
    BY <1>8 DEF SaveWriteFails, vars
  <2> QED
    BY <1>1, <2>1 DEF StoreInv, SnapshotInv, FileInv, IsMap
<1>9. CASE Crash
  <2>1. /\ cache' = IF file = Unreadable THEN Empty ELSE file
        /\ file' = file /\ items' = Empty /\ saver' = "asleep"
        /\ saved' = IF saver = "writing" THEN Unreadable ELSE saved
    BY <1>9 DEF Crash
  <2>2. IsMap(cache)'
    BY <1>1, <2>1 DEF FileInv, IsMap
  <2> QED
    BY <1>1, <2>1, <2>2 DEF StoreInv, SnapshotInv, FileInv, IsMap
<1>10. CASE UNCHANGED allVars
  <2>1. UNCHANGED <<cache, file, saver, items, todo, seen, saved>>
    BY <1>10 DEF allVars, vars, storeVars
  <2> QED
    BY <1>1, <2>1 DEF StoreInv, SnapshotInv, FileInv, IsMap, Pairs
<1> QED
  BY <1>2, <1>3, <1>4, <1>5, <1>6, <1>7, <1>8, <1>9, <1>10 DEF StoreNext, Saver

\* SnapshotOfThisSave: although requests change the cache while the saver walks
\* it, every entry it writes is one the cache held during this very save.
THEOREM SavesASnapshot == StoreSpec => SnapshotOfThisSave
<1>1. ASSUME StoreInv, [StoreNext]_allVars
      PROVE  [SaveWrite => \A key \in Keys : <<key, file'[key]>> \in seen]_allVars
  BY <1>1 DEF StoreInv, SnapshotInv, SaveWrite
<1> QED
  BY <1>1, StoreInvInit, StoreInvNext, PTL DEF StoreSpec, SnapshotOfThisSave

\* RestartRestoresUnlessTorn: a process that died starts again with the whole of the
\* last save, unless it died inside the write of the file or a write had failed.
THEOREM RestartRestores == StoreSpec => RestartRestoresUnlessTorn
<1>1. ASSUME StoreInv, [StoreNext]_allVars
      PROVE  [crashes' # crashes /\ saved # Unreadable /\ saver # "writing" =>
                  cache' = saved]_allVars
  <2>1. CASE Crash
    BY <1>1, <2>1 DEF StoreInv, FileInv, Crash
  <2>2. CASE ~Crash
    <3>1. crashes' = crashes
      BY <1>1, <2>2 DEF StoreNext, ServeOrTick, EvictEntry, Saver, SaveBegin, SaveEntry,
         SaveFail, SaveOpenFails, SaveTruncate, SaveWrite, SaveWriteFails, allVars, storeVars
    <3> QED
      BY <3>1
  <2> QED
    BY <2>1, <2>2
<1> QED
  BY <1>1, StoreInvInit, StoreInvNext, PTL DEF StoreSpec, RestartRestoresUnlessTorn
=============================================================================

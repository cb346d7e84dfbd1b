---------------------------- MODULE TokenManager ----------------------------
(***************************************************************************)
(* fast_web/SecTokenManager.go: sessions kept in an in-memory cache.       *)
(*                                                                         *)
(* A login (CreateNewToken) and a refresh (RefreshNewToken) are sequences  *)
(* of cache operations; each operation is atomic (bigcache locks a shard), *)
(* the sequences are not, and requests of one user interleave freely.      *)
(*                                                                         *)
(* A user stands for one appKey and userId.  A token stands for the pair   *)
(* of UUIDs made by one createToken: its "access" and its "refresh" key.   *)
(* A cached token is kept as its ExpireTime, the one field ever rewritten; *)
(* the cached current token of a user ("access_user" and "refresh_user")   *)
(* as the number of that token.  Time is in seconds, as ExpireTime is.     *)
(***************************************************************************)
EXTENDS Integers, Sequences

CONSTANTS
    Procs,        \* goroutines serving requests
    Users,
    Duration,     \* lifetime of a token
    Grace,        \* what a refresh leaves to the old access token: 10 s
    MaxTokens,    \* bound: tokens ever created
    MaxTime       \* bound: last second explored

None == 0

ASSUME TokenAssumption ==
    /\ Duration \in Nat \ {0} /\ Grace \in Nat \ {0}
    /\ MaxTokens \in Nat /\ MaxTime \in Nat /\ None \notin Users

Tokens  == 1..MaxTokens
Expiry  == 0..(MaxTime + Duration + Grace)

UserKeys == {"access_user", "refresh_user"} \X Users
Keys == ({"access", "refresh"} \X Tokens) \cup UserKeys

VARIABLES
    clock,
    cache,       \* cacheInstance: the value of every key, None if absent
    issued,      \* the tokens created, in order: user and time of creation
    pc,          \* the next cache operation of each request
    call,        \* arguments and locals of each request
    disturbed    \* ghost: users of whom two logins or refreshes overlapped, or one
                 \* of whose own entries was removed by a look-up

vars == <<clock, cache, issued, pc, call, disturbed>>

\* mode 0 is a login, 1 a refresh, 2 a look-up of one key.  d1 and d2 are the
\* current tokens read by clearUserToken, tok the new token, key the key that
\* getToken inspects, exp the ExpireTime of the new token.
NoCall == [mode |-> 2, user |-> None, d1 |-> None, d2 |-> None,
           tok |-> None, key |-> None, exp |-> None]

Init ==
    /\ clock = 0
    /\ cache = [k \in Keys |-> None]
    /\ issued = <<>>
    /\ pc = [p \in Procs |-> "idle"]
    /\ call = [p \in Procs |-> NoCall]
    /\ disturbed = {}

-----------------------------------------------------------------------------
(* Cache operations of bigcache.  Get is cache[key].                       *)

Set(key, value) == cache' = [cache EXCEPT ![key] = value]
Delete(key)     == Set(key, None)

IsValid(exp) == clock < exp

At(p, l)   == pc[p] = l
Goto(p, l) == pc' = [pc EXCEPT ![p] = l]

\* The end of a request.
Return(p) == Goto(p, "idle") /\ call' = [call EXCEPT ![p] = NoCall]

-----------------------------------------------------------------------------
(* CreateNewToken and RefreshNewToken.                                     *)

Busy(u) == \E q \in Procs : pc[q] # "idle" /\ call[q].user = u

Begin(p, u, mode) ==
    /\ At(p, "idle")
    /\ Len(issued) < MaxTokens
    /\ call' = [call EXCEPT ![p].mode = mode, ![p].user = u]
    /\ Goto(p, "getAccessUser")
    /\ disturbed' = IF Busy(u) THEN disturbed \cup {u} ELSE disturbed
    /\ UNCHANGED <<clock, cache, issued>>

CreateNewToken(p, u) == Begin(p, u, 0)

\* The caller holds a token it read at some earlier time; only its appKey and
\* userId are used.
RefreshNewToken(p, u) ==
    /\ \E i \in 1..Len(issued) : issued[i].user = u
    /\ Begin(p, u, 1)

GetAccessUser(p) ==
    /\ At(p, "getAccessUser")
    /\ call' = [call EXCEPT ![p].d1 = cache[<<"access_user", call[p].user>>]]
    /\ Goto(p, "getRefreshUser")
    /\ UNCHANGED <<clock, cache, issued, disturbed>>

\* The second read, and the branch on what the first one returned.
GetRefreshUser(p) ==
    /\ At(p, "getRefreshUser")
    /\ call' = [call EXCEPT ![p].d2 = cache[<<"refresh_user", call[p].user>>],
                            ![p].key = IF call[p].d1 = None \/ call[p].mode = 0
                                       THEN None
                                       ELSE <<"access", call[p].d1>>]
    /\ Goto(p, IF call[p].d1 = None THEN "deleteRefresh"
               ELSE IF call[p].mode = 0 THEN "deleteAccess" ELSE "getToken")
    /\ UNCHANGED <<clock, cache, issued, disturbed>>

\* Login: the old access token goes at once.
DeleteAccess(p) ==
    /\ At(p, "deleteAccess")
    /\ Delete(<<"access", call[p].d1>>)
    /\ Goto(p, "deleteRefresh")
    /\ UNCHANGED <<clock, issued, call, disturbed>>

\* Refresh: write back the copy that getToken returned, to expire in 10 s,
\* whatever has become of the cached one meanwhile.
SetGrace(p) ==
    /\ At(p, "setGrace")
    /\ Set(<<"access", call[p].d1>>, clock + Grace)
    /\ Goto(p, "deleteRefresh")
    /\ UNCHANGED <<clock, issued, call, disturbed>>

\* Mutant of DeleteRefresh: the old refresh token stays.
KeepRefresh(p) ==
    /\ At(p, "deleteRefresh")
    /\ Goto(p, "setAccess")
    /\ UNCHANGED <<clock, cache, issued, call, disturbed>>

DeleteRefresh(p) ==
    /\ At(p, "deleteRefresh")
    /\ IF call[p].d2 = None THEN UNCHANGED cache
                            ELSE Delete(<<"refresh", call[p].d2>>)
    /\ Goto(p, "setAccess")
    /\ UNCHANGED <<clock, issued, call, disturbed>>

\* createToken: new UUIDs, and an ExpireTime shared by the two entries.
SetAccess(p) ==
    LET k == Len(issued) + 1
    IN  /\ At(p, "setAccess")
        /\ k \in Tokens
        /\ issued' = Append(issued, [user |-> call[p].user, born |-> clock])
        /\ call' = [call EXCEPT ![p].tok = k, ![p].exp = clock + Duration]
        /\ Set(<<"access", k>>, clock + Duration)
        /\ Goto(p, "setRefresh")
        /\ UNCHANGED <<clock, disturbed>>

SetRefresh(p) ==
    /\ At(p, "setRefresh")
    /\ Set(<<"refresh", call[p].tok>>, call[p].exp)
    /\ Goto(p, "setAccessUser")
    /\ UNCHANGED <<clock, issued, call, disturbed>>

\* Mutant of SetAccessUser: a refresh does not record its token.
SetAccessUserAtLogin(p) ==
    /\ At(p, "setAccessUser")
    /\ IF call[p].mode = 0 THEN Set(<<"access_user", call[p].user>>, call[p].tok)
                           ELSE UNCHANGED cache
    /\ Goto(p, "setRefreshUser")
    /\ UNCHANGED <<clock, issued, call, disturbed>>

SetAccessUser(p) ==
    /\ At(p, "setAccessUser")
    /\ Set(<<"access_user", call[p].user>>, call[p].tok)
    /\ Goto(p, "setRefreshUser")
    /\ UNCHANGED <<clock, issued, call, disturbed>>

\* Mutant of SetRefreshUser: the expiry is recorded, not the token.
SetRefreshUserExpiry(p) ==
    /\ At(p, "setRefreshUser")
    /\ Set(<<"refresh_user", call[p].user>>, call[p].exp)
    /\ Return(p)
    /\ UNCHANGED <<clock, issued, disturbed>>

SetRefreshUser(p) ==
    /\ At(p, "setRefreshUser")
    /\ Set(<<"refresh_user", call[p].user>>, call[p].tok)
    /\ Return(p)
    /\ UNCHANGED <<clock, issued, disturbed>>

-----------------------------------------------------------------------------
(* getToken, on its own (GetAccessToken from the LoadLimitByToken filter,  *)
(* GetRefreshToken from the application) and inside clearUserToken.        *)

\* Whether getToken deletes what it got: a token past its ExpireTime, or the
\* entry of a user, which is no JSON object and so has no ExpireTime at all.
Stale(key) == cache[key] # None /\ (key \in UserKeys \/ ~IsValid(cache[key]))

\* On its own: Get, and IsValid of the copy.  The key is a prefix and the string
\* the caller passes: mostly a token, but "access_" and "user_<id>" make the key
\* of that user's own entry.  With a token that is valid, or with nothing, the
\* look-up is over and has changed nothing.
LookUp(p, key) ==
    /\ At(p, "idle")
    /\ IF Stale(key)
       THEN call' = [call EXCEPT ![p].key = key] /\ Goto(p, "deleteExpired")
       ELSE UNCHANGED <<pc, call>>
    /\ UNCHANGED <<clock, cache, issued, disturbed>>

\* In a refresh: a valid token is written back, an absent one is not.
GetToken(p) ==
    /\ At(p, "getToken")
    /\ Goto(p, IF Stale(call[p].key)           THEN "deleteExpired"
               ELSE IF cache[call[p].key] = None THEN "deleteRefresh"
               ELSE "setGrace")
    /\ UNCHANGED <<clock, cache, issued, call, disturbed>>

\* Delete whatever the key holds by now.
DeleteExpired(p) ==
    /\ At(p, "deleteExpired")
    /\ Delete(call[p].key)
    /\ IF call[p].mode = 2 THEN Return(p)
                           ELSE Goto(p, "deleteRefresh") /\ UNCHANGED call
    /\ disturbed' = IF call[p].key \in UserKeys THEN disturbed \cup {call[p].key[2]}
                                                ELSE disturbed
    /\ UNCHANGED <<clock, issued>>

-----------------------------------------------------------------------------

Tick ==
    /\ clock < MaxTime
    /\ clock' = clock + 1
    /\ UNCHANGED <<cache, issued, pc, call, disturbed>>

\* bigcache drops entries a Duration after they were set.  A token has expired
\* by then; a user's entry was set after the token it names was created.
Evictable(key) ==
    /\ cache[key] # None
    /\ IF key[1] \in {"access", "refresh"}
       THEN cache[key] <= clock
       ELSE issued[cache[key]].born + Duration < clock

Evict(key) ==
    /\ Evictable(key)
    /\ Delete(key)
    /\ UNCHANGED <<clock, issued, pc, call, disturbed>>

Step(p) ==
    \/ GetAccessUser(p) \/ GetRefreshUser(p)
    \/ DeleteAccess(p) \/ SetGrace(p) \/ DeleteRefresh(p)
    \/ SetAccess(p) \/ SetRefresh(p) \/ SetAccessUser(p) \/ SetRefreshUser(p)
    \/ GetToken(p) \/ DeleteExpired(p)

Request(p) ==
    \/ \E u \in Users : CreateNewToken(p, u) \/ RefreshNewToken(p, u)
    \/ \E k \in 1..Len(issued), kind \in {"access", "refresh"} : LookUp(p, <<kind, k>>)
    \/ \E key \in UserKeys : LookUp(p, key)

Serve == \E p \in Procs : Request(p) \/ Step(p)

Next == Serve \/ Tick \/ \E key \in Keys : Evict(key)

Spec == Init /\ [][Next]_vars

-----------------------------------------------------------------------------
(* Properties.                                                             *)

TypeOK ==
    /\ clock \in 0..MaxTime
    /\ issued \in Seq([user : Users, born : 0..MaxTime]) /\ Len(issued) <= MaxTokens
    /\ \A kind \in {"access", "refresh"}, k \in Tokens :
          /\ cache[<<kind, k>>] \in Expiry
          /\ k > Len(issued) => cache[<<kind, k>>] = None
    /\ \A kind \in {"access_user", "refresh_user"}, u \in Users :
          cache[<<kind, u>>] \in 0..Len(issued)
    /\ \A p \in Procs :
          /\ call[p].mode \in 0..2
          /\ call[p].user \in Users \cup {None}
          /\ {call[p].d1, call[p].d2, call[p].tok} \subseteq 0..Len(issued)
    /\ disturbed \subseteq Users

Live(key)  == cache[key] # None /\ IsValid(cache[key])
OwnedBy(u) == {k \in 1..Len(issued) : issued[k].user = u}

\* The session that a user's entry names is never a revoked one: before its
\* lifetime is over it is missing from the cache only while a login or refresh
\* that read that very entry is still to replace it.  This holds however
\* logins, refreshes and look-ups of the user interleave.
CurrentSessionAlive ==
    \A u \in Users :
        LET k == cache[<<"access_user", u>>]
        IN  k # None /\ cache[<<"access", k>>] = None
              => \/ clock >= issued[k].born + Duration
                 \/ \E p \in Procs : /\ pc[p] # "idle"
                                     /\ call[p].user = u /\ call[p].d1 = k

\* A user between two logins or refreshes has one session, the one both entries
\* name: no other refresh token of the user is cached, and another access token
\* is at most waiting out the grace time of a refresh.  Two things break this, and
\* nothing else does, neither look-ups of tokens nor evictions nor the requests of
\* other users: two logins or refreshes of the user that overlapped, and a look-up
\* of the user's own entry, which removes it, so that the next login finds no
\* session to revoke.
OneSessionUnlessDisturbed ==
    \A u \in Users \ disturbed :
        ~Busy(u) =>
            LET a == cache[<<"access_user", u>>]
                r == cache[<<"refresh_user", u>>]
            IN  /\ a # None /\ r # None => a = r
                /\ \A k \in OwnedBy(u) :
                     /\ Live(<<"refresh", k>>) => k = r
                     /\ Live(<<"access", k>>)  =>
                            k = a \/ cache[<<"access", k>>] <= clock + Grace
=============================================================================

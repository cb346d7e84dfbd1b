--------------------------- MODULE PipelineProofs ---------------------------
(***************************************************************************)
(* Proofs about Pipeline, for all routes and all orders of set-up.         *)
(*                                                                         *)
(* Every chain starts with the logger and the recovery and ends with its   *)
(* only final handler (SetupInv), so that the request's position in it     *)
(* tells what has happened so far: which filters it passed (Passing),      *)
(* whether the recovery is still around it (Guarded), what its parameters  *)
(* are made of (Tokens) and whether it was answered (Answers).             *)
(***************************************************************************)
EXTENDS Pipeline, TLAPS

MiddlewareNames == {"logger", "recovery", "cors"} \cup Loaders
Last(c) == c[Len(c)]
LastOf(r) == IF r \in Own THEN r
             ELSE IF Routes[r].style = "generic" THEN JSONHandlerOf(Routes[r])
                                                 ELSE GenHandlerFunc(Routes[r])

Starts(c) == Len(c) >= 2 /\ Len(c) < AbortIndex /\ c[1] = "logger" /\ c[2] = "recovery"

SetupInv ==
    /\ Starts(used)
    /\ \A r \in DOMAIN chains :
          /\ chains[r] \in Seq(MiddlewareNames \cup Finals)
          /\ Starts(chains[r])
          /\ Last(chains[r]) = LastOf(r)
          /\ \A i \in 1 .. Len(chains[r]) - 1 : chains[r][i] \notin Finals

\* What the request's chain is like, whatever its route is.
Size == Len(Chain)
ChainOK ==
    /\ Size \in 2 .. AbortIndex - 1 /\ DOMAIN Chain = 1 .. Size
    /\ Chain[1] = "logger" /\ Chain[2] = "recovery"
    /\ \A i \in 1 .. Size : Chain[i] \in MiddlewareNames \cup Finals
    /\ \A i \in 1 .. Size : Chain[i] \in Finals => i = Size
    /\ route = NoRoute => Chain[Size] \notin Finals
    /\ route # NoRoute => Chain[Size] = LastOf(route) /\ Chain[Size] \in Finals

Callable == {"raw", "wrapper", "json", "tokenjson"}
Active   == pc \in {"run", "args", "call", "panic"}
Skipped  == "skip" \in mishaps

Placed ==
    /\ pc = "next" => index = AbortIndex \/ index \in 0 .. Size
    /\ pc = "args" => Handler = "wrapper"
    /\ pc = "call" => Handler \in Callable
    /\ pc = "panic" => Handler \in Callable \cup {"app"}

PassedUpTo(n) == \A i \in 1 .. n : Chain[i] \in Filters => Chain[i] \in passed
Passing ==
    /\ pc = "next" /\ index # AbortIndex => PassedUpTo(index)
    /\ Active => PassedUpTo(index - 1)

Guarded ==
    /\ pc = "next" /\ index >= 2 /\ index < Size => protected \/ Skipped
    /\ Active /\ index >= 3 => protected \/ Skipped
    /\ pc = "panic" /\ Handler = "app" => Skipped
    /\ pc = "crash" => Skipped

Args == Routes[route].args
Tokens ==
    /\ (token \/ session) => valid
    /\ pc = "args" => /\ arg \in 1 .. Len(Args) + 1
                      /\ \A j \in 1 .. arg - 1 : Args[j] = "token" => token \/ unset
    /\ pc = "call" /\ route \in DOMAIN Routes /\ Takes(Routes[route], "token") => token

Clean      == mishaps \subseteq {"unsent"}
Lost       == "unsent" \in mishaps
Unanswered == status = 0 /\ bodies = 0 /\ ~Lost
Answered   == /\ status # 0
              /\ (bodies = 1 /\ ~Lost) \/ (bodies = 0 /\ (status = 204 \/ Lost))
Answers ==
    Clean =>
        /\ Active => Unanswered
        /\ pc = "next" => IF index < Size \/ (index = Size /\ route = NoRoute)
                          THEN Unanswered ELSE Answered
        /\ pc = "end" => Answered \/ (Unanswered /\ route = NoRoute)

ReqInv == Placed /\ Passing /\ Guarded /\ Tokens /\ Answers
IInv == TypeOK /\ SetupInv /\ ReqInv

-----------------------------------------------------------------------------

LEMMA LastIsFinal ==
    ASSUME NEW r \in Own \cup DOMAIN Routes
    PROVE  LastOf(r) \in Finals /\ LastOf(r) \notin MiddlewareNames
  BY DEF LastOf, Own, Finals, JSONHandlerOf, GenHandlerFunc, MiddlewareNames, Loaders,
         Filters

LEMMA LastSuits ==
    ASSUME NEW r \in DOMAIN Routes
    PROVE  /\ LastOf(r) \in Callable
           /\ Takes(Routes[r], "token") => LastOf(r) \in {"wrapper", "tokenjson"}
  <1>1. LastOf(r) = IF Routes[r].style = "generic" THEN JSONHandlerOf(Routes[r])
                                                   ELSE GenHandlerFunc(Routes[r])
    BY RoutesAssumption DEF LastOf, Own
  <1>2. Routes[r].args = <<"context">> => ~Takes(Routes[r], "token")
    BY DEF Takes
  <1> QED
    BY <1>1, <1>2 DEF JSONHandlerOf, GenHandlerFunc, Callable

\* What a chain is like when a route is registered.
LEMMA Registered ==
    ASSUME NEW c \in Seq(MiddlewareNames), Starts(c), Len(c) + 1 < AbortIndex,
           NEW h \in Finals
    PROVE  /\ Append(c, h) \in Seq(MiddlewareNames \cup Finals)
           /\ Starts(Append(c, h))
           /\ Last(Append(c, h)) = h
           /\ \A i \in 1 .. Len(Append(c, h)) - 1 : Append(c, h)[i] \notin Finals
  <1>1. \A i \in 1 .. Len(c) : Append(c, h)[i] = c[i] /\ c[i] \in MiddlewareNames
    OBVIOUS
  <1>2. Len(Append(c, h)) = Len(c) + 1 /\ Append(c, h)[Len(c) + 1] = h
    OBVIOUS
  <1>3. Append(c, h) \in Seq(MiddlewareNames \cup Finals)
    OBVIOUS
  <1>4. MiddlewareNames \cap Finals = {}
    BY DEF MiddlewareNames, Loaders, Filters, Finals
  <1> QED
    BY <1>1, <1>2, <1>3, <1>4 DEF Starts, Last

LEMMA ChainIsOK ==
    ASSUME TypeOK, SetupInv PROVE ChainOK
  <1>1. MiddlewareNames \cap Finals = {}
    BY DEF MiddlewareNames, Loaders, Filters, Finals
  <1>2. ASSUME NEW c \in Seq(MiddlewareNames \cup Finals), Starts(c)
        PROVE  /\ Len(c) \in 2 .. AbortIndex - 1 /\ DOMAIN c = 1 .. Len(c)
               /\ \A i \in 1 .. Len(c) : c[i] \in MiddlewareNames \cup Finals
               /\ \A i \in 1 .. Len(c) : i \in 1 .. Len(c) - 1 \/ i = Len(c)
    <2>1. Len(c) \in Nat /\ DOMAIN c = 1 .. Len(c)
      OBVIOUS
    <2>2. \A i \in 1 .. Len(c) : c[i] \in MiddlewareNames \cup Finals
      OBVIOUS
    <2>3. \A n \in Nat : \A i \in 1 .. n : i \in 1 .. n - 1 \/ i = n
      OBVIOUS
    <2>4. \A n \in Nat : n >= 2 /\ n < AbortIndex => n \in 2 .. AbortIndex - 1
      BY DEF AbortIndex
    <2> QED
      BY <1>2, <2>1, <2>2, <2>3, <2>4, Zenon DEF Starts
  <1>3. CASE route = NoRoute
    <2>1. used \in Seq(MiddlewareNames)
      BY DEF TypeOK, MiddlewareNames
    <2>2. used \in Seq(MiddlewareNames \cup Finals) /\ Starts(used)
      BY <2>1 DEF SetupInv
    <2>3. \A i \in 1 .. Len(used) : used[i] \in MiddlewareNames
      BY <2>1
    <2>4. Len(used) \in 1 .. Len(used)
      BY <2>1 DEF SetupInv, Starts
    <2>5. Chain = used
      BY <1>3 DEF Chain
    <2> QED
      BY <1>1, <1>2, <1>3, <2>2, <2>3, <2>4, <2>5, Zenon DEF ChainOK, Size, Starts
  <1>4. CASE route # NoRoute
    <2>1. Chain = chains[route] /\ route \in DOMAIN chains
      BY <1>4 DEF Chain, TypeOK
    <2>2. LastOf(route) \in Finals
      BY <2>1, LastIsFinal DEF TypeOK
    <2>3. /\ Chain \in Seq(MiddlewareNames \cup Finals) /\ Starts(Chain)
          /\ Chain[Len(Chain)] = LastOf(route)
          /\ \A i \in 1 .. Len(Chain) - 1 : Chain[i] \notin Finals
      BY <2>1 DEF SetupInv, Last
    <2> QED
      BY <1>2, <1>4, <2>2, <2>3, Zenon DEF ChainOK, Size, Starts
  <1> QED
    BY <1>3, <1>4

-----------------------------------------------------------------------------

THEOREM InitHolds == Init => IInv
  <1> SUFFICES ASSUME Init PROVE IInv
    OBVIOUS
  <1>1. PICK cors \in BOOLEAN : LoadWeb(cors)
    BY DEF Init
  <1>2. used \in Seq(MiddlewareNames) /\ Starts(used) /\ Len(used) + 1 < AbortIndex
    <2>1. /\ Base \in Seq(MiddlewareNames) /\ Len(Base) = 2
          /\ Base[1] = "logger" /\ Base[2] = "recovery" /\ "cors" \in MiddlewareNames
      BY DEF Base, MiddlewareNames
    <2>2. Starts(Base) /\ Len(Base) + 1 < AbortIndex
      BY <2>1 DEF Starts, AbortIndex
    <2>3. /\ Append(Base, "cors") \in Seq(MiddlewareNames)
          /\ Len(Append(Base, "cors")) = 3
          /\ Append(Base, "cors")[1] = "logger" /\ Append(Base, "cors")[2] = "recovery"
      BY <2>1
    <2>4. Starts(Append(Base, "cors")) /\ Len(Append(Base, "cors")) + 1 < AbortIndex
      BY <2>3 DEF Starts, AbortIndex
    <2>5. used = Base \/ used = Append(Base, "cors")
      BY <1>1 DEF LoadWeb
    <2> QED
      BY <2>1, <2>2, <2>3, <2>4, <2>5, Zenon
  <1>3. SetupInv
    <2>1. chains = [r \in Own |-> Append(used, r)]
      BY <1>1 DEF LoadWeb
    <2> QED
      BY <1>2, <2>1, Registered DEF SetupInv, LastOf, Own, Finals
  <1>4. TypeOK
    <2>1. DOMAIN chains = Own
      BY <1>1 DEF LoadWeb
    <2>2. index \in 0 .. AbortIndex /\ arg \in Nat /\ bodies \in Nat
      BY DEF Init, AbortIndex
    <2>3. route = NoRoute /\ pc = "idle"
      BY DEF Init
    <2>4. /\ protected \in BOOLEAN /\ token \in BOOLEAN /\ unset \in BOOLEAN
          /\ read \in BOOLEAN /\ session \in BOOLEAN /\ valid \in BOOLEAN
      BY Zenon DEF Init
    <2> QED
      BY <1>2, <2>1, <2>2, <2>3, <2>4 DEF TypeOK, MiddlewareNames
  <1>5. ReqInv
    BY DEF Init, ReqInv, Placed, Passing, Guarded, Tokens, Answers, Clean, Active
  <1> QED
    BY <1>3, <1>4, <1>5 DEF IInv

\* Nothing is claimed of the request between two requests.
LEMMA IdleReq ==
    ASSUME pc = "idle", (token \/ session) => valid PROVE ReqInv
  BY DEF ReqInv, Placed, Passing, Guarded, Tokens, Answers, Clean, Active

LEMMA LoadStep ==
    ASSUME IInv, NEW mw \in Loaders, Load(mw) PROVE IInv'
  <1>1. used \in Seq(MiddlewareNames) /\ mw \in MiddlewareNames
    BY DEF IInv, TypeOK, MiddlewareNames
  <1>2. used' \in Seq(MiddlewareNames) /\ Starts(used')
    <2>1. used' = Append(used, mw) /\ Starts(used) /\ Len(used) + 1 < AbortIndex
      BY DEF Load, Room, IInv, SetupInv
    <2> QED
      BY <1>1, <2>1 DEF Starts
  <1>3. SetupInv'
    BY <1>2 DEF Load, IInv, SetupInv
  <1>4. TypeOK'
    BY <1>2 DEF Load, IInv, TypeOK, reqVars, ghosts, MiddlewareNames
  <1>5. ReqInv'
    BY DEF Load, IInv, ReqInv, reqVars, ghosts, Placed, Passing, Guarded, Tokens,
           Answers, Active
  <1> QED
    BY <1>3, <1>4, <1>5 DEF IInv

LEMMA LoadRouterStep ==
    ASSUME IInv, LoadRouter PROVE IInv'
  <1>1. /\ used \in Seq(MiddlewareNames) /\ Starts(used) /\ Len(used) + 1 < AbortIndex
        /\ UNCHANGED used
    BY DEF IInv, TypeOK, SetupInv, LoadRouter, Room, MiddlewareNames
  <1>2. DOMAIN chains' = Own \cup DOMAIN Routes /\ DOMAIN chains = Own
    BY DEF LoadRouter
  <1>3. ASSUME NEW r \in DOMAIN Routes
        PROVE  chains'[r] = Append(used, LastOf(r)) /\ LastOf(r) \in Finals
    <2>1. r \notin Own
      BY RoutesAssumption DEF Own
    <2> QED
      BY <2>1, LastIsFinal DEF LoadRouter, LastOf
  <1>4. ASSUME NEW r \in Own PROVE chains'[r] = chains[r]
    BY DEF LoadRouter
  <1>5. SetupInv'
    BY <1>1, <1>2, <1>3, <1>4, Registered DEF SetupInv, IInv
  <1>6. TypeOK'
    BY <1>1, <1>2 DEF LoadRouter, IInv, TypeOK, reqVars, ghosts
  <1>7. ReqInv'
    BY DEF LoadRouter, IInv, ReqInv, reqVars, ghosts, Placed, Passing, Guarded, Tokens,
           Answers, Active
  <1> QED
    BY <1>5, <1>6, <1>7 DEF IInv

LEMMA BeginStep ==
    ASSUME IInv, NEW r \in DOMAIN chains \cup {NoRoute}, Begin(r) PROVE IInv'
  <1>1. SetupInv'
    BY DEF Begin, setupVars, IInv, SetupInv
  <1>2. TypeOK'
    <2>1. index' \in 0 .. AbortIndex /\ arg' \in Nat /\ bodies' \in Nat /\ pc' = "next"
      BY DEF Begin, AbortIndex
    <2>2. /\ protected' \in BOOLEAN /\ token' \in BOOLEAN /\ unset' \in BOOLEAN
          /\ read' \in BOOLEAN /\ session' \in BOOLEAN /\ valid' \in BOOLEAN
      BY Zenon DEF Begin, IInv, TypeOK
    <2>3. used' = used /\ chains' = chains /\ route' = r
      BY DEF Begin, setupVars
    <2> QED
      BY <2>1, <2>2, <2>3 DEF IInv, TypeOK
  <1>3. ChainOK'
    BY <1>1, <1>2, ChainIsOK, PTL
  <1>4. ReqInv'
    <2>1. /\ pc' = "next" /\ index' = 0 /\ status' = 0 /\ bodies' = 0
          /\ token' = FALSE /\ valid' = session /\ session' = session /\ mishaps' = {}
      BY DEF Begin
    <2>2. Placed'
      BY <2>1, <1>3 DEF Placed, ChainOK
    <2>5. Passing'
      BY <2>1 DEF Passing, PassedUpTo, Active
    <2>3. Guarded' /\ Tokens'
      BY <2>1 DEF Guarded, Tokens, Active
    <2>4. Answers'
      BY <2>1, <1>3 DEF Answers, Unanswered, Lost, Active, ChainOK
    <2> QED
      BY <2>2, <2>3, <2>4, <2>5 DEF ReqInv
  <1> QED
    BY <1>1, <1>2, <1>4 DEF IInv

-----------------------------------------------------------------------------
(* The steps of a request leave the set-up and the route alone.            *)

LEMMA SameChain ==
    ASSUME UNCHANGED <<setupVars, route>>
    PROVE  Chain' = Chain /\ Size' = Size /\ (SetupInv => SetupInv')
  BY DEF setupVars, Chain, Size, SetupInv

LEMMA SameTypes ==
    ASSUME TypeOK, ChainOK, UNCHANGED <<setupVars, route>>,
           index' \in 0 .. AbortIndex, arg' \in Nat, bodies' \in Nat,
           pc' \in {"idle", "next", "run", "args", "call", "panic", "end", "crash"},
           protected' \in BOOLEAN, token' \in BOOLEAN, unset' \in BOOLEAN,
           read' \in BOOLEAN, session' \in BOOLEAN, valid' \in BOOLEAN,
           Active' => index' \in 1 .. Size
    PROVE  TypeOK'
  <1>1. used' = used /\ chains' = chains /\ route' = route /\ Chain' = Chain
    BY SameChain DEF setupVars
  <1>2. Active' => index' \in DOMAIN Chain'
    BY <1>1 DEF ChainOK
  <1> QED
    BY <1>1, <1>2 DEF TypeOK, Active

LEMMA SessionStep ==
    ASSUME IInv, Session PROVE IInv'
  <1>1. UNCHANGED <<setupVars, route>> /\ Chain' = Chain /\ Size' = Size /\ SetupInv'
    BY SameChain DEF Session, reqVars, IInv
  <1>2. TypeOK'
    <2>1. session' \in BOOLEAN /\ valid' \in BOOLEAN
      BY Zenon DEF Session, IInv, TypeOK
    <2> QED
      BY <1>1, <2>1 DEF Session, reqVars, setupVars, IInv, TypeOK
  <1>3. (token' \/ session') => valid'
    BY Zenon DEF Session, reqVars, IInv, ReqInv, Tokens
  <1>4. ReqInv'
    BY <1>1, <1>3 DEF Session, reqVars, IInv, ReqInv, Placed, Passing, PassedUpTo, Guarded,
       Skipped, Tokens, Args, Answers, Answered, Unanswered, Clean, Lost, Active, Handler
  <1> QED
    BY <1>1, <1>2, <1>4 DEF IInv

LEMMA NextHandlerStep ==
    ASSUME IInv, ChainOK, NextHandler PROVE IInv'
  <1>1. UNCHANGED <<setupVars, route>> /\ Chain' = Chain /\ Size' = Size /\ SetupInv'
    BY SameChain DEF NextHandler, reqVars, IInv
  <1>2. pc = "next"
        /\ \/ index < Size /\ index' = index + 1 /\ pc' = "run"
           \/ ~(index < Size) /\ index' = index /\ pc' = "end"
    BY DEF NextHandler, Size
  <1>3. index \in 0 .. AbortIndex /\ Size \in 2 .. AbortIndex - 1
    BY DEF IInv, TypeOK, ChainOK
  <1>4. TypeOK'
    <2>1. index' \in 0 .. AbortIndex /\ (Active' => index' \in 1 .. Size)
      BY <1>2, <1>3 DEF Active, AbortIndex
    <2> QED
      BY <1>1, <1>2, <2>1, SameTypes DEF NextHandler, reqVars, ghosts, IInv, TypeOK
  <1>5. Placed' /\ Tokens'
    BY <1>1, <1>2 DEF NextHandler, reqVars, ghosts, IInv, ReqInv, Placed, Tokens
  <1>6. Passing'
    BY <1>1, <1>2, <1>3
       DEF NextHandler, ghosts, IInv, ReqInv, Passing, PassedUpTo, Active, AbortIndex
  <1>7. Guarded'
    BY <1>1, <1>2, <1>3
       DEF NextHandler, ghosts, IInv, ReqInv, Guarded, Skipped, Active, AbortIndex
  <1>8. Answers'
    BY <1>1, <1>2, <1>3
       DEF NextHandler, reqVars, ghosts, IInv, ReqInv, Placed, Answers, Answered, Unanswered,
           Clean, Lost, Active, AbortIndex
  <1> QED
    BY <1>1, <1>4, <1>5, <1>6, <1>7, <1>8 DEF IInv, ReqInv

LEMMA EndStep ==
    ASSUME IInv, ChainOK, End PROVE IInv'
  <1>1. UNCHANGED <<setupVars, route>> /\ Chain' = Chain /\ Size' = Size /\ SetupInv'
    BY SameChain DEF End, reqVars, IInv
  <1>2. pc' \in {"idle", "end"} /\ (pc' = "end" => status' = 404 /\ bodies' = 1)
    BY DEF End
  <1>3. TypeOK'
    BY <1>1, <1>2, SameTypes DEF End, reqVars, ghosts, IInv, TypeOK, Active
  <1>4. ReqInv'
    BY <1>1, <1>2 DEF End, reqVars, ghosts, IInv, ReqInv, Placed, Passing, Guarded, Tokens,
           Answers, Answered, Unanswered, Clean, Lost, Active
  <1> QED
    BY <1>1, <1>3, <1>4 DEF IInv

-----------------------------------------------------------------------------
(* The ways a handler ends, whichever handler it is.                       *)

\* What no handler changes, and what it may do to the rest.
Frame ==
    /\ UNCHANGED <<setupVars, session, route, valid>>
    /\ protected' \in BOOLEAN /\ unset' \in BOOLEAN /\ read' \in BOOLEAN
    /\ arg' \in Nat /\ bodies' \in Nat
Keeps == Frame /\ UNCHANGED <<token, passed>> /\ mishaps \subseteq mishaps'

LEMMA Ends ==
    ASSUME IInv, ChainOK, Active, Frame, token' \in BOOLEAN,
           \/ Return \/ Abort \/ Panic \/ (pc' \in {"args", "call"} /\ UNCHANGED index)
    PROVE  TypeOK' /\ SetupInv' /\ Chain' = Chain /\ Size' = Size
  <1>1. UNCHANGED <<setupVars, route>> /\ Chain' = Chain /\ Size' = Size /\ SetupInv'
    BY SameChain DEF Frame, IInv
  <1>2. index \in 1 .. Size /\ index \in 0 .. AbortIndex
    BY DEF IInv, TypeOK, ChainOK, Active
  <1>3. index' \in 0 .. AbortIndex /\ (Active' => index' \in 1 .. Size)
        /\ pc' \in {"next", "panic", "args", "call"}
    BY <1>2 DEF Return, Abort, Panic, Active, AbortIndex
  <1> QED
    BY <1>1, <1>3, SameTypes DEF Frame, IInv, TypeOK

LEMMA PassStep ==
    ASSUME IInv, ChainOK, NEW h \in MiddlewareNames, Running(h), Pass, protected' \in BOOLEAN,
           protected => protected', h = "recovery" => protected',
           token' \in BOOLEAN, token' => token \/ session
    PROVE  IInv'
  <1>1. /\ pc = "run" /\ Handler = h /\ Active /\ Frame /\ pc' = "next" /\ index' = index
        /\ status' = status /\ bodies' = bodies /\ passed' = passed \cup {h}
        /\ UNCHANGED <<session, route, valid, arg, unset, read, mishaps>>
    BY DEF Running, Pass, Return, Silent, Frame, Active, IInv, TypeOK
  <1>2. TypeOK' /\ SetupInv' /\ Chain' = Chain /\ Size' = Size
    BY <1>1, Ends DEF Return
  <1>3. index \in 1 .. Size /\ Size \in 2 .. AbortIndex - 1 /\ h = Chain[index]
    BY <1>1 DEF IInv, TypeOK, ChainOK, Handler
  <1>4. h \notin Finals
    BY DEF MiddlewareNames, Finals, Loaders, Filters
  <1>5. Placed'
    BY <1>1, <1>2, <1>3 DEF Placed
  <1>6. Passing'
    <2>1. PassedUpTo(index - 1)
      BY <1>1 DEF IInv, ReqInv, Passing
    <2>2. \A i \in 1 .. index : i \in 1 .. index - 1 \/ i = index
      BY <1>3
    <2>3. PassedUpTo(index)'
      BY <1>1, <1>2, <1>3, <2>1, <2>2 DEF PassedUpTo
    <2> QED
      BY <1>1, <2>3 DEF Passing, Active
  <1>7. Guarded'
    <2>1. index = 1 \/ index = 2 \/ index >= 3
      BY <1>3
    <2>2. index = 2 => protected'
      BY <1>3 DEF ChainOK
    <2>3. index >= 3 => protected' \/ Skipped'
      BY <1>1 DEF IInv, ReqInv, Guarded, Skipped
    <2> QED
      BY <1>1, <2>1, <2>2, <2>3 DEF Guarded, Active
  <1>8. Tokens'
    BY <1>1 DEF IInv, ReqInv, Tokens
  <1>9. Answers'
    <2>1. index = Size => route = NoRoute
      BY <1>3, <1>4 DEF ChainOK
    <2> QED
      BY <1>1, <1>2, <1>3, <2>1 DEF IInv, ReqInv, Answers, Unanswered, Clean, Lost, Active
  <1> QED
    BY <1>2, <1>5, <1>6, <1>7, <1>8, <1>9 DEF IInv, ReqInv

LEMMA AbortStep ==
    ASSUME IInv, ChainOK, Active, Keeps, Abort, Clean' => Answered'
    PROVE  IInv'
  <1>1. Frame /\ pc' = "next" /\ index' = AbortIndex /\ Size \in 2 .. AbortIndex - 1
        /\ UNCHANGED <<token, session, valid>>
    BY DEF Keeps, Frame, Abort, ChainOK
  <1>2. token' \in BOOLEAN
    BY <1>1 DEF IInv, TypeOK
  <1>3. TypeOK' /\ SetupInv' /\ Size' = Size
    BY <1>1, <1>2, Ends
  <1>4. Placed' /\ Passing' /\ Tokens'
    BY <1>1 DEF Placed, Passing, Tokens, Active, IInv, ReqInv
  <1>5. Guarded' /\ Answers'
    BY <1>1, <1>3 DEF Guarded, Answers, Active, AbortIndex
  <1> QED
    BY <1>3, <1>4, <1>5 DEF IInv, ReqInv

LEMMA ReturnStep ==
    ASSUME IInv, ChainOK, Active, Handler \in Finals, Keeps, Return,
           Clean' => Answered'
    PROVE  IInv'
  <1>1. /\ Frame /\ pc' = "next" /\ index' = index /\ Size \in 2 .. AbortIndex - 1
        /\ UNCHANGED <<token, session, valid, passed, route>>
    BY DEF Keeps, Frame, Return, ChainOK
  <1>2. token' \in BOOLEAN
    BY <1>1 DEF IInv, TypeOK
  <1>3. TypeOK' /\ SetupInv' /\ Size' = Size /\ Chain' = Chain
    BY <1>1, <1>2, Ends
  <1>4. index = Size /\ route # NoRoute
    BY DEF IInv, TypeOK, ChainOK, Handler, Active
  <1>5. Placed' /\ Tokens'
    BY <1>1, <1>3, <1>4 DEF Placed, Tokens, IInv, ReqInv
  <1>6. Passing'
    <2>1. PassedUpTo(Size - 1) /\ Chain[Size] \notin Filters
      BY <1>4 DEF IInv, ReqInv, Passing, Handler, Finals, Filters
    <2>2. \A i \in 1 .. Size : i \in 1 .. Size - 1 \/ i = Size
      BY <1>1 DEF AbortIndex
    <2>3. PassedUpTo(index)'
      BY <1>1, <1>3, <1>4, <2>1, <2>2 DEF PassedUpTo
    <2> QED
      BY <1>1, <2>3 DEF Passing, Active
  <1>7. Guarded' /\ Answers'
    BY <1>1, <1>3, <1>4 DEF Guarded, Answers, Active, AbortIndex
  <1> QED
    BY <1>3, <1>5, <1>6, <1>7 DEF IInv, ReqInv

\* The handler goes on (to its parameters or its function), or it panics.
LEMMA StayStep ==
    ASSUME IInv, ChainOK, Active, Keeps, UNCHANGED index,
           pc' \in {"args", "call", "panic"}, protected => protected',
           Placed', Tokens', pc' = "panic" /\ Handler = "app" => Skipped',
           Clean' => UNCHANGED <<status, bodies, mishaps>>
    PROVE  IInv'
  <1>1. /\ Frame /\ UNCHANGED <<token, passed>> /\ Active'
    BY DEF Keeps, Active
  <1>2. token' \in BOOLEAN
    BY <1>1 DEF IInv, TypeOK
  <1>3. TypeOK' /\ SetupInv' /\ Size' = Size /\ Chain' = Chain
    BY <1>1, <1>2, Ends DEF Panic
  <1>4. Passing'
    BY <1>1, <1>3 DEF Passing, PassedUpTo, IInv, ReqInv, Active
  <1>5. Guarded'
    BY <1>1, <1>3 DEF Guarded, Skipped, Keeps, Handler, IInv, ReqInv, Active
  <1>6. Answers'
    BY <1>1 DEF Answers, Unanswered, Clean, Lost, Keeps, IInv, ReqInv, Active
  <1> QED
    BY <1>3, <1>4, <1>5, <1>6 DEF IInv, ReqInv

-----------------------------------------------------------------------------
(* The steps of the handlers, one by one.                                  *)

LEMMA JSONIterAnswers ==
    ASSUME IInv, Active, NEW code \in {200, 400, 401, 403, 500}, NEW sent \in BOOLEAN,
           JSONIter(code, sent)
    PROVE  /\ Clean' => Answered'
           /\ bodies' \in Nat /\ mishaps \subseteq mishaps'
  <1>1. mishaps \subseteq mishaps' /\ bodies' \in Nat
    BY DEF JSONIter, Count, IInv, TypeOK
  <1>2. ASSUME Clean' PROVE Answered'
    <2>1. status = 0 /\ bodies = 0 /\ "unsent" \notin mishaps
      BY <1>1, <1>2 DEF IInv, ReqInv, Answers, Unanswered, Clean, Lost
    <2>2. status' = code /\ bodies' = (IF sent THEN 1 ELSE 0)
          /\ mishaps' = (IF sent THEN mishaps ELSE mishaps \cup {"unsent"})
      BY <2>1 DEF JSONIter, Count
    <2> QED
      BY <2>1, <2>2 DEF Answered, Lost
  <1> QED
    BY <1>1, <1>2

\* What a handler leaves alone that only answers.
Aside == /\ UNCHANGED <<setupVars, session, route, valid, token, passed>>
         /\ protected' \in BOOLEAN /\ unset' \in BOOLEAN /\ read' \in BOOLEAN
         /\ arg' \in Nat

\* An answer behind which nothing is called, and the last handler's answer.
LEMMA RefuseStep ==
    ASSUME IInv, ChainOK, Active, Aside, NEW code \in {200, 400, 401, 403, 500}, Refuse(code)
    PROVE  IInv'
  <1>1. PICK sent \in BOOLEAN : JSONIter(code, sent) /\ Abort
    BY DEF Refuse
  <1>2. Keeps /\ (Clean' => Answered')
    BY <1>1, JSONIterAnswers DEF Keeps, Frame, Aside
  <1> QED
    BY <1>1, <1>2, AbortStep

LEMMA AnswerStep ==
    ASSUME IInv, ChainOK, Active, Handler \in Finals, Aside,
           NEW code \in {200, 400, 401, 403, 500}, Answer(code)
    PROVE  IInv'
  <1>1. PICK sent \in BOOLEAN : JSONIter(code, sent) /\ (Return \/ Abort)
    BY DEF Answer
  <1>2. Keeps /\ (Clean' => Answered')
    BY <1>1, JSONIterAnswers DEF Keeps, Frame, Aside
  <1> QED
    BY <1>1, <1>2, AbortStep, ReturnStep

LEMMA SilentKeeps ==
    ASSUME IInv, Silent, Aside PROVE Keeps
  BY DEF Silent, Aside, Keeps, Frame, IInv, TypeOK

LEMMA RunningAside ==
    ASSUME IInv, NEW h, Running(h), UNCHANGED <<protected, token, passed>>
    PROVE  Aside /\ Active /\ Handler = h
  BY DEF IInv, TypeOK, Running, Aside, Active

LEMMA MiddlewareStep ==
    ASSUME IInv, ChainOK, Middleware PROVE IInv'
  <1>1. CASE ginLogger
    BY <1>1, PassStep DEF ginLogger, IInv, TypeOK, MiddlewareNames
  <1>2. CASE ginRecovery
    BY <1>2, PassStep DEF ginRecovery, IInv, TypeOK, MiddlewareNames
  <1>3. CASE CORSMiddleware
    <2>1. Running("cors") /\ UNCHANGED <<protected, token>>
      BY <1>3 DEF CORSMiddleware
    <2>2. CASE Pass
      BY <2>1, <2>2, PassStep DEF IInv, TypeOK, MiddlewareNames
    <2>3. CASE Abort /\ status' = 204 /\ UNCHANGED <<bodies, mishaps, passed>>
      <3>1. Keeps /\ Active
        BY <2>1, <2>3, RunningAside DEF Aside, Keeps, Frame, IInv, TypeOK
      <3>2. Clean' => Answered'
        BY <2>1, <2>3, <3>1 DEF IInv, ReqInv, Answers, Unanswered, Answered, Clean, Lost
      <3> QED
        BY <2>3, <3>1, <3>2, AbortStep
    <2> QED
      BY <1>3, <2>2, <2>3 DEF CORSMiddleware
  <1>4. ASSUME NEW h \in Filters, Running(h), Refuse(200),
               UNCHANGED <<protected, token, passed>>
        PROVE  IInv'
    BY <1>4, RunningAside, RefuseStep
  <1>5. CASE RateLimitMiddleware
    BY <1>4, <1>5, PassStep
       DEF RateLimitMiddleware, IInv, TypeOK, MiddlewareNames, Loaders, Filters
  <1>6. CASE LoadLimitByPassword
    BY <1>4, <1>6, PassStep
       DEF LoadLimitByPassword, IInv, TypeOK, MiddlewareNames, Loaders, Filters
  <1>7. CASE LoadLimitByToken
    <2>1. /\ Running("token") /\ UNCHANGED protected
          /\ \/ Refuse(200) /\ UNCHANGED <<passed, token>>
             \/ Pass /\ token' = token
             \/ Pass /\ token' = TRUE /\ session
      BY <1>7 DEF LoadLimitByToken
    <2>2. "token" \in MiddlewareNames /\ "token" \in Filters
      BY DEF MiddlewareNames, Loaders, Filters
    <2>3. Pass => token' \in BOOLEAN /\ (token' => token \/ session)
      BY <2>1, Zenon DEF IInv, TypeOK
    <2>4. protected' \in BOOLEAN
      BY <2>1 DEF IInv, TypeOK
    <2> QED
      BY <1>4, <2>1, <2>2, <2>3, <2>4, PassStep
  <1>8. CASE AppMiddleware
    <2>1. Running("app") /\ UNCHANGED <<protected, token>>
      BY <1>8 DEF AppMiddleware
    <2>2. CASE Pass
      BY <2>1, <2>2, PassStep DEF IInv, TypeOK, MiddlewareNames, Loaders
    <2>3. CASE Panic /\ mishaps' = mishaps \cup {"skip"} /\ UNCHANGED <<status, bodies, passed>>
      <3>1. Keeps /\ Active /\ Handler = "app" /\ UNCHANGED <<setupVars, route>>
        BY <2>1, <2>3, RunningAside DEF Aside, Keeps, Frame, Running, IInv, TypeOK
      <3>2. Handler' = Handler /\ pc' = "panic" /\ index' = index
        BY <2>3, <3>1, SameChain DEF Handler, Panic
      <3>3. Placed'
        BY <3>1, <3>2 DEF Placed
      <3>4. Tokens'
        BY <3>1, <3>2 DEF Keeps, Frame, Tokens, IInv, ReqInv
      <3>5. Skipped' /\ ~Clean'
        BY <2>3 DEF Skipped, Clean
      <3> QED
        BY <2>1, <3>1, <3>2, <3>3, <3>4, <3>5, StayStep
    <2> QED
      BY <1>8, <2>2, <2>3 DEF AppMiddleware
  <1> QED
    BY <1>1, <1>2, <1>3, <1>5, <1>6, <1>7, <1>8 DEF Middleware

LEMMA RecoverStep ==
    ASSUME IInv, ChainOK, customRecover PROVE IInv'
  <1>1. /\ pc = "panic" /\ Active /\ protected' = FALSE
        /\ UNCHANGED <<setupVars, session, route, token, arg, unset, read, passed, valid>>
    BY DEF customRecover, reqVars, Active
  <1>2. Handler \in Callable \/ (Handler = "app" /\ Skipped)
    BY <1>1 DEF IInv, ReqInv, Placed, Guarded
  <1>6. Aside
    BY <1>1 DEF Aside, IInv, TypeOK
  <1>3. CASE protected /\ "gone" \notin mishaps /\ Answer(400)
    <2>2. CASE Handler \in Callable
      BY <1>1, <1>3, <1>6, <2>2, AnswerStep DEF Callable, Finals
    <2>4. CASE Abort
      BY <1>1, <1>3, <1>6, <2>4, RefuseStep DEF Answer, Refuse
    <2>3. CASE Handler = "app" /\ Skipped /\ Return
      <3>0. Keeps
        <4>1. PICK sent \in BOOLEAN : JSONIter(400, sent)
          BY <1>3 DEF Answer
        <4> QED
          BY <1>1, <1>6, <4>1, JSONIterAnswers DEF Aside, Keeps, Frame
      <3>1. TypeOK' /\ SetupInv' /\ Chain' = Chain /\ Size' = Size
        BY <1>1, <2>3, <3>0, Ends DEF Keeps, IInv, TypeOK
      <3>2. pc' = "next" /\ index' = index /\ index \in 1 .. Size
        BY <1>1, <2>3 DEF Return, IInv, TypeOK, ChainOK
      <3>3. Placed' /\ Guarded' /\ Answers'
        BY <1>1, <2>3, <3>0, <3>1, <3>2 DEF Keeps, Placed, Guarded, Answers, Clean, Active, Skipped
      <3>4. Tokens'
        BY <1>1, <3>2 DEF Tokens, IInv, ReqInv
      <3>5. PassedUpTo(index - 1) /\ Chain[index] \notin Filters
        BY <1>1, <2>3 DEF IInv, ReqInv, Passing, Handler, Filters
      <3>6. \A i \in 1 .. index : i \in 1 .. index - 1 \/ i = index
        BY <3>2 DEF ChainOK, AbortIndex
      <3>7. PassedUpTo(index)'
        BY <1>1, <3>1, <3>2, <3>5, <3>6 DEF PassedUpTo
      <3>8. Passing'
        BY <3>2, <3>7 DEF Passing, Active
      <3> QED
        BY <3>1, <3>3, <3>4, <3>8 DEF IInv, ReqInv
    <2> QED
      BY <1>2, <1>3, <2>2, <2>3, <2>4 DEF Answer
  <1>4. CASE protected /\ "gone" \in mishaps /\ Abort /\ Silent
    <2>1. Keeps /\ ~Clean'
      BY <1>4, <1>6, SilentKeeps DEF Silent, Clean
    <2> QED
      BY <1>1, <1>4, <2>1, AbortStep
  <1>5. CASE ~protected /\ pc' = "crash" /\ Silent /\ UNCHANGED index
    <2>1. index \in 1 .. Size
      BY <1>1 DEF IInv, TypeOK, ChainOK
    <2>2. Handler # "logger" /\ Handler # "recovery"
      BY <1>2 DEF Callable
    <2>3. index # 1 /\ index # 2
      BY <2>2 DEF Handler, ChainOK
    <2>4. Skipped
      BY <1>1, <1>5, <2>1, <2>3 DEF IInv, ReqInv, Guarded, ChainOK, AbortIndex
    <2>5. TypeOK' /\ SetupInv'
      BY <1>1, <1>5, SameTypes, SameChain DEF Silent, IInv, TypeOK, Active
    <2>6. ReqInv'
      BY <1>1, <1>5, <2>4 DEF Silent, IInv, ReqInv, Placed, Passing, Guarded, Skipped, Tokens,
         Answers, Active
    <2> QED
      BY <2>5, <2>6 DEF IInv
  <1> QED
    BY <1>3, <1>4, <1>5 DEF customRecover

LEMMA FinalHandler ==
    ASSUME IInv, ChainOK, Active, Handler \in Finals
    PROVE  /\ index = Size /\ route # NoRoute /\ Handler = LastOf(route)
           /\ Handler \in Callable => route \in DOMAIN Routes /\ Args \in Seq(STRING)
           /\ route \in DOMAIN Routes =>
                /\ Handler \in Callable
                /\ Takes(Routes[route], "token") => Handler \in {"wrapper", "tokenjson"}
  <1>1. index = Size /\ route # NoRoute /\ Handler = LastOf(route)
    BY DEF IInv, TypeOK, ChainOK, Handler, Active
  <1>2. route \in Own \cup DOMAIN Routes
    BY <1>1 DEF IInv, TypeOK
  <1>3. route \in Own => LastOf(route) \notin Callable
    BY DEF LastOf, Own, Callable
  <1> QED
    BY <1>1, <1>2, <1>3, LastSuits, RoutesAssumption DEF Args

\* On to the function, with everything it takes.
LEMMA CallStep ==
    ASSUME IInv, ChainOK, Active, Handler \in Callable, ToCall, Aside,
           UNCHANGED protected,
           Handler \in {"wrapper", "tokenjson"} /\ Takes(Routes[route], "token") => token
    PROVE  IInv'
  <1>0. Keeps
    BY SilentKeeps DEF ToCall
  <1>1. pc' = "call" /\ Handler' = Handler
    BY <1>0, SameChain DEF ToCall, Handler, Keeps, Frame
  <1>2. Placed'
    BY <1>1 DEF Placed
  <1>3. Handler \in Finals
    BY DEF Callable, Finals
  <1>4. Tokens'
    BY <1>0, <1>1, <1>3, FinalHandler DEF Tokens, Keeps, Frame, IInv, ReqInv
  <1> QED
    BY <1>0, <1>1, <1>2, <1>4, StayStep DEF ToCall, Silent, IInv, TypeOK

LEMMA EntryStep ==
    ASSUME IInv, ChainOK, OwnHandler \/ RawHandler \/ JSONHandler PROVE IInv'
  <1>1. ASSUME NEW h, Running(h), UNCHANGED <<protected, token, passed>>,
               NEW code \in {400, 401, 403}, Refuse(code)
        PROVE  IInv'
    BY <1>1, RunningAside, RefuseStep
  <1>2. ASSUME NEW h \in Callable, Running(h), ToCall, h = "tokenjson" => token, h # "wrapper",
               UNCHANGED <<protected, token, passed>>
        PROVE  IInv'
    BY <1>2, RunningAside, CallStep
  <1>3. CASE OwnHandler
    <2>1. UNCHANGED <<protected, token, passed>>
      BY <1>3 DEF OwnHandler
    <2>2. CASE Running("static") /\ JSONIter(200, TRUE) /\ Return
      <3>1. Aside /\ Active /\ Handler \in Finals
        BY <2>1, <2>2, RunningAside DEF Finals
      <3>2. Keeps /\ (Clean' => Answered')
        <4>1. PICK sent \in BOOLEAN : JSONIter(200, sent)
          BY <2>2, Zenon
        <4> QED
          BY <3>1, <4>1, JSONIterAnswers DEF Aside, Keeps, Frame
      <3> QED
        BY <2>2, <3>1, <3>2, ReturnStep
    <2> QED
      BY <1>1, <1>3, <2>1, <2>2 DEF OwnHandler
  <1>4. CASE RawHandler
    BY <1>2, <1>4 DEF RawHandler, Callable
  <1>5. CASE JSONHandler
    <2>1. PICK h \in {"json", "tokenjson"} : Running(h)
      BY <1>5 DEF JSONHandler
    <2>2. Handler = h /\ h \in Callable
      BY <2>1 DEF Running, Callable
    <2>3. UNCHANGED <<protected, token, passed>>
          /\ (Refuse(401) \/ Refuse(400) \/ ((h = "json" \/ token) /\ ToCall))
      BY <1>5, <2>2 DEF JSONHandler
    <2> QED
      BY <1>1, <1>2, <2>1, <2>2, <2>3
  <1> QED
    BY <1>3, <1>4, <1>5

LEMMA WrapperBeginStep ==
    ASSUME IInv, ChainOK, WrapperBegin PROVE IInv'
  <1>1. /\ Active /\ Handler = "wrapper" /\ Handler \in Finals /\ Handler \in Callable
        /\ pc' = "args" /\ arg' = 1 /\ Keeps
        /\ UNCHANGED <<index, protected, status, bodies, mishaps, route, session, token, valid>>
    BY DEF WrapperBegin, Active, Finals, Callable, Keeps, Frame, ghosts, IInv, TypeOK
  <1>2. Handler' = "wrapper"
    BY <1>1, SameChain DEF Handler, Keeps, Frame
  <1>3. Placed'
    BY <1>1, <1>2 DEF Placed
  <1>4. Len(Args) \in Nat /\ Args' = Args
    BY <1>1, FinalHandler DEF Args
  <1>5. Tokens'
    BY <1>1, <1>4 DEF Tokens, IInv, ReqInv
  <1> QED
    BY <1>1, <1>3, <1>5, StayStep

LEMMA WrapperArgStep ==
    ASSUME IInv, ChainOK, WrapperArg PROVE IInv'
  <1> DEFINE kind    == Args[arg]
             filled  == Silent /\ arg' = arg + 1 /\ UNCHANGED <<pc, index, unset>>
             refused == Answer(200) /\ UNCHANGED <<arg, unset>>
  <1>1. /\ pc = "args" /\ Active /\ arg \in Nat /\ arg <= Len(Args)
        /\ UNCHANGED <<setupVars, session, route, token, protected, passed, valid>>
    BY DEF WrapperArg, Active, Args, IInv, TypeOK
  <1>2. Handler = "wrapper" /\ Handler \in Finals /\ Handler \in Callable
    BY <1>1 DEF IInv, ReqInv, Placed, Finals, Callable
  <1>3. Len(Args) \in Nat /\ Args' = Args
    BY <1>1, <1>2, FinalHandler DEF Args
  <1>4. \/ filled /\ kind # "token" /\ read' \in BOOLEAN
        \/ /\ Silent /\ arg' = arg + 1 /\ unset' = Unset
           /\ UNCHANGED <<pc, index, read>>
        \/ refused /\ read' \in BOOLEAN
        \/ Panic /\ Silent /\ UNCHANGED <<arg, unset>> /\ read' \in BOOLEAN
        \/ Refuse(400) /\ UNCHANGED <<arg, unset, read>>
        \/ Answer(500) /\ UNCHANGED <<arg, unset, read>>
    <2>1. (read' = TRUE \/ read' = read) => read' \in BOOLEAN
      BY DEF IInv, TypeOK
    <2> DEFINE bodyError == Refuse(400) /\ UNCHANGED <<arg, unset>>
    <2>2. \/ kind \in {"context", "string"} /\ filled /\ read' = read
          \/ /\ kind = "token" /\ Silent /\ arg' = arg + 1
             /\ unset' = Unset /\ UNCHANGED <<pc, index, read>>
          \/ kind \in {"struct", "map"} /\ filled /\ read' = TRUE
          \/ refused /\ (read' = TRUE \/ read' = read)
          \/ Panic /\ Silent /\ UNCHANGED <<arg, unset>> /\ read' = TRUE
          \/ kind = "struct" /\ filled /\ read' = read
          \/ bodyError /\ read' = read
          \/ Answer(500) /\ UNCHANGED <<arg, unset>> /\ read' = read
      BY DEF WrapperArg, Args
    <2> HIDE DEF filled, refused, bodyError, kind
    <2>3. kind \in {"context", "string"} \/ kind \in {"struct", "map"} \/ kind = "struct"
          => kind # "token"
      OBVIOUS
    <2> QED
      BY <2>1, <2>2, <2>3 DEF bodyError
  <1>5. ASSUME NEW code \in {200, 400, 500}, Answer(code) \/ Refuse(code),
               UNCHANGED <<arg, unset>>, read' \in BOOLEAN
        PROVE  IInv'
    <2>1. Aside
      BY <1>1, <1>5 DEF Aside, IInv, TypeOK
    <2> QED
      BY <1>1, <1>2, <1>5, <2>1, AnswerStep, RefuseStep
  <1>6. ASSUME Silent, arg' = arg + 1, UNCHANGED <<pc, index>>, read' \in BOOLEAN,
               unset' \in BOOLEAN, kind = "token" => token \/ unset', unset => unset'
        PROVE  IInv'
    <2>1. Keeps /\ pc' = "args"
      BY <1>1, <1>6 DEF Keeps, Frame, Silent, IInv, TypeOK
    <2>2. Placed'
      <3>1. Handler' = Handler
        BY <1>6, <2>1, SameChain DEF Handler, Keeps, Frame
      <3> QED
        BY <1>2, <2>1, <3>1 DEF Placed
    <2>3. Tokens'
      <3>1. arg \in 1 .. Len(Args) + 1
            /\ \A j \in 1 .. arg - 1 : Args[j] = "token" => token \/ unset
        BY <1>1 DEF IInv, ReqInv, Tokens
      <3>2. arg' \in 1 .. Len(Args) + 1
            /\ \A j \in 1 .. arg' - 1 : j \in 1 .. arg - 1 \/ j = arg
        BY <1>1, <1>3, <1>6, <3>1
      <3>3. \A j \in 1 .. arg' - 1 : Args[j] = "token" => token' \/ unset'
        BY <1>1, <1>6, <3>1, <3>2
      <3> QED
        BY <1>1, <1>3, <2>1, <3>2, <3>3 DEF Tokens, IInv, ReqInv
    <2> QED
      BY <1>1, <1>6, <2>1, <2>2, <2>3, StayStep DEF Silent
  <1>7. CASE Panic /\ Silent /\ UNCHANGED <<arg, unset>> /\ read' \in BOOLEAN
    <2>1. Keeps /\ pc' = "panic" /\ index' = index
      BY <1>1, <1>7 DEF Silent, Keeps, Frame, Panic, IInv, TypeOK
    <2>2. Handler' = Handler
      BY <2>1, SameChain DEF Handler, Keeps, Frame
    <2>3. Placed' /\ Tokens'
      BY <1>1, <1>2, <2>1, <2>2 DEF Placed, Tokens, IInv, ReqInv
    <2> QED
      BY <1>1, <1>2, <1>7, <2>1, <2>3, StayStep DEF Silent
  <1>8. unset' = Unset => unset' \in BOOLEAN /\ (token \/ unset') /\ (unset => unset')
    BY Zenon DEF Unset
  <1>9. unset \in BOOLEAN /\ read \in BOOLEAN
    BY DEF IInv, TypeOK
  <1> QED
    BY <1>4, <1>5, <1>6, <1>7, <1>8, <1>9

LEMMA WrapperCallStep ==
    ASSUME IInv, ChainOK, WrapperCall PROVE IInv'
  <1>1. /\ pc = "args" /\ Active /\ arg > Len(Args) /\ Silent
        /\ UNCHANGED <<setupVars, session, reqVars, protected, passed, valid>>
        /\ IF unset THEN Panic ELSE ToCall
    BY DEF WrapperCall, Active, Args, ToCall
  <1>2. Handler = "wrapper" /\ Handler \in Finals /\ Handler \in Callable
    BY <1>1 DEF IInv, ReqInv, Placed, Finals, Callable
  <1>3. Aside /\ Keeps
    BY <1>1, SilentKeeps DEF Aside, reqVars, IInv, TypeOK
  <1>4. CASE unset
    <2>1. pc' = "panic" /\ index' = index
      BY <1>1, <1>4 DEF Panic
    <2>2. Handler' = Handler
      BY <1>3, <2>1, SameChain DEF Handler, Keeps, Frame
    <2>3. Placed' /\ Tokens'
      BY <1>1, <1>2, <2>1, <2>2 DEF Placed, Tokens, reqVars, IInv, ReqInv
    <2> QED
      BY <1>1, <1>2, <1>3, <2>1, <2>3, StayStep DEF Silent
  <1>5. CASE ~unset
    <2>1. Takes(Routes[route], "token") => \E j \in 1 .. Len(Args) : Args[j] = "token"
      BY <1>1, <1>2, FinalHandler DEF Takes, Args
    <2>2. arg \in 1 .. Len(Args) + 1 /\ Len(Args) \in Nat
          /\ \A j \in 1 .. arg - 1 : Args[j] = "token" => token
      BY <1>1, <1>2, <1>5, FinalHandler DEF IInv, ReqInv, Tokens
    <2>3. \A j \in 1 .. Len(Args) : j \in 1 .. arg - 1
      BY <1>1, <2>2
    <2>4. Takes(Routes[route], "token") => token
      BY <2>1, <2>2, <2>3
    <2> QED
      BY <1>1, <1>2, <1>3, <1>5, <2>4, CallStep
  <1> QED
    BY <1>4, <1>5

LEMMA CallEndsStep ==
    ASSUME IInv, ChainOK, CallReturns \/ CallPanics PROVE IInv'
  <1>1. /\ pc = "call" /\ Active
        /\ UNCHANGED <<setupVars, session, reqVars, protected, passed, valid>>
    BY DEF CallReturns, CallPanics, Active
  <1>2. Handler \in Callable /\ Handler \in Finals
    BY <1>1 DEF IInv, ReqInv, Placed, Callable, Finals
  <1>3. Clean => status = 0 /\ bodies = 0 /\ "unsent" \notin mishaps
    BY <1>1 DEF IInv, ReqInv, Answers, Unanswered, Lost
  <1>4. bodies \in Nat
    BY DEF IInv, TypeOK
  <1>7. ASSUME mishaps \subseteq mishaps', bodies' \in Nat PROVE Keeps
    BY <1>1, <1>7 DEF Keeps, Frame, reqVars, IInv, TypeOK
  <1>5. CASE CallReturns
    <2>1. PICK wrote, sent \in BOOLEAN :
            \/ Handler = "raw" /\ JSONIter(200, sent) /\ Return
            \/ /\ mishaps' = mishaps \cup (IF wrote THEN {"wrote"} ELSE {})
                                     \cup (IF sent THEN {} ELSE {"unsent"})
               /\ Return \/ Abort
               /\ \E code \in {200, 500} :
                     status' = IF status = 0 THEN code ELSE status
               /\ bodies' = bodies + Count(wrote) + Count(sent)
      BY <1>2, <1>5 DEF CallReturns, WrapperResult, JSONResult, Callable
    <2>2. CASE Handler = "raw" /\ JSONIter(200, sent) /\ Return
      BY <1>1, <1>2, <1>7, <2>2, JSONIterAnswers, ReturnStep
    <2>3. CASE /\ mishaps' = mishaps \cup (IF wrote THEN {"wrote"} ELSE {})
                                     \cup (IF sent THEN {} ELSE {"unsent"})
               /\ Return \/ Abort
               /\ \E code \in {200, 500} :
                     status' = IF status = 0 THEN code ELSE status
               /\ bodies' = bodies + Count(wrote) + Count(sent)
      <3>1. Keeps
        BY <1>4, <1>7, <2>3 DEF Count
      <3>2. ASSUME Clean' PROVE Answered'
        <4>1. ~wrote /\ Clean
          BY <2>3, <3>2 DEF Clean
        <4> QED
          BY <1>3, <2>3, <4>1 DEF Answered, Lost, Count
      <3> QED
        BY <1>1, <1>2, <2>3, <3>1, <3>2, ReturnStep, AbortStep
    <2> QED
      BY <2>1, <2>2, <2>3
  <1>6. CASE CallPanics
    <2>1. PICK wrote, gone \in BOOLEAN :
            /\ mishaps' = mishaps \cup (IF wrote THEN {"wrote"} ELSE {})
                                  \cup (IF gone THEN {"gone"} ELSE {})
            /\ status' = IF wrote /\ status = 0 THEN 200 ELSE status
            /\ bodies' = bodies + Count(wrote)
      BY <1>6 DEF CallPanics
    <2>3. Keeps /\ pc' = "panic" /\ index' = index
      BY <1>4, <1>6, <1>7, <2>1 DEF CallPanics, Panic, Count
    <2>4. Clean' => UNCHANGED <<status, bodies, mishaps>>
      <3>1. Clean' => ~wrote /\ ~gone
        BY <2>1 DEF Clean
      <3> QED
        BY <1>4, <2>1, <3>1 DEF Count
    <2>5. Handler' = Handler
      BY <2>3, SameChain DEF Handler, Keeps, Frame
    <2>6. Placed' /\ Tokens'
      BY <1>1, <1>2, <2>3, <2>5 DEF Placed, Tokens, reqVars, IInv, ReqInv
    <2> QED
      BY <1>1, <1>2, <2>3, <2>4, <2>6, StayStep DEF Callable
  <1> QED
    BY <1>5, <1>6

-----------------------------------------------------------------------------

LEMMA StutterStep ==
    ASSUME IInv, UNCHANGED vars PROVE IInv'
  BY DEF vars, setupVars, reqVars, ghosts, IInv, TypeOK, SetupInv, ReqInv, Placed, Passing,
     PassedUpTo, Guarded, Skipped, Tokens, Args, Answers, Answered, Unanswered, Clean, Lost, Active,
     Handler, Chain, Size

THEOREM Inductive == Spec => []IInv
  <1>1. IInv /\ [Next]_vars => IInv'
    <2> SUFFICES ASSUME IInv, [Next]_vars PROVE IInv'
      OBVIOUS
    <2>1. ChainOK
      BY ChainIsOK DEF IInv
    <2> QED
      BY <2>1, StutterStep, LoadStep, LoadRouterStep, SessionStep, BeginStep, NextHandlerStep,
         EndStep, RecoverStep, MiddlewareStep, EntryStep, WrapperBeginStep, WrapperArgStep,
         WrapperCallStep, CallEndsStep DEF Next, Final
  <1> QED
    BY <1>1, InitHolds, PTL DEF Spec

\* The position in a chain never leaves it, and every part of the request has
\* its type.
THEOREM TypeCorrect == Spec => []TypeOK
  BY Inductive, PTL DEF IInv

\* No order of set-up, no refusal and no panic lets a request reach a function
\* past a filter that was installed before its route.
THEOREM NothingSlipsPast == Spec => []FiltersPassed
  <1>1. IInv => FiltersPassed
    BY DEF IInv, ReqInv, Passing, PassedUpTo, Active, FiltersPassed
  <1> QED
    BY <1>1, Inductive, PTL

\* A function never gets the token of another request, or none.
THEOREM TokensAreFresh == Spec => []TokenFresh
  <1>1. IInv => TokenFresh
    BY DEF IInv, ReqInv, Tokens, TokenFresh
  <1> QED
    BY <1>1, Inductive, PTL

\* A request in which no middleware panicked, no function wrote an answer of its own
\* and the client stayed gets one answer, or its status alone if the body is lost.
THEOREM OneAnswer == Spec => []AnsweredOnce
  <1>1. IInv => AnsweredOnce
    BY DEF IInv, ReqInv, Answers, Answered, Unanswered, Clean, Lost, AnsweredOnce
  <1> QED
    BY <1>1, Inductive, PTL

\* The recovery contains every panic but one behind a middleware's.
THEOREM PanicsAreContained == Spec => []PanicContained
  <1>1. IInv => PanicContained
    BY DEF IInv, ReqInv, Guarded, Skipped, PanicContained
  <1> QED
    BY <1>1, Inductive, PTL
=============================================================================

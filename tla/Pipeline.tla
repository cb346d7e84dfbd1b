------------------------------ MODULE Pipeline ------------------------------
(***************************************************************************)
(* How a request passes the middleware and reaches its handler.            *)
(*                                                                         *)
(* LoadWeb installs a logger and a recovery (and CORS), and registers the  *)
(* static files and /shutdown; the application then calls the loaders of   *)
(* SecFilter.go and registers its routes, in an order of its own.  A route *)
(* keeps the middleware there was when it was registered.                  *)
(*                                                                         *)
(* gin, which is external: Context.Next calls the handlers one after       *)
(* another, whether or not they call Next themselves, Abort ends this, and *)
(* a panic unwinds the handlers that are inside Next.                      *)
(***************************************************************************)
EXTENDS Integers, Sequences, FiniteSets

CONSTANT Routes   \* the application's routes, a function from names to records:
                  \*   style : "generic" (Handler.go) or "reflect" (InitWeb.go)
                  \*   args  : the kinds of its parameters, in their order
                  \*   outs  : how many results it has
                  \*   under : its path has a prefix the filters look for

ASSUME RoutesAssumption ==
    /\ DOMAIN Routes \cap {"static", "shutdown", "none"} = {}
    /\ \A r \in DOMAIN Routes : Routes[r].args \in Seq(STRING)

VARIABLES
    used,       \* the middleware installed so far
    chains,     \* the handlers of each registered route
    session,    \* there is a session for the token the client sends
    route,      \* the route of the request, or NoRoute
    index,      \* Context.index: the handler being run
    pc,         \* "idle", "next" (in the loop of Next), "run", "args", "call",
                \* "panic", "end" or "crash"
    protected,  \* the recovery is among the handlers inside Next
    token,      \* the context has an "AccessToken"
    arg,        \* HandlerFuncWrapper: the parameter it is at
    unset,      \* ... and whether one was left a zero reflect.Value
    read,       \* the body of the request was read
    status,     \* the status line that was sent, or 0
    bodies,     \* how many bodies were written
    passed,     \* ghost: the filters that let the request pass
    valid,      \* ghost: there was a session at some time in this request
    mishaps     \* ghost: "skip" a middleware panicked, "wrote" a function wrote
                \* an answer of its own before its handler did, "gone" the
                \* client was found to be gone, "unsent" the body of an answer
                \* could not be encoded or written

setupVars == <<used, chains>>
ghosts    == <<passed, valid, mishaps>>
reqVars   == <<route, token, arg, unset, read>>
vars == <<setupVars, session, reqVars, index, pc, protected, status, bodies, ghosts>>

Filters  == {"limit", "password", "token"}
Loaders  == Filters \cup {"app"}
Finals   == {"static", "shutdown", "raw", "wrapper", "json", "tokenjson"}
Own      == {"static", "shutdown"}                \* the routes of LoadWeb
NoRoute  == "none"
AbortIndex == 63

Chain   == IF route = NoRoute THEN used ELSE chains[route]
Handler == Chain[index]
Takes(r, kind) == \E i \in DOMAIN r.args : r.args[i] = kind
Under   == route \in DOMAIN Routes /\ Routes[route].under

-----------------------------------------------------------------------------
(* Setting up.                                                             *)

\* Mutant of Base: the recovery is forgotten.
BaseBare == <<"logger">>

Base == <<"logger", "recovery">>

LoadWeb(cors) ==
    /\ used = IF cors THEN Append(Base, "cors") ELSE Base
    /\ chains = [r \in Own |-> Append(used, r)]

Init ==
    /\ \E cors \in BOOLEAN : LoadWeb(cors)
    /\ session = FALSE
    /\ route = NoRoute /\ index = 0 /\ pc = "idle" /\ protected = FALSE
    /\ token = FALSE /\ arg = 0 /\ unset = FALSE /\ read = FALSE
    /\ status = 0 /\ bodies = 0
    /\ passed = {} /\ valid = FALSE /\ mishaps = {}

\* gin refuses a chain that Abort could not stop.
Room == Len(used) + 1 < AbortIndex

\* One of the loaders, or Use with a middleware of the application.  (Bound:
\* each at most once.)
Load(mw) ==
    /\ pc = "idle" /\ Room /\ \A i \in DOMAIN used : used[i] # mw
    /\ used' = Append(used, mw)
    /\ UNCHANGED <<chains, session, reqVars, index, pc, protected, status, bodies,
                   ghosts>>

\* A function of the context alone is a handler as it is; others are wrapped.
GenHandlerFunc(r) == IF r.args = <<"context">> /\ r.outs = 0 THEN "raw" ELSE "wrapper"

JSONHandlerOf(r) == IF Takes(r, "token") THEN "tokenjson" ELSE "json"

\* Mutant of LoadRouter: a handler registered as it is ends the loop, not the round.
LoadRouterStops ==
    /\ pc = "idle" /\ Room /\ DOMAIN chains = Own
    /\ \E r \in DOMAIN Routes :
          /\ GenHandlerFunc(Routes[r]) = "raw"
          /\ chains' = [s \in Own \cup {r} |->
                          IF s \in Own THEN chains[s] ELSE Append(used, "raw")]
    /\ UNCHANGED <<used, session, reqVars, index, pc, protected, status, bodies, ghosts>>

\* LoadRouters, or LoadRouter.  (Bound: all routes at once.)
LoadRouter ==
    /\ pc = "idle" /\ Room /\ DOMAIN chains = Own
    /\ chains' = [r \in Own \cup DOMAIN Routes |->
                    IF r \in Own THEN chains[r]
                    ELSE Append(used, IF Routes[r].style = "generic"
                                      THEN JSONHandlerOf(Routes[r])
                                      ELSE GenHandlerFunc(Routes[r]))]
    /\ UNCHANGED <<used, session, reqVars, index, pc, protected, status, bodies, ghosts>>

\* The client's session begins, or ends.
Session ==
    /\ session' = ~session
    /\ valid' = (valid \/ session')
    /\ UNCHANGED <<setupVars, reqVars, index, pc, protected, status, bodies, passed,
                   mishaps>>

-----------------------------------------------------------------------------
(* The loop.                                                               *)

\* A request; its context is taken from a pool and reset.
Begin(r) ==
    /\ pc = "idle"
    /\ route' = r /\ index' = 0 /\ pc' = "next" /\ protected' = FALSE
    /\ token' = FALSE /\ arg' = 0 /\ unset' = FALSE /\ read' = FALSE
    /\ status' = 0 /\ bodies' = 0
    /\ passed' = {} /\ valid' = session /\ mishaps' = {}
    /\ UNCHANGED <<setupVars, session>>

\* The next handler; after the last, every Next there is returns in turn.
NextHandler ==
    /\ pc = "next"
    /\ IF index < Len(Chain) THEN index' = index + 1 /\ pc' = "run"
                             ELSE pc' = "end" /\ UNCHANGED index
    /\ UNCHANGED <<setupVars, session, reqVars, protected, status, bodies, ghosts>>

\* What gin writes when no handler wrote anything, and the end of the request.
End ==
    /\ pc \in {"end", "crash"}
    /\ IF pc = "end" /\ status = 0 /\ route = NoRoute
       THEN status' = 404 /\ bodies' = 1 /\ UNCHANGED pc
       ELSE pc' = "idle" /\ UNCHANGED <<status, bodies>>
    /\ UNCHANGED <<setupVars, session, reqVars, index, protected, ghosts>>

-----------------------------------------------------------------------------
(* Ways a handler ends.                                                    *)

Count(b) == IF b THEN 1 ELSE 0

\* The header is sent once; a later answer only adds its body.  A result that the
\* encoder refuses, or that cannot be written, leaves the status without a body.
JSONIter(code, sent) ==
    /\ status' = IF status = 0 THEN code ELSE status
    /\ bodies' = bodies + Count(sent)
    /\ mishaps' = IF sent THEN mishaps ELSE mishaps \cup {"unsent"}

Silent == UNCHANGED <<status, bodies, mishaps>>
Return == pc' = "next" /\ UNCHANGED index
Abort  == pc' = "next" /\ index' = AbortIndex
Panic  == pc' = "panic" /\ UNCHANGED index

\* An answer, and the handler's end: when it fails, gin's Render aborts.
Answer(code) == \E sent \in BOOLEAN :
                    JSONIter(code, sent) /\ IF sent THEN Return ELSE Abort
Refuse(code) == (\E sent \in BOOLEAN : JSONIter(code, sent)) /\ Abort

-----------------------------------------------------------------------------
(* The middleware.                                                         *)

Running(h) == /\ pc = "run" /\ Handler = h
              /\ UNCHANGED <<setupVars, session, route, arg, unset, read, valid>>

\* What goes on with Next().
Pass == Return /\ Silent /\ passed' = passed \cup {Handler}

ginLogger   == /\ Running("logger") /\ Pass
               /\ UNCHANGED <<protected, token>>
ginRecovery == /\ Running("recovery") /\ Pass
               /\ protected' = TRUE /\ UNCHANGED token

\* A preflight request has no route.
CORSMiddleware ==
    /\ Running("cors")
    /\ \/ Pass
       \/ /\ route = NoRoute
          /\ Abort /\ status' = 204 /\ UNCHANGED <<bodies, mishaps, passed>>
    /\ UNCHANGED <<protected, token>>

\* The limiter is external: it allows or it does not.
RateLimitMiddleware ==
    /\ Running("limit")
    /\ Pass \/ (Refuse(200) /\ UNCHANGED passed)
    /\ UNCHANGED <<protected, token>>

LoadLimitByPassword ==
    /\ Running("password")
    /\ Pass \/ (Under /\ Refuse(200) /\ UNCHANGED passed)
    /\ UNCHANGED <<protected, token>>

\* Mutant of LoadLimitByToken: an unknown token is answered, and passes.
LoadLimitByTokenGoesOn ==
    /\ Running("token")
    /\ \/ (~Under \/ session) /\ Pass /\ token' = Under
       \/ Under /\ Answer(200) /\ UNCHANGED <<passed, token>>
    /\ UNCHANGED protected

\* No token, one that is not known (401, 402 in the body), or a known one.
LoadLimitByToken ==
    /\ Running("token")
    /\ \/ ~Under /\ Pass /\ UNCHANGED token
       \/ Under /\ session /\ Pass /\ token' = TRUE
       \/ Under /\ Refuse(200) /\ UNCHANGED <<passed, token>>
    /\ UNCHANGED protected

\* The application's own: it goes on, or it panics.
AppMiddleware ==
    /\ Running("app")
    /\ \/ Pass
       \/ /\ Panic /\ mishaps' = mishaps \cup {"skip"}
          /\ UNCHANGED <<status, bodies, passed>>
    /\ UNCHANGED <<protected, token>>

\* A panic unwinds to the recovery.  This answers, and returns to the loop it
\* was called from, which goes on behind the handler that panicked; only when
\* the client is gone does it abort.  Without a recovery the connection is cut.
customRecover ==
    /\ pc = "panic"
    /\ \/ protected /\ "gone" \notin mishaps /\ Answer(400)
       \/ protected /\ "gone" \in mishaps /\ Abort /\ Silent
       \/ ~protected /\ pc' = "crash" /\ Silent /\ UNCHANGED index
    /\ protected' = FALSE
    /\ UNCHANGED <<setupVars, session, reqVars, passed, valid>>

-----------------------------------------------------------------------------
(* The handlers.                                                           *)

\* LoadWeb's own: a static file answers as StaticFile says.
OwnHandler ==
    /\ \/ Running("static") /\ JSONIter(200, TRUE) /\ Return
       \/ Running("shutdown") /\ Refuse(403)
    /\ UNCHANGED <<protected, token, passed>>

ToCall == pc' = "call" /\ Silent /\ UNCHANGED index

RawHandler ==
    /\ Running("raw") /\ ToCall
    /\ UNCHANGED <<protected, token, passed>>

\* Mutant of JSONHandler: an error of Bind is answered, and the function called.
JSONHandlerGoesOn ==
    /\ \/ Running("json") \/ Running("tokenjson")
    /\ \/ Handler = "tokenjson" /\ ~token /\ Refuse(401)
       \/ /\ Handler = "json" \/ token
          /\ (ToCall \/ (JSONIter(400, TRUE) /\ pc' = "call" /\ UNCHANGED index))
    /\ UNCHANGED <<protected, token, passed>>

\* JSONHandler and JSONHandlerWithToken up to the call: the token must be there
\* (401), and Bind must accept the request (400).
JSONHandler ==
    /\ \/ Running("json") \/ Running("tokenjson")
    /\ \/ Handler = "tokenjson" /\ ~token /\ Refuse(401)
       \/ /\ Handler = "json" \/ token
          /\ ToCall \/ Refuse(400)
    /\ UNCHANGED <<protected, token, passed>>

WrapperBegin ==
    /\ pc = "run" /\ Handler = "wrapper"
    /\ pc' = "args" /\ arg' = 1
    /\ UNCHANGED <<setupVars, session, route, token, unset, read, index, protected,
                   status, bodies, ghosts>>

\* Mutant of Unset: the zero SecToken stands in for a token that is missing.
UnsetZero == unset

\* Without an "AccessToken" in the context the parameter stays a zero reflect.Value.
Unset == unset \/ ~token

\* HandlerFuncWrapper fills one parameter after another.  A JSON body can be
\* read only once, so a second parameter made from it is refused.
WrapperArg ==
    /\ pc = "args" /\ arg <= Len(Routes[route].args)
    /\ UNCHANGED <<setupVars, session, route, token, protected, passed, valid>>
    /\ LET kind    == Routes[route].args[arg]
           filled  == Silent /\ arg' = arg + 1 /\ UNCHANGED <<pc, index, unset>>
           refused == Answer(200) /\ UNCHANGED <<arg, unset>>
       IN  \/ kind \in {"context", "string"} /\ filled /\ UNCHANGED read
           \/ /\ kind = "token" /\ Silent /\ arg' = arg + 1
              /\ unset' = Unset /\ UNCHANGED <<pc, index, read>>
           \/ /\ kind \in {"struct", "map"} /\ read' = TRUE     \* from JSON
              /\ (~read /\ filled) \/ refused
           \/ /\ kind = "map" /\ ~read /\ read' = TRUE         \* of another type
              /\ Panic /\ Silent /\ UNCHANGED <<arg, unset>>
           \/ /\ kind = "struct" /\ UNCHANGED read              \* from a form
              /\ \/ filled \/ refused
                 \/ Refuse(400) /\ UNCHANGED <<arg, unset>>
           \/ kind = "other" /\ Answer(500) /\ UNCHANGED <<arg, unset, read>>

\* vm.Call panics when a parameter is missing.
WrapperCall ==
    /\ pc = "args" /\ arg > Len(Routes[route].args)
    /\ IF unset THEN Panic /\ Silent ELSE ToCall
    /\ UNCHANGED <<setupVars, session, reqVars, protected, passed, valid>>

\* HandlerFuncWrapper writes the result, or the error, behind what the function
\* wrote itself.
WrapperResult(wrote, sent) ==
    /\ status' = IF status = 0 THEN 200 ELSE status
    /\ bodies' = bodies + Count(wrote) + Count(sent)
    /\ IF sent THEN Return ELSE Abort

\* So do writeResponse and writeApplicationError.
JSONResult(wrote, sent) ==
    \E ok \in BOOLEAN :
        /\ status' = IF status = 0 THEN IF ok \/ wrote THEN 200 ELSE 500 ELSE status
        /\ bodies' = bodies + Count(wrote) + Count(sent)
        /\ IF ok /\ sent THEN Return ELSE Abort

\* The application's function returns, and may have written something to the
\* context itself; a raw one is supposed to.
CallReturns ==
    /\ pc = "call"
    /\ \E wrote, sent \in BOOLEAN :
        CASE Handler = "raw" -> wrote /\ JSONIter(200, sent) /\ Return
          [] OTHER ->
             /\ mishaps' = mishaps \cup (IF wrote THEN {"wrote"} ELSE {})
                                   \cup (IF sent THEN {} ELSE {"unsent"})
             /\ IF Handler = "wrapper" THEN WrapperResult(wrote, sent)
                                       ELSE JSONResult(wrote, sent)
    /\ UNCHANGED <<setupVars, session, reqVars, protected, passed, valid>>

\* It panics, perhaps because the client is gone.
CallPanics ==
    /\ pc = "call" /\ Panic
    /\ \E wrote, gone \in BOOLEAN :
        /\ mishaps' = mishaps \cup (IF wrote THEN {"wrote"} ELSE {})
                              \cup (IF gone THEN {"gone"} ELSE {})
        /\ status' = IF wrote /\ status = 0 THEN 200 ELSE status
        /\ bodies' = bodies + Count(wrote)
    /\ UNCHANGED <<setupVars, session, reqVars, protected, passed, valid>>

-----------------------------------------------------------------------------

Middleware == \/ ginLogger \/ ginRecovery \/ CORSMiddleware \/ RateLimitMiddleware
              \/ LoadLimitByPassword \/ LoadLimitByToken \/ AppMiddleware
Final == \/ OwnHandler \/ RawHandler \/ JSONHandler \/ WrapperBegin \/ WrapperArg
         \/ WrapperCall \/ CallReturns \/ CallPanics

Next == \/ LoadRouter \/ Session \/ NextHandler \/ End \/ customRecover
        \/ Middleware \/ Final
        \/ \E mw \in Loaders : Load(mw)
        \/ \E r \in DOMAIN chains \cup {NoRoute} : Begin(r)

Spec == Init /\ [][Next]_vars

-----------------------------------------------------------------------------
(* Properties.                                                             *)

TypeOK ==
    /\ index \in 0 .. AbortIndex /\ arg \in Nat /\ bodies \in Nat
    /\ pc \in {"idle", "next", "run", "args", "call", "panic", "end", "crash"}
    /\ protected \in BOOLEAN /\ token \in BOOLEAN /\ unset \in BOOLEAN
    /\ read \in BOOLEAN /\ session \in BOOLEAN /\ valid \in BOOLEAN
    /\ used \in Seq({"logger", "recovery", "cors"} \cup Loaders)
    /\ DOMAIN chains \in {Own, Own \cup DOMAIN Routes}
    /\ route \in DOMAIN chains \cup {NoRoute}
    /\ pc \in {"run", "args", "call", "panic"} => index \in DOMAIN Chain

\* An application's function is reached only through every filter that was
\* installed before its route, in whatever order: no refusal, no panic of
\* another middleware, and no recovery lets a request slip past one of them.
FiltersPassed ==
    pc = "call" => \A i \in 1 .. index - 1 : Chain[i] \in Filters => Chain[i] \in passed

\* A function that takes a token gets the one of a session that was there during
\* this request, not a zero value and not that of a request before it, also on
\* routes no filter is in front of.
TokenFresh ==
    pc = "call" /\ route \in DOMAIN Routes /\ Takes(Routes[route], "token") =>
        token /\ valid

\* A request is answered exactly once, and answered at all, unless a middleware
\* panicked (then its handler runs all the same, behind the answer of the recovery),
\* a function wrote an answer of its own first, or the client was gone.  An answer
\* whose body is lost is not followed by another: its status is all there is.
AnsweredOnce ==
    pc = "end" /\ mishaps \subseteq {"unsent"} =>
        \/ bodies = 1 /\ status # 0 /\ "unsent" \notin mishaps
        \/ bodies = 0 /\ status # 0 /\ (status = 204 \/ "unsent" \in mishaps)
        \/ bodies = 0 /\ status = 0 /\ route = NoRoute   \* gin is to write the 404

\* Only a handler that runs after a middleware panicked, outside the recovery
\* that panic used up, can cut the connection by a panic of its own.
PanicContained == pc = "crash" => "skip" \in mishaps
=============================================================================

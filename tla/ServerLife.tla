----------------------------- MODULE ServerLife -----------------------------
(***************************************************************************)
(* fast_web/InitWeb.go and fast_web/web/proxy/Server.go: a service that is *)
(* started and shut down by its service manager, any number of times, and  *)
(* the forward proxy it takes along.                                       *)
(*                                                                         *)
(* RunAsService returns at once.  A goroutine of its own, the starter,     *)
(* starts the proxy and then serves; StartProxy leaves the serving of the  *)
(* proxy to one more goroutine, the runner.  Starter and runner read their *)
(* server from a shared variable only when they get to it, and nothing     *)
(* orders that with Shutdown.                                              *)
(*                                                                         *)
(* The k-th start makes http server k, starter k and, if a proxy port is   *)
(* configured, proxy server k and runner k.  Of net/http's server only     *)
(* this is kept: Shutdown marks it for good and closes its listener, and   *)
(* ListenAndServe looks at the mark before and after it takes the port.    *)
(* How long Shutdown waits for open connections is left open.              *)
(***************************************************************************)
EXTENDS Naturals

CONSTANTS
    MaxStarts,    \* bound: calls of RunAsService
    Main,         \* the service manager's goroutine
    NoOne         \* the holder of a free port

ASSUME LifeAssumption ==
    /\ MaxStarts \in Nat \ {0}
    /\ Main \notin {"http", "proxy"} \X Nat /\ NoOne \notin {"http", "proxy"} \X Nat

Starts     == 1..MaxStarts
Nil        == 0
Kinds      == {"http", "proxy"}
Goroutines == Kinds \X Starts      \* starters serve http, runners the proxy

VARIABLES
    process,          \* "running", "exiting" (os.Exit is due), or how it has ended
    proxyPort,        \* whether a ProxyPort is configured
    HttpServer,       \* c.HttpServer
    httpProxyServer,  \* the global of package proxy
    shut,             \* the servers marked by Shutdown
    port,             \* who holds each of the two ports
    pc,               \* where every goroutine is
    target,           \* the server each of them serves
    reached           \* ghost: where those of the current start were at a Shutdown

serverVars == <<HttpServer, httpProxyServer, shut>>
vars == <<process, proxyPort, serverVars, port, pc, target, reached>>

Init ==
    /\ process = "running" /\ proxyPort \in BOOLEAN
    /\ HttpServer = Nil /\ httpProxyServer = Nil /\ shut = {}
    /\ port = [kind \in Kinds |-> NoOne]
    /\ pc = [g \in Goroutines \cup {Main} |-> IF g = Main THEN "stopped" ELSE "none"]
    /\ target = [g \in Goroutines |-> Nil]
    /\ reached = {}

Goto(g, l) == pc' = [pc EXCEPT ![g] = l]

-----------------------------------------------------------------------------
(* The http.Server of the standard library.                                *)

\* (*http.Server).Shutdown: mark the server, close its listener.
ShutServer(kind, k) ==
    /\ shut' = shut \cup {<<kind, k>>}
    /\ port' = [port EXCEPT ![kind] =
                  IF @ # NoOne /\ pc[@] = "serving" /\ target[@] = k THEN NoOne ELSE @]

\* ListenAndServe, up to the listening socket, on the server that the shared
\* variable names by now.
Listen(g, k) ==
    /\ pc[g] = "listen" /\ k # Nil
    /\ <<g[1], k>> \notin shut
    /\ port[g[1]] = NoOne
    /\ port' = [port EXCEPT ![g[1]] = g]
    /\ target' = [target EXCEPT ![g] = k]
    /\ Goto(g, "bound")
    /\ UNCHANGED <<process, proxyPort, serverVars, reached>>

\* It returns at once if the server is shutting down already.
ListenClosed(g, k) ==
    /\ pc[g] = "listen" /\ k # Nil
    /\ <<g[1], k>> \in shut
    /\ Goto(g, "ended")
    /\ UNCHANGED <<process, proxyPort, serverVars, port, target, reached>>

\* Serve, which looks at the mark once more.
Serve(g) ==
    /\ pc[g] = "bound"
    /\ IF <<g[1], target[g]>> \in shut
       THEN port' = [port EXCEPT ![g[1]] = NoOne] /\ Goto(g, "ended")
       ELSE Goto(g, "serving") /\ UNCHANGED port
    /\ UNCHANGED <<process, proxyPort, serverVars, target, reached>>

\* ListenAndServe returns ErrServerClosed.
Closed(g) ==
    /\ pc[g] = "serving" /\ <<g[1], target[g]>> \in shut
    /\ Goto(g, "ended")
    /\ UNCHANGED <<process, proxyPort, serverVars, port, target, reached>>

-----------------------------------------------------------------------------
(* StopProxy, from Shutdown and from StartProxy.  The global is read once  *)
(* for the test, once for the call, and is set to nil when the call is     *)
(* over.                                                                   *)

\* What follows StopProxy.
After(x) == IF x = Main THEN "stopped" ELSE "start"

StopCheck(x) ==
    /\ pc[x] = "stop"
    /\ Goto(x, IF httpProxyServer = Nil THEN After(x) ELSE "stopCall")
    /\ UNCHANGED <<process, proxyPort, serverVars, port, target, reached>>

\* Mutant of StopCall: the proxy is only forgotten.
StopCallForgets(x) ==
    /\ pc[x] = "stopCall" /\ httpProxyServer # Nil
    /\ Goto(x, "stopWait")
    /\ UNCHANGED <<process, proxyPort, serverVars, port, target, reached>>

StopCall(x) ==
    /\ pc[x] = "stopCall" /\ httpProxyServer # Nil
    /\ ShutServer("proxy", httpProxyServer)
    /\ Goto(x, "stopWait")
    /\ UNCHANGED <<process, proxyPort, HttpServer, httpProxyServer, target, reached>>

\* The other StopProxy was faster: a method call on nil.
StopNil(x) ==
    /\ pc[x] = "stopCall" /\ httpProxyServer = Nil
    /\ process' = "panicked"
    /\ UNCHANGED <<proxyPort, serverVars, port, pc, target, reached>>

StopDone(x) ==
    /\ pc[x] = "stopWait"
    /\ httpProxyServer' = Nil
    /\ Goto(x, After(x))
    /\ UNCHANGED <<process, proxyPort, HttpServer, shut, port, target, reached>>

-----------------------------------------------------------------------------
(* RunAsService and Shutdown, called in turn.                              *)

RunAsService ==
    /\ pc[Main] = "stopped" /\ HttpServer < MaxStarts
    /\ HttpServer' = HttpServer + 1
    /\ pc' = [pc EXCEPT ![Main] = "started", ![<<"http", HttpServer + 1>>] = "stop"]
    /\ UNCHANGED <<process, proxyPort, httpProxyServer, shut, port, target, reached>>

\* Mutant of Shutdown: the web server is left alone.
ShutdownProxyOnly ==
    /\ pc[Main] = "started"
    /\ Goto(Main, "stop")
    /\ UNCHANGED <<shut, port>>
    /\ reached' = reached \cup {pc[<<kind, HttpServer>>] : kind \in Kinds}
    /\ UNCHANGED <<process, proxyPort, HttpServer, httpProxyServer, target>>

\* c.HttpServer.Shutdown, and on to StopProxy.
Shutdown ==
    /\ pc[Main] = "started"
    /\ Goto(Main, "stop")
    /\ ShutServer("http", HttpServer)
    /\ reached' = reached \cup {pc[<<kind, HttpServer>>] : kind \in Kinds}
    /\ UNCHANGED <<process, proxyPort, HttpServer, httpProxyServer, target>>

\* GET /shutdown, served by any web server that still serves.  Two seconds later
\* the goroutine it starts ends the process ...
ShutdownRoute ==
    /\ \E k \in Starts : pc[<<"http", k>>] = "serving"
    /\ process' = "exiting"
    /\ UNCHANGED <<proxyPort, serverVars, port, pc, target, reached>>

\* ... whatever was shut down or started since.
Exit ==
    /\ process = "exiting"
    /\ process' = "exited"
    /\ UNCHANGED <<proxyPort, serverVars, port, pc, target, reached>>

-----------------------------------------------------------------------------
(* The rest of StartProxy, and the starter's own server.                   *)

\* Mutant of NoProxy: the early return ends the starter.
NoProxyEnds(k) ==
    /\ pc[<<"http", k>>] = "start" /\ ~proxyPort
    /\ Goto(<<"http", k>>, "ended")
    /\ UNCHANGED <<process, proxyPort, serverVars, port, target, reached>>

\* Mutant of NoProxy: the early return is missing.
NoProxyStarts(k) ==
    /\ pc[<<"http", k>>] = "start" /\ ~proxyPort
    /\ httpProxyServer' = k
    /\ pc' = [pc EXCEPT ![<<"http", k>>] = "listen", ![<<"proxy", k>>] = "listen"]
    /\ UNCHANGED <<process, proxyPort, HttpServer, shut, port, target, reached>>

NoProxy(k) ==
    /\ pc[<<"http", k>>] = "start" /\ ~proxyPort
    /\ Goto(<<"http", k>>, "listen")
    /\ UNCHANGED <<process, proxyPort, serverVars, port, target, reached>>

\* A new server, and its runner.
NewProxy(k) ==
    /\ pc[<<"http", k>>] = "start" /\ proxyPort
    /\ httpProxyServer' = k
    /\ pc' = [pc EXCEPT ![<<"http", k>>] = "listen", ![<<"proxy", k>>] = "listen"]
    /\ UNCHANGED <<process, proxyPort, HttpServer, shut, port, target, reached>>

\* The port is taken: log.Fatalf.
ListenFatal(k) ==
    /\ pc[<<"http", k>>] = "listen"
    /\ <<"http", HttpServer>> \notin shut
    /\ port["http"] # NoOne
    /\ process' = "fatal"
    /\ UNCHANGED <<proxyPort, serverVars, port, pc, target, reached>>

Starter(k) ==
    LET g == <<"http", k>>
    IN  \/ StopCheck(g) \/ StopCall(g) \/ StopNil(g) \/ StopDone(g)
        \/ NoProxy(k) \/ NewProxy(k)
        \/ Listen(g, HttpServer) \/ ListenClosed(g, HttpServer) \/ ListenFatal(k)
        \/ Serve(g) \/ Closed(g)

-----------------------------------------------------------------------------
(* The runner of the proxy.                                                *)

\* StopProxy was faster: ListenAndServe is called on nil.
ListenNil(k) ==
    /\ pc[<<"proxy", k>>] = "listen" /\ httpProxyServer = Nil
    /\ process' = "panicked"
    /\ UNCHANGED <<proxyPort, serverVars, port, pc, target, reached>>

\* The port is taken: the error is logged.
ListenFails(k) ==
    /\ pc[<<"proxy", k>>] = "listen" /\ httpProxyServer # Nil
    /\ <<"proxy", httpProxyServer>> \notin shut
    /\ port["proxy"] # NoOne
    /\ Goto(<<"proxy", k>>, "ended")
    /\ UNCHANGED <<process, proxyPort, serverVars, port, target, reached>>

Runner(k) ==
    LET g == <<"proxy", k>>
    IN  \/ Listen(g, httpProxyServer) \/ ListenClosed(g, httpProxyServer)
        \/ ListenNil(k) \/ ListenFails(k)
        \/ Serve(g) \/ Closed(g)

StopProxy(x) == StopCheck(x) \/ StopCall(x) \/ StopNil(x) \/ StopDone(x)

Alive == {"running", "exiting"}

Next ==
    /\ process \in Alive
    /\ \/ RunAsService \/ Shutdown \/ ShutdownRoute \/ Exit \/ StopProxy(Main)
       \/ \E k \in Starts : Starter(k) \/ Runner(k)

\* A goroutine that can run does run; a Shutdown that has begun goes on.  The
\* service manager need not call anything.
Fairness ==
    /\ WF_vars(process \in Alive /\ StopProxy(Main))
    /\ \A k \in Starts : /\ WF_vars(process \in Alive /\ Starter(k))
                         /\ WF_vars(process \in Alive /\ Runner(k))

Spec == Init /\ [][Next]_vars /\ Fairness

-----------------------------------------------------------------------------
(* Properties.                                                             *)

Places == {"none", "stop", "stopCall", "stopWait", "start", "listen", "bound",
           "serving", "ended", "stopped", "started"}

PortsHeld ==
    \A kind \in Kinds : port[kind] # NoOne =>
        port[kind][1] = kind /\ pc[port[kind]] \in {"bound", "serving"}

\* Without a configured port there is no proxy, and no goroutine for one.
NoProxyMade ==
    ~proxyPort => httpProxyServer = Nil /\ \A k \in Starts : pc[<<"proxy", k>>] = "none"

\* Types; a port is held by a goroutine that listens on it or serves; and a
\* proxy is made only where one is configured.
TypeOK ==
    /\ process \in Alive \cup {"exited", "fatal", "panicked"}
    /\ proxyPort \in BOOLEAN
    /\ HttpServer \in 0..MaxStarts /\ httpProxyServer \in 0..MaxStarts
    /\ shut \subseteq Goroutines
    /\ port \in [Kinds -> Goroutines \cup {NoOne}]
    /\ PortsHeld
    /\ pc \in [Goroutines \cup {Main} -> Places]
    /\ target \in [Goroutines -> 0..MaxStarts]
    /\ reached \subseteq Places
    /\ NoProxyMade

Accepting(g) == pc[g] = "serving" /\ port[g[1]] = g

\* Once Shutdown has returned, and until the next start, no goroutine accepts
\* connections of the web server: not one that Shutdown overtook, and not one
\* of an earlier start that comes late to a server made since.
StoppedStopsServing ==
    pc[Main] = "stopped" => \A k \in Starts : ~Accepting(<<"http", k>>)

\* The same of the proxy, if each Shutdown came only after StartProxy had
\* returned.  (Before that it finds no proxy, which is then started by the
\* starter it overtook, and nothing stops it.)
StoppedStopsProxy ==
    pc[Main] = "stopped" /\ reached \cap {"stop", "stopCall", "stopWait", "start"} = {}
        => \A k \in Starts : ~Accepting(<<"proxy", k>>)

\* A service that is shut down only when its servers are up never dies of a nil
\* server or of a port that a goroutine of an earlier start still holds.
CleanWhenSettled ==
    process \in {"panicked", "fatal"} => ~(reached \subseteq {"none", "serving", "ended"})

Quiet == \A g \in Goroutines : pc[g] \in {"none", "ended"}

\* A start leads to an accepting web server, unless Shutdown or the end of the
\* process is faster, although stopping an earlier proxy comes first.
StartServes ==
    pc[Main] = "started" ~> \/ pc[Main] # "started" \/ process \notin Alive
                        \/ \E k \in Starts : Accepting(<<"http", k>>)

\* After a Shutdown that did not overtake StartProxy every goroutine of every
\* start ends, runners of the proxy included.
NothingLeft ==
    pc[Main] = "stopped" /\ reached \cap {"stop", "stopCall", "stopWait", "start"} = {}
        ~> Quiet \/ process \notin Alive \/ pc[Main] # "stopped"
=============================================================================

-------------------------- MODULE ServerLifeProofs --------------------------
(***************************************************************************)
(* For any number of starts, a service that was shut down does not serve,  *)
(* whichever of its goroutines the shutdown overtook.                      *)
(***************************************************************************)
EXTENDS ServerLife, TLAPS

Started == 1..HttpServer

\* The web servers that Shutdown has not marked: the current one, while the
\* service is up.
ShutInv ==
    \A k \in Started :
        <<"http", k>> \notin shut => k = HttpServer /\ pc[Main] = "started"

\* Whoever is about to serve, or serves, serves a server that was made.
ServeInv ==
    \A k \in Starts :
        pc[<<"http", k>>] \in {"bound", "serving"} => target[<<"http", k>>] \in Started

\* Nobody accepts connections for a server that is marked.
AcceptInv ==
    \A g \in Goroutines : Accepting(g) => <<g[1], target[g]>> \notin shut

\* Where Main can be.
MainInv ==
    /\ pc[Main] \in {"stopped", "started", "stop", "stopCall", "stopWait"}
    /\ pc[Main] # "stopped" => HttpServer # 0

\* TypeOK without PortsHeld, which needs AcceptInv to be inductive.
Types ==
    /\ process \in Alive \cup {"exited", "fatal", "panicked"}
    /\ proxyPort \in BOOLEAN
    /\ HttpServer \in 0..MaxStarts /\ httpProxyServer \in 0..MaxStarts
    /\ shut \subseteq Goroutines
    /\ port \in [Kinds -> Goroutines \cup {NoOne}]
    /\ pc \in [Goroutines \cup {Main} -> Places]
    /\ target \in [Goroutines -> 0..MaxStarts]
    /\ reached \subseteq Places

\* What the starts still to come have not done yet.
FreshInv ==
    \A k \in Starts :
        /\ k > HttpServer => pc[<<"http", k>>] = "none"
        /\ pc[<<"http", k>>] \in {"none", "stop", "stopCall", "stopWait", "start"}
              => pc[<<"proxy", k>>] = "none"

Core == PortsHeld /\ AcceptInv /\ ShutInv /\ ServeInv /\ MainInv

Inv == Types /\ FreshInv /\ NoProxyMade /\ Core

-----------------------------------------------------------------------------

LEMMA Threads ==
    /\ Main \notin Goroutines /\ NoOne \notin Goroutines
    /\ \A g \in Goroutines : g[1] \in Kinds /\ g[2] \in Starts /\ g = <<g[1], g[2]>>
BY LifeAssumption DEF Goroutines, Kinds, Starts

LEMMA Named ==
    \A kind \in Kinds, k \in Starts :
        <<kind, k>> \in Goroutines /\ <<kind, k>> # Main /\ <<kind, k>> # NoOne
BY Threads DEF Goroutines

LEMMA InvInit == Init => Inv
<1> SUFFICES ASSUME Init PROVE Inv
  OBVIOUS
<1> USE DEF Init
<1>1. /\ \A g \in Goroutines : pc[g] = "none"
      /\ pc[Main] = "stopped" /\ HttpServer = 0
  BY Threads DEF Nil
<1>2. Types /\ PortsHeld
  BY LifeAssumption DEF Types, PortsHeld, Places, Nil, Alive
<1>3. ShutInv /\ MainInv
  BY <1>1 DEF ShutInv, MainInv, Started
<1>4. ServeInv /\ AcceptInv
  BY <1>1, Named DEF ServeInv, AcceptInv, Accepting, Kinds
<1>5. FreshInv /\ NoProxyMade
  BY <1>1, Named DEF FreshInv, NoProxyMade, Kinds
<1> QED BY <1>2, <1>3, <1>4, <1>5 DEF Inv, Core

\* Every step, with the goroutine that makes it.
Stops(x)   == StopCheck(x) \/ StopCall(x) \/ StopNil(x) \/ StopDone(x)
Serves(g)  == Serve(g) \/ Closed(g)
Starting(k) == NoProxy(k) \/ NewProxy(k) \/ ListenFatal(k) \/ ListenNil(k) \/ ListenFails(k)

LEMMA Steps ==
    ASSUME Next
    PROVE  \/ \E x \in Goroutines \cup {Main} : Stops(x)
           \/ RunAsService \/ Shutdown \/ ShutdownRoute \/ Exit
           \/ \E k \in Starts : Starting(k)
           \/ \E k \in Starts : \/ Listen(<<"http", k>>, HttpServer)
                                \/ ListenClosed(<<"http", k>>, HttpServer)
           \/ \E k \in Starts : \/ Listen(<<"proxy", k>>, httpProxyServer)
                                \/ ListenClosed(<<"proxy", k>>, httpProxyServer)
           \/ \E g \in Goroutines : Serves(g)
BY Named DEF Next, Starter, Runner, StopProxy, Stops, Serves, Starting, Kinds

LEMMA TypeStep == Types /\ MainInv /\ [Next]_vars => Types'
<1> SUFFICES ASSUME Types, MainInv, [Next]_vars PROVE Types'
  OBVIOUS
<1> USE DEF Types, Goto, serverVars, Places, Alive
<1>1. ASSUME NEW x \in Goroutines \cup {Main}, Stops(x) PROVE Types'
  <2>1. CASE StopCheck(x)
    BY <2>1 DEF StopCheck, After
  <2>2. CASE StopCall(x)
    <3>1. <<"proxy", httpProxyServer>> \in Goroutines
      BY <2>2, Named, LifeAssumption DEF StopCall, Kinds, Starts, Nil
    <3> QED BY <2>2, <3>1 DEF StopCall, ShutServer
  <2>3. CASE StopNil(x)
    BY <2>3 DEF StopNil
  <2>4. CASE StopDone(x)
    BY <2>4, LifeAssumption DEF StopDone, After, Nil
  <2> QED BY <1>1, <2>1, <2>2, <2>3, <2>4 DEF Stops
<1>2. CASE RunAsService
  <2>1. HttpServer' \in 0..MaxStarts
    BY <1>2, LifeAssumption DEF RunAsService
  <2>2. pc' \in [Goroutines \cup {Main} -> Places]
    BY <1>2 DEF RunAsService
  <2> QED BY <1>2, <2>1, <2>2 DEF RunAsService
<1>3. CASE Shutdown
  <2>1. HttpServer \in Starts
    BY <1>3, LifeAssumption DEF Shutdown, MainInv, Starts
  <2>2. \A kind \in Kinds : pc[<<kind, HttpServer>>] \in Places
    BY <2>1, Named
  <2> QED BY <1>3, <2>1, <2>2, Named DEF Shutdown, ShutServer, Kinds
<1>4. CASE ShutdownRoute \/ Exit
  BY <1>4 DEF ShutdownRoute, Exit
<1>5. ASSUME NEW k \in Starts, Starting(k) PROVE Types'
  <2>1. CASE NoProxy(k)
    BY <2>1 DEF NoProxy
  <2>2. CASE NewProxy(k)
    <3>1. httpProxyServer' \in 0..MaxStarts
      BY <2>2, LifeAssumption DEF NewProxy, Starts
    <3> QED BY <2>2, <3>1 DEF NewProxy
  <2>3. CASE ListenFatal(k)
    BY <2>3 DEF ListenFatal
  <2>4. CASE ListenNil(k)
    BY <2>4 DEF ListenNil
  <2>5. CASE ListenFails(k)
    BY <2>5 DEF ListenFails
  <2> QED BY <1>5, <2>1, <2>2, <2>3, <2>4, <2>5 DEF Starting
<1>6. ASSUME NEW g \in Goroutines, NEW k \in 0..MaxStarts, Listen(g, k) \/ ListenClosed(g, k)
      PROVE  Types'
  BY <1>6, Threads DEF Listen, ListenClosed
<1>7. ASSUME NEW g \in Goroutines, Serves(g) PROVE Types'
  BY <1>7, Threads DEF Serves, Serve, Closed
<1>8. CASE UNCHANGED vars
  BY <1>8 DEF vars
<1> QED BY <1>1, <1>2, <1>3, <1>4, <1>5, <1>6, <1>7, <1>8, Steps, Named DEF Kinds

-----------------------------------------------------------------------------
(* The steps by what they do to the servers.                               *)

Up == {"bound", "serving"}

\* Goroutines that are not up move; Main goes on with a StopProxy.
Moves ==
    /\ \A g \in Goroutines : pc'[g] = pc[g] \/ (pc[g] \notin Up /\ pc'[g] \notin Up)
    /\ \/ pc'[Main] = pc[Main]
       \/ /\ pc[Main] \in {"stop", "stopCall", "stopWait"}
          /\ pc'[Main] \in {"stopped", "stopCall", "stopWait"}

Quietly == Moves /\ UNCHANGED <<shut, port, target, HttpServer>>

\* A proxy server is marked.
Marks ==
    /\ Moves
    /\ \E k \in Starts : ShutServer("proxy", k)
    /\ UNCHANGED <<target, HttpServer>>

\* Goroutine x moves from one place to another, neither of them Up.
LEMMA OneMove ==
    ASSUME Types, NEW x \in Goroutines, NEW l, Goto(x, l), pc[x] \notin Up, l \notin Up
    PROVE  Moves
BY Threads DEF Types, Goto, Moves

LEMMA MainMove ==
    ASSUME Types, NEW l \in {"stopped", "stopCall", "stopWait"}, Goto(Main, l),
           pc[Main] \in {"stop", "stopCall", "stopWait"}
    PROVE  Moves
BY Threads DEF Types, Goto, Moves

LEMMA NoMove == ASSUME UNCHANGED pc PROVE Moves
BY DEF Moves

LEMMA StopKinds ==
    ASSUME Types, NEW x \in Goroutines \cup {Main}, Stops(x)
    PROVE  Quietly \/ Marks
<1>1. ASSUME NEW l \in {"stopCall", "stopWait", After(x)}, Goto(x, l),
             pc[x] \in {"stop", "stopCall", "stopWait"}
      PROVE  Moves
  <2>1. CASE x = Main
    BY <1>1, <2>1, MainMove DEF After
  <2>2. CASE x # Main
    BY <1>1, <2>2, OneMove DEF After, Up
  <2> QED BY <2>1, <2>2
<1>2. CASE StopCheck(x)
  BY <1>1, <1>2 DEF StopCheck, Quietly, serverVars
<1>3. CASE StopCall(x)
  <2>1. httpProxyServer \in Starts
    BY <1>3, LifeAssumption DEF StopCall, Nil, Starts, Types
  <2> QED BY <1>1, <1>3, <2>1 DEF StopCall, Marks
<1>4. CASE StopNil(x)
  BY <1>4, NoMove DEF StopNil, Quietly, serverVars
<1>5. CASE StopDone(x)
  BY <1>1, <1>5 DEF StopDone, Quietly, serverVars
<1> QED BY <1>2, <1>3, <1>4, <1>5 DEF Stops

LEMMA StartKinds ==
    ASSUME Types, FreshInv, NEW k \in Starts, Starting(k)
    PROVE  Quietly
<1> USE Named DEF Quietly, serverVars, Kinds, Up
<1>1. CASE NoProxy(k)
  BY <1>1, OneMove DEF NoProxy
<1>2. CASE NewProxy(k)
  <2>1. pc[<<"http", k>>] = "start" /\ pc[<<"proxy", k>>] = "none"
    BY <1>2 DEF NewProxy, FreshInv
  <2>2. Moves
    BY <1>2, <2>1, Threads DEF NewProxy, Moves, Types
  <2> QED BY <1>2, <2>2 DEF NewProxy
<1>3. CASE ListenFatal(k)
  BY <1>3, NoMove DEF ListenFatal
<1>4. CASE ListenNil(k)
  BY <1>4, NoMove DEF ListenNil
<1>5. CASE ListenFails(k)
  BY <1>5, OneMove DEF ListenFails
<1> QED BY <1>1, <1>2, <1>3, <1>4, <1>5 DEF Starting

-----------------------------------------------------------------------------
(* What each kind of step does to the invariant.                           *)

LEMMA QuietlyCore == ASSUME Types, Core, Quietly PROVE Core'
<1> USE DEF Core, Quietly, Moves, Up
<1>1. PortsHeld'
  BY DEF PortsHeld, Types
<1>2. AcceptInv'
  BY Threads DEF AcceptInv, Accepting
<1>3. ShutInv' /\ MainInv'
  BY DEF ShutInv, MainInv, Started
<1>4. ServeInv'
  BY Named DEF ServeInv, Started, Kinds
<1> QED BY <1>1, <1>2, <1>3, <1>4

\* Marking a server lets go of its port.
LEMMA ShutReleases ==
    ASSUME Types, PortsHeld, AcceptInv, NEW kind \in Kinds, NEW k \in Starts,
           ShutServer(kind, k), UNCHANGED target,
           \A g \in Goroutines : pc'[g] \in Up => pc'[g] = pc[g],
           \A g \in Goroutines : pc[g] \in Up => pc'[g] = pc[g]
    PROVE  PortsHeld' /\ AcceptInv'
<1>1. \A g \in Goroutines : port'[g[1]] = g =>
          port[g[1]] = g /\ (g[1] = kind => ~(pc[g] = "serving" /\ target[g] = k))
  BY Threads DEF ShutServer, Types
<1>2. PortsHeld'
  BY Threads DEF ShutServer, PortsHeld, Types, Up
<1>3. ASSUME NEW g \in Goroutines, Accepting(g)' PROVE <<g[1], target[g]>> \notin shut'
  <2>1. pc[g] = "serving" /\ port[g[1]] = g
    BY <1>1, <1>3 DEF Accepting, Up
  <2>2. <<g[1], target[g]>> \notin shut
    BY <2>1 DEF AcceptInv, Accepting
  <2>3. <<g[1], target[g]>> # <<kind, k>>
    BY <1>1, <1>3, <2>1 DEF Accepting
  <2> QED BY <2>2, <2>3 DEF ShutServer
<1> QED BY <1>2, <1>3 DEF AcceptInv

LEMMA MarksCore == ASSUME Types, Core, Marks PROVE Core'
<1> USE DEF Core
<1>1. PICK k \in Starts : ShutServer("proxy", k)
  BY DEF Marks
<1>2. PortsHeld' /\ AcceptInv'
  BY <1>1, ShutReleases DEF Marks, Moves, Up, Kinds
<1>3. ShutInv' /\ MainInv'
  BY <1>1 DEF Marks, Moves, ShutServer, ShutInv, MainInv, Started
<1>4. ServeInv'
  BY Named DEF Marks, Moves, Up, ServeInv, Started, Kinds
<1> QED BY <1>2, <1>3, <1>4

LEMMA RunCore == ASSUME Types, FreshInv, Core, RunAsService PROVE Core'
<1> USE DEF Core, RunAsService, serverVars
<1> DEFINE h == <<"http", HttpServer + 1>>
<1>1. HttpServer + 1 \in Starts /\ HttpServer' = HttpServer + 1
  BY LifeAssumption DEF Types, Starts
<1>2. h \in Goroutines /\ h # Main /\ pc[h] = "none" /\ pc'[h] = "stop"
  <2>1. h \in Goroutines /\ h # Main
    BY <1>1, Named DEF Kinds
  <2>2. HttpServer + 1 > HttpServer
    BY LifeAssumption DEF Types
  <2>3. pc[h] = "none"
    BY <1>1, <2>2 DEF FreshInv
  <2>4. pc'[h] = "stop"
    BY <2>1 DEF Types
  <2> QED BY <2>1, <2>3, <2>4
<1>3. /\ \A g \in Goroutines \ {h} : pc'[g] = pc[g]
      /\ pc'[Main] = "started"
  BY <1>1, <1>2, Threads DEF Types
<1> HIDE DEF h
<1>4. PortsHeld'
  BY <1>2, <1>3 DEF PortsHeld, Types
<1>5. AcceptInv'
  BY <1>2, <1>3 DEF AcceptInv, Accepting
<1>6. ShutInv' /\ MainInv'
  BY <1>1, <1>3 DEF ShutInv, MainInv, Started, Types
<1>7. ServeInv'
  BY <1>1, <1>2, <1>3, Named DEF ServeInv, Started, Kinds, Types
<1> QED BY <1>4, <1>5, <1>6, <1>7

LEMMA ShutdownCore == ASSUME Types, Core, Shutdown PROVE Core'
<1> USE DEF Core, Shutdown, Goto
<1>1. HttpServer \in Starts
  BY LifeAssumption DEF MainInv, Types, Starts
<1>2. (\A g \in Goroutines : pc'[g] = pc[g]) /\ pc'[Main] = "stop"
  BY Threads DEF Types
<1>3. PortsHeld' /\ AcceptInv'
  <2>1. "http" \in Kinds
    BY DEF Kinds
  <2> QED BY <1>1, <1>2, <2>1, ShutReleases
<1>4. ShutInv' /\ MainInv'
  BY <1>1, <1>2 DEF ShutInv, MainInv, Started, ShutServer, Types, Starts
<1>5. ServeInv'
  BY <1>2, Named DEF ServeInv, Started, Kinds
<1> QED BY <1>3, <1>4, <1>5

\* Taking a port, for the server that the shared variable names.
LEMMA ListenCore ==
    ASSUME Types, Core, NEW g \in Goroutines, NEW k,
           g[1] = "http" => k = HttpServer,
           Listen(g, k) \/ ListenClosed(g, k)
    PROVE  Core'
<1> USE DEF Core, Goto, serverVars
<1>1. CASE ListenClosed(g, k)
  <2>1. Moves
    BY <1>1, OneMove DEF ListenClosed, Up
  <2> QED BY <1>1, <2>1, QuietlyCore DEF ListenClosed, Quietly
<1>2. CASE Listen(g, k)
  <2> USE <1>2 DEF Listen
  <2>1. /\ g # Main /\ g[1] \in Kinds /\ g # NoOne /\ g = <<g[1], g[2]>>
        /\ pc'[g] = "bound" /\ target'[g] = k /\ port'[g[1]] = g
        /\ \A f \in Goroutines \ {g} : pc'[f] = pc[f] /\ target'[f] = target[f]
        /\ \A kind \in Kinds \ {g[1]} : port'[kind] = port[kind]
        /\ pc'[Main] = pc[Main]
    BY Threads DEF Types
  <2>2. PortsHeld'
    BY <2>1 DEF PortsHeld, Types
  <2>3. AcceptInv'
    BY <2>1, Threads DEF AcceptInv, Accepting
  <2>4. ShutInv' /\ MainInv'
    BY <2>1 DEF ShutInv, MainInv, Started
  <2>5. ServeInv'
    BY <2>1, Named, LifeAssumption DEF ServeInv, Started, Kinds, Nil, Types
  <2> QED BY <2>2, <2>3, <2>4, <2>5
<1> QED BY <1>1, <1>2

LEMMA ServesCore == ASSUME Types, Core, NEW g \in Goroutines, Serves(g) PROVE Core'
<1> USE DEF Core, Goto, serverVars
<1>1. /\ g # Main /\ g[1] \in Kinds /\ g # NoOne
      /\ pc'[g] \in {"serving", "ended"} /\ pc[g] \in {"bound", "serving"}
      /\ \A f \in Goroutines \ {g} : pc'[f] = pc[f]
      /\ pc'[Main] = pc[Main]
  BY Threads DEF Types, Serves, Serve, Closed
<1>2. PortsHeld' /\ AcceptInv'
  <2>1. CASE Serve(g) /\ <<g[1], target[g]>> \in shut
    <3>1. /\ port'[g[1]] = NoOne /\ pc'[g] = "ended"
          /\ \A kind \in Kinds \ {g[1]} : port'[kind] = port[kind]
      BY <1>1, <2>1 DEF Serve, Types
    <3>2. PortsHeld'
      BY <1>1, <3>1 DEF PortsHeld, Types
    <3>3. AcceptInv'
      BY <1>1, <2>1, <3>1, Threads DEF AcceptInv, Accepting, Serve
    <3> QED BY <3>2, <3>3
  <2>2. CASE Serve(g) /\ <<g[1], target[g]>> \notin shut
    <3>1. PortsHeld'
      BY <1>1, <2>2 DEF PortsHeld, Types, Serve
    <3>2. AcceptInv'
      BY <1>1, <2>2 DEF AcceptInv, Accepting, Serve
    <3> QED BY <3>1, <3>2
  <2>3. CASE Closed(g)
    <3>1. port[g[1]] # g
      BY <2>3 DEF Closed, AcceptInv, Accepting
    <3>2. PortsHeld'
      BY <1>1, <2>3, <3>1 DEF PortsHeld, Types, Closed
    <3>3. AcceptInv'
      BY <1>1, <2>3 DEF AcceptInv, Accepting, Closed
    <3> QED BY <3>2, <3>3
  <2> QED BY <2>1, <2>2, <2>3 DEF Serves
<1>3. UNCHANGED <<shut, HttpServer, target>>
  BY DEF Serves, Serve, Closed
<1>4. ShutInv' /\ MainInv'
  BY <1>1, <1>3 DEF ShutInv, MainInv, Started
<1>5. ServeInv'
  BY <1>1, <1>3, Named DEF ServeInv, Started, Kinds
<1> QED BY <1>2, <1>4, <1>5

\* A start goes from place to place in the order of the code.
LEMMA FreshStep == ASSUME Types, MainInv, FreshInv, [Next]_vars PROVE FreshInv'
<1> USE DEF FreshInv, Goto, serverVars, Kinds
<1>1. ASSUME NEW x \in Goroutines \cup {Main}, Stops(x) PROVE FreshInv'
  <2>1. /\ HttpServer' = HttpServer
        /\ \A g \in Goroutines \ {x} : pc'[g] = pc[g]
        /\ pc'[x] \in {pc[x], "stopCall", "stopWait", After(x)}
        /\ pc[x] \in {"stop", "stopCall", "stopWait"}
    BY <1>1 DEF Stops, StopCheck, StopCall, StopNil, StopDone, Types
  <2> QED BY <2>1, Named, Threads DEF After
<1>2. CASE RunAsService
  <2>1. HttpServer \in Nat /\ HttpServer' = HttpServer + 1 /\ HttpServer + 1 \in Starts
    BY <1>2, LifeAssumption DEF RunAsService, Types, Starts
  <2>2. pc[<<"http", HttpServer + 1>>] = "none"
    <3>1. HttpServer + 1 > HttpServer
      BY <2>1
    <3> QED BY <2>1, <3>1
  <2>3. \A g \in Goroutines : g # <<"http", HttpServer + 1>> => pc'[g] = pc[g]
    BY <1>2, Threads DEF RunAsService, Types
  <2>4. pc'[<<"http", HttpServer + 1>>] = "stop"
    BY <1>2, <2>1, Named DEF RunAsService, Types
  <2>5. ASSUME NEW k \in Starts PROVE k > HttpServer' => pc'[<<"http", k>>] = "none"
    <3>1. k > HttpServer + 1 => k > HttpServer /\ <<"http", k>> # <<"http", HttpServer + 1>>
      BY <2>1 DEF Starts
    <3> QED BY <2>1, <2>3, <3>1, Named
  <2>6. ASSUME NEW k \in Starts,
               pc'[<<"http", k>>] \in {"none", "stop", "stopCall", "stopWait", "start"}
        PROVE  pc'[<<"proxy", k>>] = "none"
    <3>1. pc'[<<"proxy", k>>] = pc[<<"proxy", k>>]
      BY <2>3, Named
    <3>2. CASE k = HttpServer + 1
      BY <2>2, <3>1, <3>2
    <3>3. CASE k # HttpServer + 1
      BY <2>3, <2>6, <3>1, <3>3, Named
    <3> QED BY <3>2, <3>3
  <2> QED BY <2>5, <2>6
<1>3. CASE Shutdown
  BY <1>3, Named, Threads DEF Shutdown, Types
<1>4. CASE ShutdownRoute \/ Exit
  BY <1>4 DEF ShutdownRoute, Exit
<1>5. ASSUME NEW k \in Starts, Starting(k) PROVE FreshInv'
  BY <1>5, Named DEF Starting, NoProxy, NewProxy, ListenFatal, ListenNil, ListenFails, Types
<1>6. ASSUME NEW g \in Goroutines, NEW k, Listen(g, k) \/ ListenClosed(g, k) PROVE FreshInv'
  BY <1>6, Named DEF Listen, ListenClosed, Types
<1>7. ASSUME NEW g \in Goroutines, Serves(g) PROVE FreshInv'
  BY <1>7, Named DEF Serves, Serve, Closed, Types
<1>8. CASE UNCHANGED vars
  BY <1>8 DEF vars
<1> QED BY <1>1, <1>2, <1>3, <1>4, <1>5, <1>6, <1>7, <1>8, Steps, Named

\* Only NewProxy makes a proxy or wakes a runner.
LEMMA NoProxyStep == Types /\ NoProxyMade /\ [Next]_vars => NoProxyMade'
<1> SUFFICES ASSUME Types, NoProxyMade, [Next]_vars, ~proxyPort'
             PROVE  httpProxyServer' = Nil /\ \A k \in Starts : pc'[<<"proxy", k>>] = "none"
  BY DEF NoProxyMade
<1>1. ASSUME UNCHANGED proxyPort
      PROVE  httpProxyServer = Nil /\ \A k \in Starts : pc[<<"proxy", k>>] = "none"
  BY <1>1 DEF NoProxyMade
<1> USE <1>1 DEF Goto, Types, serverVars
<1>2. ASSUME NEW x \in Goroutines \cup {Main}, Stops(x)
      PROVE  httpProxyServer' = Nil /\ \A k \in Starts : pc'[<<"proxy", k>>] = "none"
  <2> USE DEF Stops, StopCheck, StopCall, StopNil, StopDone
  <2>1. httpProxyServer = Nil /\ \A k \in Starts : pc[<<"proxy", k>>] = "none"
    BY <1>1, <1>2
  <2>2. pc[x] # "none" /\ httpProxyServer' = Nil
    BY <1>2, <2>1
  <2>3. \E l : pc' = [pc EXCEPT ![x] = l]
    BY <1>2
  <2> QED BY <2>1, <2>2, <2>3, Named DEF Kinds
<1>3. CASE RunAsService \/ Shutdown \/ ShutdownRoute \/ Exit
  BY <1>3, Named DEF RunAsService, Shutdown, ShutdownRoute, Exit, Kinds
<1>4. ASSUME NEW k \in Starts, Starting(k)
      PROVE  httpProxyServer' = Nil /\ \A j \in Starts : pc'[<<"proxy", j>>] = "none"
  BY <1>4, Named DEF Starting, NoProxy, NewProxy, ListenFatal, ListenNil, ListenFails, Kinds
<1>5. ASSUME NEW g \in Goroutines, NEW k, Listen(g, k) \/ ListenClosed(g, k)
      PROVE  httpProxyServer' = Nil /\ \A j \in Starts : pc'[<<"proxy", j>>] = "none"
  <2>1. pc[g] # "none" /\ \E l : pc' = [pc EXCEPT ![g] = l]
    BY <1>5 DEF Listen, ListenClosed
  <2>2. UNCHANGED <<proxyPort, httpProxyServer>>
    BY <1>5 DEF Listen, ListenClosed
  <2> QED BY <1>1, <2>1, <2>2, Named DEF Kinds
<1>6. ASSUME NEW g \in Goroutines, Serves(g)
      PROVE  httpProxyServer' = Nil /\ \A j \in Starts : pc'[<<"proxy", j>>] = "none"
  <2>1. pc[g] # "none" /\ \E l : pc' = [pc EXCEPT ![g] = l]
    BY <1>6 DEF Serves, Serve, Closed
  <2>2. UNCHANGED <<proxyPort, httpProxyServer>>
    BY <1>6 DEF Serves, Serve, Closed
  <2> QED BY <1>1, <2>1, <2>2, Named DEF Kinds
<1>7. CASE UNCHANGED vars
  BY <1>7 DEF vars
<1> QED BY <1>2, <1>3, <1>4, <1>5, <1>6, <1>7, Steps, Named DEF Kinds

LEMMA InvStep == Inv /\ [Next]_vars => Inv'
<1> SUFFICES ASSUME Inv, [Next]_vars PROVE Inv'
  OBVIOUS
<1> USE DEF Inv
<1>1. Types'
  BY TypeStep DEF Core
<1>2. FreshInv'
  BY FreshStep DEF Core
<1>3. Core'
  <2>1. ASSUME NEW x \in Goroutines \cup {Main}, Stops(x) PROVE Core'
    BY <2>1, StopKinds, QuietlyCore, MarksCore
  <2>2. CASE RunAsService
    BY <2>2, RunCore
  <2>3. CASE Shutdown
    BY <2>3, ShutdownCore
  <2>4. CASE ShutdownRoute \/ Exit
    BY <2>4, NoMove, QuietlyCore DEF ShutdownRoute, Exit, Quietly, serverVars
  <2>5. ASSUME NEW k \in Starts, Starting(k) PROVE Core'
    BY <2>5, StartKinds, QuietlyCore
  <2>6. ASSUME NEW k \in Starts,
               \/ Listen(<<"http", k>>, HttpServer)
               \/ ListenClosed(<<"http", k>>, HttpServer)
        PROVE  Core'
    BY <2>6, Named, ListenCore DEF Kinds
  <2>7. ASSUME NEW k \in Starts,
               \/ Listen(<<"proxy", k>>, httpProxyServer)
               \/ ListenClosed(<<"proxy", k>>, httpProxyServer)
        PROVE  Core'
    BY <2>7, Named, ListenCore DEF Kinds
  <2>8. ASSUME NEW g \in Goroutines, Serves(g) PROVE Core'
    BY <2>8, ServesCore
  <2>9. CASE UNCHANGED vars
    BY <2>9, NoMove, QuietlyCore DEF vars, Quietly, serverVars
  <2> QED BY <2>1, <2>2, <2>3, <2>4, <2>5, <2>6, <2>7, <2>8, <2>9, Steps
<1>4. NoProxyMade'
  BY NoProxyStep
<1> QED BY <1>1, <1>2, <1>3, <1>4

LEMMA Invariance == Spec => []Inv
BY InvInit, InvStep, PTL DEF Spec

\* Type correctness; a port is only ever held by a goroutine that uses it, and
\* there is no proxy, nor a goroutine for one, where none is configured.
THEOREM TypeCorrect == Spec => []TypeOK
<1>1. Inv => TypeOK
  BY DEF Inv, Core, Types, TypeOK
<1> QED BY <1>1, Invariance, PTL

\* For any number of starts: between Shutdown and the next start no goroutine
\* of any start accepts connections of the web server.
THEOREM ServiceStops == Spec => []StoppedStopsServing
<1>1. Inv => StoppedStopsServing
  <2> SUFFICES ASSUME Inv, pc[Main] = "stopped", NEW k \in Starts, Accepting(<<"http", k>>)
               PROVE  FALSE
    BY DEF StoppedStopsServing
  <2>1. target[<<"http", k>>] \in Started
    <3>1. pc[<<"http", k>>] = "serving"
      BY DEF Accepting
    <3> QED BY <3>1 DEF Inv, Core, ServeInv
  <2>2. <<"http", target[<<"http", k>>]>> \notin shut
    <3>1. <<"http", k>> \in Goroutines
      BY Named DEF Kinds
    <3> QED BY <3>1 DEF Inv, Core, AcceptInv
  <2> QED BY <2>1, <2>2 DEF Inv, Core, ShutInv
<1> QED BY <1>1, Invariance, PTL

-----------------------------------------------------------------------------
(* The proxy, and the end of the process.  If no Shutdown overtakes a       *)
(* StartProxy, at most one goroutine at a time is between the test of       *)
(* StopProxy and the new proxy; the proxies that are not marked are then    *)
(* the current one, and that only until its StopProxy is over.              *)

Early   == {"stop", "stopCall", "stopWait", "start"}
Orderly == reached \cap Early = {}
Settled == reached \subseteq {"none", "serving", "ended"}

RunnerInv ==
    /\ \A k \in Starts : pc[<<"proxy", k>>] \notin Early
    /\ \A g \in Goroutines : pc[g] # "stopped"

OneStops ==
    \A k \in Starts :
        pc[<<"http", k>>] \in Early => k = HttpServer /\ pc[Main] = "started"

\* What a goroutine between these steps can rely on.
Current ==
    \A x \in Goroutines \cup {Main} :
        /\ pc[x] \in {"start", "stopped"} => httpProxyServer = Nil
        /\ pc[x] \in {"stopCall", "stopWait"} => httpProxyServer # Nil
        /\ pc[x] = "stopWait" => <<"proxy", httpProxyServer>> \in shut

Known ==
    \A k \in Starts :
        LET g == <<"proxy", k>>
        IN  pc[g] \in Up => \/ <<"proxy", target[g]>> \in shut
                            \/ target[g] = httpProxyServer /\ httpProxyServer # Nil

OrderlyInv == Orderly => OneStops /\ Current /\ Known

\* If every Shutdown waited until the servers were up, a goroutine on its way to
\* that belongs to the current start, and its server is its own.
Waiting ==
    \A k \in Starts :
        /\ pc[<<"http", k>>] \in {"listen", "bound"} => k = HttpServer /\ pc[Main] = "started"
        /\ pc[<<"http", k>>] \in Up => target[<<"http", k>>] = k
        /\ pc[<<"proxy", k>>] = "listen" =>
              k = HttpServer /\ pc[Main] = "started" /\ httpProxyServer = k

SettledInv == Settled => process \notin {"panicked", "fatal"} /\ Waiting

ProxyInv == RunnerInv /\ OrderlyInv /\ SettledInv

LEMMA SettledIsOrderly == Settled => Orderly
BY DEF Settled, Orderly, Early

LEMMA ProxyInit == Init => ProxyInv
<1> SUFFICES ASSUME Init PROVE ProxyInv
  OBVIOUS
<1>1. /\ \A g \in Goroutines : pc[g] = "none"
      /\ pc[Main] = "stopped" /\ httpProxyServer = Nil /\ process = "running"
  BY Threads DEF Init
<1>2. RunnerInv /\ OneStops
  BY <1>1, Named DEF RunnerInv, OneStops, Early, Kinds
<1>3. Current
  BY <1>1 DEF Current
<1>4. Known /\ Waiting
  BY <1>1, Named DEF Known, Waiting, Up, Kinds
<1> QED BY <1>1, <1>2, <1>3, <1>4 DEF ProxyInv, OrderlyInv, SettledInv

\* Nobody else is between the test of StopProxy and the new proxy, or stopped.
LEMMA Lone ==
    ASSUME RunnerInv, OneStops, NEW x \in Goroutines \cup {Main}, pc[x] \in Early,
           NEW y \in Goroutines \cup {Main}, y # x
    PROVE  pc[y] \notin Early \cup {"stopped"}
<1>1. ASSUME NEW g \in Goroutines, pc[g] \in Early
      PROVE  g = <<"http", HttpServer>> /\ pc[Main] = "started"
  <2>1. g[1] \in Kinds /\ g[2] \in Starts /\ g = <<g[1], g[2]>>
    BY Threads
  <2>2. g[1] = "http"
    BY <1>1, <2>1 DEF RunnerInv, Kinds
  <2> QED BY <1>1, <2>1, <2>2 DEF OneStops
<1> QED BY <1>1 DEF RunnerInv, Early

LEMMA StopsProxy ==
    ASSUME Types, FreshInv, ProxyInv, NEW x \in Goroutines \cup {Main}, Stops(x),
           process \in Alive
    PROVE  ProxyInv'
<1>1. /\ UNCHANGED <<HttpServer, target, reached>>
      /\ \A y \in Goroutines \cup {Main} : y # x => pc'[y] = pc[y]
      /\ pc[x] \in {"stop", "stopCall", "stopWait"}
      /\ pc'[x] \in {pc[x], "stopCall", "stopWait", After(x)}
  BY DEF Stops, StopCheck, StopCall, StopNil, StopDone, Types, Goto, serverVars
<1>2. ASSUME NEW k \in Starts PROVE <<"proxy", k>> # x /\ pc'[<<"proxy", k>>] = pc[<<"proxy", k>>]
  BY <1>1, Named DEF ProxyInv, RunnerInv, Kinds, Early
<1>3. RunnerInv'
  <2>1. \A g \in Goroutines : pc'[g] # "stopped"
    BY <1>1, Threads DEF ProxyInv, RunnerInv, After
  <2> QED BY <1>2, <2>1 DEF ProxyInv, RunnerInv
<1>4. ASSUME Orderly
      PROVE  /\ OneStops' /\ Current' /\ Known'
             /\ process' \in Alive
             /\ httpProxyServer' # httpProxyServer => pc[x] = "stopWait"
  <2>1. OneStops /\ Current /\ Known /\ RunnerInv
    BY <1>4 DEF ProxyInv, OrderlyInv
  <2>2. OneStops'
    <3> SUFFICES ASSUME NEW k \in Starts, pc'[<<"http", k>>] \in Early
                 PROVE  k = HttpServer /\ pc'[Main] = "started"
      BY <1>1 DEF OneStops
    <3>1. pc[<<"http", k>>] \in Early
      BY <1>1, Named DEF Kinds, Early
    <3> QED BY <1>1, <2>1, <3>1 DEF OneStops
  <2>3. \A y \in Goroutines \cup {Main} : y # x => pc'[y] \notin Early \cup {"stopped"}
    BY <1>1, <2>1, Lone DEF Early
  <2>4. CASE StopCheck(x)
    <3>1. /\ UNCHANGED <<httpProxyServer, shut, process>>
          /\ pc'[x] = IF httpProxyServer = Nil THEN After(x) ELSE "stopCall"
      BY <2>4 DEF StopCheck, serverVars, Types, Goto
    <3>2. Current'
      BY <2>3, <3>1 DEF Current, After, Early
    <3> QED BY <1>1, <1>2, <2>1, <2>2, <3>1, <3>2 DEF Known
  <2>5. CASE StopCall(x)
    <3>1. /\ UNCHANGED <<httpProxyServer, process>> /\ httpProxyServer # Nil
          /\ shut' = shut \cup {<<"proxy", httpProxyServer>>}
          /\ pc'[x] = "stopWait"
      BY <2>5 DEF StopCall, ShutServer, Types, Goto
    <3>2. Current'
      BY <2>3, <3>1 DEF Current, Early
    <3> QED BY <1>1, <1>2, <2>1, <2>2, <3>1, <3>2 DEF Known
  <2>6. CASE StopNil(x)
    BY <2>1, <2>6 DEF StopNil, Current
  <2>7. CASE StopDone(x)
    <3>1. /\ UNCHANGED <<shut, process>> /\ httpProxyServer' = Nil
          /\ pc[x] = "stopWait" /\ pc'[x] = After(x)
      BY <2>7 DEF StopDone, Types, Goto
    <3>2. Current'
      BY <2>3, <3>1 DEF Current, After, Early
    <3>3. Known'
      BY <1>1, <1>2, <2>1, <3>1 DEF Known, Current
    <3> QED BY <2>2, <3>1, <3>2, <3>3
  <2> QED BY <2>4, <2>5, <2>6, <2>7 DEF Stops
<1>5. ASSUME Settled PROVE Waiting'
  <2>1. Orderly /\ Waiting /\ OneStops
    BY <1>5, SettledIsOrderly DEF ProxyInv, SettledInv, OrderlyInv
  <2>2. ASSUME NEW k \in Starts
        PROVE  /\ pc'[<<"http", k>>] \in {"listen", "bound"} =>
                     k = HttpServer /\ pc'[Main] = "started"
               /\ pc'[<<"http", k>>] \in Up => target[<<"http", k>>] = k
    <3>1. pc'[<<"http", k>>] \in Up \cup {"listen"} => pc'[<<"http", k>>] = pc[<<"http", k>>]
      BY <1>1, Named DEF After, Up, Kinds
    <3> QED BY <1>1, <2>1, <3>1 DEF Waiting, Up
  <2>3. ASSUME NEW k \in Starts, pc'[<<"proxy", k>>] = "listen"
        PROVE  k = HttpServer /\ pc'[Main] = "started" /\ httpProxyServer' = k
    <3>1. k = HttpServer /\ pc[Main] = "started" /\ httpProxyServer = k
      BY <1>2, <2>1, <2>3 DEF Waiting
    <3>2. x # Main
      BY <1>1, <3>1
    <3>3. x = <<"http", k>>
      <4>1. x[1] \in Kinds /\ x[2] \in Starts /\ x = <<x[1], x[2]>>
        BY <3>2, Threads
      <4>2. x[1] = "http"
        BY <1>2, <4>1 DEF Kinds
      <4> QED BY <1>1, <2>1, <3>1, <4>1, <4>2 DEF OneStops, Early
    <3> QED BY <1>1, <1>2, <2>3, <3>3 DEF FreshInv
  <2> QED BY <1>1, <2>2, <2>3 DEF Waiting
<1>6. Orderly' = Orderly /\ Settled' = Settled
  BY <1>1 DEF Orderly, Settled
<1> QED BY <1>3, <1>4, <1>5, <1>6, SettledIsOrderly DEF ProxyInv, OrderlyInv, SettledInv, Alive

\* A start puts its starter before the test, where nobody else is.
LEMMA RunProxy == ASSUME Types, FreshInv, MainInv, ProxyInv, RunAsService, process \in Alive
                  PROVE  ProxyInv'
<1> DEFINE h == <<"http", HttpServer + 1>>
<1>1. /\ HttpServer + 1 \in Starts /\ HttpServer' = HttpServer + 1
      /\ HttpServer \in Nat /\ pc[Main] = "stopped"
      /\ UNCHANGED <<process, httpProxyServer, shut, target, reached>>
  BY LifeAssumption DEF RunAsService, Types, Starts, serverVars
<1>2. h \in Goroutines /\ h # Main
  BY <1>1, Named DEF Kinds
<1>3. /\ pc'[h] = "stop" /\ pc'[Main] = "started"
      /\ \A g \in Goroutines \ {h} : pc'[g] = pc[g]
  BY <1>2, Threads DEF RunAsService, Types
<1>4. \A k \in Starts : <<"proxy", k>> \in Goroutines \ {h}
  BY Named DEF Kinds
<1>5. \A k \in Starts : k # HttpServer + 1 => <<"http", k>> \in Goroutines \ {h}
  BY Named DEF Kinds
<1> HIDE DEF h
<1>6. RunnerInv'
  BY <1>3, <1>4 DEF ProxyInv, RunnerInv
<1>7. ASSUME OneStops, Current, Known PROVE OneStops' /\ Current' /\ Known'
  <2>1. OneStops'
    BY <1>1, <1>3, <1>5, <1>7 DEF OneStops
  <2>2. Current'
    BY <1>1, <1>3, <1>7 DEF Current
  <2>3. Known'
    BY <1>1, <1>3, <1>4, <1>7 DEF Known
  <2> QED BY <2>1, <2>2, <2>3
<1>8. ASSUME Waiting PROVE Waiting'
  <2>1. pc'[<<"http", HttpServer + 1>>] = "stop"
    BY <1>3 DEF h
  <2> QED BY <1>1, <1>3, <1>4, <1>5, <1>8, <2>1 DEF Waiting, Up
<1> QED BY <1>1, <1>6, <1>7, <1>8 DEF ProxyInv, OrderlyInv, SettledInv, Orderly, Settled

LEMMA ShutdownProxy == ASSUME Types, MainInv, ProxyInv, Shutdown, process \in Alive
                       PROVE  ProxyInv'
<1> DEFINE h == <<"http", HttpServer>>
           p == <<"proxy", HttpServer>>
<1>1. HttpServer \in Starts
  BY LifeAssumption DEF Shutdown, MainInv, Types, Starts
<1>2. /\ UNCHANGED <<process, HttpServer, httpProxyServer, target>>
      /\ reached \cup {pc[h], pc[p]} \subseteq reached'
      /\ shut' = shut \cup {<<"http", HttpServer>>}
  BY DEF Shutdown, ShutServer, Kinds
<1>3. (\A g \in Goroutines : pc'[g] = pc[g]) /\ pc'[Main] = "stop" /\ pc[Main] = "started"
  BY Threads DEF Shutdown, Goto, Types
<1>4. RunnerInv'
  BY <1>3, Named DEF ProxyInv, RunnerInv, Kinds
<1>5. ASSUME Orderly' PROVE OneStops' /\ Current' /\ Known'
  <2>1. Orderly /\ pc[h] \notin Early
    BY <1>2, <1>5 DEF Orderly
  <2>2. OneStops /\ Current /\ Known
    BY <2>1 DEF ProxyInv, OrderlyInv
  <2>3. \A k \in Starts : pc'[<<"http", k>>] \notin Early
    BY <1>3, <2>1, <2>2, Named DEF OneStops, Kinds
  <2>4. Current'
    BY <1>2, <1>3, <2>2 DEF Current
  <2>5. Known'
    BY <1>2, <1>3, <2>2, Named DEF Known, Kinds
  <2> QED BY <2>3, <2>4, <2>5 DEF OneStops
<1>6. ASSUME Settled' PROVE process' \notin {"panicked", "fatal"} /\ Waiting'
  <2>1. Settled /\ {pc[h], pc[p]} \subseteq {"none", "serving", "ended"}
    BY <1>2, <1>6 DEF Settled
  <2>2. Waiting
    BY <2>1 DEF ProxyInv, SettledInv
  <2>3. \A k \in Starts : /\ pc'[<<"http", k>>] \notin {"listen", "bound"}
                          /\ pc'[<<"proxy", k>>] # "listen"
    BY <1>3, <2>1, <2>2, Named DEF Waiting, Kinds
  <2>4. \A k \in Starts : pc'[<<"http", k>>] \in Up => target'[<<"http", k>>] = k
    BY <1>2, <1>3, <2>2, Named DEF Waiting, Kinds
  <2> QED BY <1>2, <2>3, <2>4 DEF Waiting, Alive
<1> QED BY <1>4, <1>5, <1>6 DEF ProxyInv, OrderlyInv, SettledInv

\* A new proxy replaces no other.
LEMMA NewProxyKeeps ==
    ASSUME Types, FreshInv, ProxyInv, NEW k \in Starts, NewProxy(k), process \in Alive
    PROVE  ProxyInv'
<1> DEFINE h == <<"http", k>>
           p == <<"proxy", k>>
<1>1. h \in Goroutines /\ p \in Goroutines /\ h # p /\ h # Main /\ p # Main
  BY Named DEF Kinds
<1>2. /\ UNCHANGED <<process, HttpServer, shut, target, reached>>
      /\ httpProxyServer' = k /\ k # Nil
      /\ pc[h] = "start"
  BY DEF NewProxy, Starts, Nil
<1>3. /\ pc'[h] = "listen" /\ pc'[p] = "listen" /\ pc[p] = "none"
      /\ \A x \in Goroutines \cup {Main} : x \notin {h, p} => pc'[x] = pc[x]
  BY <1>1, <1>2 DEF NewProxy, Types, FreshInv
<1>4. \A j \in Starts : j # k => pc'[<<"http", j>>] = pc[<<"http", j>>]
                              /\ pc'[<<"proxy", j>>] = pc[<<"proxy", j>>]
  BY <1>3, Named DEF Kinds
<1> HIDE DEF h, p
<1>5. RunnerInv'
  <2>1. \A j \in Starts : pc'[<<"proxy", j>>] \notin Early
    BY <1>3, <1>4 DEF ProxyInv, RunnerInv, Early, p
  <2>2. \A g \in Goroutines : pc'[g] # "stopped"
    BY <1>3 DEF ProxyInv, RunnerInv
  <2> QED BY <2>1, <2>2 DEF RunnerInv
<1>6. ASSUME OneStops, Current, Known
      PROVE  /\ OneStops' /\ Current' /\ Known'
             /\ k = HttpServer /\ pc'[Main] = "started"
  <2>1. k = HttpServer /\ pc[Main] = "started" /\ httpProxyServer = Nil
    BY <1>1, <1>2, <1>6 DEF OneStops, Current, Early, h
  <2>2. pc'[Main] = "started"
    BY <1>1, <1>3, <2>1
  <2>3. OneStops'
    BY <1>2, <2>1, <2>2, <1>3, <1>4, <1>6 DEF OneStops
  <2>4. ASSUME NEW x \in Goroutines \cup {Main} PROVE pc'[x] \notin Early \cup {"stopped"}
    <3>1. CASE x \in {h, p}
      BY <1>3, <3>1 DEF Early
    <3>2. CASE x \notin {h, p}
      BY <1>1, <1>2, <1>3, <1>6, <3>2, Lone DEF ProxyInv, Early
    <3> QED BY <3>1, <3>2
  <2>5. Current'
    BY <2>4 DEF Current, Early
  <2>6. Known'
    BY <1>2, <1>3, <1>4, <1>6, <2>1 DEF Known, Up, p
  <2> QED BY <2>1, <2>2, <2>3, <2>5, <2>6
<1>7. ASSUME Waiting, k = HttpServer, pc'[Main] = "started" PROVE Waiting'
  <2>1. pc[Main] = "started"
    BY <1>1, <1>3, <1>7
  <2>2. pc'[<<"http", k>>] = "listen" /\ pc'[<<"proxy", k>>] = "listen"
    BY <1>3 DEF h, p
  <2> QED BY <1>2, <1>4, <1>7, <2>1, <2>2 DEF Waiting, Up
<1> QED BY <1>2, <1>5, <1>6, <1>7, SettledIsOrderly
        DEF ProxyInv, OrderlyInv, SettledInv, Orderly, Settled

\* The port of a settled start is free when its starter gets to it.
LEMMA PortFree ==
    ASSUME Inv, Waiting, NEW k \in Starts, pc[<<"http", k>>] = "listen"
    PROVE  port["http"] = NoOne
<1> SUFFICES ASSUME port["http"] # NoOne PROVE FALSE
  OBVIOUS
<1>1. PICK j \in Starts : port["http"] = <<"http", j>> /\ pc[<<"http", j>>] \in Up
  <2>1. "http" \in Kinds
    BY DEF Kinds
  <2>2. port["http"] \in Goroutines
    BY <2>1 DEF Inv, Types
  <2>3. port["http"][1] = "http" /\ pc[port["http"]] \in Up
    BY <2>1 DEF Inv, Core, PortsHeld, Up
  <2> QED BY <2>2, <2>3, Threads
<1>2. k = HttpServer
  BY DEF Waiting
<1>3. CASE pc[<<"http", j>>] = "bound"
  BY <1>2, <1>3 DEF Waiting
<1>4. CASE pc[<<"http", j>>] = "serving"
  <2>1. target[<<"http", j>>] = j
    BY <1>1 DEF Waiting
  <2>2. j \in Started
    BY <1>1, <2>1 DEF Inv, Core, ServeInv, Up
  <2>3. <<"http", j>> \notin shut
    BY <1>1, <1>4, <2>1, Named DEF Inv, Core, AcceptInv, Accepting, Kinds
  <2> QED BY <1>2, <1>4, <2>2, <2>3 DEF Inv, Core, ShutInv
<1> QED BY <1>1, <1>3, <1>4 DEF Up

\* A goroutine moves to a place behind the proxy's start.
LEMMA Passes ==
    ASSUME Types, ProxyInv, NEW g \in Goroutines, NEW l \in {"listen", "bound", "serving", "ended"},
           Goto(g, l), UNCHANGED <<process, HttpServer, httpProxyServer, shut, reached>>,
           process \in Alive,
           \A f \in Goroutines \ {g} : target'[f] = target[f],
           g[1] = "proxy" => l # "listen",
           l = "listen" => pc[g] = "start",
           l = "bound"  => pc[g] = "listen",
           l = "bound" /\ g[1] = "http"  => target'[g] = HttpServer,
           l = "bound" /\ g[1] = "proxy" => target'[g] = httpProxyServer /\ httpProxyServer # Nil,
           l = "serving" => pc[g] = "bound" /\ target'[g] = target[g]
    PROVE  ProxyInv'
<1>1. /\ g # Main /\ pc'[g] = l
      /\ \A x \in Goroutines \cup {Main} : x # g => pc'[x] = pc[x]
  BY Threads DEF Goto, Types
<1>2. pc'[Main] = pc[Main]
  BY <1>1
<1>3. RunnerInv'
  BY <1>1, Named DEF ProxyInv, RunnerInv, Early, Kinds
<1>4. ASSUME OneStops, Current, Known PROVE OneStops' /\ Current' /\ Known'
  <2>1. OneStops'
    BY <1>1, <1>2, <1>4, Named DEF OneStops, Early, Kinds
  <2>2. Current'
    BY <1>1, <1>4 DEF Current
  <2>3. ASSUME NEW k \in Starts, pc'[<<"proxy", k>>] \in Up
        PROVE  \/ <<"proxy", target'[<<"proxy", k>>]>> \in shut
               \/ target'[<<"proxy", k>>] = httpProxyServer /\ httpProxyServer # Nil
    <3>1. CASE g = <<"proxy", k>>
      BY <1>1, <1>4, <2>3, <3>1 DEF Known, Up
    <3>2. CASE g # <<"proxy", k>>
      BY <1>1, <1>4, <2>3, <3>2, Named DEF Known, Kinds
    <3> QED BY <3>1, <3>2
  <2> QED BY <2>1, <2>2, <2>3 DEF Known
<1>5. ASSUME Waiting, OneStops PROVE Waiting'
  <2> SUFFICES ASSUME NEW k \in Starts
               PROVE  /\ pc'[<<"http", k>>] \in {"listen", "bound"} =>
                            k = HttpServer /\ pc[Main] = "started"
                      /\ pc'[<<"http", k>>] \in Up => target'[<<"http", k>>] = k
                      /\ pc'[<<"proxy", k>>] = "listen" =>
                            k = HttpServer /\ pc[Main] = "started" /\ httpProxyServer = k
    BY <1>2 DEF Waiting
  <2>1. <<"http", k>> \in Goroutines /\ <<"proxy", k>> \in Goroutines
    BY Named DEF Kinds
  <2>2. pc'[<<"http", k>>] \in {"listen", "bound"} => k = HttpServer /\ pc[Main] = "started"
    BY <1>1, <1>5, <2>1 DEF Waiting, OneStops, Early
  <2>3. pc'[<<"http", k>>] \in Up => target'[<<"http", k>>] = k
    BY <1>1, <1>5, <2>1 DEF Waiting, Up
  <2>4. pc'[<<"proxy", k>>] = "listen" =>
            k = HttpServer /\ pc[Main] = "started" /\ httpProxyServer = k
    BY <1>1, <1>5, <2>1 DEF Waiting
  <2> QED BY <2>2, <2>3, <2>4
<1> QED BY <1>3, <1>4, <1>5, SettledIsOrderly
        DEF ProxyInv, OrderlyInv, SettledInv, Orderly, Settled

\* Nothing but the end of the process.
LEMMA Ends ==
    ASSUME ProxyInv,
           UNCHANGED <<pc, HttpServer, httpProxyServer, shut, target, reached>>,
           Settled => process' \notin {"panicked", "fatal"}
    PROVE  ProxyInv'
BY DEF ProxyInv, RunnerInv, OrderlyInv, SettledInv, Orderly, Settled,
       OneStops, Current, Known, Waiting

LEMMA ProxyStep == Inv /\ ProxyInv /\ [Next]_vars => ProxyInv'
<1> SUFFICES ASSUME Inv, ProxyInv, [Next]_vars PROVE ProxyInv'
  OBVIOUS
<1>0. Types /\ FreshInv /\ MainInv
  BY DEF Inv, Core
<1>1. CASE UNCHANGED vars
  BY <1>1, Ends DEF vars, serverVars, ProxyInv, SettledInv
<1>2. CASE Next
  <2>0. process \in Alive
    BY <1>2 DEF Next
  <2>1. ASSUME NEW x \in Goroutines \cup {Main}, Stops(x) PROVE ProxyInv'
    BY <1>0, <2>0, <2>1, StopsProxy
  <2>2. CASE RunAsService
    BY <1>0, <2>0, <2>2, RunProxy
  <2>3. CASE Shutdown
    BY <1>0, <2>0, <2>3, ShutdownProxy
  <2>4. CASE ShutdownRoute \/ Exit
    BY <2>4, Ends DEF ShutdownRoute, Exit, serverVars
  <2>5. ASSUME NEW k \in Starts, Starting(k) PROVE ProxyInv'
    <3>1. <<"http", k>> \in Goroutines /\ <<"proxy", k>> \in Goroutines
      BY Named DEF Kinds
    <3>2. CASE NoProxy(k)
      BY <1>0, <2>0, <3>1, <3>2, Passes DEF NoProxy, serverVars
    <3>3. CASE NewProxy(k)
      BY <1>0, <2>0, <3>3, NewProxyKeeps
    <3>4. CASE ListenFatal(k)
      <4>1. Settled => FALSE
        BY <3>4, PortFree DEF ListenFatal, ProxyInv, SettledInv
      <4> QED BY <3>4, <4>1, Ends DEF ListenFatal, serverVars
    <3>5. CASE ListenNil(k)
      <4>1. k # Nil
        BY LifeAssumption DEF Starts, Nil
      <4>2. Waiting => httpProxyServer = k
        BY <3>5 DEF ListenNil, Waiting
      <4>3. Settled => FALSE
        BY <3>5, <4>1, <4>2 DEF ListenNil, ProxyInv, SettledInv
      <4> QED BY <3>5, <4>3, Ends DEF ListenNil, serverVars
    <3>6. CASE ListenFails(k)
      BY <1>0, <2>0, <3>1, <3>6, Passes DEF ListenFails, serverVars
    <3> QED BY <2>5, <3>2, <3>3, <3>4, <3>5, <3>6 DEF Starting
  <2>6. ASSUME NEW g \in Goroutines, NEW k,
               g[1] = "http" => k = HttpServer,
               g[1] = "proxy" => k = httpProxyServer,
               Listen(g, k) \/ ListenClosed(g, k)
        PROVE  ProxyInv'
    <3>1. CASE Listen(g, k)
      <4>1. target'[g] = k /\ \A f \in Goroutines \ {g} : target'[f] = target[f]
        BY <1>0, <3>1 DEF Listen, Types
      <4>2. /\ UNCHANGED <<process, HttpServer, httpProxyServer, shut, reached>>
            /\ Goto(g, "bound") /\ pc[g] = "listen" /\ k # Nil
        BY <3>1 DEF Listen, serverVars
      <4> QED BY <1>0, <2>0, <2>6, <4>1, <4>2, Passes
    <3>2. CASE ListenClosed(g, k)
      BY <1>0, <2>0, <3>2, Passes DEF ListenClosed, serverVars
    <3> QED BY <2>6, <3>1, <3>2
  <2>7. ASSUME NEW k \in Starts,
               \/ Listen(<<"http", k>>, HttpServer)
               \/ ListenClosed(<<"http", k>>, HttpServer)
        PROVE  ProxyInv'
    BY <2>6, <2>7, Named DEF Kinds
  <2>8. ASSUME NEW k \in Starts,
               \/ Listen(<<"proxy", k>>, httpProxyServer)
               \/ ListenClosed(<<"proxy", k>>, httpProxyServer)
        PROVE  ProxyInv'
    BY <2>6, <2>8, Named DEF Kinds
  <2>9. ASSUME NEW g \in Goroutines, Serves(g) PROVE ProxyInv'
    <3>1. CASE Serve(g)
      <4>1. PICK l \in {"serving", "ended"} : Goto(g, l) /\ (l = "serving" => pc[g] = "bound")
        BY <3>1 DEF Serve
      <4> QED BY <1>0, <2>0, <3>1, <4>1, Passes DEF Serve, serverVars
    <3>2. CASE Closed(g)
      BY <1>0, <2>0, <3>2, Passes DEF Closed, serverVars
    <3> QED BY <2>9, <3>1, <3>2 DEF Serves
  <2> QED BY <1>2, <2>1, <2>2, <2>3, <2>4, <2>5, <2>7, <2>8, <2>9, Steps
<1> QED BY <1>1, <1>2

LEMMA ProxyInvariance == Spec => [](Inv /\ ProxyInv)
<1>1. Init => Inv /\ ProxyInv
  BY InvInit, ProxyInit
<1>2. (Inv /\ ProxyInv) /\ [Next]_vars => (Inv /\ ProxyInv)'
  BY InvStep, ProxyStep
<1> QED BY <1>1, <1>2, PTL DEF Spec

\* For any number of starts: after a Shutdown, if none came before StartProxy
\* had returned, no goroutine of any start accepts connections of the proxy.
THEOREM ProxyStops == Spec => []StoppedStopsProxy
<1>1. Inv /\ ProxyInv => StoppedStopsProxy
  <2> SUFFICES ASSUME Inv, ProxyInv, pc[Main] = "stopped", Orderly,
                      NEW k \in Starts, Accepting(<<"proxy", k>>)
               PROVE  FALSE
    BY DEF StoppedStopsProxy, Orderly, Early
  <2>1. httpProxyServer = Nil /\ Known
    BY DEF ProxyInv, OrderlyInv, Current
  <2>2. <<"proxy", target[<<"proxy", k>>]>> \in shut
    BY <2>1 DEF Known, Accepting, Up
  <2> QED BY <2>2, Named DEF Inv, Core, AcceptInv, Kinds
<1> QED BY <1>1, ProxyInvariance, PTL

\* For any number of starts: if every Shutdown came when the servers were up, the
\* process has not died of a nil server or of a port still held.
THEOREM SettledIsClean == Spec => []CleanWhenSettled
<1>1. ProxyInv => CleanWhenSettled
  BY DEF ProxyInv, SettledInv, Settled, CleanWhenSettled
<1> QED BY <1>1, ProxyInvariance, PTL
=============================================================================

--------------------------- MODULE TaskPoolProofs ---------------------------
(***************************************************************************)
(* Proofs about TaskPool, for every number of workers and producers, every *)
(* capacity of the channel and every number of tasks.                      *)
(***************************************************************************)
EXTENDS TaskPool, SequenceTheorems, TLAPS

\* Who is where: the WaitGroup counts the workers that have not exited, they
\* exit only from a closed and drained channel, and Build has started them all.
StageInv ==
    /\ closed <=> main \in {"waiting", "returned"}
    /\ main = "new" => WGroup = {} /\ channel = <<>>
    /\ main = "building" => \A i \in Workers : worker[i] = "none" <=> i \in starting
    /\ main = "building" => channel = <<>>
    /\ main \in {"new", "building"} => \A p \in Producers : producer[p] = "idle"
    /\ \A i \in Workers :
          /\ main = "new" => worker[i] = "none"
          /\ main # "new" => (i \in WGroup <=> worker[i] # "exited")
          /\ main \in {"built", "waiting", "returned"} => worker[i] # "none"
          /\ worker[i] = "exited" => closed /\ channel = <<>>
    /\ main = "returned" => WGroup = {}

\* Every task sent is in one place: once in the channel, or with one worker, or
\* executed.  A task still being sent is in none.
PlaceInv ==
    /\ \A m, n \in 1..Len(channel) : channel[m] = channel[n] => m = n
    /\ \A i \in Workers : worker[i] = "running" => task[i] \in Tasks
    /\ \A i, j \in Workers :
          worker[i] = "running" /\ worker[j] = "running" /\ task[i] = task[j] => i = j
    /\ \A n \in 1..Len(channel) : channel[n] \notin Running \cup executed
    /\ Running \cap executed = {}
    /\ sent = Buffered \cup Running \cup executed

ItemInv ==
    /\ \A t \in sent : t <= added
    /\ \A p \in Producers : producer[p] = "sending" =>
          item[p] \in Tasks /\ item[p] <= added /\ item[p] \notin sent
    /\ \A p, q \in Producers :
          producer[p] = "sending" /\ producer[q] = "sending" /\ item[p] = item[q] => p = q

Inv == TypeOK /\ StageInv /\ PlaceInv /\ ItemInv

LEMMA InvInit == Init => Inv
<1> SUFFICES ASSUME Init PROVE Inv
  OBVIOUS
<1> USE PoolAssumption DEF Init
<1>1. TypeOK
  <2>1. channel \in Seq(Tasks) /\ Len(channel) <= Capacity
    OBVIOUS
  <2>2. added \in 0..MaxTasks
    OBVIOUS
  <2> QED BY <2>1, <2>2 DEF TypeOK
<1>2. StageInv /\ ItemInv
  BY DEF StageInv, ItemInv
<1>3. PlaceInv
  BY DEF PlaceInv, Buffered, Running
<1> QED BY <1>1, <1>2, <1>3 DEF Inv

LEMMA WaitedFromInv == Inv => WaitedForAll
<1> SUFFICES ASSUME Inv, main = "returned"
             PROVE  (\A i \in Workers : worker[i] = "exited") /\ executed = sent
  BY DEF WaitedForAll
<1>1. \A i \in Workers : worker[i] = "exited"
  BY DEF Inv, StageInv
<1>2. channel = <<>>
  BY <1>1, PoolAssumption DEF Inv, StageInv
<1>3. Buffered = {} /\ Running = {}
  BY <1>1, <1>2 DEF Buffered, Running
<1> QED BY <1>1, <1>3 DEF Inv, PlaceInv

-----------------------------------------------------------------------------
(* How the sends, receives and completions move tasks between places.      *)

LEMMA ChannelType ==
    ASSUME Inv
    PROVE  channel \in Seq(Tasks) /\ Len(channel) \in Nat /\ Buffered \subseteq Tasks
BY DEF Inv, TypeOK, Buffered

LEMMA SendMoves ==
    ASSUME Inv, NEW p \in Producers, Send(p)
    PROVE  /\ channel' \in Seq(Tasks) /\ Len(channel') = Len(channel) + 1
           /\ \A n \in 1..Len(channel) : channel'[n] = channel[n]
           /\ channel'[Len(channel) + 1] = item[p]
           /\ Buffered' = Buffered \cup {item[p]}
           /\ Running' = Running
           /\ item[p] \in Tasks /\ item[p] \notin sent
<1>1. item[p] \in Tasks /\ item[p] \notin sent
  BY DEF Send, Inv, ItemInv
<1>2. /\ channel' \in Seq(Tasks) /\ Len(channel') = Len(channel) + 1
      /\ \A n \in 1..Len(channel) : channel'[n] = channel[n]
      /\ channel'[Len(channel) + 1] = item[p]
  BY <1>1, ChannelType, AppendProperties DEF Send
<1>3. Buffered' = Buffered \cup {item[p]}
  BY <1>2, ChannelType DEF Buffered
<1>4. Running' = Running
  BY DEF Send, workVars, Running
<1> QED BY <1>1, <1>2, <1>3, <1>4

LEMMA ReceiveMoves ==
    ASSUME Inv, NEW i \in Workers, Receive(i)
    PROVE  /\ channel' \in Seq(Tasks) /\ Len(channel') = Len(channel) - 1
           /\ \A n \in 1..Len(channel') : channel'[n] = channel[n + 1]
           /\ channel[1] \in Tasks /\ task'[i] = channel[1]
           /\ Buffered = Buffered' \cup {channel[1]}
           /\ channel[1] \notin Buffered'
           /\ Running' = Running \cup {channel[1]}
<1>1. /\ channel' \in Seq(Tasks) /\ Len(channel') = Len(channel) - 1
      /\ \A n \in 1..Len(channel') : channel'[n] = channel[n + 1]
      /\ Len(channel) >= 1 /\ channel[1] \in Tasks
  BY ChannelType, HeadTailProperties DEF Receive
<1>2. Buffered = Buffered' \cup {channel[1]}
  <2>1. ASSUME NEW n \in 1..Len(channel), n # 1
        PROVE  n - 1 \in 1..Len(channel') /\ channel'[n - 1] = channel[n]
    <3>1. n - 1 \in 1..Len(channel') /\ (n - 1) + 1 = n
      BY <1>1, <2>1, ChannelType
    <3>2. channel'[n - 1] = channel[(n - 1) + 1]
      BY <1>1, <3>1
    <3> QED BY <3>1, <3>2
  <2>2. ASSUME NEW n \in 1..Len(channel')
        PROVE  n + 1 \in 1..Len(channel) /\ channel'[n] = channel[n + 1]
    BY <1>1, ChannelType
  <2> QED BY <1>1, <2>1, <2>2, ChannelType DEF Buffered
<1>3. channel[1] \notin Buffered'
  <2> SUFFICES ASSUME NEW n \in 1..Len(channel') PROVE channel'[n] # channel[1]
    BY DEF Buffered
  <2>1. n + 1 \in 1..Len(channel) /\ 1 \in 1..Len(channel) /\ n + 1 # 1
    BY <1>1, ChannelType
  <2> QED BY <1>1, <2>1 DEF Inv, PlaceInv
<1>4. task'[i] = channel[1]
  BY DEF Receive, Inv, TypeOK
<1>5. Running' = Running \cup {channel[1]}
  <2>1. /\ worker[i] # "running" /\ worker'[i] = "running"
        /\ \A j \in Workers \ {i} : worker'[j] = worker[j] /\ task'[j] = task[j]
    BY DEF Receive, Inv, TypeOK
  <2> QED BY <1>4, <2>1 DEF Running
<1> QED BY <1>1, <1>2, <1>3, <1>4, <1>5

LEMMA FinishMoves ==
    ASSUME Inv, NEW i \in Workers, Finish(i)
    PROVE  /\ task[i] \in Running /\ task[i] \in Tasks
           /\ Running' = Running \ {task[i]}
           /\ Buffered' = Buffered /\ task[i] \notin Buffered
           /\ executed' = executed \cup {task[i]}
<1>1. /\ worker[i] = "running" /\ worker'[i] = "receiving"
      /\ \A j \in Workers \ {i} : worker'[j] = worker[j] /\ task'[j] = task[j]
  BY DEF Finish, Inv, TypeOK
<1>2. task[i] \in Running /\ task[i] \in Tasks
  BY <1>1 DEF Running, Inv, PlaceInv
<1>3. Running' = Running \ {task[i]}
  BY <1>1 DEF Running, Inv, PlaceInv
<1>4. Buffered' = Buffered /\ task[i] \notin Buffered
  BY <1>2 DEF Finish, chanVars, Buffered, Inv, PlaceInv
<1> QED BY <1>2, <1>3, <1>4 DEF Finish

-----------------------------------------------------------------------------
(* Every step preserves the invariant.                                     *)

LEMMA TypeStep == Inv /\ [Next]_vars => TypeOK'
<1> SUFFICES ASSUME Inv, [Next]_vars PROVE TypeOK'
  OBVIOUS
<1>1. TypeOK
  BY DEF Inv
<1> USE PoolAssumption, <1>1 DEF TypeOK, chanVars, workVars, prodVars
<1>2. CASE Build \/ Built \/ Close \/ Waited
  BY <1>2 DEF Build, Built, Close, Waited
<1>3. ASSUME NEW i \in Workers, Start(i) PROVE TypeOK'
  BY <1>3 DEF Start
<1>4. ASSUME NEW i \in Workers, Receive(i) PROVE TypeOK'
  <2>1. channel' \in Seq(Tasks) /\ Len(channel') <= Capacity /\ channel[1] \in Tasks
    BY <1>4, ReceiveMoves, ChannelType
  <2>2. task' \in [Workers -> Tasks \cup {NoTask}]
    <3>1. task' = [task EXCEPT ![i] = channel[1]]
      BY <1>4 DEF Receive
    <3> QED BY <2>1, <3>1
  <2>3. worker' \in [Workers -> {"none", "receiving", "running", "exited"}]
    BY <1>4 DEF Receive
  <2> QED BY <1>4, <2>1, <2>2, <2>3 DEF Receive
<1>5. ASSUME NEW i \in Workers, Finish(i) PROVE TypeOK'
  <2>1. executed' \subseteq Tasks
    BY <1>5, FinishMoves
  <2> QED BY <1>5, <2>1 DEF Finish
<1>6. ASSUME NEW i \in Workers, Exit(i) PROVE TypeOK'
  BY <1>6 DEF Exit
<1>7. ASSUME NEW p \in Producers, Add(p) PROVE TypeOK'
  <2>1. added + 1 \in Tasks /\ added + 1 \in 0..MaxTasks
    BY <1>7 DEF Add, Tasks
  <2> QED BY <1>7, <2>1 DEF Add
<1>8. ASSUME NEW p \in Producers, Send(p) PROVE TypeOK'
  <2>1. channel' \in Seq(Tasks) /\ Len(channel') = Len(channel) + 1 /\ item[p] \in Tasks
    BY <1>8, SendMoves
  <2>2. Len(channel) < Capacity /\ Len(channel) \in Nat
    BY <1>8, ChannelType DEF Send
  <2>3. Len(channel') <= Capacity
    BY <2>1, <2>2
  <2> QED BY <1>8, <2>1, <2>3 DEF Send
<1>9. ASSUME NEW p \in Producers, SendPanic(p) PROVE TypeOK'
  BY <1>9 DEF SendPanic
<1>10. CASE UNCHANGED vars
  BY <1>10 DEF vars
<1> QED BY <1>2, <1>3, <1>4, <1>5, <1>6, <1>7, <1>8, <1>9, <1>10
       DEF Next, Worker, Producer

LEMMA StageStep == Inv /\ [Next]_vars => StageInv'
<1> SUFFICES ASSUME Inv, [Next]_vars PROVE StageInv'
  OBVIOUS
<1> USE DEF Inv, TypeOK, StageInv, chanVars, workVars, prodVars
<1>1. CASE Build
  BY <1>1 DEF Build
<1>2. CASE Built
  BY <1>2 DEF Built
<1>3. CASE Close
  BY <1>3 DEF Close
<1>4. CASE Waited
  BY <1>4 DEF Waited
<1>5. ASSUME NEW i \in Workers, Start(i) PROVE StageInv'
  BY <1>5 DEF Start
<1>6. ASSUME NEW i \in Workers, Receive(i) PROVE StageInv'
  BY <1>6 DEF Receive
<1>7. ASSUME NEW i \in Workers, Finish(i) PROVE StageInv'
  BY <1>7 DEF Finish
<1>8. ASSUME NEW i \in Workers, Exit(i) PROVE StageInv'
  BY <1>8 DEF Exit
<1>9. ASSUME NEW p \in Producers, Add(p) PROVE StageInv'
  BY <1>9 DEF Add
<1>10. ASSUME NEW p \in Producers, Send(p) PROVE StageInv'
  <2>1. main = "built" /\ ~closed
    BY <1>10 DEF Send
  <2> QED BY <1>10, <2>1 DEF Send
<1>11. ASSUME NEW p \in Producers, SendPanic(p) PROVE StageInv'
  BY <1>11 DEF SendPanic
<1>12. CASE UNCHANGED vars
  BY <1>12 DEF vars
<1> QED BY <1>1, <1>2, <1>3, <1>4, <1>5, <1>6, <1>7, <1>8, <1>9, <1>10, <1>11, <1>12
       DEF Next, Worker, Producer

LEMMA PlaceStep == Inv /\ [Next]_vars => PlaceInv'
<1> SUFFICES ASSUME Inv, [Next]_vars PROVE PlaceInv'
  OBVIOUS
<1> USE DEF chanVars, workVars, prodVars
<1>1. ASSUME UNCHANGED <<channel, worker, task, executed, sent>> PROVE PlaceInv'
  BY <1>1 DEF Inv, PlaceInv, Buffered, Running
<1>2. CASE Build \/ Built \/ Close \/ Waited
  BY <1>1, <1>2 DEF Build, Built, Close, Waited
\* A worker that starts or exits runs nothing before or after.
<1>3. ASSUME NEW i \in Workers, Start(i) \/ Exit(i) PROVE PlaceInv'
  <2>1. /\ UNCHANGED <<channel, task, executed, sent>>
        /\ \A j \in Workers : worker'[j] = "running" <=> worker[j] = "running"
    <3>1. CASE Start(i)
      <4>1. worker[i] = "none"
        BY <3>1 DEF Start, Inv, StageInv
      <4> QED BY <3>1, <4>1 DEF Start, Inv, TypeOK
    <3>2. CASE Exit(i)
      BY <3>2 DEF Exit, Inv, TypeOK
    <3> QED BY <1>3, <3>1, <3>2
  <2> QED BY <2>1 DEF Inv, PlaceInv, Buffered, Running
<1>4. ASSUME NEW i \in Workers, Receive(i) PROVE PlaceInv'
  <2> DEFINE t == channel[1]
  <2>1. /\ Len(channel') = Len(channel) - 1 /\ Len(channel) \in Nat
        /\ \A n \in 1..Len(channel') : channel'[n] = channel[n + 1]
        /\ Buffered = Buffered' \cup {t} /\ t \notin Buffered'
        /\ Running' = Running \cup {t} /\ t \in Tasks /\ task'[i] = t
        /\ t \in Buffered
    BY <1>4, ReceiveMoves, ChannelType
  <2>2. /\ worker[i] # "running" /\ worker'[i] = "running"
        /\ \A j \in Workers \ {i} : worker'[j] = worker[j] /\ task'[j] = task[j]
        /\ UNCHANGED <<executed, sent>>
    BY <1>4 DEF Receive, Inv, TypeOK
  <2>3. t \notin Running /\ t \notin executed
    BY <2>1 DEF Inv, PlaceInv, Buffered
  <2> HIDE DEF t
  <2>4. \A m, n \in 1..Len(channel') : channel'[m] = channel'[n] => m = n
    <3> SUFFICES ASSUME NEW m \in 1..Len(channel'), NEW n \in 1..Len(channel'),
                        channel'[m] = channel'[n]
                 PROVE  m = n
      OBVIOUS
    <3>1. m + 1 \in 1..Len(channel) /\ n + 1 \in 1..Len(channel)
      BY <2>1
    <3>2. m + 1 = n + 1
      BY <2>1, <3>1 DEF Inv, PlaceInv
    <3> QED BY <3>2
  <2>5. /\ \A j \in Workers : worker'[j] = "running" => task'[j] \in Tasks
        /\ \A j, k \in Workers :
             worker'[j] = "running" /\ worker'[k] = "running" /\ task'[j] = task'[k] => j = k
    BY <2>1, <2>2, <2>3 DEF Inv, PlaceInv, Running
  <2>6. \A n \in 1..Len(channel') : channel'[n] \notin (Running \cup executed)'
    <3> SUFFICES ASSUME NEW n \in 1..Len(channel')
                 PROVE  channel'[n] \notin Running' \cup executed
      BY <2>2
    <3>1. channel'[n] \in Buffered' /\ channel'[n] = channel[n + 1] /\ n + 1 \in 1..Len(channel)
      BY <2>1 DEF Buffered
    <3> QED BY <2>1, <3>1 DEF Inv, PlaceInv
  <2>7. (Running \cap executed = {})' /\ (sent = Buffered \cup Running \cup executed)'
    BY <2>1, <2>2, <2>3 DEF Inv, PlaceInv
  <2> QED BY <2>4, <2>5, <2>6, <2>7 DEF PlaceInv
<1>5. ASSUME NEW i \in Workers, Finish(i) PROVE PlaceInv'
  <2>1. /\ task[i] \in Running /\ task[i] \in Tasks
        /\ Running' = Running \ {task[i]}
        /\ Buffered' = Buffered /\ task[i] \notin Buffered
        /\ executed' = executed \cup {task[i]}
    BY <1>5, FinishMoves
  <2>2. /\ worker'[i] # "running"
        /\ \A j \in Workers \ {i} : worker'[j] = worker[j] /\ task'[j] = task[j]
        /\ UNCHANGED <<channel, sent>>
    BY <1>5 DEF Finish, Inv, TypeOK
  <2>3. /\ \A j \in Workers : worker'[j] = "running" => task'[j] \in Tasks
        /\ \A j, k \in Workers :
             worker'[j] = "running" /\ worker'[k] = "running" /\ task'[j] = task'[k] => j = k
    BY <2>2 DEF Inv, PlaceInv
  <2>4. \A n \in 1..Len(channel) : channel[n] \notin Running' \cup executed'
    BY <2>1 DEF Inv, PlaceInv, Buffered
  <2>5. (Running \cap executed = {})' /\ (sent = Buffered \cup Running \cup executed)'
    BY <2>1, <2>2 DEF Inv, PlaceInv
  <2>6. \A m, n \in 1..Len(channel) : channel[m] = channel[n] => m = n
    BY DEF Inv, PlaceInv
  <2> QED BY <2>2, <2>3, <2>4, <2>5, <2>6 DEF PlaceInv
<1>6. ASSUME NEW p \in Producers, Add(p) \/ SendPanic(p) PROVE PlaceInv'
  BY <1>1, <1>6 DEF Add, SendPanic
<1>7. ASSUME NEW p \in Producers, Send(p) PROVE PlaceInv'
  <2> DEFINE t == item[p]
             l == Len(channel)
  <2>1. /\ Len(channel') = l + 1 /\ l \in Nat
        /\ \A n \in 1..l : channel'[n] = channel[n]
        /\ channel'[l + 1] = t
        /\ Buffered' = Buffered \cup {t} /\ Running' = Running
        /\ t \in Tasks /\ t \notin sent
    BY <1>7, SendMoves, ChannelType
  <2>2. UNCHANGED <<executed, worker, task>> /\ sent' = sent \cup {t}
    BY <1>7 DEF Send
  <2> HIDE DEF t
  <2>3. t \notin Buffered /\ t \notin Running /\ t \notin executed
    BY <2>1 DEF Inv, PlaceInv
  <2>4. \A n \in 1..Len(channel') : n \in 1..l \/ n = l + 1
    BY <2>1
  <2>5. \A n \in 1..l : channel'[n] = channel[n] /\ channel[n] # t
    BY <2>1, <2>3 DEF Buffered
  <2>6. \A m, n \in 1..l : channel[m] = channel[n] => m = n
    BY DEF Inv, PlaceInv
  <2>7. \A m, n \in 1..Len(channel') : channel'[m] = channel'[n] => m = n
    BY <2>1, <2>4, <2>5, <2>6
  <2>8. \A n \in 1..Len(channel') : channel'[n] \notin Running' \cup executed
    <3>1. \A n \in 1..l : channel[n] \notin Running \cup executed
      BY DEF Inv, PlaceInv
    <3> QED BY <2>1, <2>3, <2>4, <2>5, <3>1
  <2>9. /\ \A j \in Workers : worker[j] = "running" => task[j] \in Tasks
        /\ \A j, k \in Workers :
             worker[j] = "running" /\ worker[k] = "running" /\ task[j] = task[k] => j = k
        /\ Running \cap executed = {}
        /\ sent' = Buffered' \cup Running \cup executed
    BY <2>1, <2>2 DEF Inv, PlaceInv
  <2> QED BY <2>1, <2>2, <2>7, <2>8, <2>9 DEF PlaceInv
<1>8. CASE UNCHANGED vars
  BY <1>1, <1>8 DEF vars
<1> QED BY <1>2, <1>3, <1>4, <1>5, <1>6, <1>7, <1>8 DEF Next, Worker, Producer

LEMMA ItemStep == Inv /\ [Next]_vars => ItemInv'
<1> SUFFICES ASSUME Inv, [Next]_vars PROVE ItemInv'
  OBVIOUS
<1> USE DEF chanVars, workVars, prodVars
<1>1. added \in Nat /\ sent \subseteq Nat
  BY PoolAssumption DEF Inv, TypeOK, Tasks
<1>2. ASSUME UNCHANGED prodVars PROVE ItemInv'
  BY <1>2 DEF Inv, ItemInv
<1>3. ASSUME NEW p \in Producers, Add(p) PROVE ItemInv'
  <2>1. /\ item'[p] = added + 1 /\ added' = added + 1 /\ added + 1 \in Tasks
        /\ \A q \in Producers \ {p} : item'[q] = item[q] /\ producer'[q] = producer[q]
        /\ sent' = sent
    <3>1. added + 1 \in Tasks
      BY <1>1, <1>3, PoolAssumption DEF Add, Tasks
    <3> QED BY <1>3, <3>1 DEF Add, Inv, TypeOK
  <2>2. \A t \in sent : t <= added /\ t <= added' /\ t # added + 1
    BY <1>1, <2>1 DEF Inv, ItemInv
  <2>3. \A q \in Producers \ {p} : producer[q] = "sending" =>
           /\ item[q] \in Tasks /\ item[q] <= added' /\ item[q] # added + 1
           /\ item[q] \notin sent
    BY <1>1, <2>1 DEF Inv, ItemInv, Tasks
  <2>4. \A q, r \in Producers :
           producer'[q] = "sending" /\ producer'[r] = "sending" /\ item'[q] = item'[r] => q = r
    BY <2>1, <2>3 DEF Inv, ItemInv
  <2>5. added + 1 <= added' /\ added + 1 \notin sent
    BY <1>1, <2>1, <2>2
  <2> QED BY <2>1, <2>2, <2>3, <2>4, <2>5 DEF ItemInv
<1>4. ASSUME NEW p \in Producers, Send(p) PROVE ItemInv'
  <2>1. /\ producer[p] = "sending" /\ producer'[p] = "idle"
        /\ \A q \in Producers \ {p} : item'[q] = item[q] /\ producer'[q] = producer[q]
        /\ sent' = sent \cup {item[p]} /\ added' = added
    BY <1>4 DEF Send, Inv, TypeOK
  <2>2. \A q \in Producers \ {p} : producer[q] = "sending" => item[q] # item[p]
    BY <2>1 DEF Inv, ItemInv
  <2> QED BY <2>1, <2>2 DEF Inv, ItemInv
<1>5. ASSUME NEW p \in Producers, SendPanic(p) PROVE ItemInv'
  <2>1. /\ producer'[p] = "panicked"
        /\ \A q \in Producers \ {p} : item'[q] = item[q] /\ producer'[q] = producer[q]
        /\ sent' = sent /\ added' = added
    BY <1>5 DEF SendPanic, Inv, TypeOK
  <2> QED BY <2>1 DEF Inv, ItemInv
<1>6. CASE Build \/ Built \/ Close \/ Waited
  BY <1>2, <1>6 DEF Build, Built, Close, Waited
<1>7. ASSUME NEW i \in Workers, Worker(i) PROVE ItemInv'
  BY <1>2, <1>7 DEF Worker, Start, Receive, Finish, Exit
<1>8. CASE UNCHANGED vars
  BY <1>2, <1>8 DEF vars
<1> QED BY <1>3, <1>4, <1>5, <1>6, <1>7, <1>8 DEF Next, Producer

LEMMA InvStep == Inv /\ [Next]_vars => Inv'
BY TypeStep, StageStep, PlaceStep, ItemStep DEF Inv

LEMMA Invariance == Spec => []Inv
BY InvInit, InvStep, PTL DEF Spec

\* The variables always have their types, the channel never outgrows its
\* capacity.
THEOREM TypeCorrect == Spec => []TypeOK
<1>1. Inv => TypeOK
  BY DEF Inv
<1> QED BY <1>1, Invariance, PTL

\* Wait never returns before all the workers have exited and every task whose
\* Add returned has been executed.
THEOREM WaitIsComplete == Spec => []WaitedForAll
BY Invariance, WaitedFromInv, PTL

-----------------------------------------------------------------------------
(* Refinement of TaskSet: every step of the pool is a step of the set of   *)
(* tasks its users see, or changes nothing they see.                       *)

LEMMA PromiseInit == Init => Promise!Init
BY DEF Init, Promise!Init, Buffered, Running

LEMMA PromiseStep == Inv /\ [Next]_vars => [Promise!Next]_(Promise!setVars)
<1> SUFFICES ASSUME Inv, [Next]_vars PROVE [Promise!Next]_(Promise!setVars)
  OBVIOUS
<1> USE DEF chanVars, workVars, prodVars
<1> DEFINE state == IF main = "returned" THEN "returned"
                    ELSE IF main = "waiting" THEN "closed" ELSE "open"
<1>1. ASSUME Buffered' \cup Running' = Buffered \cup Running,
             executed' = executed, state' = state
      PROVE  UNCHANGED Promise!setVars
  BY <1>1 DEF Promise!setVars
<1>2. ASSUME UNCHANGED <<channel, worker, task>>
      PROVE  Buffered' = Buffered /\ Running' = Running
  BY <1>2 DEF Buffered, Running
<1>3. CASE Build \/ Built
  BY <1>1, <1>2, <1>3 DEF Build, Built
<1>4. CASE Close
  <2>1. Promise!Close
    BY <1>2, <1>4 DEF Close, Promise!Close
  <2> QED BY <2>1 DEF Promise!Next
<1>5. CASE Waited
  <2>1. main' = "returned" /\ main = "waiting" /\ executed' = executed
    BY <1>5 DEF Waited
  <2>2. Buffered' = Buffered /\ Running' = Running
    BY <1>2, <1>5 DEF Waited
  <2>3. Buffered \cup Running = {}
    <3>1. \A i \in Workers : worker[i] = "exited"
      BY <1>5 DEF Waited, Inv, StageInv
    <3>2. channel = <<>>
      BY <3>1, PoolAssumption DEF Inv, StageInv
    <3> QED BY <3>1, <3>2 DEF Buffered, Running
  <2>4. Promise!Return
    BY <2>1, <2>2, <2>3 DEF Promise!Return
  <2> QED BY <2>4 DEF Promise!Next
<1>6. ASSUME NEW i \in Workers, Start(i) \/ Exit(i) PROVE UNCHANGED Promise!setVars
  <2>1. /\ UNCHANGED <<channel, task, executed, main>>
        /\ \A j \in Workers : worker'[j] = "running" <=> worker[j] = "running"
    <3>1. CASE Start(i)
      <4>1. worker[i] = "none"
        BY <3>1 DEF Start, Inv, StageInv
      <4> QED BY <3>1, <4>1 DEF Start, Inv, TypeOK
    <3>2. CASE Exit(i)
      BY <3>2 DEF Exit, Inv, TypeOK
    <3> QED BY <1>6, <3>1, <3>2
  <2>2. Buffered' = Buffered /\ Running' = Running
    BY <2>1 DEF Buffered, Running
  <2> QED BY <1>1, <2>1, <2>2
<1>7. ASSUME NEW i \in Workers, Receive(i) PROVE UNCHANGED Promise!setVars
  <2>1. Buffered' \cup Running' = Buffered \cup Running
    BY <1>7, ReceiveMoves
  <2> QED BY <1>1, <1>7, <2>1 DEF Receive
<1>8. ASSUME NEW i \in Workers, Finish(i) PROVE Promise!Next
  <2>1. /\ task[i] \in Running /\ task[i] \in Tasks
        /\ Buffered' \cup Running' = (Buffered \cup Running) \ {task[i]}
        /\ executed' = executed \cup {task[i]}
    BY <1>8, FinishMoves
  <2>2. state' = state
    BY <1>8 DEF Finish
  <2>3. Promise!Execute(task[i])
    BY <2>1, <2>2 DEF Promise!Execute
  <2> QED BY <2>1, <2>3 DEF Promise!Next
<1>9. ASSUME NEW p \in Producers, Add(p) \/ SendPanic(p) PROVE UNCHANGED Promise!setVars
  BY <1>1, <1>2, <1>9 DEF Add, SendPanic
<1>10. ASSUME NEW p \in Producers, Send(p) PROVE Promise!Next
  <2>1. /\ Buffered' \cup Running' = (Buffered \cup Running) \cup {item[p]}
        /\ item[p] \in Tasks /\ item[p] \notin sent
    BY <1>10, SendMoves
  <2>2. item[p] \notin (Buffered \cup Running) \cup executed
    BY <2>1 DEF Inv, PlaceInv
  <2>3. state = "open" /\ state' = state /\ executed' = executed
    BY <1>10 DEF Send, Inv, StageInv
  <2>4. Promise!Submit(item[p])
    BY <2>1, <2>2, <2>3 DEF Promise!Submit
  <2> QED BY <2>1, <2>4 DEF Promise!Next
<1>11. CASE UNCHANGED vars
  BY <1>1, <1>2, <1>11 DEF vars
<1> QED BY <1>3, <1>4, <1>5, <1>6, <1>7, <1>8, <1>9, <1>10, <1>11 DEF Next, Worker, Producer

\* The pool implements the safety part of its promise: no task is lost, none is
\* executed twice, and none is left when Wait returns.
THEOREM PoolImplementsPromise == Spec => Promise!Safety
<1> QED BY Invariance, PromiseInit, PromiseStep, PTL DEF Spec, Promise!Safety
=============================================================================

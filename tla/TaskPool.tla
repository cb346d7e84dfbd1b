------------------------------ MODULE TaskPool ------------------------------
(***************************************************************************)
(* fast_base/TaskPool.go: a fixed number of worker goroutines that take    *)
(* tasks from one buffered channel.  The main goroutine calls Build and,   *)
(* at any later moment, Wait; other goroutines call Add.                   *)
(*                                                                         *)
(* Wait closes the channel: an Add that is blocked on it, or that comes    *)
(* later, panics and its task is not taken.  The WaitGroup is kept as the  *)
(* set of workers that have still to call Done.                            *)
(***************************************************************************)
EXTENDS Naturals, Sequences

CONSTANTS
    Workers,     \* the `num` worker goroutines
    Producers,   \* goroutines that call Add
    Capacity,    \* of the channel, 100 in the code
    MaxTasks,    \* bound: number of calls of Add
    NoTask       \* the task of a worker or producer that has none

Tasks == 1..MaxTasks

ASSUME PoolAssumption ==
    /\ Workers # {}             \* with no worker nothing is ever executed
    /\ Capacity \in Nat \ {0} /\ MaxTasks \in Nat
    /\ NoTask \notin Nat

VARIABLES
    channel,     \* that.Channel: the buffered tasks
    closed,      \* close(that.Channel) was called
    WGroup,      \* workers counted in that.WGroup
    starting,    \* workers counted in Build's own WaitGroup iwg
    main,        \* the main goroutine
    worker,      \* the worker goroutines
    task,        \* what each worker is executing
    producer,    \* the goroutines in Add
    item,        \* what each of them is sending
    added,       \* number of calls of Add so far; the last task's number
    sent,        \* ghost: the tasks whose Add returned
    executed     \* ghost: the tasks for which fc returned

chanVars == <<channel, closed>>
workVars == <<WGroup, starting, worker, task, executed>>
prodVars == <<producer, item, added, sent>>
vars     == <<chanVars, workVars, prodVars, main>>

Init ==
    /\ channel = <<>> /\ closed = FALSE
    /\ WGroup = {} /\ starting = {}
    /\ main = "new"
    /\ worker = [i \in Workers |-> "none"]
    /\ task = [i \in Workers |-> NoTask]
    /\ producer = [p \in Producers |-> "idle"]
    /\ item = [p \in Producers |-> NoTask]
    /\ added = 0 /\ sent = {} /\ executed = {}

-----------------------------------------------------------------------------
(* Build.                                                                  *)

Build ==
    /\ main = "new"
    /\ main' = "building"
    /\ WGroup' = Workers /\ starting' = Workers
    /\ UNCHANGED <<chanVars, worker, task, executed, prodVars>>

\* A worker goroutine gets going: iwg.Done().
Start(i) ==
    /\ main = "building" /\ i \in starting
    /\ worker' = [worker EXCEPT ![i] = "receiving"]
    /\ starting' = starting \ {i}
    /\ UNCHANGED <<chanVars, WGroup, task, executed, prodVars, main>>

\* iwg.Wait() returns, and Build with it.
Built ==
    /\ main = "building" /\ starting = {}
    /\ main' = "built"
    /\ UNCHANGED <<chanVars, workVars, prodVars>>

-----------------------------------------------------------------------------
(* Add.                                                                    *)

\* A new task on its way to the channel; only after Build has returned.
Add(p) ==
    /\ main \notin {"new", "building"}
    /\ producer[p] = "idle" /\ added < MaxTasks
    /\ added' = added + 1
    /\ item' = [item EXCEPT ![p] = added + 1]
    /\ producer' = [producer EXCEPT ![p] = "sending"]
    /\ UNCHANGED <<chanVars, workVars, sent, main>>

\* Mutant of Send: the channel is not bounded.
SendUnbounded(p) ==
    /\ producer[p] = "sending" /\ ~closed
    /\ channel' = Append(channel, item[p])
    /\ sent' = sent \cup {item[p]}
    /\ item' = [item EXCEPT ![p] = NoTask]
    /\ producer' = [producer EXCEPT ![p] = "idle"]
    /\ UNCHANGED <<closed, workVars, added, main>>

\* The channel has room.
Send(p) ==
    /\ producer[p] = "sending" /\ ~closed
    /\ Len(channel) < Capacity
    /\ channel' = Append(channel, item[p])
    /\ sent' = sent \cup {item[p]}
    /\ item' = [item EXCEPT ![p] = NoTask]
    /\ producer' = [producer EXCEPT ![p] = "idle"]
    /\ UNCHANGED <<closed, workVars, added, main>>

\* The channel is closed: a send panics, a blocked one too.
SendPanic(p) ==
    /\ producer[p] = "sending" /\ closed
    /\ item' = [item EXCEPT ![p] = NoTask]
    /\ producer' = [producer EXCEPT ![p] = "panicked"]
    /\ UNCHANGED <<chanVars, workVars, added, sent, main>>

-----------------------------------------------------------------------------
(* The loop of a worker.                                                   *)

\* Mutant of Receive: the task stays in the channel for the others.
ReceiveShared(i) ==
    /\ worker[i] = "receiving" /\ channel # <<>>
    /\ task' = [task EXCEPT ![i] = Head(channel)]
    /\ worker' = [worker EXCEPT ![i] = "running"]
    /\ UNCHANGED <<chanVars, WGroup, starting, executed, prodVars, main>>

Receive(i) ==
    /\ worker[i] = "receiving" /\ channel # <<>>
    /\ task' = [task EXCEPT ![i] = Head(channel)]
    /\ channel' = Tail(channel)
    /\ worker' = [worker EXCEPT ![i] = "running"]
    /\ UNCHANGED <<closed, WGroup, starting, executed, prodVars, main>>

\* fc(num, r) returns.
Finish(i) ==
    /\ worker[i] = "running"
    /\ executed' = executed \cup {task[i]}
    /\ task' = [task EXCEPT ![i] = NoTask]
    /\ worker' = [worker EXCEPT ![i] = "receiving"]
    /\ UNCHANGED <<chanVars, WGroup, starting, prodVars, main>>

\* Mutant of Exit: a worker leaves at the close, not when the channel is empty.
ExitAtClose(i) ==
    /\ worker[i] = "receiving" /\ closed
    /\ worker' = [worker EXCEPT ![i] = "exited"]
    /\ WGroup' = WGroup \ {i}
    /\ UNCHANGED <<chanVars, starting, task, executed, prodVars, main>>

\* !ok: the channel is closed and drained.  The deferred WGroup.Done() runs.
Exit(i) ==
    /\ worker[i] = "receiving" /\ closed /\ channel = <<>>
    /\ worker' = [worker EXCEPT ![i] = "exited"]
    /\ WGroup' = WGroup \ {i}
    /\ UNCHANGED <<chanVars, starting, task, executed, prodVars, main>>

-----------------------------------------------------------------------------
(* Wait.                                                                   *)

Close ==
    /\ main = "built"
    /\ main' = "waiting"
    /\ closed' = TRUE
    /\ UNCHANGED <<channel, workVars, prodVars>>

\* WGroup.Wait() returns.
Waited ==
    /\ main = "waiting" /\ WGroup = {}
    /\ main' = "returned"
    /\ UNCHANGED <<chanVars, workVars, prodVars>>

Worker(i) == Start(i) \/ Receive(i) \/ Finish(i) \/ Exit(i)

Producer(p) == Add(p) \/ Send(p) \/ SendPanic(p)

Next ==
    \/ Build \/ Built \/ Close \/ Waited
    \/ \E i \in Workers : Worker(i)
    \/ \E p \in Producers : Producer(p)

\* Runnable goroutines run, and fc returns.  Nobody has to call Add or Wait.
Fairness ==
    /\ WF_vars(Waited)
    /\ \A i \in Workers : WF_vars(Worker(i))

Spec == Init /\ [][Next]_vars /\ Fairness

-----------------------------------------------------------------------------
(* Properties.                                                             *)

TypeOK ==
    /\ channel \in Seq(Tasks) /\ Len(channel) <= Capacity
    /\ closed \in BOOLEAN
    /\ WGroup \subseteq Workers /\ starting \subseteq Workers
    /\ main \in {"new", "building", "built", "waiting", "returned"}
    /\ worker \in [Workers -> {"none", "receiving", "running", "exited"}]
    /\ task \in [Workers -> Tasks \cup {NoTask}]
    /\ producer \in [Producers -> {"idle", "sending", "panicked"}]
    /\ item \in [Producers -> Tasks \cup {NoTask}]
    /\ added \in 0..MaxTasks
    /\ sent \subseteq Tasks /\ executed \subseteq Tasks

\* When Wait returns, every worker has exited and every task whose Add
\* returned was executed, those still buffered at the close included.
WaitedForAll ==
    main = "returned" =>
        /\ \A i \in Workers : worker[i] = "exited"
        /\ executed = sent

Buffered == {channel[n] : n \in 1..Len(channel)}
Running  == {task[i] : i \in {j \in Workers : worker[j] = "running"}}

\* The pool as the set of tasks its users see.
Promise == INSTANCE TaskSet
    WITH pending <- Buffered \cup Running,
         done    <- executed,
         state   <- IF main = "returned" THEN "returned"
                    ELSE IF main = "waiting" THEN "closed" ELSE "open"

\* The pool does what it promises: no task is lost or executed twice, every
\* submitted one is executed, and Wait returns after the last of them.
KeepsPromise == Promise!Spec
=============================================================================

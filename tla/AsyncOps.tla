------------------------------ MODULE AsyncOps ------------------------------
(***************************************************************************)
(* Asynchronous placements: Engine::submit, wait_for and cancel, the       *)
(* thread pool that runs them (src/src/thread_pool.cpp), and opening and   *)
(* shutting down the engine around it.                                     *)
(*                                                                         *)
(* A step is what a thread does while it holds one mutex; between two      *)
(* steps any other thread may run.  A thread that waits on a condition     *)
(* variable stays there until it is notified.  One thread, the owner,      *)
(* opens and shuts down the engine.  Callers know an operation's id only   *)
(* once submit has returned it.  A placement is one step, with either      *)
(* result; Placement and Lifecycle say what it does.                       *)
(***************************************************************************)
EXTENDS Naturals, Sequences, FiniteSets

CONSTANTS
  Client,           \* caller threads
  Worker,           \* the threads of a pool that is not in inline mode
  MaxQueue,         \* max_queue_depth
  MaxOperations     \* the largest EngineConfig::max_requests

\* Bound of the exploration: operation ids.
CONSTANT MaxIds

ASSUME AsyncOpsAssumption ==
  /\ IsFiniteSet(Client) /\ IsFiniteSet(Worker) /\ Client \cap Worker = {}
  /\ Worker # {}
  /\ MaxQueue \in Nat \ {0} /\ MaxOperations \in Nat
  /\ MaxIds \in Nat

VARIABLES
  config,           \* no workers (inline), and max_requests
  open,             \* Impl::open
  owner,            \* what the owner does next
  stop, running, queue,                \* ThreadPool
  pc,               \* what each client and worker does next
  job,              \* the operation it works on or waits for
  operation,        \* every AsyncOperation ever made, by id
  table,            \* the ids in Impl::operations
  known             \* ids that submit has returned

pool == <<stop, running, queue>>
vars == <<config, open, owner, pool, pc, job, operation, table, known>>

Thread == Client \cup Worker
Config == [inline: BOOLEAN, max_requests: 1..MaxOperations]
Settled == {"Completed", "Cancelled", "Rejected"}
Id == 1..MaxIds
Operation == [state: {"Pending", "Running"} \cup Settled,
              cancel_requested: BOOLEAN, result: {"None", "Accepted", "Refused"}]
NewOperation == [state |-> "Pending", cancel_requested |-> FALSE, result |-> "None"]
IsTerminal(i) == operation[i].state \in Settled

\* Thread t goes on to the given step.
Goto(t, step) == pc' = [pc EXCEPT ![t] = step]
\* ... and is done with its operation.
Leaves(t, step) == Goto(t, step) /\ job' = [job EXCEPT ![t] = 0]

-----------------------------------------------------------------------------
Init ==
  /\ config \in Config
  /\ open = FALSE /\ owner = "Down"
  /\ stop = FALSE /\ running = FALSE /\ queue = <<>>
  /\ pc = [t \in Thread |-> IF t \in Client THEN "Idle" ELSE "Exited"]
  /\ job = [t \in Thread |-> 0]
  /\ operation = <<>> /\ table = {} /\ known = {}

-----------------------------------------------------------------------------
(* The owner. *)

OpenEngine ==
  /\ owner = "Down"
  /\ open' = TRUE
  /\ owner' = "StartPool"
  /\ UNCHANGED <<config, pool, pc, job, operation, table, known>>

\* ThreadPool::start, after the lock of open() has been released.  The pool is
\* not running, so that the shutdown() it begins with does nothing.
StartPool ==
  /\ owner = "StartPool"
  /\ running' = TRUE /\ stop' = FALSE /\ queue' = <<>>
  /\ pc' = [t \in Thread |-> IF t \in Worker /\ ~config.inline THEN "Ready" ELSE pc[t]]
  /\ owner' = "Up"
  /\ UNCHANGED <<config, open, job, operation, table, known>>

\* Engine::shutdown notes that it is shutting down and calls the pool's.
StopPool ==
  /\ owner = "Up"
  /\ stop' = TRUE
  /\ owner' = "WakePool"
  /\ UNCHANGED <<config, open, running, queue, pc, job, operation, table, known>>

\* The workers that wait on queue_ready_.  Faulty definitions, here and below, are
\* the definition that follows with one mistake; each breaks a property.
FaultyWaitingWorkers == {}
WaitingWorkers == {w \in Worker : pc[w] = "Waiting"}

FaultyNotifyAll(S) == [t \in Thread |->
  IF t \in S /\ t = CHOOSE w \in S : TRUE THEN "Ready" ELSE pc[t]]
NotifyAll(S) == [t \in Thread |-> IF t \in S THEN "Ready" ELSE pc[t]]

WakePool ==
  /\ owner = "WakePool"
  /\ pc' = NotifyAll(WaitingWorkers)
  /\ owner' = "JoinPool"
  /\ UNCHANGED <<config, open, pool, job, operation, table, known>>

\* Every worker has been joined.
JoinPool ==
  /\ owner = "JoinPool"
  /\ \A w \in Worker : pc[w] = "Exited"
  /\ owner' = "DrainPool"
  /\ UNCHANGED <<config, open, pool, pc, job, operation, table, known>>

\* The loop that runs what is left in the queue finds it empty (NoJobLeftBehind).
DrainPool ==
  /\ owner = "DrainPool"
  /\ queue = <<>>
  /\ running' = FALSE /\ stop' = FALSE /\ queue' = <<>>
  /\ owner' = "CloseEngine"
  /\ UNCHANGED <<config, open, pc, job, operation, table, known>>

CloseEngine ==
  /\ owner = "CloseEngine"
  /\ open' = FALSE
  /\ owner' = "Down"
  /\ UNCHANGED <<config, pool, pc, job, operation, table, known>>

-----------------------------------------------------------------------------
(* ThreadPool::worker_loop *)

FaultyMayExit == stop
MayExit == stop /\ queue = <<>>

WorkerTakes(w) ==
  /\ pc[w] = "Ready" /\ queue # <<>> /\ ~MayExit
  /\ job' = [job EXCEPT ![w] = Head(queue)]
  /\ queue' = Tail(queue)
  /\ Goto(w, "Begin")
  /\ UNCHANGED <<config, open, owner, stop, running, operation, table, known>>

WorkerWaits(w) ==
  /\ pc[w] = "Ready" /\ queue = <<>> /\ ~stop
  /\ Goto(w, "Waiting")
  /\ UNCHANGED <<config, open, owner, pool, job, operation, table, known>>

WorkerExits(w) ==
  /\ pc[w] = "Ready" /\ MayExit
  /\ Goto(w, "Exited")
  /\ UNCHANGED <<config, open, owner, pool, job, operation, table, known>>

-----------------------------------------------------------------------------
(* The job submit() queues, run by a worker, or by its caller in inline mode. *)

\* What the job makes of its operation when it begins.
FaultyBegun(o) == [o EXCEPT !.state = "Running"]
Begun(o) == [o EXCEPT !.state = IF o.cancel_requested THEN "Cancelled" ELSE "Running"]

BeginJob(t) ==
  /\ pc[t] = "Begin"
  /\ operation' = [operation EXCEPT ![job[t]] = Begun(@)]
  /\ Goto(t, IF operation'[job[t]].state = "Running" THEN "Place" ELSE "Notify")
  /\ UNCHANGED <<config, open, owner, pool, job, table, known>>

\* place() is refused when the engine is not open.
PlaceJob(t) ==
  /\ pc[t] = "Place"
  /\ \E r \in {"Accepted", "Refused"} :
       /\ r = "Accepted" => open
       /\ operation' = [operation EXCEPT ![job[t]].result = r]
  /\ Goto(t, "Publish")
  /\ UNCHANGED <<config, open, owner, pool, job, table, known>>

PublishJob(t) ==
  /\ pc[t] = "Publish"
  /\ operation' = [operation EXCEPT ![job[t]].state =
                     IF operation[job[t]].result = "Accepted" THEN "Completed" ELSE "Rejected"]
  /\ Goto(t, "Notify")
  /\ UNCHANGED <<config, open, owner, pool, job, table, known>>

FaultyWaitersFor(i) == {c \in Client : pc[c] = "Blocked" /\ job[c] = i /\ i \in table}
WaitersFor(i) == {c \in Client : pc[c] = "Blocked" /\ job[c] = i}

\* The waiters are woken, and the thread is done: a worker looks for its next
\* job, and in inline mode submit() returns.
NotifyJob(t) ==
  /\ pc[t] = "Notify"
  /\ pc' = [u \in Thread |->
              CASE u = t -> IF t \in Worker THEN "Ready" ELSE "Idle"
                [] u \in WaitersFor(job[t]) -> "Check"
                [] OTHER -> pc[u]]
  /\ known' = IF t \in Client THEN known \cup {job[t]} ELSE known
  /\ job' = [job EXCEPT ![t] = 0]
  /\ UNCHANGED <<config, open, owner, pool, operation, table>>

-----------------------------------------------------------------------------
(* Engine::submit *)

Submit(c) ==
  /\ pc[c] = "Idle" /\ open
  /\ Len(operation) < MaxIds
  /\ Goto(c, "Register")
  /\ UNCHANGED <<config, open, owner, pool, job, operation, table, known>>

FaultyEvicted ==
  {i \in table : Cardinality({j \in table : j < i}) < Cardinality(table) + 1 - config.max_requests}
\* The terminal operations with the lowest ids are evicted until there is room.
Evicted ==
  LET terminal == {i \in table : IsTerminal(i)}
      excess == Cardinality(table) + 1 - config.max_requests
  IN  {i \in terminal : Cardinality({j \in terminal : j < i}) < excess}

\* With no room, or once the ids of the exploration are used up, the request is
\* refused and has no operation.
Register(c) ==
  /\ pc[c] = "Register"
  /\ IF Cardinality(table \ Evicted) < config.max_requests /\ Len(operation) < MaxIds
     THEN /\ operation' = Append(operation, NewOperation)
          /\ table' = (table \ Evicted) \cup {Len(operation')}
          /\ job' = [job EXCEPT ![c] = Len(operation')]
          /\ Goto(c, "Enqueue")
     ELSE /\ table' = table \ Evicted
          /\ Goto(c, "Idle")
          /\ UNCHANGED <<operation, job>>
  /\ UNCHANGED <<config, open, owner, pool, known>>

FaultyAccepts == running /\ ~stop
Accepts == running /\ ~stop /\ Len(queue) < MaxQueue

\* try_submit: notify_one wakes one of the workers that wait, if any does.
Enqueue(c) ==
  /\ pc[c] = "Enqueue" /\ ~(config.inline /\ running)
  /\ Accepts
  /\ queue' = Append(queue, job[c])
  /\ known' = known \cup {job[c]}
  /\ IF WaitingWorkers = {} THEN Goto(c, "Idle")
     ELSE \E w \in WaitingWorkers : pc' = [pc EXCEPT ![c] = "Idle", ![w] = "Ready"]
  /\ job' = [job EXCEPT ![c] = 0]
  /\ UNCHANGED <<config, open, owner, stop, running, operation, table>>

RunInline(c) ==
  /\ pc[c] = "Enqueue" /\ config.inline /\ running
  /\ Goto(c, "Begin")
  /\ UNCHANGED <<config, open, owner, pool, job, operation, table, known>>

NotQueued(c) ==
  /\ pc[c] = "Enqueue" /\ ~(config.inline /\ running)
  /\ ~Accepts
  /\ Goto(c, "Reject")
  /\ UNCHANGED <<config, open, owner, pool, job, operation, table, known>>

\* The id is returned all the same.  Nobody is notified.
Reject(c) ==
  /\ pc[c] = "Reject"
  /\ operation' = IF job[c] \in table
                  THEN [operation EXCEPT ![job[c]].state = "Rejected"] ELSE operation
  /\ known' = known \cup {job[c]}
  /\ Leaves(c, "Idle")
  /\ UNCHANGED <<config, open, owner, pool, table>>

-----------------------------------------------------------------------------
(* Engine::wait_for and Engine::cancel.  poll only reads. *)

WaitFor(c, i) ==
  /\ pc[c] = "Idle"
  /\ i \in known \cap table
  /\ Goto(c, "Check")
  /\ job' = [job EXCEPT ![c] = i]
  /\ UNCHANGED <<config, open, owner, pool, operation, table, known>>

Check(c) ==
  /\ pc[c] = "Check"
  /\ IF IsTerminal(job[c]) THEN Leaves(c, "Idle")
                           ELSE Goto(c, "Blocked") /\ UNCHANGED job
  /\ UNCHANGED <<config, open, owner, pool, operation, table, known>>

\* Accepted only while the operation is pending.
Cancel(c, i) ==
  /\ pc[c] = "Idle"
  /\ i \in known \cap table
  /\ operation[i].state = "Pending"
  /\ operation' = [operation EXCEPT ![i].cancel_requested = TRUE]
  /\ UNCHANGED <<config, open, owner, pool, pc, job, table, known>>

-----------------------------------------------------------------------------
OwnerStep == StartPool \/ WakePool \/ JoinPool \/ DrainPool \/ CloseEngine
WorkerStep(w) == \/ WorkerTakes(w) \/ WorkerWaits(w) \/ WorkerExits(w)
JobStep(t) == BeginJob(t) \/ PlaceJob(t) \/ PublishJob(t) \/ NotifyJob(t)
CallStep(c) == \/ Register(c) \/ Enqueue(c) \/ RunInline(c) \/ NotQueued(c)
               \/ Reject(c) \/ Check(c)

Next ==
  \/ OpenEngine \/ StopPool \/ OwnerStep
  \/ \E w \in Worker : WorkerStep(w)
  \/ \E t \in Thread : JobStep(t)
  \/ \E c \in Client : Submit(c) \/ CallStep(c)
  \/ \E c \in Client, i \in Id : WaitFor(c, i) \/ Cancel(c, i)

\* The operating system runs every thread that can run.  Nobody has to open,
\* shut down, submit, wait or cancel.
Fairness ==
  /\ WF_vars(OwnerStep)
  /\ \A w \in Worker : WF_vars(WorkerStep(w))
  /\ \A t \in Thread : WF_vars(JobStep(t))
  /\ \A c \in Client : WF_vars(CallStep(c))

Spec == Init /\ [][Next]_vars /\ Fairness

-----------------------------------------------------------------------------
(* Properties. *)

\* Threads, queue and operation table are well formed.
TypeOK ==
  /\ config \in Config /\ open \in BOOLEAN /\ stop \in BOOLEAN /\ running \in BOOLEAN
  /\ \A i \in DOMAIN operation : operation[i] \in Operation
  /\ Len(operation) <= MaxIds
  /\ table \subseteq DOMAIN operation /\ known \subseteq DOMAIN operation
  /\ Cardinality(table) <= config.max_requests
  /\ \A n \in DOMAIN queue : queue[n] \in DOMAIN operation
  /\ Len(queue) <= MaxQueue
  /\ job \in [Thread -> {0} \cup DOMAIN operation]

\* An operation whose cancellation was accepted is never placed: cancel() accepts
\* only while the job has not begun, and the job looks for it when it begins.  A
\* cancel of a settled operation is answered as accepted too, with no change; it
\* asks for nothing, and its operation may have been placed.
CancelIsHonoured ==
  \A i \in DOMAIN operation :
    operation[i].cancel_requested => operation[i].result = "None"

\* When the workers have been joined nothing is left in the queue: no job is
\* queued once stop_ is set, and no worker leaves while there is one.
NoJobLeftBehind == owner \in {"DrainPool", "CloseEngine", "Down"} => queue = <<>>

\* An operation is in exactly one place until it is settled: in the queue, in
\* the hands of one thread, never in two and never lost.
OneJobPerOperation ==
  \A i \in DOMAIN operation :
    Cardinality({n \in DOMAIN queue : queue[n] = i})
      + Cardinality({t \in Thread : job[t] = i /\ pc[t] \notin {"Check", "Blocked", "Notify"}})
      = IF IsTerminal(i) THEN 0 ELSE 1

\* Every operation that was registered is settled, whatever the owner does.
EveryOperationSettles ==
  \A i \in Id : [](i \in DOMAIN operation => <>(i \in DOMAIN operation /\ IsTerminal(i)))

\* Every wait_for returns, also when the pool is shut down meanwhile.
WaitersReturn == \A c \in Client : pc[c] = "Blocked" ~> pc[c] = "Idle"

\* Engine::shutdown returns: the workers it joins all leave.
ShutdownCompletes == owner = "WakePool" ~> owner = "Down"

=============================================================================

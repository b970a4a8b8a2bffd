--------------------------- MODULE AsyncOpsProofs ---------------------------
(***************************************************************************)
(* Proofs about the safety of AsyncOps, for any callers, workers and       *)
(* sizes: no operation is run twice or lost, an accepted cancellation is   *)
(* honoured, and shutting down leaves no job behind.                       *)
(***************************************************************************)
EXTENDS AsyncOps, TLAPS

\* Each leaf is tried with SMT, then with Zenon, then with SMT and more time.
USE SMTT(30), ZenonT(90), SMTT(60), SMTT(90)

-----------------------------------------------------------------------------
(* The inductive invariant. *)

\* The steps of a client and of a worker, those with no operation in hand, those
\* with one that is yet to be settled, and the steps of the owner.
ClientStep == {"Idle", "Register", "Enqueue", "Reject", "Begin", "Place", "Publish",
               "Notify", "Check", "Blocked"}
PoolStep == {"Exited", "Ready", "Waiting", "Begin", "Place", "Publish", "Notify"}
Free == {"Idle", "Register", "Exited", "Ready", "Waiting"}
Holding == {"Enqueue", "Reject", "Begin", "Place", "Publish"}
Owner == {"Down", "StartPool", "Up", "WakePool", "JoinPool", "DrainPool", "CloseEngine"}

\* Everything has its type, but for the number of operations in the table.
Types ==
  /\ config \in Config /\ open \in BOOLEAN /\ stop \in BOOLEAN /\ running \in BOOLEAN
  /\ owner \in Owner
  /\ pc \in [Thread -> ClientStep \cup PoolStep] /\ job \in [Thread -> Nat]
  /\ operation \in Seq(Operation) /\ Len(operation) <= MaxIds
  /\ queue \in Seq(Nat) /\ Len(queue) <= MaxQueue
  /\ table \subseteq DOMAIN operation /\ known \subseteq DOMAIN operation

\* Each thread is at one of its own steps, with an operation where it needs one.
Threads ==
  /\ \A c \in Client : pc[c] \in ClientStep
  /\ \A w \in Worker : pc[w] \in PoolStep
  /\ \A t \in Thread : pc[t] \in Free => job[t] = 0
  /\ \A t \in Thread : pc[t] \notin Free => job[t] \in DOMAIN operation

\* What the owner has done to the pool.  A worker leaves only when a stop was
\* requested and the queue is empty, and then the queue stays empty.
Owned ==
  /\ owner \in {"Down", "StartPool", "CloseEngine"} => ~running /\ queue = <<>>
  /\ owner \in {"WakePool", "JoinPool", "DrainPool"} => stop
  /\ stop => owner \in {"WakePool", "JoinPool", "DrainPool"}
  /\ owner \in {"Down", "StartPool", "CloseEngine", "DrainPool"} =>
       \A w \in Worker : pc[w] = "Exited"
  /\ config.inline => queue = <<>> /\ \A w \in Worker : pc[w] = "Exited"
  /\ (\E w \in Worker : pc[w] = "Exited") => queue = <<>>
  /\ ~config.inline /\ owner = "Up" => \A w \in Worker : pc[w] # "Exited"

\* What is queued or in hand is not settled, and is in the table.
Unsettled ==
  /\ \A n \in DOMAIN queue :
       queue[n] \in DOMAIN operation /\ operation[queue[n]].state = "Pending"
  /\ \A t \in Thread :
       /\ pc[t] \in {"Enqueue", "Reject", "Begin"} => operation[job[t]].state = "Pending"
       /\ pc[t] \in {"Place", "Publish"} => operation[job[t]].state = "Running"
  /\ \A i \in DOMAIN operation : ~IsTerminal(i) => i \in table

\* A job looks for a cancellation before it runs, and none is accepted after.
Cancellable ==
  \A i \in DOMAIN operation :
    /\ operation[i].state = "Pending" => operation[i].result = "None"
    /\ operation[i].state = "Running" => ~operation[i].cancel_requested
    /\ operation[i].cancel_requested => operation[i].result = "None"

\* An operation is never in two places, and in one until it is settled.
Single ==
  /\ \A n, m \in DOMAIN queue : queue[n] = queue[m] => n = m
  /\ \A t, u \in Thread :
       pc[t] \in Holding /\ pc[u] \in Holding /\ job[t] = job[u] => t = u
  /\ \A n \in DOMAIN queue, t \in Thread : pc[t] \in Holding => job[t] # queue[n]
Somewhere ==
  \A i \in DOMAIN operation :
    IsTerminal(i) \/ (\E n \in DOMAIN queue : queue[n] = i)
                  \/ (\E t \in Thread : pc[t] \in Holding /\ job[t] = i)

AsyncInv == /\ Types /\ Threads /\ Owned /\ Unsettled /\ Cancellable
            /\ Single /\ Somewhere

-----------------------------------------------------------------------------
(* Sequences and operations. *)

\* Replacing one element of a sequence.
LEMMA Replaced ==
  ASSUME NEW S, NEW s \in Seq(S), NEW i \in DOMAIN s, NEW e \in S
  PROVE  LET r == [s EXCEPT ![i] = e] IN
         /\ r \in Seq(S) /\ Len(r) = Len(s) /\ DOMAIN r = DOMAIN s
         /\ r[i] = e /\ \A j \in DOMAIN s \ {i} : r[j] = s[j]
  OBVIOUS

\* Appending an element to a sequence.
LEMMA Extended ==
  ASSUME NEW S, NEW s \in Seq(S), NEW e \in S
  PROVE  LET r == Append(s, e) IN
         /\ r \in Seq(S) /\ Len(r) = Len(s) + 1 /\ DOMAIN s = 1..Len(s)
         /\ DOMAIN r = 1..(Len(s) + 1) /\ Len(s) \in Nat
         /\ r[Len(s) + 1] = e /\ \A j \in 1..Len(s) : r[j] = s[j]
  OBVIOUS

\* Taking the first element of a sequence.
LEMMA Shortened ==
  ASSUME NEW S, NEW s \in Seq(S), s # <<>>
  PROVE  /\ Tail(s) \in Seq(S) /\ Head(s) = s[1] /\ 1 \in DOMAIN s /\ DOMAIN s = 1..Len(s)
         /\ Len(s) \in Nat /\ Len(Tail(s)) = Len(s) - 1 /\ DOMAIN Tail(s) = 1..(Len(s) - 1)
         /\ \A j \in 1..(Len(s) - 1) : Tail(s)[j] = s[j + 1]
  OBVIOUS

\* Client and worker threads are different threads.
LEMMA ThreadKinds ==
  /\ \A t : t \in Thread <=> t \in Client \/ t \in Worker
  /\ \A t : ~(t \in Client /\ t \in Worker)
  BY AsyncOpsAssumption DEF Thread

\* The fields of an operation.
LEMMA OperationFields ==
  ASSUME Types, NEW i \in DOMAIN operation
  PROVE  /\ operation[i] \in Operation
         /\ operation[i].state \in {"Pending", "Running"} \cup Settled
         /\ operation[i].cancel_requested \in BOOLEAN
         /\ operation[i].result \in {"None", "Accepted", "Refused"}
<1>1. operation[i] \in Operation
  BY DEF Types
<1> QED
  BY <1>1 DEF Operation

-----------------------------------------------------------------------------
(* What the parts of the invariant need. *)

\* What an action makes of the operation of a thread.
LEMMA InHand ==
  ASSUME AsyncInv, NEW t \in Thread, pc[t] \in Holding
  PROVE  /\ job[t] \in DOMAIN operation /\ job[t] \in Nat /\ job[t] \in table
         /\ operation[job[t]] \in Operation
         /\ operation[job[t]].cancel_requested \in BOOLEAN
         /\ operation[job[t]].result \in {"None", "Accepted", "Refused"}
         /\ operation[job[t]].cancel_requested => operation[job[t]].result = "None"
         /\ known \subseteq DOMAIN operation /\ job = [job EXCEPT ![t] = job[t]]
<1>1. job[t] \in DOMAIN operation
  BY DEF AsyncInv, Threads, Holding, Free
<1>2. job[t] \in Nat /\ known \subseteq DOMAIN operation /\ job = [job EXCEPT ![t] = job[t]]
  BY DEF AsyncInv, Types
<1>3. operation[job[t]].state \in {"Pending", "Running"}
  BY DEF AsyncInv, Unsettled, Holding
<1>4. job[t] \in table
  BY <1>1, <1>3 DEF AsyncInv, Unsettled, IsTerminal, Settled
<1>5. operation[job[t]].cancel_requested => operation[job[t]].result = "None"
  BY <1>1 DEF AsyncInv, Cancellable
<1> QED
  BY <1>1, <1>2, <1>4, <1>5, OperationFields DEF AsyncInv

\* The operations do not change, so that neither do their cancellations.
LEMMA SameCancellable ==
  ASSUME AsyncInv, operation' = operation
  PROVE  Cancellable'
  BY DEF AsyncInv, Cancellable

\* When the operations in hand stay in the same hands, nothing changes for them.
LEMMA SameHands ==
  ASSUME AsyncInv, UNCHANGED <<operation, queue, table>>,
         \A t \in Thread : /\ pc'[t] \in Holding <=> pc[t] \in Holding
                           /\ pc[t] \in Holding => job'[t] = job[t]
                           /\ pc'[t] \in {"Enqueue", "Reject", "Begin"} =>
                                pc[t] \in {"Enqueue", "Reject", "Begin"}
                           /\ pc'[t] \in {"Place", "Publish"} => pc[t] \in {"Place", "Publish"}
  PROVE  Unsettled' /\ Cancellable' /\ Single' /\ Somewhere'
<1>1. \A t \in Thread : pc[t] \in {"Enqueue", "Reject", "Begin"} \cup {"Place", "Publish"}
                          => pc[t] \in Holding
  BY DEF Holding
<1>2. Unsettled'
  BY <1>1 DEF AsyncInv, Unsettled, IsTerminal
<1>3. Cancellable'
  BY SameCancellable
<1>4. Single'
  BY DEF AsyncInv, Single
<1>5. Somewhere'
  BY DEF AsyncInv, Somewhere, IsTerminal
<1> QED
  BY <1>2, <1>3, <1>4, <1>5

\* The pool keeps its shape when a client moves and nothing is queued.
LEMMA ClientMoves ==
  ASSUME AsyncInv, NEW c \in Client, \A u \in Thread \ {c} : pc'[u] = pc[u],
         UNCHANGED <<config, owner, stop, running, queue>>
  PROVE  Owned'
<1>1. \A w \in Worker : pc'[w] = pc[w]
  BY ThreadKinds
<1> QED
  BY <1>1 DEF AsyncInv, Owned

-----------------------------------------------------------------------------
(* Operations are made, queued and taken. *)

\* Only settled operations are evicted from the table.
LEMMA EvictsSettled == \A i \in Evicted : i \in table /\ IsTerminal(i)
  BY DEF Evicted

\* submit() registers a new operation.
LEMMA RegisterNewKeeps ==
  ASSUME AsyncInv, NEW c \in Client, Register(c),
         Cardinality(table \ Evicted) < config.max_requests /\ Len(operation) < MaxIds
  PROVE  AsyncInv'
<1> DEFINE k == Len(operation) + 1
<1>1. /\ pc \in [Thread -> ClientStep \cup PoolStep] /\ job \in [Thread -> Nat]
      /\ operation \in Seq(Operation) /\ c \in Thread /\ c \notin Worker
  BY ThreadKinds DEF AsyncInv, Types
<1>2. NewOperation \in Operation
  BY DEF NewOperation, Operation
<1>3. /\ pc[c] = "Register" /\ operation' = Append(operation, NewOperation)
      /\ table' = (table \ Evicted) \cup {Len(operation')}
      /\ job' = [job EXCEPT ![c] = Len(operation')] /\ Goto(c, "Enqueue")
      /\ UNCHANGED <<config, open, owner, stop, running, queue, known>>
  BY DEF Register, pool
<1>4. /\ operation' \in Seq(Operation) /\ Len(operation') = k /\ DOMAIN operation = 1..Len(operation)
      /\ DOMAIN operation' = 1..k /\ Len(operation) \in Nat
      /\ operation'[k] = NewOperation
      /\ \A j \in DOMAIN operation : operation'[j] = operation[j]
  BY <1>1, <1>2, <1>3, Extended
<1>5. /\ k \in Nat /\ k \notin DOMAIN operation /\ DOMAIN operation' = DOMAIN operation \cup {k}
      /\ k <= MaxIds
  BY <1>4, AsyncOpsAssumption
<1>6. /\ "Enqueue" \in ClientStep /\ "Enqueue" \notin Free /\ "Enqueue" \in Holding
      /\ "Register" \notin Holding
  BY DEF ClientStep, Free, Holding
<1> HIDE DEF k
<1>7. /\ pc' \in [Thread -> ClientStep \cup PoolStep] /\ job' \in [Thread -> Nat]
      /\ pc'[c] = "Enqueue" /\ job'[c] = k
      /\ \A u \in Thread \ {c} : pc'[u] = pc[u] /\ job'[u] = job[u]
  BY <1>1, <1>3, <1>4, <1>5, <1>6 DEF Goto
<1>8. Types'
  <2>1. table' \subseteq DOMAIN operation' /\ known' \subseteq DOMAIN operation'
    BY <1>3, <1>4, <1>5 DEF AsyncInv, Types
  <2> QED
    BY <1>3, <1>4, <1>5, <1>7, <2>1 DEF AsyncInv, Types
<1>9. Threads'
  <2>1. \A u \in Thread : /\ pc'[u] \in Free => job'[u] = 0
                          /\ pc'[u] \notin Free => job'[u] \in DOMAIN operation'
    BY <1>5, <1>6, <1>7 DEF AsyncInv, Threads
  <2>2. \A u \in Thread : /\ u \in Client => pc'[u] \in ClientStep
                          /\ u \in Worker => pc'[u] \in PoolStep
    BY <1>1, <1>6, <1>7 DEF AsyncInv, Threads
  <2> QED
    BY <2>1, <2>2, ThreadKinds DEF Threads
<1>10. Owned'
  BY <1>3, <1>7, ClientMoves
<1>new. /\ DOMAIN operation' = DOMAIN operation \cup {k} /\ k \notin DOMAIN operation
        /\ operation'[k] = NewOperation
        /\ \A j \in DOMAIN operation : operation'[j] = operation[j]
  BY ZenonT(90), <1>4, <1>5
<1>table. table' = (table \ Evicted) \cup {k} /\ queue' = queue
  BY <1>3, <1>4
<1>11. /\ \A u \in Thread : pc[u] \in Holding => job[u] \in DOMAIN operation
       /\ \A n \in DOMAIN queue : queue[n] \in DOMAIN operation
  BY DEF AsyncInv, Threads, Unsettled, Holding, Free
<1>12. Unsettled'
  <2>1. \A n \in DOMAIN queue :
          queue[n] \in DOMAIN operation' /\ operation'[queue[n]].state = "Pending"
    BY <1>new, <1>11 DEF AsyncInv, Unsettled
  <2>2. \A u \in Thread :
          /\ pc'[u] \in {"Enqueue", "Reject", "Begin"} => operation'[job'[u]].state = "Pending"
          /\ pc'[u] \in {"Place", "Publish"} => operation'[job'[u]].state = "Running"
    <3>1. NewOperation.state = "Pending"
      BY DEF NewOperation
    <3>2. \A u \in Thread \ {c} :
            pc[u] \in {"Enqueue", "Reject", "Begin", "Place", "Publish"} =>
              operation'[job[u]] = operation[job[u]]
      BY <1>new, <1>11 DEF Holding
    <3>3. ASSUME NEW u \in Thread \ {c}
          PROVE  /\ pc'[u] \in {"Enqueue", "Reject", "Begin"} =>
                      operation'[job'[u]].state = "Pending"
                 /\ pc'[u] \in {"Place", "Publish"} => operation'[job'[u]].state = "Running"
      <4>1. pc'[u] = pc[u] /\ job'[u] = job[u]
        BY <1>7
      <4> QED
        BY <3>2, <4>1 DEF AsyncInv, Unsettled
    <3>4. pc'[c] = "Enqueue" /\ operation'[job'[c]].state = "Pending"
      BY <1>new, <1>7, <3>1
    <3> QED
      BY <3>3, <3>4
  <2>3. \A j \in DOMAIN operation' : operation'[j].state \notin Settled => j \in table'
    BY <1>new, <1>table, EvictsSettled DEF AsyncInv, Unsettled, IsTerminal
  <2> QED
    BY <1>table, <2>1, <2>2, <2>3 DEF Unsettled, IsTerminal
<1>13. Cancellable'
  <2>1. NewOperation.result = "None" /\ NewOperation.state = "Pending"
    BY DEF NewOperation
  <2> QED
    BY <1>new, <2>1 DEF AsyncInv, Cancellable
<1>14. Single'
  <2>1. \A u, v \in Thread :
          pc'[u] \in Holding /\ pc'[v] \in Holding /\ job'[u] = job'[v] => u = v
    BY <1>5, <1>7, <1>11 DEF AsyncInv, Single
  <2>2. \A n \in DOMAIN queue, u \in Thread : pc'[u] \in Holding => job'[u] # queue[n]
    BY <1>5, <1>7, <1>11 DEF AsyncInv, Single
  <2> QED
    BY <1>table, <2>1, <2>2 DEF AsyncInv, Single
<1>15. Somewhere'
  <2> SUFFICES ASSUME NEW j \in DOMAIN operation', operation'[j].state \notin Settled
               PROVE  \/ \E n \in DOMAIN queue : queue[n] = j
                      \/ \E u \in Thread : pc'[u] \in Holding /\ job'[u] = j
    BY <1>table DEF Somewhere, IsTerminal
  <2>1. CASE j = k
    BY <1>1, <1>6, <1>7, <2>1
  <2>2. CASE j # k
    <3>1. \/ \E n \in DOMAIN queue : queue[n] = j
          \/ \E u \in Thread : pc[u] \in Holding /\ job[u] = j
      BY <1>new, <2>2 DEF AsyncInv, Somewhere, IsTerminal
    <3>2. \A u \in Thread : pc[u] \in Holding => u # c /\ pc'[u] = pc[u] /\ job'[u] = job[u]
      BY <1>3, <1>6, <1>7
    <3> QED
      BY <3>1, <3>2
  <2> QED
    BY <2>1, <2>2
<1> QED
  BY <1>8, <1>9, <1>10, <1>12, <1>13, <1>14, <1>15 DEF AsyncInv

\* submit() finds no room, and has evicted what it could.
LEMMA RegisterFullKeeps ==
  ASSUME AsyncInv, NEW c \in Client, Register(c),
         ~(Cardinality(table \ Evicted) < config.max_requests /\ Len(operation) < MaxIds)
  PROVE  AsyncInv'
<1>1. /\ pc \in [Thread -> ClientStep \cup PoolStep] /\ c \in Thread /\ c \notin Worker
  BY ThreadKinds DEF AsyncInv, Types
<1>2. /\ pc[c] = "Register" /\ table' = table \ Evicted /\ Goto(c, "Idle")
      /\ UNCHANGED <<config, open, owner, stop, running, queue, known, operation, job>>
  BY DEF Register, pool
<1>same. UNCHANGED <<config, open, owner, stop, running, queue, known, operation, job>>
  BY <1>2
<1>3. /\ "Idle" \in ClientStep /\ "Idle" \in Free /\ "Register" \in Free
      /\ "Idle" \notin Holding /\ "Register" \notin Holding
  BY DEF ClientStep, Free, Holding
<1>4. /\ pc' \in [Thread -> ClientStep \cup PoolStep] /\ pc'[c] = "Idle"
      /\ \A u \in Thread \ {c} : pc'[u] = pc[u]
  BY <1>1, <1>2, <1>3 DEF Goto
<1>5. Types'
  <2>1. table' \subseteq table
    BY <1>2
  <2> QED
    BY <1>same, <1>4, <2>1 DEF AsyncInv, Types
<1>6. Threads'
  <2>1. \A u \in Thread : pc'[u] \in Free <=> pc[u] \in Free
    BY <1>2, <1>3, <1>4
  <2>2. \A u \in Thread : /\ u \in Client => pc'[u] \in ClientStep
                          /\ u \in Worker => pc'[u] \in PoolStep
    BY <1>1, <1>3, <1>4 DEF AsyncInv, Threads
  <2> QED
    BY <1>same, <2>1, <2>2, ThreadKinds DEF AsyncInv, Threads
<1>7. Owned'
  BY <1>same, <1>4, ClientMoves
<1>8. \A u \in Thread : pc'[u] \in Holding <=> pc[u] \in Holding
  BY <1>2, <1>3, <1>4
<1>9. Unsettled'
  <2>1. \A u \in Thread :
          /\ pc'[u] \in {"Enqueue", "Reject", "Begin"} => operation[job[u]].state = "Pending"
          /\ pc'[u] \in {"Place", "Publish"} => operation[job[u]].state = "Running"
    BY <1>4 DEF AsyncInv, Unsettled
  <2>2. \A j \in DOMAIN operation : ~IsTerminal(j) => j \in table'
    BY <1>2, EvictsSettled DEF AsyncInv, Unsettled
  <2>3. \A n \in DOMAIN queue :
          queue[n] \in DOMAIN operation /\ operation[queue[n]].state = "Pending"
    BY DEF AsyncInv, Unsettled
  <2> QED
    BY <1>same, <2>1, <2>2, <2>3 DEF Unsettled, IsTerminal
<1>10. Cancellable'
  BY <1>same, SameCancellable
<1>11. Single'
  BY ZenonT(90), <1>same, <1>8 DEF AsyncInv, Single
<1>12. Somewhere'
  BY <1>same, <1>8 DEF AsyncInv, Somewhere, IsTerminal
<1> QED
  BY <1>5, <1>6, <1>7, <1>9, <1>10, <1>11, <1>12 DEF AsyncInv

\* try_submit takes the job: it goes from its caller's hands to the end of the queue.
LEMMA EnqueueKeeps ==
  ASSUME AsyncInv, NEW c \in Client, Enqueue(c)
  PROVE  AsyncInv'
<1> DEFINE i == job[c]
           k == Len(queue) + 1
<1>1. /\ pc \in [Thread -> ClientStep \cup PoolStep] /\ job \in [Thread -> Nat]
      /\ queue \in Seq(Nat) /\ c \in Thread /\ c \notin Worker
  BY ThreadKinds DEF AsyncInv, Types
<1>2. /\ pc[c] = "Enqueue" /\ running /\ ~stop /\ Len(queue) < MaxQueue /\ ~config.inline
      /\ queue' = Append(queue, i) /\ known' = known \cup {i} /\ job' = [job EXCEPT ![c] = 0]
      /\ UNCHANGED <<config, open, owner, stop, running, operation, table>>
  BY DEF Enqueue, Accepts
<1>3. owner = "Up" /\ \A w \in Worker : pc[w] # "Exited"
  <2>1. owner \in Owner
    BY DEF AsyncInv, Types
  <2> QED
    BY <1>2, <2>1 DEF AsyncInv, Owned, Owner
<1>4. /\ pc[c] \in Holding /\ "Idle" \in ClientStep /\ "Idle" \in Free /\ "Idle" \notin Holding
      /\ "Ready" \in PoolStep /\ "Ready" \in Free /\ "Ready" \notin Holding
      /\ "Waiting" \in Free /\ "Waiting" \notin Holding
  BY <1>2 DEF ClientStep, PoolStep, Free, Holding
<1>5. /\ i \in DOMAIN operation /\ i \in Nat /\ known \subseteq DOMAIN operation
      /\ operation[i].state = "Pending"
  BY <1>2, <1>4, <1>1, InHand DEF AsyncInv, Unsettled
<1>6. /\ pc' \in [Thread -> ClientStep \cup PoolStep] /\ pc'[c] = "Idle"
      /\ \A u \in Thread \ {c} :
           pc'[u] = pc[u] \/ (u \in Worker /\ pc[u] = "Waiting" /\ pc'[u] = "Ready")
  <2>1. CASE WaitingWorkers = {}
    BY <1>1, <1>4, <2>1 DEF Enqueue, Goto
  <2>2. CASE WaitingWorkers # {}
    <3>1. PICK w \in WaitingWorkers : pc' = [pc EXCEPT ![c] = "Idle", ![w] = "Ready"]
      BY <2>2 DEF Enqueue
    <3>2. w \in Worker /\ pc[w] = "Waiting" /\ w \in Thread /\ w # c
      BY <1>1, ThreadKinds DEF WaitingWorkers
    <3> QED
      BY <1>1, <1>4, <3>1, <3>2
  <2> QED
    BY <2>1, <2>2
<1>7. /\ job' \in [Thread -> Nat] /\ job'[c] = 0
      /\ \A u \in Thread \ {c} : job'[u] = job[u]
  BY <1>1, <1>2
<1>8. /\ queue' \in Seq(Nat) /\ Len(queue') = k /\ DOMAIN queue = 1..Len(queue)
      /\ DOMAIN queue' = 1..k /\ Len(queue) \in Nat
      /\ queue'[k] = i /\ \A n \in DOMAIN queue : queue'[n] = queue[n]
  BY <1>1, <1>2, <1>5, Extended
<1>9. /\ k \notin DOMAIN queue /\ DOMAIN queue' = DOMAIN queue \cup {k} /\ k <= MaxQueue
  BY <1>2, <1>8, AsyncOpsAssumption
<1> HIDE DEF k
<1>same. UNCHANGED <<config, open, owner, stop, running, operation, table>>
  BY <1>2
<1>grown. /\ DOMAIN queue' = DOMAIN queue \cup {k} /\ k \notin DOMAIN queue
          /\ queue'[k] = i /\ \A n \in DOMAIN queue : queue'[n] = queue[n]
  BY <1>8, <1>9
<1>10. Types'
  <2>1. known' \subseteq DOMAIN operation
    BY <1>2, <1>5
  <2> QED
    BY <1>same, <1>6, <1>7, <1>8, <1>9, <2>1 DEF AsyncInv, Types
<1>11. Threads'
  <2>1. \A u \in Thread : /\ pc'[u] \in Free => job'[u] = 0
                          /\ pc'[u] \notin Free => job'[u] \in DOMAIN operation
    BY <1>4, <1>6, <1>7 DEF AsyncInv, Threads
  <2>2. \A u \in Thread : /\ u \in Client => pc'[u] \in ClientStep
                          /\ u \in Worker => pc'[u] \in PoolStep
    BY <1>1, <1>4, <1>6, ThreadKinds DEF AsyncInv, Threads
  <2> QED
    BY <1>same, <2>1, <2>2, ThreadKinds DEF Threads
<1>12. Owned'
  <2>1. \A w \in Worker : pc'[w] # "Exited"
    BY <1>1, <1>3, <1>6, ThreadKinds
  <2> QED
    BY <1>same, <1>2, <1>3, <2>1 DEF AsyncInv, Owned
<1>13. /\ \A u \in Thread \ {c} : pc'[u] \in Holding => pc[u] \in Holding /\ pc'[u] = pc[u]
                                                       /\ job'[u] = job[u] /\ job[u] # i
       /\ \A u \in Thread \ {c} : pc[u] \in Holding => pc'[u] \in Holding /\ job'[u] = job[u]
       /\ pc'[c] \notin Holding
       /\ \A n \in DOMAIN queue : queue[n] # i
  <2>1. /\ \A u \in Thread \ {c} : pc[u] \in Holding => job[u] # i
        /\ \A n \in DOMAIN queue : queue[n] # i
    BY <1>1, <1>4 DEF AsyncInv, Single
  <2>2. \A u \in Thread \ {c} : (pc'[u] \in Holding \/ pc[u] \in Holding) => pc'[u] = pc[u]
    BY <1>4, <1>6
  <2> QED
    BY <1>4, <1>6, <1>7, <2>1, <2>2
<1>14. Unsettled'
  <2>1. \A n \in DOMAIN queue' :
          queue'[n] \in DOMAIN operation /\ operation[queue'[n]].state = "Pending"
    BY <1>5, <1>grown DEF AsyncInv, Unsettled
  <2>2. \A u \in Thread :
          /\ pc'[u] \in {"Enqueue", "Reject", "Begin"} => operation[job'[u]].state = "Pending"
          /\ pc'[u] \in {"Place", "Publish"} => operation[job'[u]].state = "Running"
    <3> SUFFICES ASSUME NEW u \in Thread, pc'[u] \in Holding
                 PROVE  /\ pc'[u] \in {"Enqueue", "Reject", "Begin"} =>
                             operation[job'[u]].state = "Pending"
                        /\ pc'[u] \in {"Place", "Publish"} =>
                             operation[job'[u]].state = "Running"
      BY DEF Holding
    <3>1. pc'[u] = pc[u] /\ job'[u] = job[u]
      BY <1>13
    <3> QED
      BY <3>1 DEF AsyncInv, Unsettled
  <2>3. \A j \in DOMAIN operation : ~IsTerminal(j) => j \in table
    BY DEF AsyncInv, Unsettled
  <2> QED
    BY <1>same, <2>1, <2>2, <2>3 DEF Unsettled, IsTerminal
<1>15. Cancellable'
  BY <1>same, SameCancellable
<1>16. Single'
  <2>1. \A n, m \in DOMAIN queue' : queue'[n] = queue'[m] => n = m
    BY <1>grown, <1>13 DEF AsyncInv, Single
  <2>2. \A u, v \in Thread :
          pc'[u] \in Holding /\ pc'[v] \in Holding /\ job'[u] = job'[v] => u = v
    <3>1. \A u \in Thread : pc'[u] \in Holding => pc[u] \in Holding /\ job'[u] = job[u]
      BY <1>13
    <3> QED
      BY <3>1 DEF AsyncInv, Single
  <2>3. ASSUME NEW n \in DOMAIN queue', NEW u \in Thread, pc'[u] \in Holding
        PROVE  job'[u] # queue'[n]
    <3>1. u # c /\ pc[u] \in Holding /\ job'[u] = job[u] /\ job[u] # i
      BY <1>13, <2>3
    <3>2. CASE n = k
      BY <1>grown, <3>1, <3>2
    <3>3. CASE n # k
      <4>1. n \in DOMAIN queue /\ queue'[n] = queue[n]
        BY <1>grown, <3>3
      <4> QED
        BY <3>1, <4>1 DEF AsyncInv, Single
    <3> QED
      BY <3>2, <3>3
  <2> QED
    BY <2>1, <2>2, <2>3 DEF Single
<1>17. Somewhere'
  <2> SUFFICES ASSUME NEW j \in DOMAIN operation, ~IsTerminal(j)
               PROVE  \/ \E n \in DOMAIN queue' : queue'[n] = j
                      \/ \E u \in Thread : pc'[u] \in Holding /\ job'[u] = j
    BY <1>same DEF Somewhere, IsTerminal
  <2>1. \/ \E n \in DOMAIN queue : queue[n] = j
        \/ \E u \in Thread : pc[u] \in Holding /\ job[u] = j
    BY DEF AsyncInv, Somewhere
  <2>2. CASE j = i
    BY <1>grown, <2>2
  <2>3. CASE j # i
    <3>1. CASE \E n \in DOMAIN queue : queue[n] = j
      BY <1>grown, <3>1
    <3>2. CASE \E u \in Thread : pc[u] \in Holding /\ job[u] = j
      BY <1>13, <2>3, <3>2
    <3> QED
      BY <2>1, <3>1, <3>2
  <2> QED
    BY <2>2, <2>3
<1> QED
  BY <1>10, <1>11, <1>12, <1>14, <1>15, <1>16, <1>17 DEF AsyncInv

\* worker_loop takes the first job of the queue in its hands.
LEMMA TakeKeeps ==
  ASSUME AsyncInv, NEW w \in Worker, WorkerTakes(w)
  PROVE  AsyncInv'
<1> DEFINE i == Head(queue)
<1>1. /\ pc \in [Thread -> ClientStep \cup PoolStep] /\ job \in [Thread -> Nat]
      /\ queue \in Seq(Nat) /\ w \in Thread /\ w \notin Client /\ Len(queue) <= MaxQueue
  BY ThreadKinds DEF AsyncInv, Types
<1>2. /\ pc[w] = "Ready" /\ queue # <<>> /\ job' = [job EXCEPT ![w] = i]
      /\ queue' = Tail(queue) /\ Goto(w, "Begin")
      /\ UNCHANGED <<config, open, owner, stop, running, operation, table, known>>
  BY DEF WorkerTakes
<1>3. /\ "Begin" \in PoolStep /\ "Begin" \notin Free /\ "Begin" \in Holding
      /\ "Ready" \notin Holding
  BY DEF PoolStep, Free, Holding
<1>4. /\ queue' \in Seq(Nat) /\ i = queue[1] /\ 1 \in DOMAIN queue /\ DOMAIN queue = 1..Len(queue)
      /\ Len(queue) \in Nat /\ Len(queue') = Len(queue) - 1
      /\ DOMAIN queue' = 1..(Len(queue) - 1)
      /\ \A n \in 1..(Len(queue) - 1) : queue'[n] = queue[n + 1]
  BY <1>1, <1>2, Shortened
<1>5. /\ \A n \in DOMAIN queue' : n + 1 \in DOMAIN queue /\ n + 1 # 1 /\ queue'[n] = queue[n + 1]
      /\ \A m \in DOMAIN queue \ {1} : m - 1 \in DOMAIN queue' /\ queue'[m - 1] = queue[m]
      /\ Len(queue') <= MaxQueue
  <2>1. Len(queue') <= MaxQueue
    BY <1>1, <1>4, AsyncOpsAssumption
  <2>2. \A n \in DOMAIN queue' : n + 1 \in DOMAIN queue /\ n + 1 # 1 /\ queue'[n] = queue[n + 1]
    BY <1>4
  <2>3. ASSUME NEW m \in DOMAIN queue \ {1}
        PROVE  m - 1 \in DOMAIN queue' /\ queue'[m - 1] = queue[m]
    <3>1. m \in Nat /\ m - 1 \in 1..(Len(queue) - 1) /\ (m - 1) + 1 = m
      BY <1>4
    <3> QED
      BY <1>4, <3>1
  <2> QED
    BY <2>1, <2>2, <2>3
<1>6. /\ i \in DOMAIN operation /\ i \in Nat /\ operation[i].state = "Pending"
      /\ \A u \in Thread : pc[u] \in Holding => job[u] # i
      /\ \A n \in DOMAIN queue' : queue'[n] # i
  <2>1. i \in Nat
    BY <1>1, <1>4
  <2>2. i \in DOMAIN operation /\ operation[i].state = "Pending"
    BY <1>4 DEF AsyncInv, Unsettled
  <2>3. \A u \in Thread : pc[u] \in Holding => job[u] # i
    BY <1>4 DEF AsyncInv, Single
  <2>4. \A n \in DOMAIN queue' : queue'[n] # i
    BY <1>4, <1>5 DEF AsyncInv, Single
  <2> QED
    BY <2>1, <2>2, <2>3, <2>4
<1>7. /\ pc' \in [Thread -> ClientStep \cup PoolStep] /\ job' \in [Thread -> Nat]
      /\ pc'[w] = "Begin" /\ job'[w] = i
      /\ \A u \in Thread \ {w} : pc'[u] = pc[u] /\ job'[u] = job[u]
  BY <1>1, <1>2, <1>3, <1>6 DEF Goto
<1> HIDE DEF i
<1>same. UNCHANGED <<config, open, owner, stop, running, operation, table, known>>
  BY <1>2
<1>8. Types'
  <2>1. queue' \in Seq(Nat) /\ Len(queue') <= MaxQueue
    BY <1>4, <1>5
  <2> QED
    BY <1>same, <1>7, <2>1 DEF AsyncInv, Types
<1>9. Threads'
  <2>1. \A u \in Thread : /\ pc'[u] \in Free => job'[u] = 0
                          /\ pc'[u] \notin Free => job'[u] \in DOMAIN operation
    BY <1>3, <1>6, <1>7 DEF AsyncInv, Threads
  <2>2. \A u \in Thread : /\ u \in Client => pc'[u] \in ClientStep
                          /\ u \in Worker => pc'[u] \in PoolStep
    BY ZenonT(90), <1>1, <1>3, <1>7, ThreadKinds DEF AsyncInv, Threads
  <2> QED
    BY <1>same, <2>1, <2>2, ThreadKinds DEF Threads
<1>10. Owned'
  <2>1. /\ ~config.inline /\ owner \notin {"Down", "StartPool", "CloseEngine", "DrainPool"}
        /\ \A v \in Worker : pc[v] # "Exited"
    BY <1>2 DEF AsyncInv, Owned
  <2>2. \A v \in Worker : pc'[v] # "Exited"
    BY <1>7, <2>1, ThreadKinds
  <2> QED
    BY <1>same, <2>1, <2>2 DEF AsyncInv, Owned
<1>11. Unsettled'
  <2>1. \A n \in DOMAIN queue' :
          queue'[n] \in DOMAIN operation /\ operation[queue'[n]].state = "Pending"
    <3>1. \A n \in DOMAIN queue' : \E m \in DOMAIN queue : queue'[n] = queue[m]
      BY <1>5
    <3> QED
      BY <3>1 DEF AsyncInv, Unsettled
  <2>2. \A u \in Thread :
          /\ pc'[u] \in {"Enqueue", "Reject", "Begin"} => operation[job'[u]].state = "Pending"
          /\ pc'[u] \in {"Place", "Publish"} => operation[job'[u]].state = "Running"
    <3>1. pc'[w] = "Begin" /\ operation[job'[w]].state = "Pending"
      BY <1>6, <1>7
    <3>2. \A u \in Thread \ {w} : pc'[u] = pc[u] /\ job'[u] = job[u]
      BY <1>7
    <3> QED
      BY <3>1, <3>2 DEF AsyncInv, Unsettled
  <2>3. \A j \in DOMAIN operation : ~IsTerminal(j) => j \in table
    BY DEF AsyncInv, Unsettled
  <2> QED
    BY <1>same, <2>1, <2>2, <2>3 DEF Unsettled, IsTerminal
<1>12. Cancellable'
  BY <1>same, SameCancellable
<1>13. Single'
  <2>1. \A n, m \in DOMAIN queue' : queue'[n] = queue'[m] => n = m
    <3> SUFFICES ASSUME NEW n \in DOMAIN queue', NEW m \in DOMAIN queue', queue'[n] = queue'[m]
                 PROVE  n = m
      OBVIOUS
    <3>1. n + 1 = m + 1
      BY <1>5 DEF AsyncInv, Single
    <3> QED
      BY <1>4, <3>1
  <2>2. \A u, v \in Thread :
          pc'[u] \in Holding /\ pc'[v] \in Holding /\ job'[u] = job'[v] => u = v
    BY <1>6, <1>7 DEF AsyncInv, Single
  <2>3. \A n \in DOMAIN queue', u \in Thread : pc'[u] \in Holding => job'[u] # queue'[n]
    BY <1>5, <1>6, <1>7 DEF AsyncInv, Single
  <2> QED
    BY <2>1, <2>2, <2>3 DEF Single
<1>14. Somewhere'
  <2> SUFFICES ASSUME NEW j \in DOMAIN operation, ~IsTerminal(j)
               PROVE  \/ \E n \in DOMAIN queue' : queue'[n] = j
                      \/ \E u \in Thread : pc'[u] \in Holding /\ job'[u] = j
    BY <1>same DEF Somewhere, IsTerminal
  <2>1. CASE j = i
    BY <1>1, <1>3, <1>7, <2>1
  <2>2. CASE j # i
    <3>1. CASE \E n \in DOMAIN queue : queue[n] = j
      <4>1. PICK n \in DOMAIN queue : queue[n] = j
        BY <3>1
      <4>2. n # 1
        BY <1>4, <2>2, <4>1
      <4> QED
        BY <1>5, <4>1, <4>2
    <3>2. CASE \E u \in Thread : pc[u] \in Holding /\ job[u] = j
      BY <1>2, <1>3, <1>7, <3>2
    <3> QED
      BY <3>1, <3>2 DEF AsyncInv, Somewhere
  <2> QED
    BY <2>1, <2>2
<1> QED
  BY <1>8, <1>9, <1>10, <1>11, <1>12, <1>13, <1>14 DEF AsyncInv

-----------------------------------------------------------------------------
(* Steps on one operation. *)

\* A thread takes the operation in its hands one step further, or settles it and has
\* it in its hands no longer.
LEMMA Progress ==
  ASSUME AsyncInv, NEW t \in Thread, pc[t] \in Holding, NEW o \in Operation,
         operation' = [operation EXCEPT ![job[t]] = o],
         NEW step \in ClientStep \cup PoolStep, Goto(t, step),
         t \in Client => step \in ClientStep, t \in Worker => step \in PoolStep,
         NEW n \in Nat, job' = [job EXCEPT ![t] = n],
         \/ step \in {"Place", "Publish"} /\ o.state = "Running" /\ n = job[t]
         \/ step = "Notify" /\ o.state \in Settled /\ n = job[t]
         \/ step = "Idle" /\ o.state \in Settled /\ n = 0,
         o.state = "Running" => ~o.cancel_requested,
         o.cancel_requested => o.result = "None",
         known' \subseteq DOMAIN operation,
         UNCHANGED <<config, open, owner, stop, running, queue, table>>
  PROVE  AsyncInv'
<1> DEFINE i == job[t]
<1>1. /\ pc \in [Thread -> ClientStep \cup PoolStep] /\ job \in [Thread -> Nat]
      /\ operation \in Seq(Operation) /\ i \in DOMAIN operation
  <2>1. pc[t] \notin Free
    BY DEF Holding, Free
  <2> QED
    BY <2>1 DEF AsyncInv, Types, Threads
<1>2. /\ operation' \in Seq(Operation) /\ Len(operation') = Len(operation)
      /\ DOMAIN operation' = DOMAIN operation /\ operation'[i] = o
      /\ \A j \in DOMAIN operation \ {i} : operation'[j] = operation[j]
  BY <1>1, Replaced
<1>3. /\ pc' \in [Thread -> ClientStep \cup PoolStep] /\ job' \in [Thread -> Nat]
      /\ pc'[t] = step /\ job'[t] = n
      /\ \A u \in Thread \ {t} : pc'[u] = pc[u] /\ job'[u] = job[u]
  BY <1>1 DEF Goto
<1>4. Types'
  BY <1>2, <1>3 DEF AsyncInv, Types
<1>5. Threads'
  <2>1. \A u \in Thread : /\ u \in Client => pc'[u] \in ClientStep
                          /\ u \in Worker => pc'[u] \in PoolStep
    BY <1>3, ThreadKinds DEF AsyncInv, Threads
  <2>2. (step \in Free => n = 0) /\ (step \notin Free => n = i)
    BY DEF Free
  <2>3. \A u \in Thread : /\ pc'[u] \in Free => job'[u] = 0
                          /\ pc'[u] \notin Free => job'[u] \in DOMAIN operation'
    BY <1>1, <1>2, <1>3, <2>2 DEF AsyncInv, Threads
  <2> QED
    BY <2>1, <2>3, ThreadKinds DEF Threads
<1>6. Owned'
  <2>1. \A w \in Worker : (pc'[w] = "Exited") <=> (pc[w] = "Exited")
    <3>1. pc[t] # "Exited" /\ step # "Exited"
      BY DEF Holding
    <3> QED
      BY <1>3, <3>1, ThreadKinds
  <2> QED
    BY <2>1 DEF AsyncInv, Owned
<1>7. /\ \A m \in DOMAIN queue : queue[m] # i
      /\ \A u \in Thread \ {t} : pc[u] \in Holding => job[u] # i
  BY DEF AsyncInv, Single
<1>8. \A u \in Thread \ {t} : pc'[u] \in Holding => /\ pc[u] \in Holding /\ job'[u] = job[u]
                                                   /\ job[u] # i
  BY <1>3, <1>7
<1>9. step \in Holding => n = i /\ o.state = "Running" /\ step \in {"Place", "Publish"}
  BY DEF Holding
<1>10. Unsettled'
  <2>1. \A m \in DOMAIN queue :
          queue[m] \in DOMAIN operation' /\ operation'[queue[m]].state = "Pending"
    BY <1>2, <1>7 DEF AsyncInv, Unsettled
  <2>2. ASSUME NEW u \in Thread
        PROVE  /\ pc'[u] \in {"Enqueue", "Reject", "Begin"} =>
                    operation'[job'[u]].state = "Pending"
               /\ pc'[u] \in {"Place", "Publish"} => operation'[job'[u]].state = "Running"
    <3>1. CASE u = t
      BY <1>2, <1>3, <3>1
    <3>2. CASE u # t /\ pc[u] \in Holding
      <4>1. job[u] \in DOMAIN operation \ {i} /\ job'[u] = job[u] /\ pc'[u] = pc[u]
        BY <1>3, <1>7, <3>2 DEF AsyncInv, Threads, Holding, Free
      <4> QED
        BY <1>2, <4>1 DEF AsyncInv, Unsettled
    <3>3. CASE u # t /\ pc[u] \notin Holding
      BY <1>3, <3>3 DEF Holding
    <3> QED
      BY <3>1, <3>2, <3>3
  <2>3. \A j \in DOMAIN operation' : operation'[j].state \notin Settled => j \in table
    <3>1. i \in table
      BY InHand
    <3> QED
      BY <1>2, <3>1 DEF AsyncInv, Unsettled, IsTerminal
  <2> QED
    BY <2>1, <2>2, <2>3 DEF Unsettled, IsTerminal
<1>11. Cancellable'
  <2>1. o.state # "Pending"
    BY DEF Settled
  <2> QED
    BY <1>2, <2>1 DEF AsyncInv, Cancellable
<1>12. Single'
  <2>1. \A u, v \in Thread :
          pc'[u] \in Holding /\ pc'[v] \in Holding /\ job'[u] = job'[v] => u = v
    BY <1>3, <1>8, <1>9 DEF AsyncInv, Single
  <2>2. \A m \in DOMAIN queue, u \in Thread : pc'[u] \in Holding => job'[u] # queue[m]
    BY <1>3, <1>7, <1>8, <1>9 DEF AsyncInv, Single
  <2> QED
    BY <2>1, <2>2 DEF AsyncInv, Single
<1>13. Somewhere'
  <2> SUFFICES ASSUME NEW j \in DOMAIN operation', operation'[j].state \notin Settled
               PROVE  \/ \E m \in DOMAIN queue : queue[m] = j
                      \/ \E u \in Thread : pc'[u] \in Holding /\ job'[u] = j
    BY DEF Somewhere, IsTerminal
  <2>1. CASE j = i
    BY <1>2, <1>3, <2>1 DEF Holding
  <2>2. CASE j # i
    <3>1. \/ \E m \in DOMAIN queue : queue[m] = j
          \/ \E u \in Thread : pc[u] \in Holding /\ job[u] = j
      BY <1>2, <2>2 DEF AsyncInv, Somewhere, IsTerminal
    <3> QED
      BY <1>3, <2>2, <3>1
  <2> QED
    BY <2>1, <2>2
<1> QED
  BY <1>4, <1>5, <1>6, <1>10, <1>11, <1>12, <1>13 DEF AsyncInv

\* The job begins: it runs, or finds that it was cancelled.
LEMMA BeginKeeps ==
  ASSUME AsyncInv, NEW t \in Thread, BeginJob(t)
  PROVE  AsyncInv'
<1> DEFINE old == operation[job[t]]
           new == Begun(old)
           step == IF new.state = "Running" THEN "Place" ELSE "Notify"
<1>1. pc[t] = "Begin" /\ pc[t] \in Holding
  BY DEF BeginJob, Holding
<1>2. /\ job[t] \in DOMAIN operation /\ job[t] \in Nat /\ old \in Operation
      /\ old.cancel_requested \in BOOLEAN /\ old.result \in {"None", "Accepted", "Refused"}
      /\ old.cancel_requested => old.result = "None"
      /\ known \subseteq DOMAIN operation /\ job = [job EXCEPT ![t] = job[t]]
  BY <1>1, InHand
<1>3. /\ new.cancel_requested = old.cancel_requested /\ new.result = old.result
      /\ new.state = IF old.cancel_requested THEN "Cancelled" ELSE "Running"
      /\ new \in Operation
  BY <1>2 DEF Begun, Operation, Settled
<1>4. operation' = [operation EXCEPT ![job[t]] = new]
  BY DEF BeginJob
<1>5. operation'[job[t]] = new
  BY <1>2, <1>4 DEF AsyncInv, Types
<1>6. Goto(t, step)
  BY <1>5 DEF BeginJob
<1>7. /\ UNCHANGED <<config, open, owner, stop, running, queue, table>>
      /\ known' = known /\ job' = job
  BY DEF BeginJob, pool
<1>8. step \in ClientStep /\ step \in PoolStep /\ "Cancelled" \in Settled
  BY DEF ClientStep, PoolStep, Settled
<1>9. /\ \/ step \in {"Place", "Publish"} /\ new.state = "Running"
         \/ step = "Notify" /\ new.state \in Settled
      /\ new.state = "Running" => ~new.cancel_requested
      /\ new.cancel_requested => new.result = "None"
  BY <1>2, <1>3, <1>8
<1> HIDE DEF new, step
<1> QED
  BY ZenonT(90), <1>1, <1>2, <1>3, <1>4, <1>6, <1>7, <1>8, <1>9, Progress

\* The job has been placed, with either result.
LEMMA PlaceKeeps ==
  ASSUME AsyncInv, NEW t \in Thread, PlaceJob(t)
  PROVE  AsyncInv'
<1> DEFINE old == operation[job[t]]
<1>1. pc[t] = "Place" /\ pc[t] \in Holding
  BY DEF PlaceJob, Holding
<1>2. /\ job[t] \in DOMAIN operation /\ job[t] \in Nat /\ old \in Operation
      /\ old.cancel_requested \in BOOLEAN
      /\ known \subseteq DOMAIN operation /\ job = [job EXCEPT ![t] = job[t]]
  BY <1>1, InHand
<1>3. old.state = "Running" /\ ~old.cancel_requested
  BY <1>1, <1>2 DEF AsyncInv, Unsettled, Cancellable
<1>4. PICK r \in {"Accepted", "Refused"} : operation' = [operation EXCEPT ![job[t]].result = r]
  BY ZenonT(90) DEF PlaceJob
<1> DEFINE new == [old EXCEPT !.result = r]
<1>5. /\ new \in Operation /\ new.state = "Running" /\ ~new.cancel_requested
  BY <1>2, <1>3 DEF Operation
<1>6. operation' = [operation EXCEPT ![job[t]] = new]
  BY <1>4
<1>7. /\ UNCHANGED <<config, open, owner, stop, running, queue, table>>
      /\ known' = known /\ job' = job /\ Goto(t, "Publish")
  BY DEF PlaceJob, pool
<1>8. "Publish" \in ClientStep /\ "Publish" \in PoolStep
  BY DEF ClientStep, PoolStep
<1> HIDE DEF new
<1> QED
  BY ZenonT(90), <1>1, <1>2, <1>5, <1>6, <1>7, <1>8, Progress

\* The job publishes its result.
LEMMA PublishKeeps ==
  ASSUME AsyncInv, NEW t \in Thread, PublishJob(t)
  PROVE  AsyncInv'
<1> DEFINE old == operation[job[t]]
           to == IF old.result = "Accepted" THEN "Completed" ELSE "Rejected"
           new == [old EXCEPT !.state = to]
<1>1. pc[t] = "Publish" /\ pc[t] \in Holding
  BY DEF PublishJob, Holding
<1>2. /\ job[t] \in DOMAIN operation /\ job[t] \in Nat /\ old \in Operation
      /\ old.cancel_requested => old.result = "None"
      /\ known \subseteq DOMAIN operation /\ job = [job EXCEPT ![t] = job[t]]
  BY <1>1, InHand
<1>3. to \in Settled /\ "Running" \notin Settled
  BY DEF Settled
<1>4. /\ new \in Operation /\ new.state = to /\ new.cancel_requested = old.cancel_requested
      /\ new.result = old.result
  BY <1>2, <1>3 DEF Operation
<1>5. operation' = [operation EXCEPT ![job[t]] = new]
  BY DEF PublishJob
<1>6. /\ UNCHANGED <<config, open, owner, stop, running, queue, table>>
      /\ known' = known /\ job' = job /\ Goto(t, "Notify")
  BY DEF PublishJob, pool
<1>7. "Notify" \in ClientStep /\ "Notify" \in PoolStep
  BY DEF ClientStep, PoolStep
<1>8. /\ new.state \in Settled /\ new.state # "Running"
      /\ new.cancel_requested => new.result = "None"
  BY <1>2, <1>3, <1>4
<1> HIDE DEF new, to
<1> QED
  BY ZenonT(90), <1>1, <1>2, <1>4, <1>5, <1>6, <1>7, <1>8, Progress

\* submit() settles what the pool did not take.
LEMMA RejectKeeps ==
  ASSUME AsyncInv, NEW c \in Client, Reject(c)
  PROVE  AsyncInv'
<1> DEFINE old == operation[job[c]]
           new == [old EXCEPT !.state = "Rejected"]
<1>1. c \in Thread /\ c \notin Worker /\ pc[c] = "Reject" /\ pc[c] \in Holding
  BY ThreadKinds DEF Reject, Holding
<1>2. /\ job[c] \in DOMAIN operation /\ job[c] \in table /\ old \in Operation
      /\ old.cancel_requested => old.result = "None"
      /\ known \subseteq DOMAIN operation
  BY <1>1, InHand
<1>3. "Rejected" \in Settled /\ "Running" \notin Settled /\ "Idle" \in ClientStep /\ 0 \in Nat
  BY DEF Settled, ClientStep
<1>4. /\ new \in Operation /\ new.state = "Rejected"
      /\ new.cancel_requested = old.cancel_requested /\ new.result = old.result
  BY <1>2, <1>3 DEF Operation
<1>5. operation' = [operation EXCEPT ![job[c]] = new]
  BY <1>2 DEF Reject
<1>6. /\ UNCHANGED <<config, open, owner, stop, running, queue, table>>
      /\ known' \subseteq DOMAIN operation /\ Goto(c, "Idle") /\ job' = [job EXCEPT ![c] = 0]
  BY <1>2 DEF Reject, Leaves, pool
<1>7. /\ new.state \in Settled /\ new.state # "Running"
      /\ new.cancel_requested => new.result = "None"
  BY <1>2, <1>3, <1>4
<1> HIDE DEF new
<1> QED
  BY ZenonT(90), <1>1, <1>3, <1>4, <1>5, <1>6, <1>7, Progress

\* cancel() is accepted: the operation is pending, and has no result.
LEMMA CancelKeeps ==
  ASSUME AsyncInv, NEW c \in Client, NEW i \in Id, Cancel(c, i)
  PROVE  AsyncInv'
<1> DEFINE new == [operation[i] EXCEPT !.cancel_requested = TRUE]
<1>1. /\ i \in DOMAIN operation /\ operation \in Seq(Operation)
      /\ operation[i].state = "Pending"
      /\ UNCHANGED <<config, open, owner, stop, running, queue, pc, job, table, known>>
  BY DEF AsyncInv, Types, Cancel, pool
<1>2. operation[i] \in Operation /\ operation[i].result = "None"
  BY <1>1, OperationFields DEF AsyncInv, Cancellable
<1>3. new \in Operation /\ new.state = "Pending" /\ new.result = "None"
  BY ZenonT(90), <1>1, <1>2 DEF Operation
<1>4. operation' = [operation EXCEPT ![i] = new]
  BY DEF Cancel
<1> HIDE DEF new
<1>same. UNCHANGED <<config, open, owner, stop, running, queue, pc, job, table, known>>
  BY <1>1
<1>5. /\ operation' \in Seq(Operation) /\ Len(operation') = Len(operation)
      /\ DOMAIN operation' = DOMAIN operation /\ operation'[i] = new
      /\ \A j \in DOMAIN operation \ {i} : operation'[j] = operation[j]
  BY <1>1, <1>3, <1>4, Replaced
<1>6. \A j \in DOMAIN operation : operation'[j].state = operation[j].state
  BY <1>1, <1>3, <1>5
<1>dom. DOMAIN operation' = DOMAIN operation
  BY <1>5
<1>7. Types' /\ Threads' /\ Owned' /\ Single'
  <2>1. Types'
    BY <1>same, <1>5 DEF AsyncInv, Types
  <2>2. Threads'
    BY <1>same, <1>dom DEF AsyncInv, Threads
  <2>3. Owned' /\ Single'
    BY <1>same DEF AsyncInv, Owned, Single
  <2> QED
    BY <2>1, <2>2, <2>3
<1>8. Unsettled' /\ Somewhere'
  <2>1. \A t \in Thread :
          pc[t] \in {"Enqueue", "Reject", "Begin", "Place", "Publish"} => job[t] \in DOMAIN operation
    BY DEF AsyncInv, Threads, Free
  <2>2. Unsettled'
    BY ZenonT(90), <1>same, <1>dom, <1>6, <2>1 DEF AsyncInv, Unsettled, IsTerminal
  <2>3. Somewhere'
    BY ZenonT(90), <1>same, <1>dom, <1>6 DEF AsyncInv, Somewhere, IsTerminal
  <2> QED
    BY <2>2, <2>3
<1>9. Cancellable'
  <2>1. \A j \in DOMAIN operation \ {i} : operation'[j] = operation[j]
    BY <1>5
  <2>2. operation'[i].state = "Pending" /\ operation'[i].result = "None"
    BY <1>3, <1>5
  <2> QED
    BY <1>dom, <2>1, <2>2 DEF AsyncInv, Cancellable
<1> QED
  BY <1>7, <1>8, <1>9 DEF AsyncInv

-----------------------------------------------------------------------------
(* Steps that touch no operation and no queue. *)

\* A thread goes from a step with no operation to settle to another such step.
LEMMA MovesOn ==
  ASSUME AsyncInv, NEW t \in Thread, NEW step \in ClientStep \cup PoolStep,
         t \in Client => step \in ClientStep, t \in Worker => step \in PoolStep,
         Goto(t, step), pc[t] \notin Holding, step \notin Holding,
         NEW n \in Nat, job' = [job EXCEPT ![t] = n],
         step \in Free => n = 0, step \notin Free => n \in DOMAIN operation,
         UNCHANGED <<config, open, owner, stop, running, queue, operation, table, known>>
  PROVE  /\ Types' /\ Threads' /\ Unsettled' /\ Cancellable' /\ Single' /\ Somewhere'
         /\ pc'[t] = step /\ \A u \in Thread \ {t} : pc'[u] = pc[u]
<1>1. /\ pc \in [Thread -> ClientStep \cup PoolStep] /\ job \in [Thread -> Nat]
  BY DEF AsyncInv, Types
<1>2. /\ pc' \in [Thread -> ClientStep \cup PoolStep] /\ job' \in [Thread -> Nat]
      /\ pc'[t] = step /\ job'[t] = n
      /\ \A u \in Thread \ {t} : pc'[u] = pc[u] /\ job'[u] = job[u]
  BY <1>1 DEF Goto
<1>3. Types'
  BY <1>2 DEF AsyncInv, Types
<1>4. Threads'
  BY <1>2, ThreadKinds DEF AsyncInv, Threads
<1>5. \A u \in Thread : /\ pc'[u] \in Holding <=> pc[u] \in Holding
                        /\ pc[u] \in Holding => job'[u] = job[u]
                        /\ pc'[u] \in {"Enqueue", "Reject", "Begin"} =>
                             pc[u] \in {"Enqueue", "Reject", "Begin"}
                        /\ pc'[u] \in {"Place", "Publish"} => pc[u] \in {"Place", "Publish"}
  BY <1>2 DEF Holding
<1> QED
  BY <1>2, <1>3, <1>4, <1>5, SameHands

\* submit() begins, wait_for() begins, looks again, and waits or returns.
LEMMA CallerKeeps ==
  ASSUME AsyncInv, NEW c \in Client, NEW i,
         Submit(c) \/ (i \in Id /\ WaitFor(c, i)) \/ Check(c)
  PROVE  AsyncInv'
<1>1. /\ c \in Thread /\ job \in [Thread -> Nat] /\ pc[c] \in ClientStep
      /\ table \subseteq DOMAIN operation
  BY ThreadKinds DEF AsyncInv, Types, Threads
<1>2. UNCHANGED <<config, open, owner, stop, running, queue, operation, table, known>>
  BY DEF Submit, WaitFor, Check, pool
<1>3. /\ pc[c] \notin Holding
      /\ \E step \in ClientStep \ Holding, n \in Nat :
           /\ Goto(c, step) /\ job' = [job EXCEPT ![c] = n]
           /\ step \in Free => n = 0
           /\ step \notin Free => n \in DOMAIN operation
  <2>1. CASE Submit(c)
    <3>1. pc[c] = "Idle" /\ Goto(c, "Register") /\ job[c] = 0 /\ job' = job
      BY <1>1, <2>1 DEF Submit, AsyncInv, Threads, Free
    <3>2. job' = [job EXCEPT ![c] = 0]
      BY <1>1, <3>1
    <3>3. "Register" \in ClientStep \ Holding /\ "Register" \in Free /\ "Idle" \notin Holding
      BY DEF ClientStep, Holding, Free
    <3>4. 0 \in Nat
      OBVIOUS
    <3> QED
      BY ZenonT(90), <3>1, <3>2, <3>3, <3>4
  <2>2. CASE i \in Id /\ WaitFor(c, i)
    <3>1. /\ pc[c] = "Idle" /\ Goto(c, "Check") /\ job' = [job EXCEPT ![c] = i]
          /\ i \in DOMAIN operation
      BY <1>1, <2>2 DEF WaitFor
    <3>2. i \in Nat
      BY <2>2 DEF Id
    <3>3. "Check" \in ClientStep \ Holding /\ "Check" \notin Free /\ "Idle" \notin Holding
      BY DEF ClientStep, Holding, Free
    <3> QED
      BY ZenonT(90), <3>1, <3>2, <3>3
  <2>3. CASE Check(c) /\ IsTerminal(job[c])
    <3>1. pc[c] = "Check" /\ Goto(c, "Idle") /\ job' = [job EXCEPT ![c] = 0]
      BY <2>3 DEF Check, Leaves
    <3>2. "Idle" \in ClientStep \ Holding /\ "Idle" \in Free /\ "Check" \notin Holding
      BY DEF ClientStep, Holding, Free
    <3> QED
      BY ZenonT(90), <3>1, <3>2
  <2>4. CASE Check(c) /\ ~IsTerminal(job[c])
    <3>1. pc[c] = "Check" /\ Goto(c, "Blocked") /\ job' = job
      BY <2>4 DEF Check
    <3>2. job' = [job EXCEPT ![c] = job[c]] /\ job[c] \in Nat
      BY <1>1, <3>1
    <3>3. /\ "Blocked" \in ClientStep \ Holding /\ "Blocked" \notin Free
          /\ "Check" \notin Holding /\ "Check" \notin Free
      BY DEF ClientStep, Holding, Free
    <3>4. job[c] \in DOMAIN operation
      BY <1>1, <3>1, <3>3 DEF AsyncInv, Threads
    <3> QED
      BY ZenonT(90), <3>1, <3>2, <3>3, <3>4
  <2> QED
    BY <2>1, <2>2, <2>3, <2>4
<1>4. PICK to \in ClientStep \ Holding, m \in Nat :
        /\ Goto(c, to) /\ job' = [job EXCEPT ![c] = m]
        /\ to \in Free => m = 0
        /\ to \notin Free => m \in DOMAIN operation
  BY ZenonT(90), <1>3
<1>5. c \notin Worker
  BY ThreadKinds
<1>6. /\ Types' /\ Threads' /\ Unsettled' /\ Cancellable' /\ Single' /\ Somewhere'
      /\ \A u \in Thread \ {c} : pc'[u] = pc[u]
  BY ZenonT(90), <1>1, <1>2, <1>3, <1>4, <1>5, MovesOn
<1>7. \A u \in Thread \ {c} : pc'[u] = pc[u]
  BY <1>6
<1>8. Owned'
  BY <1>2, <1>7, ClientMoves
<1> QED
  BY <1>6, <1>8 DEF AsyncInv

\* worker_loop: a worker finds nothing to do, and waits or leaves.
LEMMA WorkerRestsKeeps ==
  ASSUME AsyncInv, NEW w \in Worker, WorkerWaits(w) \/ WorkerExits(w)
  PROVE  AsyncInv'
<1>1. /\ w \in Thread /\ w \notin Client /\ job \in [Thread -> Nat]
      /\ pc \in [Thread -> ClientStep \cup PoolStep]
  BY ThreadKinds DEF AsyncInv, Types
<1>2. /\ pc[w] = "Ready" /\ (Goto(w, "Waiting") \/ Goto(w, "Exited")) /\ queue = <<>>
      /\ UNCHANGED <<config, open, owner, stop, running, queue, operation, table, known>>
      /\ Goto(w, "Exited") => stop \/ Goto(w, "Waiting")
  BY DEF WorkerWaits, WorkerExits, MayExit, pool
<1>3. job' = job /\ job[w] = 0
  BY <1>1, <1>2 DEF AsyncInv, Threads, Free, WorkerWaits, WorkerExits
<1>4. job' = [job EXCEPT ![w] = 0]
  BY <1>1, <1>3
<1>5. PICK step \in {"Waiting", "Exited"} : Goto(w, step) /\ (step = "Exited" => stop)
  BY <1>2 DEF WorkerWaits, WorkerExits, MayExit
<1>6. /\ step \in PoolStep /\ step \in Free /\ step \notin Holding /\ "Ready" \notin Holding
  BY DEF PoolStep, Free, Holding
<1>7. /\ Types' /\ Threads' /\ Unsettled' /\ Cancellable' /\ Single' /\ Somewhere'
      /\ pc'[w] = step /\ \A u \in Thread \ {w} : pc'[u] = pc[u]
  BY ZenonT(90), <1>1, <1>2, <1>4, <1>5, <1>6, MovesOn
<1>8. Owned'
  <2>1. \A v \in Worker : v \in Thread
    BY ThreadKinds
  <2>2. /\ ~config.inline
        /\ owner \notin {"Down", "StartPool", "CloseEngine", "DrainPool"}
    BY <1>2 DEF AsyncInv, Owned
  <2>3. step = "Exited" => owner # "Up"
    BY <1>5 DEF AsyncInv, Owned
  <2> QED
    BY <1>2, <1>7, <2>1, <2>2, <2>3 DEF AsyncInv, Owned
<1> QED
  BY <1>7, <1>8 DEF AsyncInv

\* submit() runs the job itself, or finds that the pool does not take it.
LEMMA KeepsHoldKeeps ==
  ASSUME AsyncInv, NEW c \in Client, RunInline(c) \/ NotQueued(c)
  PROVE  AsyncInv'
<1>1. /\ c \in Thread /\ c \notin Worker /\ pc \in [Thread -> ClientStep \cup PoolStep]
  BY ThreadKinds DEF AsyncInv, Types
<1>2. /\ pc[c] = "Enqueue"
      /\ UNCHANGED <<config, open, owner, stop, running, queue, job, operation, table, known>>
  BY DEF RunInline, NotQueued, pool
<1>3. PICK step \in {"Begin", "Reject"} : Goto(c, step)
  BY DEF RunInline, NotQueued
<1>4. /\ step \in ClientStep /\ step \notin Free /\ "Enqueue" \notin Free
  BY DEF ClientStep, Free
<1>5. /\ pc' \in [Thread -> ClientStep \cup PoolStep] /\ pc'[c] = step
      /\ \A u \in Thread \ {c} : pc'[u] = pc[u]
  BY <1>1, <1>3, <1>4 DEF Goto
<1>6. Types'
  BY <1>2, <1>5 DEF AsyncInv, Types
<1>7. Threads'
  BY <1>1, <1>2, <1>4, <1>5, ThreadKinds DEF AsyncInv, Threads
<1>8. \A u \in Thread : /\ pc'[u] \in Holding <=> pc[u] \in Holding
                        /\ pc[u] \in Holding => job'[u] = job[u]
                        /\ pc'[u] \in {"Enqueue", "Reject", "Begin"} =>
                             pc[u] \in {"Enqueue", "Reject", "Begin"}
                        /\ pc'[u] \in {"Place", "Publish"} => pc[u] \in {"Place", "Publish"}
  BY <1>2, <1>5 DEF Holding
<1>9. Unsettled' /\ Cancellable' /\ Single' /\ Somewhere'
  BY <1>2, <1>8, SameHands
<1>10. Owned'
  BY <1>2, <1>5, ClientMoves
<1> QED
  BY <1>6, <1>7, <1>9, <1>10 DEF AsyncInv

\* The end of a job: its waiters look again, and the thread is free.
LEMMA NotifyKeeps ==
  ASSUME AsyncInv, NEW t \in Thread, NotifyJob(t)
  PROVE  AsyncInv'
<1>1. /\ pc \in [Thread -> ClientStep \cup PoolStep] /\ job \in [Thread -> Nat]
      /\ known \subseteq DOMAIN operation
  BY DEF AsyncInv, Types
<1>2. /\ pc[t] = "Notify" /\ job[t] \in DOMAIN operation
      /\ UNCHANGED <<config, open, owner, stop, running, queue, operation, table>>
  BY DEF NotifyJob, AsyncInv, Threads, Free, pool
<1>3. /\ pc'[t] = IF t \in Worker THEN "Ready" ELSE "Idle"
      /\ job' \in [Thread -> Nat] /\ job'[t] = 0
      /\ \A u \in Thread \ {t} : job'[u] = job[u]
  <2>1. pc'[t] = CASE t = t -> IF t \in Worker THEN "Ready" ELSE "Idle"
                   [] t \in WaitersFor(job[t]) -> "Check"
                   [] OTHER -> pc[t]
    BY DEF NotifyJob
  <2>2. t \notin WaitersFor(job[t])
    BY <1>2 DEF WaitersFor
  <2>3. job' = [job EXCEPT ![t] = 0]
    BY DEF NotifyJob
  <2> QED
    BY <1>1, <2>1, <2>2, <2>3
<1>4. \A u \in Thread \ {t} :
        pc'[u] = pc[u] \/ (u \in Client /\ pc[u] = "Blocked" /\ pc'[u] = "Check")
  <2> SUFFICES ASSUME NEW u \in Thread \ {t}
               PROVE  pc'[u] = pc[u] \/ (u \in Client /\ pc[u] = "Blocked" /\ pc'[u] = "Check")
    OBVIOUS
  <2>1. pc'[u] = CASE u = t -> IF t \in Worker THEN "Ready" ELSE "Idle"
                   [] u \in WaitersFor(job[t]) -> "Check"
                   [] OTHER -> pc[u]
    BY DEF NotifyJob
  <2>2. CASE u \in WaitersFor(job[t])
    BY <2>1, <2>2 DEF WaitersFor
  <2>3. CASE u \notin WaitersFor(job[t])
    BY <2>1, <2>3
  <2> QED
    BY <2>2, <2>3
<1>5. \A u \in Thread : pc'[u] \in ClientStep \cup PoolStep
  <2>1. {"Ready", "Idle", "Check"} \subseteq ClientStep \cup PoolStep
    BY DEF ClientStep, PoolStep
  <2> QED
    BY <1>1, <1>3, <1>4, <2>1
<1>6. pc' \in [Thread -> ClientStep \cup PoolStep]
  <2>1. \E f : pc' = [u \in Thread |-> f[u]]
    <3>1. pc' = [u \in Thread |-> pc'[u]]
      BY DEF NotifyJob
    <3> QED
      BY <3>1
  <2> QED
    BY <1>5, <2>1
<1>7. known' \subseteq DOMAIN operation
  BY <1>1, <1>2 DEF NotifyJob
<1>8. Types'
  BY <1>2, <1>3, <1>6, <1>7 DEF AsyncInv, Types
<1>9. Threads'
  <2>1. \A u \in Thread : u \in Client => pc'[u] \in ClientStep
    BY <1>3, <1>4, ThreadKinds DEF AsyncInv, Threads, ClientStep
  <2>2. \A u \in Thread : u \in Worker => pc'[u] \in PoolStep
    BY <1>3, <1>4, ThreadKinds DEF AsyncInv, Threads, PoolStep
  <2>3. \A u \in Thread : /\ pc'[u] \in Free => job'[u] = 0
                          /\ pc'[u] \notin Free => job'[u] \in DOMAIN operation
    BY <1>3, <1>4 DEF AsyncInv, Threads, Free
  <2> QED
    BY <1>2, <2>1, <2>2, <2>3, ThreadKinds DEF Threads
<1>10. \A u \in Thread : /\ pc'[u] \in Holding <=> pc[u] \in Holding
                         /\ pc[u] \in Holding => job'[u] = job[u]
                         /\ pc'[u] \in {"Enqueue", "Reject", "Begin"} =>
                              pc[u] \in {"Enqueue", "Reject", "Begin"}
                         /\ pc'[u] \in {"Place", "Publish"} => pc[u] \in {"Place", "Publish"}
  BY <1>2, <1>3, <1>4 DEF Holding
<1>11. Unsettled' /\ Cancellable' /\ Single' /\ Somewhere'
  BY <1>2, <1>10, SameHands
<1>12. Owned'
  <2>1. \A w \in Worker : (pc'[w] = "Exited") <=> (pc[w] = "Exited")
    BY <1>2, <1>3, <1>4, ThreadKinds
  <2> QED
    BY <1>2, <2>1 DEF AsyncInv, Owned
<1> QED
  BY <1>8, <1>9, <1>11, <1>12 DEF AsyncInv

-----------------------------------------------------------------------------
(* The steps of the owner. *)

\* What a step of the owner leaves alone.
Untouched == UNCHANGED <<config, job, operation, table, known>>

\* The workers of the pool are the only threads that move, and only between steps at
\* which they have no job.
LEMMA WorkersMove ==
  ASSUME AsyncInv, Untouched, UNCHANGED queue, owner' \in Owner, open' \in BOOLEAN,
         stop' \in BOOLEAN, running' \in BOOLEAN,
         pc' \in [Thread -> ClientStep \cup PoolStep],
         \A t \in Thread : \/ pc'[t] = pc[t]
                           \/ /\ t \in Worker /\ pc[t] \in {"Waiting", "Exited"}
                              /\ pc'[t] = "Ready"
  PROVE  Types' /\ Threads' /\ Unsettled' /\ Cancellable' /\ Single' /\ Somewhere'
<1>1. Types'
  BY DEF AsyncInv, Types, Untouched
<1>2. ASSUME NEW t \in Thread
      PROVE  /\ pc'[t] \in Holding <=> pc[t] \in Holding
             /\ pc'[t] \in Free <=> pc[t] \in Free
             /\ pc'[t] \in {"Enqueue", "Reject", "Begin"} =>
                  pc[t] \in {"Enqueue", "Reject", "Begin"}
             /\ pc'[t] \in {"Place", "Publish"} => pc[t] \in {"Place", "Publish"}
  <2>1. CASE pc'[t] = pc[t]
    BY <2>1
  <2>2. CASE pc[t] \in {"Waiting", "Exited"} /\ pc'[t] = "Ready"
    BY <2>2 DEF Holding, Free
  <2> QED
    BY <2>1, <2>2
<1>3. Threads'
  <2>1. \A t \in Thread : /\ t \in Client => pc'[t] \in ClientStep
                          /\ t \in Worker => pc'[t] \in PoolStep
    BY ThreadKinds DEF AsyncInv, Threads, PoolStep
  <2> QED
    BY <1>2, <2>1, ThreadKinds DEF AsyncInv, Threads, Untouched
<1> QED
  BY <1>1, <1>2, <1>3, SameHands DEF Untouched

\* open() and the steps of shutdown() before and after the pool's own.
LEMMA OwnerKeeps ==
  ASSUME AsyncInv, OpenEngine \/ StopPool \/ JoinPool \/ DrainPool \/ CloseEngine
  PROVE  AsyncInv'
<1>1. Untouched /\ pc' = pc
  BY DEF OpenEngine, StopPool, JoinPool, DrainPool, CloseEngine, Untouched
<1>2. queue' = queue
  BY DEF OpenEngine, StopPool, JoinPool, DrainPool, CloseEngine, pool
<1>3. owner' \in Owner
  BY DEF OpenEngine, StopPool, JoinPool, DrainPool, CloseEngine, Owner
<1>4. open' \in BOOLEAN /\ stop' \in BOOLEAN /\ running' \in BOOLEAN
  BY ZenonT(90) DEF OpenEngine, StopPool, JoinPool, DrainPool, CloseEngine, pool, AsyncInv, Types
<1>5. Types' /\ Threads' /\ Unsettled' /\ Cancellable' /\ Single' /\ Somewhere'
  BY <1>1, <1>2, <1>3, <1>4, WorkersMove DEF AsyncInv, Types
<1>6. Owned'
  <2> USE <1>1, <1>2 DEF Untouched
  <2>1. CASE OpenEngine
    BY <2>1 DEF OpenEngine, pool, AsyncInv, Owned
  <2>2. CASE StopPool
    BY <2>2 DEF StopPool, AsyncInv, Owned
  <2>3. CASE JoinPool
    BY <2>3 DEF JoinPool, pool, AsyncInv, Owned
  <2>4. CASE DrainPool
    BY <2>4 DEF DrainPool, AsyncInv, Owned
  <2>5. CASE CloseEngine
    BY <2>5 DEF CloseEngine, pool, AsyncInv, Owned
  <2> QED
    BY <2>1, <2>2, <2>3, <2>4, <2>5
<1> QED
  BY <1>5, <1>6 DEF AsyncInv

\* The pool's start(), and the notification of its shutdown().
LEMMA PoolKeeps ==
  ASSUME AsyncInv, StartPool \/ WakePool
  PROVE  AsyncInv'
<1>1. Untouched /\ open' = open /\ pc \in [Thread -> ClientStep \cup PoolStep]
  BY DEF StartPool, WakePool, Untouched, AsyncInv, Types
<1>2. queue' = queue
  BY DEF StartPool, WakePool, pool, AsyncInv, Owned
<1>3. /\ owner' \in Owner /\ open' \in BOOLEAN /\ stop' \in BOOLEAN /\ running' \in BOOLEAN
  BY ZenonT(90), <1>1 DEF StartPool, WakePool, pool, Owner, AsyncInv, Types
<1>4. "Ready" \in ClientStep \cup PoolStep
  BY DEF PoolStep
<1>5. CASE StartPool
  <2>1. \A w \in Worker : pc[w] = "Exited"
    BY <1>5 DEF StartPool, AsyncInv, Owned
  <2>2. pc' \in [Thread -> ClientStep \cup PoolStep]
    BY <1>1, <1>4, <1>5 DEF StartPool
  <2>3. \A t \in Thread : pc'[t] = IF t \in Worker /\ ~config.inline THEN "Ready" ELSE pc[t]
    BY <1>5 DEF StartPool
  <2>4. Types' /\ Threads' /\ Unsettled' /\ Cancellable' /\ Single' /\ Somewhere'
    BY <1>1, <1>2, <1>3, <2>1, <2>2, <2>3, WorkersMove
  <2>5. /\ config.inline => \A w \in Worker : pc'[w] = "Exited"
        /\ ~config.inline => \A w \in Worker : pc'[w] = "Ready"
    BY <2>1, <2>3, ThreadKinds
  <2>6. Owned'
    BY <1>1, <1>2, <1>5, <2>5 DEF StartPool, AsyncInv, Owned, Untouched
  <2> QED
    BY <2>4, <2>6 DEF AsyncInv
<1>6. CASE WakePool
  <2>1. pc' \in [Thread -> ClientStep \cup PoolStep]
    BY <1>1, <1>4, <1>6 DEF WakePool, NotifyAll
  <2>2. \A t \in Thread : pc'[t] = IF t \in Worker /\ pc[t] = "Waiting" THEN "Ready" ELSE pc[t]
    BY <1>6 DEF WakePool, NotifyAll, WaitingWorkers
  <2>3. Types' /\ Threads' /\ Unsettled' /\ Cancellable' /\ Single' /\ Somewhere'
    BY <1>1, <1>2, <1>3, <2>1, <2>2, WorkersMove
  <2>4. \A w \in Worker : (pc'[w] = "Exited") <=> (pc[w] = "Exited")
    BY <2>2, ThreadKinds
  <2>5. Owned'
    BY <1>1, <1>2, <1>6, <2>4 DEF WakePool, pool, AsyncInv, Owned, Untouched
  <2> QED
    BY <2>3, <2>5 DEF AsyncInv
<1> QED
  BY <1>5, <1>6

-----------------------------------------------------------------------------
(* The invariant holds. *)

\* It holds before the engine is opened.
LEMMA AsyncInit ==
  ASSUME Init
  PROVE  AsyncInv
<1>1. /\ config \in Config /\ open = FALSE /\ owner = "Down" /\ stop = FALSE /\ running = FALSE
      /\ queue = <<>> /\ operation = <<>> /\ table = {} /\ known = {}
      /\ DOMAIN queue = {} /\ DOMAIN operation = {} /\ Len(queue) = 0 /\ Len(operation) = 0
      /\ queue \in Seq(Nat) /\ operation \in Seq(Operation)
  BY DEF Init
<1>2. /\ \A t \in Thread : pc[t] = IF t \in Client THEN "Idle" ELSE "Exited"
      /\ job \in [Thread -> Nat] /\ \A t \in Thread : job[t] = 0
  BY DEF Init
<1>3. /\ {"Idle", "Exited"} \subseteq Free
      /\ "Idle" \in ClientStep /\ "Exited" \in PoolStep /\ "Down" \in Owner
      /\ "Idle" \notin Holding /\ "Exited" \notin Holding
  BY DEF Free, ClientStep, PoolStep, Holding, Owner
<1>4. pc \in [Thread -> ClientStep \cup PoolStep]
  BY <1>3 DEF Init
<1>5. Types
  <2>1. open \in BOOLEAN /\ stop \in BOOLEAN /\ running \in BOOLEAN
    BY ZenonT(90), <1>1
  <2>2. Len(operation) <= MaxIds /\ Len(queue) <= MaxQueue
    BY <1>1, AsyncOpsAssumption
  <2>3. table \subseteq DOMAIN operation /\ known \subseteq DOMAIN operation
    BY <1>1
  <2> QED
    BY <1>1, <1>2, <1>3, <1>4, <2>1, <2>2, <2>3 DEF Types
<1>6. \A t \in Thread : /\ t \in Client => pc[t] \in ClientStep
                        /\ t \in Worker => pc[t] = "Exited"
                        /\ pc[t] \in Free /\ pc[t] \notin Holding
  BY <1>2, <1>3, ThreadKinds
<1>7. Threads
  BY <1>2, <1>3, <1>6, ThreadKinds DEF Threads
<1>8. Owned
  BY <1>1, <1>6, ThreadKinds DEF Owned
<1>9. Unsettled
  BY <1>1, <1>6 DEF Unsettled, Holding
<1>10. Cancellable /\ Single /\ Somewhere
  BY <1>1, <1>6 DEF Cancellable, Single, Somewhere
<1> QED
  BY <1>5, <1>7, <1>8, <1>9, <1>10 DEF AsyncInv

\* It is kept when nothing happens.
LEMMA AsyncStutter ==
  ASSUME AsyncInv, UNCHANGED vars
  PROVE  AsyncInv'
<1>1. UNCHANGED <<config, open, owner, stop, running, queue, pc, job, operation, table, known>>
  BY DEF vars, pool
<1>2. Types'
  BY <1>1 DEF AsyncInv, Types
<1>3. Threads' /\ Owned'
  BY <1>1 DEF AsyncInv, Threads, Owned
<1>4. Unsettled' /\ Cancellable' /\ Single' /\ Somewhere'
  BY <1>1, SameHands
<1> QED
  BY <1>2, <1>3, <1>4 DEF AsyncInv

\* Every step of the owner, a worker or a caller keeps it.
LEMMA AsyncStep ==
  ASSUME AsyncInv, [Next]_vars
  PROVE  AsyncInv'
<1>1. CASE OpenEngine \/ StopPool \/ OwnerStep
  BY <1>1, OwnerKeeps, PoolKeeps DEF OwnerStep
<1>2. ASSUME NEW w \in Worker, WorkerStep(w)
      PROVE  AsyncInv'
  BY <1>2, WorkerRestsKeeps, TakeKeeps DEF WorkerStep
<1>3. ASSUME NEW t \in Thread, JobStep(t)
      PROVE  AsyncInv'
  BY <1>3, BeginKeeps, PlaceKeeps, PublishKeeps, NotifyKeeps DEF JobStep
<1>4. ASSUME NEW c \in Client, Submit(c) \/ Check(c)
      PROVE  AsyncInv'
  BY <1>4, CallerKeeps
<1>5. ASSUME NEW c \in Client, CallStep(c), ~Check(c)
      PROVE  AsyncInv'
  BY ZenonT(90), <1>5, RegisterNewKeeps, RegisterFullKeeps, EnqueueKeeps, KeepsHoldKeeps, RejectKeeps
     DEF CallStep
<1>6. ASSUME NEW c \in Client, NEW i \in Id, WaitFor(c, i) \/ Cancel(c, i)
      PROVE  AsyncInv'
  BY <1>6, CallerKeeps, CancelKeeps
<1>7. CASE UNCHANGED vars
  BY <1>7, AsyncStutter
<1> QED
  BY <1>1, <1>2, <1>3, <1>4, <1>5, <1>6, <1>7 DEF Next

\* The engine, its pool and its callers agree on every operation at all times.
THEOREM AsyncCorrect == Spec => []AsyncInv
<1>1. Init => AsyncInv
  BY AsyncInit
<1>2. AsyncInv /\ [Next]_vars => AsyncInv'
  BY AsyncStep
<1> QED
  BY <1>1, <1>2, PTL DEF Spec

-----------------------------------------------------------------------------
(* What follows. *)

INSTANCE FiniteSetTheorems

\* The table of operations never holds more than max_requests.
TableBounded == IsFiniteSet(table) /\ Cardinality(table) <= config.max_requests

\* Only submit() adds to the table, and it makes room first.
LEMMA TableStep ==
  ASSUME AsyncInv, TableBounded, [Next]_vars
  PROVE  TableBounded'
<1>1. config.max_requests \in Nat
  BY AsyncOpsAssumption DEF AsyncInv, Types, Config
<1>2. CASE UNCHANGED <<config, table>>
  BY <1>2 DEF TableBounded
<1>3. ASSUME NEW c \in Client, Register(c)
      PROVE  TableBounded'
  <2>1. table \ Evicted \in SUBSET table
    OBVIOUS
  <2>2. IsFiniteSet(table \ Evicted) /\ Cardinality(table \ Evicted) <= Cardinality(table)
    BY <2>1, FS_Subset DEF TableBounded
  <2>3. Cardinality(table \ Evicted) \in Nat /\ Cardinality(table) \in Nat
    BY <2>2, FS_CardinalityType DEF TableBounded
  <2>4. CASE Cardinality(table \ Evicted) < config.max_requests /\ Len(operation) < MaxIds
    <3>1. table' = (table \ Evicted) \cup {Len(operation')} /\ config' = config
      BY <1>3, <2>4 DEF Register
    <3>2. /\ IsFiniteSet(table')
          /\ Cardinality(table') = IF Len(operation') \in table \ Evicted
                                   THEN Cardinality(table \ Evicted)
                                   ELSE Cardinality(table \ Evicted) + 1
      BY ZenonT(90), <2>2, <3>1, FS_AddElement
    <3> QED
      BY <1>1, <2>3, <2>4, <3>1, <3>2 DEF TableBounded
  <2>5. CASE ~(Cardinality(table \ Evicted) < config.max_requests /\ Len(operation) < MaxIds)
    <3>1. table' = table \ Evicted /\ config' = config
      BY <1>3, <2>5 DEF Register
    <3> QED
      BY <1>1, <2>2, <2>3, <3>1 DEF TableBounded
  <2> QED
    BY <2>4, <2>5
<1>4. CASE OpenEngine \/ StopPool \/ OwnerStep
  BY <1>2, <1>4 DEF OpenEngine, StopPool, OwnerStep, StartPool, WakePool, JoinPool, DrainPool,
                    CloseEngine
<1>5. ASSUME NEW t \in Thread, WorkerStep(t) \/ JobStep(t)
      PROVE  TableBounded'
  BY <1>2, <1>5 DEF WorkerStep, WorkerTakes, WorkerWaits, WorkerExits, JobStep, BeginJob, PlaceJob,
                    PublishJob, NotifyJob
<1>6. ASSUME NEW c \in Client, Submit(c) \/ (CallStep(c) /\ ~Register(c))
      PROVE  TableBounded'
  BY <1>2, <1>6 DEF Submit, CallStep, Enqueue, RunInline, NotQueued, Reject, Check
<1>7. ASSUME NEW c \in Client, NEW i \in Id, WaitFor(c, i) \/ Cancel(c, i)
      PROVE  TableBounded'
  BY <1>2, <1>7 DEF WaitFor, Cancel
<1>8. CASE UNCHANGED vars
  BY <1>2, <1>8 DEF vars
<1>9. Worker \subseteq Thread
  BY ThreadKinds
<1> QED
  BY <1>3, <1>4, <1>5, <1>6, <1>7, <1>8, <1>9 DEF Next

\* Threads, queue and operation table are well formed, and neither the queue nor the
\* table ever exceeds its configured size (try_submit and register_async_operation).
THEOREM OperationsWellFormed == Spec => []TypeOK
<1>1. Init => TableBounded
  BY FS_EmptySet, AsyncOpsAssumption DEF Init, TableBounded, Config
<1>2. AsyncInv /\ TableBounded /\ [Next]_vars => TableBounded'
  BY TableStep
<1>3. AsyncInv /\ TableBounded => TypeOK
  <2> SUFFICES ASSUME AsyncInv, TableBounded
               PROVE  TypeOK
    OBVIOUS
  <2>1. job \in [Thread -> {0} \cup DOMAIN operation]
    BY DEF AsyncInv, Types, Threads
  <2>2. \A n \in DOMAIN queue : queue[n] \in DOMAIN operation
    BY DEF AsyncInv, Unsettled
  <2> QED
    BY <2>1, <2>2 DEF AsyncInv, Types, TableBounded, TypeOK
<1> QED
  BY <1>1, <1>2, <1>3, AsyncCorrect, PTL DEF Spec

\* An operation whose cancellation was accepted is never placed.
THEOREM CancelledIsNotPlaced == Spec => []CancelIsHonoured
<1>1. AsyncInv => CancelIsHonoured
  BY DEF AsyncInv, Cancellable, CancelIsHonoured
<1> QED
  BY <1>1, AsyncCorrect, PTL

\* ThreadPool::shutdown joins workers that leave no job behind.
THEOREM ShutdownLeavesNothing == Spec => []NoJobLeftBehind
<1>1. AsyncInv => NoJobLeftBehind
  BY AsyncOpsAssumption DEF AsyncInv, Owned, NoJobLeftBehind
<1> QED
  BY <1>1, AsyncCorrect, PTL

\* The queue and the hands of the threads hold an operation once, and not at all when it
\* is settled.
LEMMA HeldOnce ==
  ASSUME AsyncInv, NEW i \in DOMAIN operation
  PROVE  Cardinality({n \in DOMAIN queue : queue[n] = i})
           + Cardinality({t \in Thread : job[t] = i
                                         /\ pc[t] \notin {"Check", "Blocked", "Notify"}})
           = IF IsTerminal(i) THEN 0 ELSE 1
<1> DEFINE Q == {n \in DOMAIN queue : queue[n] = i}
           H == {t \in Thread : job[t] = i /\ pc[t] \notin {"Check", "Blocked", "Notify"}}
<1>1. i # 0
  BY DEF AsyncInv, Types
<1>2. \A t \in Thread : t \in H <=> pc[t] \in Holding /\ job[t] = i
  <2>1. \A t \in Thread : pc[t] \in ClientStep \cup PoolStep
    BY DEF AsyncInv, Types
  <2> QED
    BY <1>1, <2>1 DEF AsyncInv, Threads, Free, Holding, ClientStep, PoolStep
<1>3. CASE IsTerminal(i)
  <2>1. Q = {}
    BY <1>3 DEF AsyncInv, Unsettled, IsTerminal, Settled
  <2>2. H = {}
    BY <1>2, <1>3 DEF AsyncInv, Unsettled, IsTerminal, Settled, Holding
  <2> QED
    BY <1>3, <2>1, <2>2, FS_EmptySet
<1>4. CASE ~IsTerminal(i) /\ \E n \in DOMAIN queue : queue[n] = i
  <2>1. PICK n \in DOMAIN queue : queue[n] = i
    BY <1>4
  <2>2. Q = {n}
    BY <2>1 DEF AsyncInv, Single
  <2>3. H = {}
    BY <1>2, <2>1 DEF AsyncInv, Single
  <2>4. Cardinality(Q) = 1
    BY ZenonT(90), <2>2, FS_Singleton
  <2>5. Cardinality(H) = 0
    BY <2>3, FS_EmptySet
  <2> HIDE DEF Q, H
  <2>6. Cardinality(Q) + Cardinality(H) = IF IsTerminal(i) THEN 0 ELSE 1
    BY <1>4, <2>4, <2>5
  <2> QED
    BY <2>6 DEF Q, H
<1>5. CASE ~IsTerminal(i) /\ ~\E n \in DOMAIN queue : queue[n] = i
  <2>1. Q = {}
    BY <1>5
  <2>2. PICK t \in Thread : pc[t] \in Holding /\ job[t] = i
    BY <1>5 DEF AsyncInv, Somewhere
  <2>3. H = {t}
    <3>1. \A u \in H : u = t
      BY <1>2, <2>2 DEF AsyncInv, Single
    <3>2. t \in H
      BY <1>2, <2>2
    <3> QED
      BY <3>1, <3>2
  <2>4. Cardinality(Q) = 0
    BY <2>1, FS_EmptySet
  <2>5. Cardinality(H) = 1
    BY ZenonT(90), <2>3, FS_Singleton
  <2> HIDE DEF Q, H
  <2>6. Cardinality(Q) + Cardinality(H) = IF IsTerminal(i) THEN 0 ELSE 1
    BY <1>5, <2>4, <2>5
  <2> QED
    BY <2>6 DEF Q, H
<1> QED
  BY <1>3, <1>4, <1>5

\* An operation is queued or in the hands of one thread until it is settled, once.
THEOREM OnePlaceAtATime == Spec => []OneJobPerOperation
<1>1. AsyncInv => OneJobPerOperation
  BY HeldOnce DEF OneJobPerOperation
<1> QED
  BY <1>1, AsyncCorrect, PTL

\* What a caller has seen settled stays as it is: the job, submit() and cancel() change an
\* operation only while it is pending or running.
SettledStays ==
  \A i \in DOMAIN operation :
    IsTerminal(i) => i \in DOMAIN operation' /\ operation'[i] = operation[i]

\* No step changes a settled operation.
LEMMA SettledStep ==
  ASSUME AsyncInv, [Next]_vars
  PROVE  SettledStays
<1>1. CASE operation' = operation
  BY <1>1 DEF SettledStays
<1>2. ASSUME NEW k \in DOMAIN operation, operation[k].state \in {"Pending", "Running"},
             NEW o, operation' = [operation EXCEPT ![k] = o]
      PROVE  SettledStays
  BY <1>2 DEF SettledStays, IsTerminal, Settled, AsyncInv, Types
<1>3. ASSUME NEW t \in Thread, pc[t] \in Holding
      PROVE  job[t] \in DOMAIN operation /\ operation[job[t]].state \in {"Pending", "Running"}
  BY <1>3, InHand DEF AsyncInv, Unsettled, Holding
<1>4. ASSUME NEW t \in Thread, JobStep(t)
      PROVE  SettledStays
  <2>1. CASE BeginJob(t) \/ PlaceJob(t) \/ PublishJob(t)
    <3>1. pc[t] \in Holding /\ \E o : operation' = [operation EXCEPT ![job[t]] = o]
      BY <2>1 DEF BeginJob, PlaceJob, PublishJob, Holding
    <3> QED
      BY ZenonT(90), <1>2, <1>3, <3>1
  <2>2. CASE NotifyJob(t)
    BY <1>1, <2>2 DEF NotifyJob
  <2> QED
    BY <1>4, <2>1, <2>2 DEF JobStep
<1>5. ASSUME NEW c \in Client, CallStep(c)
      PROVE  SettledStays
  <2>1. CASE Reject(c)
    <3>1. /\ c \in Thread /\ pc[c] \in Holding
          /\ \/ operation' = operation
             \/ \E o : operation' = [operation EXCEPT ![job[c]] = o]
      BY ZenonT(90), <2>1, ThreadKinds DEF Reject, Holding
    <3> QED
      BY <1>1, <1>2, <1>3, <3>1
  <2>2. CASE Register(c)
    <3>1. operation' = operation \/ operation' = Append(operation, NewOperation)
      BY <2>2 DEF Register
    <3>2. operation \in Seq(Operation) /\ NewOperation \in Operation
      BY DEF AsyncInv, Types, NewOperation, Operation
    <3>3. CASE operation' = Append(operation, NewOperation)
      BY <3>2, <3>3, Extended DEF SettledStays
    <3> QED
      BY <1>1, <3>1, <3>3
  <2>3. CASE ~Reject(c) /\ ~Register(c)
    BY <1>1, <1>5, <2>3 DEF CallStep, Enqueue, RunInline, NotQueued, Check
  <2> QED
    BY <2>1, <2>2, <2>3
<1>6. ASSUME NEW c \in Client, NEW i \in Id, Cancel(c, i)
      PROVE  SettledStays
  <2>1. /\ i \in DOMAIN operation /\ operation[i].state = "Pending"
        /\ \E o : operation' = [operation EXCEPT ![i] = o]
    BY ZenonT(90), <1>6 DEF Cancel, AsyncInv, Types
  <2> QED
    BY ZenonT(90), <1>2, <2>1
<1>7. CASE OpenEngine \/ StopPool \/ OwnerStep
  BY <1>1, <1>7 DEF OpenEngine, StopPool, OwnerStep, StartPool, WakePool, JoinPool, DrainPool,
                    CloseEngine
<1>8. ASSUME NEW w \in Worker, WorkerStep(w)
      PROVE  SettledStays
  BY <1>1, <1>8 DEF WorkerStep, WorkerTakes, WorkerWaits, WorkerExits
<1>9. ASSUME NEW c \in Client, NEW i, Submit(c) \/ WaitFor(c, i)
      PROVE  SettledStays
  BY <1>1, <1>9 DEF Submit, WaitFor
<1>10. CASE UNCHANGED vars
  BY <1>1, <1>10 DEF vars
<1> QED
  BY <1>4, <1>5, <1>6, <1>7, <1>8, <1>9, <1>10 DEF Next

\* Every step of any thread leaves settled operations alone.
THEOREM SettledIsFinal == Spec => [][SettledStays]_vars
<1>1. AsyncInv /\ [Next]_vars => SettledStays
  BY SettledStep
<1> QED
  BY <1>1, AsyncCorrect, PTL DEF Spec

=============================================================================

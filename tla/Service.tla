------------------------------ MODULE Service ------------------------------
(***************************************************************************)
(* The service and its clients (src/src/service.cpp): the thread in run()  *)
(* accepts connections, the workers of a thread pool handle one each, and  *)
(* the owner's shutdown() or a Shutdown frame stops all of it, while       *)
(* clients connect, call, and leave when they like.                        *)
(*                                                                         *)
(* A step is what a thread does between two points where another thread    *)
(* can matter.  connection_mutex and the pool's queue_mutex_ are held only *)
(* inside a step: the pool has workers, so that try_submit only queues.    *)
(* The wake-ups inside the pool are in AsyncOps; here a worker that has    *)
(* something to do runs.  A connection is named by the order in which it   *)
(* was made.  The header of a frame and the rest of it are read in one     *)
(* step, once both have arrived: a reader that has half a frame waits, and *)
(* the next bytes sent, whatever they are, go to that frame.  The engine's *)
(* answer to a request is open; Lifecycle and Placement say what it does.  *)
(***************************************************************************)
EXTENDS Naturals, Sequences, FiniteSets, Functions

CONSTANTS
  Client,           \* Client objects, each used by one thread
  Worker,           \* the threads of the pool
  MaxQueue,         \* ServiceConfig::max_queue_depth
  MaxConnections    \* ServiceConfig::max_connections

\* Bounds of the exploration: connections made, clients that call, calls of one
\* client, the clients that send raw bytes, and how often these do altogether.
CONSTANTS MaxLinks, MaxCallers, MaxCalls, RawClient, MaxRaw

ASSUME ServiceAssumption ==
  /\ IsFiniteSet(Client) /\ IsFiniteSet(Worker) /\ Worker # {}
  /\ MaxQueue \in Nat \ {0} /\ MaxConnections \in Nat
  /\ MaxLinks \in Nat /\ MaxCallers \in Nat /\ MaxCalls \in Nat
  /\ RawClient \subseteq Client /\ MaxRaw \in Nat

VARIABLES
  stop_requested, listening,   \* the stop flag; whether the listener is open
  connections,      \* the ids in Impl::connections
  stop, running, queue,        \* ThreadPool
  owner,            \* what the owner does next
  runner, accepted, \* what the thread of run() does next, and with which connection
  pc, job, frame,   \* what each worker does next, with which connection and frame
  backlog,          \* connections the listener has not accepted yet
  link,             \* every connection ever made
  caller,           \* the state of each Client object
  raw,              \* how often raw bytes were sent, for the bound
  handled           \* the numbered requests the engine has carried out, and whether raw

flags   == <<stop_requested, listening>>
pool    == <<stop, running, queue>>
threads == <<owner, runner, accepted, pc, job, frame>>
vars    == <<flags, connections, pool, threads, backlog, link, caller, raw, handled>>

\* Frames as the handler tells them apart: too long for the service, not decodable,
\* a request to the engine, or the request to stop; and the first bytes of a frame
\* whose rest has not been sent.  A frame is raw when some of its bytes are from
\* Client::send_raw.  Only a call's frame, unless it is mixed up with raw bytes, is
\* not, and it decodes.  A reply says whether the request was accepted.
Kind  == {"Oversized", "Malformed", "Request", "Shutdown", "Partial"}
Frame == {f \in [kind: Kind, client: Client, correlation: 0..MaxCalls, raw: BOOLEAN] :
            /\ f.raw => f.client \in RawClient
            /\ ~f.raw => f.kind \in {"Request", "Shutdown"}}
Reply == [correlation: 0..MaxCalls, accepted: BOOLEAN]
NoFrame == [kind |-> "None"]

\* The two ends of a connection, and what is under way in each direction.
Link == [served: BOOLEAN, peer: BOOLEAN, requests: Seq(Frame), replies: Seq(Reply)]
NewLink == [served |-> TRUE, peer |-> TRUE, requests |-> <<>>, replies |-> <<>>]

\* Client::Impl: its connection, the correlation of the next call, whether a call
\* waits for its reply, and the calls that returned acceptance.
Caller == [socket: 0..MaxLinks, next_correlation: 1..(MaxCalls + 1), waiting: BOOLEAN,
           returned: SUBSET (1..MaxCalls)]

\* Socket::close on the service's ends of the connections in S: what has not been
\* read is lost.  On Windows it ends a blocked recv.
Close(S) ==
  [i \in DOMAIN link |->
     IF i \in S THEN [link[i] EXCEPT !.served = FALSE, !.requests = <<>>] ELSE link[i]]

-----------------------------------------------------------------------------
Init ==
  /\ stop_requested = FALSE /\ listening = FALSE
  /\ connections = {}
  /\ stop = FALSE /\ running = FALSE /\ queue = <<>>
  /\ owner = "Down" /\ runner = "Out" /\ accepted = 0
  /\ pc = [w \in Worker |-> "Exited"] /\ job = [w \in Worker |-> 0]
  /\ frame = [w \in Worker |-> NoFrame]
  /\ backlog = <<>> /\ link = <<>> /\ handled = {} /\ raw = 0
  /\ caller = [c \in Client |-> [socket |-> 0, next_correlation |-> 1,
                                 waiting |-> FALSE, returned |-> {}]]

-----------------------------------------------------------------------------
(* The owner.  It starts the service again only once run() has returned. *)

Start ==
  /\ owner = "Down" /\ runner = "Out"
  /\ listening' = TRUE /\ stop_requested' = FALSE
  /\ running' = TRUE /\ stop' = FALSE /\ queue' = <<>>
  /\ pc' = [w \in Worker |-> "Ready"]
  /\ owner' = "Up"
  /\ UNCHANGED <<connections, runner, accepted, job, frame, backlog, link, caller, raw,
                 handled>>

\* request_stop in three steps, by the owner or by the handler of a Shutdown frame.
\* Closing the listener resets what it had not accepted.  A Faulty definition, here
\* and below, is the next definition with one mistake.
SetStopFlag ==
  /\ stop_requested' = TRUE
  /\ UNCHANGED <<listening, connections, pool, backlog, link, caller, raw, handled>>

FaultyCloseListener ==
  UNCHANGED <<flags, connections, pool, backlog, link, caller, raw, handled>>
CloseListener ==
  /\ listening' = FALSE
  /\ link' = Close(Range(backlog)) /\ backlog' = <<>>
  /\ UNCHANGED <<stop_requested, connections, pool, caller, raw, handled>>

CloseConnections ==
  /\ link' = Close(connections)
  /\ UNCHANGED <<flags, connections, pool, backlog, caller, raw, handled>>

\* Service::shutdown: request_stop, then ThreadPool::shutdown.
Shutdown ==
  /\ owner = "Up" /\ SetStopFlag
  /\ owner' = "CloseListener"
  /\ UNCHANGED <<runner, accepted, pc, job, frame>>

OwnerRequestsStop ==
  /\ \/ owner = "CloseListener" /\ CloseListener /\ owner' = "CloseConnections"
     \/ owner = "CloseConnections" /\ CloseConnections /\ owner' = "StopPool"
  /\ UNCHANGED <<runner, accepted, pc, job, frame>>

StopPool ==
  /\ owner = "StopPool"
  /\ stop' = TRUE
  /\ owner' = "JoinPool"
  /\ UNCHANGED <<flags, connections, running, queue, runner, accepted, pc, job, frame,
                 backlog, link, caller, raw, handled>>

\* The workers have left, and with them everything queued (AsyncOps).
JoinPool ==
  /\ owner = "JoinPool" /\ \A w \in Worker : pc[w] = "Exited"
  /\ running' = FALSE /\ stop' = FALSE /\ queue' = <<>>
  /\ listening' = FALSE
  /\ owner' = "Down"
  /\ UNCHANGED <<stop_requested, connections, runner, accepted, pc, job, frame, backlog,
                 link, caller, raw, handled>>

-----------------------------------------------------------------------------
(* Service::run *)

\* The test of the stop flag at the top of the loop, taken with the step before it:
\* the flag only goes up while run() goes on, so a later test has no more outcomes.
Listen == IF stop_requested THEN "Out" ELSE "Accept"

Run ==
  /\ runner = "Out" /\ owner = "Up" /\ runner' = Listen
  /\ UNCHANGED <<flags, connections, pool, owner, accepted, pc, job, frame, backlog, link,
                 caller, raw, handled>>

\* accept_connection hands out the oldest connection, or fails for one whose peer
\* has left, and the loop goes on.
Accept ==
  /\ runner = "Accept" /\ listening /\ backlog # <<>>
  /\ backlog' = Tail(backlog)
  /\ \/ runner' = "Register" /\ accepted' = Head(backlog) /\ UNCHANGED link
     \/ /\ ~link[Head(backlog)].peer
        /\ link' = Close({Head(backlog)})
        /\ runner' = Listen /\ UNCHANGED accepted
  /\ UNCHANGED <<flags, connections, pool, owner, pc, job, frame, caller, raw, handled>>

\* It fails once the listener is closed, and run() returns.
AcceptFails ==
  /\ runner = "Accept" /\ ~listening /\ runner' = "Out"
  /\ UNCHANGED <<flags, connections, pool, owner, accepted, pc, job, frame, backlog, link,
                 caller, raw, handled>>

\* ThreadPool::try_submit takes a job.
FaultySubmits == running /\ ~stop /\ Len(queue) <= MaxQueue
Submits == running /\ ~stop /\ Len(queue) < MaxQueue

\* Under connection_mutex: the connection is refused when the registry or the
\* pool's queue is full, and otherwise registered and queued in one step.
FaultyRegister ==
  /\ runner = "Register"
  /\ LET room == Cardinality(connections) < MaxConnections
     IN  /\ connections' = IF room THEN connections \union {accepted} ELSE connections
         /\ queue' = IF room /\ Submits THEN Append(queue, accepted) ELSE queue
         /\ link' = IF room /\ Submits THEN link ELSE Close({accepted})
  /\ runner' = Listen /\ accepted' = 0
  /\ UNCHANGED <<flags, stop, running, owner, pc, job, frame, backlog, caller, raw,
                 handled>>
Register ==
  /\ runner = "Register"
  /\ LET taken == Cardinality(connections) < MaxConnections /\ Submits
     IN  /\ connections' = IF taken THEN connections \union {accepted} ELSE connections
         /\ queue' = IF taken THEN Append(queue, accepted) ELSE queue
         /\ link' = IF taken THEN link ELSE Close({accepted})
  /\ runner' = Listen /\ accepted' = 0
  /\ UNCHANGED <<flags, stop, running, owner, pc, job, frame, backlog, caller, raw,
                 handled>>

-----------------------------------------------------------------------------
(* A worker: ThreadPool::worker_loop and Impl::handle_connection *)

Goto(w, step) == pc' = [pc EXCEPT ![w] = step]

\* The connection and the frame of worker w.
Conn(w) == link[job[w]]

\* send_all on the connection of w.  It fails when the service has closed the
\* connection, and may fail, or lose the reply, when the client has left.
Deliver(w, reply) ==
  link' = IF Conn(w).served /\ Conn(w).peer
          THEN [link EXCEPT ![job[w]].replies = Append(@, reply)] ELSE link
SendSucceeds(w) == Conn(w).served
SendFails(w)    == ~(Conn(w).served /\ Conn(w).peer)

\* The test of the stop flag at the top of the handler's loop, taken early like
\* run()'s.
ReadOn == IF stop_requested THEN "Drop" ELSE "Receive"

TakeJob(w) ==
  /\ pc[w] = "Ready" /\ queue # <<>>
  /\ job' = [job EXCEPT ![w] = Head(queue)]
  /\ queue' = Tail(queue)
  /\ Goto(w, ReadOn)
  /\ UNCHANGED <<flags, connections, stop, running, owner, runner, accepted, frame,
                 backlog,
                 link, caller, raw, handled>>

LeavePool(w) ==
  /\ pc[w] = "Ready" /\ queue = <<>> /\ stop
  /\ Goto(w, "Exited")
  /\ UNCHANGED <<flags, connections, pool, owner, runner, accepted, job, frame, backlog,
                 link, caller, raw, handled>>

\* A frame arrives.  One that is too long is refused under its own correlation and
\* ends the connection; one that does not decode is refused under correlation 0.  A
\* frame of which only a part has arrived is waited for.
Receive(w) ==
  /\ pc[w] = "Receive" /\ Conn(w).served /\ Conn(w).requests # <<>>
  /\ LET f    == Head(Conn(w).requests)
         rest == [link EXCEPT ![job[w]].requests = Tail(@)]
         refused(n) == [rest EXCEPT ![job[w]].replies =
                          IF Conn(w).peer
                          THEN Append(@, [correlation |-> n, accepted |-> FALSE]) ELSE @]
     IN  \/ /\ f.kind = "Oversized"
            /\ link' = refused(f.correlation) /\ Goto(w, "Drop") /\ UNCHANGED frame
         \/ /\ f.kind = "Malformed"
            /\ link' = refused(0) /\ Goto(w, ReadOn) /\ UNCHANGED frame
         \/ /\ f.kind \in {"Request", "Shutdown"}
            /\ link' = rest /\ Goto(w, "Dispatch") /\ frame' = [frame EXCEPT ![w] = f]
  /\ UNCHANGED <<flags, connections, pool, owner, runner, accepted, job, backlog, caller,
                 raw, handled>>

\* recv_exact fails: one of the ends is closed.  The faulty form tries again.
FaultyReceiveFails(w) ==
  pc[w] = "Receive" /\ ~(Conn(w).served /\ Conn(w).peer) /\ UNCHANGED vars
ReceiveFails(w) ==
  /\ pc[w] = "Receive" /\ ~(Conn(w).served /\ Conn(w).peer)
  /\ Goto(w, "Drop")
  /\ UNCHANGED <<flags, connections, pool, owner, runner, accepted, job, frame, backlog,
                 link, caller, raw, handled>>

\* Service::dispatch.  A payload that does not decode is refused before the engine
\* is called.  A request that the engine has carried out can still be answered by a
\* refusal: the engine's own, or ProtocolBackpressure for a response that is too
\* long to encode.  Shutdown only acknowledges.
Dispatch(w) ==
  /\ pc[w] = "Dispatch"
  /\ \E called, accepted_ \in BOOLEAN :
       /\ accepted_ => called
       /\ frame[w].kind = "Shutdown" => accepted_
       /\ handled' = IF called /\ frame[w].correlation # 0
                     THEN handled \union
                            {<<frame[w].client, frame[w].correlation, frame[w].raw>>}
                     ELSE handled
       /\ frame' = [frame EXCEPT ![w] = [kind |-> @.kind, correlation |-> @.correlation,
                                         accepted |-> accepted_]]
  /\ Goto(w, "Send")
  /\ UNCHANGED <<flags, connections, pool, owner, runner, accepted, job, backlog, link,
                 caller, raw>>

\* The reply goes out.  A Shutdown frame is obeyed only after its reply was sent.
Send(w) ==
  /\ pc[w] = "Send"
  /\ \/ /\ SendSucceeds(w)
        /\ Deliver(w, [correlation |-> frame[w].correlation,
                       accepted |-> frame[w].accepted])
        /\ Goto(w, IF frame[w].kind = "Shutdown" THEN "SetStopFlag" ELSE ReadOn)
     \/ SendFails(w) /\ Goto(w, "Drop") /\ UNCHANGED link
  /\ frame' = [frame EXCEPT ![w] = NoFrame]
  /\ UNCHANGED <<flags, connections, pool, owner, runner, accepted, job, backlog, caller,
                 raw, handled>>

\* request_stop on behalf of the client.
HandlerRequestsStop(w) ==
  /\ \/ pc[w] = "SetStopFlag" /\ SetStopFlag /\ Goto(w, "CloseListener")
     \/ pc[w] = "CloseListener" /\ CloseListener /\ Goto(w, "CloseConnections")
     \/ pc[w] = "CloseConnections" /\ CloseConnections /\ Goto(w, "Drop")
  /\ UNCHANGED <<owner, runner, accepted, job, frame>>

\* drop_connection, and back to worker_loop.
FaultyDropConnection(w) ==
  /\ pc[w] = "Drop"
  /\ connections' = connections \ {job[w]}
  /\ job' = [job EXCEPT ![w] = 0] /\ Goto(w, "Ready")
  /\ UNCHANGED <<flags, pool, owner, runner, accepted, frame, backlog, link, caller, raw,
                 handled>>
DropConnection(w) ==
  /\ pc[w] = "Drop"
  /\ connections' = connections \ {job[w]}
  /\ link' = Close(connections \intersect {job[w]})
  /\ job' = [job EXCEPT ![w] = 0] /\ Goto(w, "Ready")
  /\ UNCHANGED <<flags, pool, owner, runner, accepted, frame, backlog, caller, raw,
                 handled>>

-----------------------------------------------------------------------------
(* A Client object.  io_mutex makes its operations exclusive. *)

Idle(c) == ~caller[c].waiting

\* The link table once client c has closed its end.
Hangup(c) == [i \in DOMAIN link |-> IF i = caller[c].socket
                                    THEN [link[i] EXCEPT !.peer = FALSE, !.replies = <<>>]
                                    ELSE link[i]]

\* Client::connect closes the connection it had.
Connect(c) ==
  /\ Idle(c) /\ listening /\ Len(link) < MaxLinks
  /\ link' = Append(Hangup(c), NewLink)
  /\ backlog' = Append(backlog, Len(link) + 1)
  /\ caller' = [caller EXCEPT ![c].socket = Len(link) + 1]
  /\ UNCHANGED <<flags, connections, pool, threads, raw, handled>>

Leave(c) ==
  /\ Idle(c) /\ caller[c].socket # 0
  /\ link' = Hangup(c)
  /\ caller' = [caller EXCEPT ![c].socket = 0]
  /\ UNCHANGED <<flags, connections, pool, threads, backlog, raw, handled>>

\* What client c can send with send_raw: any frame, under any correlation, or a part.
RawFrame(c) ==
  {f \in Frame : /\ f.client = c /\ f.raw
                 /\ f.kind \in {"Malformed", "Partial"} => f.correlation = 0}

\* What half a frame becomes when f follows it.  Raw bytes can be the missing ones
\* and complete it.  Otherwise f's bytes are too few, or make it a frame that is too
\* long or that does not decode, and what is then left of them is read the same way.
\* This takes for granted that a frame decodes only if its digest was computed for
\* it, that no payload contains a whole frame, and that one undecodable frame more
\* or less makes no difference.
Completed(f) ==
  LET unreadable == {g \in RawFrame(f.client) : g.kind \notin {"Request", "Shutdown"}}
      malformed  == {g \in unreadable : g.kind = "Malformed"}
  IN  {<<g>> : g \in IF f.kind = "Partial" THEN RawFrame(f.client) ELSE unreadable}
      \union {<<g, h>> : g \in malformed, h \in unreadable}

\* The requests under way once f is sent behind those in s.
Half(s) == s # <<>> /\ s[Len(s)].kind = "Partial"
Joined(s, f) ==
  IF Half(s) THEN {SubSeq(s, 1, Len(s) - 1) \o t : t \in Completed(f)} ELSE {Append(s, f)}

\* A frame leaves client c.  It is lost when the service has closed its end.
Transmit(c, f) ==
  \E s \in Joined(link[caller[c].socket].requests, f) :
    link' = IF link[caller[c].socket].served
            THEN [link EXCEPT ![caller[c].socket].requests = s] ELSE link

\* Client::call up to the wait for the reply.
Callers == {c \in Client : caller[c].next_correlation > 1}
Call(c) ==
  /\ Idle(c) /\ caller[c].socket # 0 /\ caller[c].next_correlation <= MaxCalls
  /\ Cardinality(Callers \union {c}) <= MaxCallers
  /\ \E kind \in {"Request", "Shutdown"} :
       Transmit(c, [kind |-> kind, client |-> c,
                    correlation |-> caller[c].next_correlation, raw |-> FALSE])
  /\ caller' = [caller EXCEPT ![c].next_correlation = @ + 1, ![c].waiting = TRUE]
  /\ UNCHANGED <<flags, connections, pool, threads, backlog, raw, handled>>

\* Client::send_raw: bytes of the caller's choice, whose reply nobody waits for.
SendRaw(c) ==
  /\ Idle(c) /\ caller[c].socket # 0
  /\ c \in RawClient /\ raw < MaxRaw /\ raw' = raw + 1
  /\ \E f \in RawFrame(c) : Transmit(c, f)
  /\ UNCHANGED <<flags, connections, pool, threads, backlog, caller, handled>>

\* The rest of Client::call.  The next reply ends the call, whichever request it
\* answers; under another correlation it is an error.
FaultyReturn(c) ==
  /\ ~Idle(c) /\ link[caller[c].socket].replies # <<>>
  /\ LET reply == Head(link[caller[c].socket].replies)
     IN  caller' = [caller EXCEPT ![c].waiting = FALSE,
                                  ![c].returned = IF reply.accepted
                                    THEN @ \union {caller[c].next_correlation - 1} ELSE @]
  /\ link' = [link EXCEPT ![caller[c].socket].replies = Tail(@)]
  /\ UNCHANGED <<flags, connections, pool, threads, backlog, raw, handled>>
Return(c) ==
  /\ ~Idle(c) /\ link[caller[c].socket].replies # <<>>
  /\ LET reply == Head(link[caller[c].socket].replies)
         own   == caller[c].next_correlation - 1
         good  == reply.correlation = own /\ reply.accepted
     IN  caller' = [caller EXCEPT ![c].waiting = FALSE,
                                  ![c].returned = IF good THEN @ \union {own} ELSE @]
  /\ link' = [link EXCEPT ![caller[c].socket].replies = Tail(@)]
  /\ UNCHANGED <<flags, connections, pool, threads, backlog, raw, handled>>

\* The service has closed its end: the call fails, and the socket stays.  The faulty
\* form takes it for no data yet and reads again.
FaultyReturnBroken(c) == ~Idle(c) /\ ~link[caller[c].socket].served /\ UNCHANGED vars
ReturnBroken(c) ==
  /\ ~Idle(c) /\ ~link[caller[c].socket].served
  /\ caller' = [caller EXCEPT ![c].waiting = FALSE]
  /\ UNCHANGED <<flags, connections, pool, threads, backlog, link, raw, handled>>

-----------------------------------------------------------------------------
OwnerStep == OwnerRequestsStop \/ StopPool \/ JoinPool
RunnerStep == Accept \/ AcceptFails \/ Register
WorkerStep(w) ==
  \/ TakeJob(w) \/ LeavePool(w) \/ Receive(w) \/ ReceiveFails(w)
  \/ Dispatch(w) \/ Send(w) \/ HandlerRequestsStop(w) \/ DropConnection(w)
CallReturns(c) == Return(c) \/ ReturnBroken(c)

Next ==
  \/ Start \/ Shutdown \/ OwnerStep
  \/ Run \/ RunnerStep
  \/ \E w \in Worker : WorkerStep(w)
  \/ \E c \in Client : Connect(c) \/ Leave(c) \/ Call(c) \/ SendRaw(c) \/ CallReturns(c)

\* Threads that can go on do.  Nothing makes a client call, hang up, or read on
\* unless it waits for a reply, and nothing makes the owner shut down.
Spec ==
  /\ Init /\ [][Next]_vars
  /\ WF_vars(OwnerStep) /\ WF_vars(RunnerStep)
  /\ \A w \in Worker : WF_vars(WorkerStep(w))
  /\ \A c \in Client : WF_vars(CallReturns(c))

-----------------------------------------------------------------------------
(* Properties. *)

\* The tables are well formed, and neither the registry nor the pool's queue
\* exceeds its configured size (run, try_submit).
TypeOK ==
  /\ stop_requested \in BOOLEAN /\ listening \in BOOLEAN
  /\ connections \subseteq DOMAIN link /\ Cardinality(connections) <= MaxConnections
  /\ stop \in BOOLEAN /\ running \in BOOLEAN
  /\ queue \in Seq(DOMAIN link) /\ Len(queue) <= MaxQueue
  /\ owner \in {"Down", "Up", "CloseListener", "CloseConnections", "StopPool", "JoinPool"}
  /\ runner \in {"Out", "Accept", "Register"} /\ accepted \in 0..MaxLinks
  /\ job \in [Worker -> 0..MaxLinks]
  /\ backlog \in Seq(DOMAIN link) /\ link \in Seq(Link)
  /\ caller \in [Client -> Caller]
  /\ raw \in 0..MaxRaw /\ handled \subseteq Client \X (1..MaxCalls) \X BOOLEAN

\* The connections the pool owes a handler run or is running one for.
Owed == (Range(queue) \union {job[w] : w \in Worker}) \ {0}

\* The registry and the pool agree: every registered connection has exactly one
\* handler, queued or running, and no handler runs without its registration.  A
\* registration whose handler is gone would hold one of max_connections slots for
\* good (run, handle_connection, drop_connection).
RegisteredIsServed ==
  /\ connections = Owed
  /\ IsInjective(queue)
  /\ \A w \in Worker : job[w] # 0 =>
       /\ job[w] \notin Range(queue)
       /\ \A v \in Worker \ {w} : job[v] # job[w]

\* Once shutdown() and run() have both returned, no connection that a client still
\* holds is left open at the service's end, whenever it was accepted (request_stop,
\* run, shutdown).
NothingLeftOpen ==
  owner = "Down" /\ runner = "Out" =>
    connections = {} /\ \A i \in DOMAIN link : ~link[i].served

\* The clients c and numbers n such that the engine has carried out call n of c, or a
\* request that c itself sent raw under that number.
CarriedOut ==
  {p \in Client \X (1..MaxCalls) :
     \/ <<p[1], p[2], FALSE>> \in handled
     \/ p[1] \in RawClient /\ <<p[1], p[2], TRUE>> \in handled}

\* A call that returns acceptance was carried out, even on a connection where the
\* reply to an earlier frame was never read.  The correlation tells the replies
\* apart, so only a raw frame that the same client numbered like the call can be
\* answered in its place (Client::call, send_raw, dispatch).
AcceptedIsHandled ==
  \A c \in Client : \A n \in caller[c].returned : <<c, n>> \in CarriedOut

\* shutdown() returns, whatever the clients do or fail to do: no handler waits for
\* a client that stays silent (request_stop, handle_connection).
ShutdownCompletes == owner = "CloseListener" ~> owner = "Down"

\* After a stop was requested, by the owner or by a client, run() returns.
RunReturns == stop_requested ~> runner = "Out"

\* The handler of client c's connection can read no further than half a frame.
Starved(c) ==
  LET s == link[caller[c].socket].requests IN s # <<>> /\ Head(s).kind = "Partial"

\* A call whose connection has a handler returns, unless it only filled up a frame
\* that was sent in part, and that still lacks bytes: then the server waits for them
\* and the client for its reply, as service.hpp:99 warns.  Every call, that one
\* included, returns once a stop is requested (Client::call, send_raw, request_stop).
CallsReturn ==
  \A c \in Client :
    LET served == \E w \in Worker : job[w] = caller[c].socket
    IN  ~Idle(c) /\ (stop_requested \/ (served /\ ~Starved(c))) ~> Idle(c)

=============================================================================

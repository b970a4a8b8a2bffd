------------------------- MODULE ServiceInvariant ---------------------------
(***************************************************************************)
(* The inductive invariant of Service, with the facts about sequences and  *)
(* connections that its proof uses, and that the steps of the service keep *)
(* it: handle_connection, the owner, the thread in run() and the workers.  *)
(* The steps of the clients are in ServiceProofs.                          *)
(***************************************************************************)
EXTENDS Service, TLAPS

\* Each leaf is tried with SMT, then with Zenon, then with SMT and more time.
USE SMTT(30), ZenonT(90), SMTT(60), SMTT(90)

-----------------------------------------------------------------------------
(* Sequences as queues. *)

\* The indices and the elements of a sequence.
LEMMA Indices ==
  ASSUME NEW S, NEW s \in Seq(S)
  PROVE  /\ Len(s) \in Nat /\ DOMAIN s = 1..Len(s) /\ \A i \in DOMAIN s : s[i] \in S
         /\ s # <<>> => Len(s) # 0
  OBVIOUS

\* A function on an initial segment is a sequence.
LEMMA IndexedIsSeq ==
  ASSUME NEW S, NEW n \in Nat, NEW f \in [1..n -> S]
  PROVE  f \in Seq(S) /\ Len(f) = n
  OBVIOUS

\* The empty sequence.
LEMMA EmptySequence == \A S : <<>> \in Seq(S) /\ Len(<<>>) = 0 /\ DOMAIN <<>> = {}
  OBVIOUS

\* Where Append puts its element.
LEMMA AppendIndices ==
  ASSUME NEW S, NEW s \in Seq(S), NEW x \in S
  PROVE  /\ Append(s, x) \in Seq(S) /\ Len(Append(s, x)) = Len(s) + 1
         /\ DOMAIN Append(s, x) = 1..(Len(s) + 1)
         /\ Append(s, x)[Len(s) + 1] = x /\ \A i \in 1..Len(s) : Append(s, x)[i] = s[i]
  OBVIOUS

\* What Head takes and Tail leaves.
LEMMA HeadTail ==
  ASSUME NEW S, NEW s \in Seq(S), s # <<>>
  PROVE  /\ Head(s) = s[1] /\ Tail(s) \in Seq(S) /\ Len(Tail(s)) = Len(s) - 1
         /\ DOMAIN Tail(s) = 1..(Len(s) - 1)
         /\ \A i \in 1..(Len(s) - 1) : Tail(s)[i] = s[i + 1]
  OBVIOUS

\* A bounded queue stays bounded when it loses its head, or gains an element below
\* the bound.
LEMMA QueueBound ==
  ASSUME NEW S, NEW s \in Seq(S), NEW x \in S, NEW n \in Nat
  PROVE  /\ s # <<>> /\ Len(s) <= n => Len(Tail(s)) <= n
         /\ Len(s) < n => Len(Append(s, x)) <= n
BY Indices, HeadTail, AppendIndices

\* What an appended element does to the elements of a sequence.
LEMMA AppendElements ==
  ASSUME NEW S, NEW s \in Seq(S), NEW x \in S
  PROVE  /\ Range(Append(s, x)) = Range(s) \union {x}
         /\ IsInjective(s) /\ x \notin Range(s) => IsInjective(Append(s, x))
<1>1. /\ DOMAIN s = 1..Len(s) /\ Len(s) \in Nat
      /\ DOMAIN Append(s, x) = 1..(Len(s) + 1)
      /\ Append(s, x)[Len(s) + 1] = x
      /\ \A i \in 1..Len(s) : Append(s, x)[i] = s[i]
  BY AppendIndices, Indices
<1>2. 1..(Len(s) + 1) = 1..Len(s) \union {Len(s) + 1}
  BY <1>1
<1>3. QED
  BY <1>1, <1>2 DEF Range, IsInjective

\* What taking the head does.
LEMMA TailElements ==
  ASSUME NEW S, NEW s \in Seq(S), s # <<>>
  PROVE  /\ Head(s) \in Range(s) /\ Head(s) \in S /\ Tail(s) \in Seq(S)
         /\ Range(Tail(s)) \subseteq Range(s)
         /\ Range(s) = Range(Tail(s)) \union {Head(s)}
         /\ IsInjective(s) => IsInjective(Tail(s)) /\ Head(s) \notin Range(Tail(s))
<1>1. /\ DOMAIN s = 1..Len(s) /\ Len(s) \in Nat \ {0}
      /\ Head(s) = s[1] /\ Tail(s) \in Seq(S)
      /\ DOMAIN Tail(s) = 1..(Len(s) - 1)
      /\ \A i \in 1..(Len(s) - 1) : Tail(s)[i] = s[i + 1]
  BY HeadTail, Indices, EmptySequence
<1>2. \A i \in 1..Len(s) : i = 1 \/ (i - 1 \in 1..(Len(s) - 1) /\ s[i] = Tail(s)[i - 1])
  BY <1>1
<1>3. \A i \in 1..(Len(s) - 1) : i + 1 \in 1..Len(s) /\ i + 1 # 1
  BY <1>1
<1>4. 1 \in 1..Len(s)
  BY <1>1
<1>5. Range(Tail(s)) \subseteq Range(s)
  BY <1>1, <1>3 DEF Range
<1>6. Range(s) = Range(Tail(s)) \union {Head(s)}
  <2>1. Head(s) \in Range(s)
    BY <1>1, <1>4 DEF Range
  <2>2. ASSUME NEW i \in 1..Len(s) PROVE s[i] \in Range(Tail(s)) \union {Head(s)}
    BY <1>1, <1>2, ZenonT(90) DEF Range
  <2>3. QED
    BY <1>1, <1>5, <2>1, <2>2 DEF Range
<1>7. ASSUME IsInjective(s)
      PROVE  IsInjective(Tail(s)) /\ Head(s) \notin Range(Tail(s))
  BY <1>1, <1>3, <1>4, <1>7 DEF Range, IsInjective
<1>8. Head(s) \in S
  BY <1>1, <1>4, Indices
<1>9. QED
  BY <1>1, <1>5, <1>6, <1>7, <1>8

\* The empty sequence.
LEMMA EmptyElements == Range(<<>>) = {} /\ IsInjective(<<>>)
  BY DEF Range, IsInjective

\* A function on the indices of a sequence is a sequence as long.
LEMMA SameIndices ==
  ASSUME NEW S, NEW T, NEW s \in Seq(S), NEW f \in [DOMAIN s -> T]
  PROVE  f \in Seq(T) /\ DOMAIN f = DOMAIN s /\ Len(f) = Len(s)
<1>1. DOMAIN s = 1..Len(s) /\ Len(s) \in Nat
  BY Indices
<1>2. f \in [1..Len(s) -> T]
  BY <1>1
<1>3. f \in Seq(T)
  BY <1>1, <1>2, IndexedIsSeq
<1>4. QED
  BY <1>1, <1>2, <1>3, Indices

-----------------------------------------------------------------------------
(* The parts of the inductive invariant. *)

\* The steps of a worker, those at which it has no connection, and the frame it has
\* in hand once dispatch has answered.
Step == {"Exited", "Ready", "Receive", "Dispatch", "Send", "SetStopFlag",
         "CloseListener", "CloseConnections", "Drop"}
Resting == {"Exited", "Ready"}
Answer == [kind: Kind, correlation: 0..MaxCalls, accepted: BOOLEAN]

\* The part of TypeOK about the service's threads; the size of the registry is at
\* the end of ServiceProofs.
ThreadsTyped ==
  /\ stop_requested \in BOOLEAN /\ listening \in BOOLEAN
  /\ connections \subseteq DOMAIN link
  /\ stop \in BOOLEAN /\ running \in BOOLEAN
  /\ queue \in Seq(DOMAIN link) /\ Len(queue) <= MaxQueue
  /\ owner \in {"Down", "Up", "CloseListener", "CloseConnections", "StopPool", "JoinPool"}
  /\ runner \in {"Out", "Accept", "Register"} /\ accepted \in 0..MaxLinks
  /\ job \in [Worker -> 0..MaxLinks] /\ pc \in [Worker -> Step]
  /\ backlog \in Seq(DOMAIN link)

\* Types the steps rely on: the frame a worker has in hand, and the connection and
\* correlation of a client.
StepsTyped ==
  /\ ThreadsTyped
  /\ link \in Seq(Link) /\ Len(link) <= MaxLinks
  /\ caller \in [Client -> Caller]
  /\ raw \in 0..MaxRaw /\ handled \subseteq Client \X (1..MaxCalls) \X BOOLEAN
  /\ frame \in [Worker -> Frame \union Answer \union {NoFrame}]
  /\ \A w \in Worker : /\ pc[w] = "Dispatch" => frame[w] \in Frame
                       /\ pc[w] = "Send" => frame[w] \in Answer
  /\ \A c \in Client :
       /\ caller[c].socket \in {0} \union DOMAIN link
       /\ caller[c].waiting => caller[c].socket # 0 /\ caller[c].next_correlation > 1

\* A worker has a connection while it handles one.  No worker leaves before the
\* pool is stopped and its queue empty, so nothing is lost when they are joined; the
\* listener is closed by then.
PoolInv ==
  /\ \A w \in Worker : job[w] = 0 <=> pc[w] \in Resting
  /\ owner = "Down" => ~running /\ queue = <<>> /\ \A w \in Worker : pc[w] = "Exited"
  /\ owner # "Down" /\ (\E w \in Worker : pc[w] = "Exited") => stop /\ queue = <<>>
  /\ owner \notin {"Up", "CloseListener"} => ~listening

\* An open connection is in the backlog, in the hands of run(), or registered, and in
\* one of the three only.
OpenIsHeld ==
  /\ IsInjective(backlog) /\ Range(backlog) \intersect connections = {}
  /\ ~listening => backlog = <<>>
  /\ runner = "Register" =>
       accepted \in DOMAIN link /\ accepted \notin connections \union Range(backlog)
  /\ \A i \in DOMAIN link : link[i].served =>
       \/ i \in Range(backlog) \union connections
       \/ runner = "Register" /\ i = accepted

\* A step that changes neither the registry nor the handlers keeps them in agreement.
LEMMA SameRegistry ==
  ASSUME RegisteredIsServed, connections' = connections, queue' = queue, job' = job
  PROVE  RegisteredIsServed'
BY DEF RegisteredIsServed, Owed

\* The same for the pool.
LEMMA SamePool ==
  ASSUME PoolInv, listening' = listening, stop' = stop, running' = running,
         queue' = queue, owner' = owner, pc' = pc, job' = job
  PROVE  PoolInv'
BY DEF PoolInv

\* The same for the places where open connections are held.
LEMMA SameHeld ==
  ASSUME OpenIsHeld, listening' = listening, connections' = connections,
         runner' = runner, accepted' = accepted, backlog' = backlog, link' = link
  PROVE  OpenIsHeld'
BY DEF OpenIsHeld

-----------------------------------------------------------------------------
(* Connections. *)

\* The fields of a connection.
LEMMA LinkFields ==
  ASSUME NEW l \in Link
  PROVE  /\ l.served \in BOOLEAN /\ l.peer \in BOOLEAN
         /\ l.requests \in Seq(Frame) /\ l.replies \in Seq(Reply)
         /\ \A r \in Seq(Frame) :
              LET m == [l EXCEPT !.requests = r] IN
              /\ m \in Link /\ m.requests = r
              /\ m.served = l.served /\ m.peer = l.peer /\ m.replies = l.replies
         /\ \A r \in Seq(Reply) :
              LET m == [l EXCEPT !.replies = r] IN
              /\ m \in Link /\ m.replies = r
              /\ m.served = l.served /\ m.peer = l.peer /\ m.requests = l.requests
  BY ZenonT(90) DEF Link

\* The connections are the same and none is opened.
Narrows ==
  /\ link' \in Seq(Link) /\ DOMAIN link' = DOMAIN link /\ Len(link') = Len(link)
  /\ \A i \in DOMAIN link : link'[i].served => link[i].served

\* Every frame and reply that is under way was under way before.
BringsNothing ==
  \A i \in DOMAIN link :
    /\ Range(link'[i].requests) \subseteq Range(link[i].requests)
    /\ Range(link'[i].replies) \subseteq Range(link[i].replies)

\* Closing the service's ends of some connections.
LEMMA CloseLinks ==
  ASSUME link \in Seq(Link), NEW S, link' = Close(S)
  PROVE  /\ Narrows /\ BringsNothing
         /\ \A i \in DOMAIN link \intersect S : ~link'[i].served
<1>1. DOMAIN link = 1..Len(link) /\ \A i \in DOMAIN link : link[i] \in Link
  BY Indices
<1>2. ASSUME NEW l \in Link
      PROVE  LET m == [l EXCEPT !.served = FALSE, !.requests = <<>>] IN
             /\ m \in Link /\ m.served = FALSE /\ m.requests = <<>>
             /\ m.replies = l.replies
  BY EmptySequence, ZenonT(90) DEF Link
<1>3. ASSUME NEW i \in DOMAIN link
      PROVE  /\ link'[i] \in Link
             /\ i \in S => ~link'[i].served /\ link'[i].requests = <<>>
                           /\ link'[i].replies = link[i].replies
             /\ i \notin S => link'[i] = link[i]
  BY <1>1, <1>2, ZenonT(90) DEF Close
<1>4. link' \in [DOMAIN link -> Link]
  BY <1>3, ZenonT(90) DEF Close
<1>5. link' \in Seq(Link) /\ DOMAIN link' = DOMAIN link /\ Len(link') = Len(link)
  BY <1>4, SameIndices
<1>6. QED
  BY <1>3, <1>5, EmptyElements DEF Narrows, BringsNothing

\* Changing one connection.
LEMMA ChangeLink ==
  ASSUME link \in Seq(Link), NEW j \in DOMAIN link, NEW l \in Link,
         l.served => link[j].served,
         link' = [link EXCEPT ![j] = l]
  PROVE  Narrows /\ link'[j] = l /\ \A i \in DOMAIN link \ {j} : link'[i] = link[i]
<1>1. \A i \in DOMAIN link : link[i] \in Link
  BY Indices
<1>2. link' \in [DOMAIN link -> Link]
        /\ link'[j] = l /\ \A i \in DOMAIN link \ {j} : link'[i] = link[i]
  BY <1>1
<1>3. link' \in Seq(Link) /\ DOMAIN link' = DOMAIN link /\ Len(link') = Len(link)
  BY <1>2, SameIndices
<1>4. QED
  BY <1>2, <1>3 DEF Narrows

\* Closing a client's end.
LEMMA HangupLinks ==
  ASSUME link \in Seq(Link), NEW c \in Client
  PROVE  /\ Hangup(c) \in Seq(Link) /\ DOMAIN Hangup(c) = DOMAIN link
         /\ Len(Hangup(c)) = Len(link)
         /\ \A i \in DOMAIN link :
              /\ Hangup(c)[i].served = link[i].served
              /\ Hangup(c)[i].requests = link[i].requests
              /\ Range(Hangup(c)[i].replies) \subseteq Range(link[i].replies)
<1>1. DOMAIN link = 1..Len(link) /\ \A i \in DOMAIN link : link[i] \in Link
  BY Indices
<1>2. ASSUME NEW l \in Link
      PROVE  LET m == [l EXCEPT !.peer = FALSE, !.replies = <<>>] IN
             /\ m \in Link /\ m.served = l.served /\ m.requests = l.requests
             /\ m.replies = <<>>
  BY EmptySequence, ZenonT(90) DEF Link
<1>3. ASSUME NEW i \in DOMAIN link
      PROVE  /\ Hangup(c)[i] \in Link
             /\ \/ Hangup(c)[i] = link[i]
                \/ /\ Hangup(c)[i].served = link[i].served
                   /\ Hangup(c)[i].requests = link[i].requests
                   /\ Hangup(c)[i].replies = <<>>
  BY <1>1, <1>2, ZenonT(90) DEF Hangup
<1>4. Hangup(c) \in [DOMAIN link -> Link]
  BY <1>3, ZenonT(90) DEF Hangup
<1>5. /\ Hangup(c) \in Seq(Link) /\ DOMAIN Hangup(c) = DOMAIN link
      /\ Len(Hangup(c)) = Len(link)
  BY <1>4, SameIndices
<1>6. QED
  BY <1>3, <1>5, EmptyElements

-----------------------------------------------------------------------------
(* What most steps keep. *)

\* A step that moves no connection between the backlog, run(), the queue and the
\* workers.
LEMMA QuietKeeps ==
  ASSUME PoolInv, OpenIsHeld, RegisteredIsServed, Narrows,
         UNCHANGED <<listening, connections, running, queue, job, backlog, accepted>>,
         stop => stop',
         \/ owner' = owner
         \/ /\ owner # "Down" /\ owner' # "Down"
            /\ owner' \notin {"Up", "CloseListener"} => ~listening,
         runner' = runner \/ (runner # "Register" /\ runner' # "Register"),
         \A w \in Worker : pc'[w] = pc[w] \/ (pc[w] \notin Resting /\ pc'[w] \notin Resting)
  PROVE  PoolInv' /\ OpenIsHeld' /\ RegisteredIsServed'
<1>1. \A w \in Worker : pc'[w] \in Resting <=> pc[w] \in Resting
  OBVIOUS
<1>2. \A w \in Worker : pc'[w] = "Exited" <=> pc[w] = "Exited"
  BY DEF Resting
<1>3. PoolInv'
  BY <1>1, <1>2 DEF PoolInv
<1>4. OpenIsHeld'
  BY DEF OpenIsHeld, Narrows
<1>5. RegisteredIsServed'
  BY DEF RegisteredIsServed, Owed
<1>6. QED
  BY <1>3, <1>4, <1>5

\* The frames and replies on a client's connection are its own, and whatever accepts
\* a request of some number, on the way or in the hands of a worker, follows the
\* handling of one that the client sent under that number.
OwnReplies ==
  /\ \A c, d \in Client :
       caller[c].socket = caller[d].socket /\ caller[c].socket # 0 => c = d
  /\ \A c \in Client : caller[c].socket # 0 =>
       LET l == link[caller[c].socket] IN
       /\ \A f \in Range(l.requests) : f.client = c
       /\ \A r \in Range(l.replies) :
            r.accepted /\ r.correlation # 0 => <<c, r.correlation>> \in CarriedOut
       /\ \A w \in Worker : job[w] = caller[c].socket =>
            /\ pc[w] = "Dispatch" => frame[w].client = c
            /\ pc[w] = "Send" /\ frame[w].accepted /\ frame[w].correlation # 0 =>
                 <<c, frame[w].correlation>> \in CarriedOut

\* A step of the service that reads no frame and sends no reply.
LEMMA ThreadsKeep ==
  ASSUME StepsTyped, OwnReplies, AcceptedIsHandled, ThreadsTyped',
         Narrows, BringsNothing, UNCHANGED <<caller, raw, handled, frame>>,
         \A w \in Worker : pc'[w] \in {"Dispatch", "Send"} =>
           pc'[w] = pc[w] /\ job'[w] = job[w]
  PROVE  StepsTyped' /\ OwnReplies' /\ AcceptedIsHandled'
<1>1. StepsTyped'
  BY ZenonT(90) DEF StepsTyped, ThreadsTyped, Narrows
<1> CarriedOut' = CarriedOut
  BY DEF CarriedOut
<1>2. OwnReplies'
  <2>1. ASSUME NEW c \in Client, caller[c].socket # 0
        PROVE  caller[c].socket \in DOMAIN link
    BY <2>1 DEF StepsTyped
  <2>2. QED
    BY <2>1, ZenonT(90) DEF OwnReplies, BringsNothing
<1>3. AcceptedIsHandled'
  BY ZenonT(90) DEF AcceptedIsHandled
<1>4. QED
  BY <1>1, <1>2, <1>3

\* The inductive invariant.
ServiceInv ==
  /\ StepsTyped /\ PoolInv /\ OpenIsHeld /\ RegisteredIsServed
  /\ OwnReplies /\ AcceptedIsHandled

\* The facts about the present state that the steps below use.
LEMMA Present ==
  ASSUME ServiceInv
  PROVE  /\ StepsTyped /\ PoolInv /\ OpenIsHeld /\ RegisteredIsServed
         /\ OwnReplies /\ AcceptedIsHandled
         /\ ThreadsTyped /\ link \in Seq(Link) /\ DOMAIN link = 1..Len(link)
         /\ Len(link) \in Nat /\ DOMAIN link \subseteq 1..MaxLinks
         /\ \A w \in Worker : job[w] # 0 => job[w] \in connections
         /\ Range(queue) \subseteq connections
         /\ MaxLinks \in Nat /\ MaxConnections \in Nat /\ MaxQueue \in Nat
<1>1. /\ StepsTyped /\ PoolInv /\ OpenIsHeld /\ RegisteredIsServed
      /\ OwnReplies /\ AcceptedIsHandled
  BY DEF ServiceInv
<1>2. ThreadsTyped /\ link \in Seq(Link)
  BY <1>1 DEF StepsTyped, ThreadsTyped
<1>3. DOMAIN link = 1..Len(link) /\ Len(link) \in Nat
  BY <1>2, Indices
<1>4. Len(link) <= MaxLinks /\ MaxLinks \in Nat
  BY <1>1, ServiceAssumption DEF StepsTyped
<1>5. /\ \A w \in Worker : job[w] # 0 => job[w] \in connections
      /\ Range(queue) \subseteq connections
  <2>1. 0 \notin Range(queue)
    BY <1>2, <1>3, Indices DEF ThreadsTyped, Range
  <2>2. QED
    BY <1>1, <2>1 DEF RegisteredIsServed, Owed
<1>6. QED
  BY <1>1, <1>2, <1>3, <1>4, <1>5, ServiceAssumption

\* A step after which the connections are as they were.
LEMMA SameLinks ==
  ASSUME link \in Seq(Link), UNCHANGED link
  PROVE  Narrows /\ BringsNothing
  BY DEF Narrows, BringsNothing

-----------------------------------------------------------------------------
(* A worker that handles a frame. *)

\* A step of handle_connection between reading a frame and sending its reply: it
\* changes the worker's own connection only, and what it puts there is owed.
LEMMA HandlerKeeps ==
  ASSUME ServiceInv, NEW w \in Worker, pc[w] \notin Resting, Narrows,
         UNCHANGED <<stop_requested, listening, connections, stop, running, queue, owner,
                     runner, accepted, job, backlog, caller, raw>>,
         pc' \in [Worker -> Step], pc'[w] \notin Resting,
         \A v \in Worker \ {w} : pc'[v] = pc[v],
         frame' \in [Worker -> Frame \union Answer \union {NoFrame}],
         \A v \in Worker \ {w} : frame'[v] = frame[v],
         pc'[w] = "Dispatch" => frame'[w] \in Frame,
         pc'[w] = "Send" => frame'[w] \in Answer,
         CarriedOut \subseteq CarriedOut',
         handled' \subseteq Client \X (1..MaxCalls) \X BOOLEAN,
         \A i \in DOMAIN link \ {job[w]} : link'[i] = link[i],
         Range(link'[job[w]].requests) \subseteq Range(link[job[w]].requests),
         \A c \in Client : caller[c].socket = job[w] =>
           /\ \A r \in Range(link'[job[w]].replies) :
                r.accepted /\ r.correlation # 0 => <<c, r.correlation>> \in CarriedOut'
           /\ pc'[w] = "Dispatch" => frame'[w].client = c
           /\ pc'[w] = "Send" /\ frame'[w].accepted /\ frame'[w].correlation # 0 =>
                <<c, frame'[w].correlation>> \in CarriedOut'
  PROVE  ServiceInv'
<1>1. PoolInv' /\ OpenIsHeld' /\ RegisteredIsServed'
  <2>1. \A v \in Worker : pc'[v] = pc[v] \/ (pc[v] \notin Resting /\ pc'[v] \notin Resting)
    OBVIOUS
  <2>2. QED
    BY <2>1, Present, QuietKeeps
<1>2. ThreadsTyped'
  BY Present DEF ThreadsTyped, Narrows
<1>3. StepsTyped /\ OwnReplies /\ AcceptedIsHandled
  BY Present
<1>4. StepsTyped'
  <2>1. \A v \in Worker : /\ pc'[v] = "Dispatch" => frame'[v] \in Frame
                          /\ pc'[v] = "Send" => frame'[v] \in Answer
    BY ZenonT(90), <1>3 DEF StepsTyped
  <2>2. QED
    BY <1>2, <1>3, <2>1 DEF StepsTyped, Narrows
<1>5. OwnReplies'
  <2>1. ASSUME NEW c \in Client, caller[c].socket # 0
        PROVE  LET l == link'[caller[c].socket] IN
               /\ \A f \in Range(l.requests) : f.client = c
               /\ \A r \in Range(l.replies) :
                    r.accepted /\ r.correlation # 0 => <<c, r.correlation>> \in CarriedOut'
    <3>1. caller[c].socket \in DOMAIN link
      BY ZenonT(90), <1>3, <2>1 DEF StepsTyped
    <3>2. LET l == link[caller[c].socket] IN
          /\ \A f \in Range(l.requests) : f.client = c
          /\ \A r \in Range(l.replies) :
               r.accepted /\ r.correlation # 0 => <<c, r.correlation>> \in CarriedOut
      BY <1>3, <2>1 DEF OwnReplies
    <3>3. CASE caller[c].socket = job[w]
      BY <3>2, <3>3, ZenonT(90)
    <3>4. CASE caller[c].socket # job[w]
      BY ZenonT(90), <3>1, <3>2, <3>4
    <3>5. QED
      BY <3>3, <3>4
  <2>2. ASSUME NEW c \in Client, caller[c].socket # 0,
               NEW v \in Worker, job[v] = caller[c].socket
        PROVE  /\ pc'[v] = "Dispatch" => frame'[v].client = c
               /\ pc'[v] = "Send" /\ frame'[v].accepted /\ frame'[v].correlation # 0 =>
                    <<c, frame'[v].correlation>> \in CarriedOut'
    <3>1. CASE v = w
      BY ZenonT(90), <2>2, <3>1
    <3>2. CASE v # w
      BY <1>3, <2>2, <3>2 DEF OwnReplies
    <3>3. QED
      BY <3>1, <3>2
  <2>3. \A c, d \in Client :
          caller[c].socket = caller[d].socket /\ caller[c].socket # 0 => c = d
    BY <1>3 DEF OwnReplies
  <2>4. QED
    BY ZenonT(90), <2>1, <2>2, <2>3 DEF OwnReplies
<1>6. AcceptedIsHandled'
  BY <1>3, ZenonT(90) DEF AcceptedIsHandled
<1>7. QED
  BY <1>1, <1>4, <1>5, <1>6 DEF ServiceInv

\* What a worker that handles a connection has.
LEMMA Handling ==
  ASSUME ServiceInv, NEW w \in Worker, pc[w] \notin Resting
  PROVE  /\ job[w] \in DOMAIN link /\ job[w] # 0 /\ Conn(w) \in Link
         /\ pc \in [Worker -> Step]
         /\ frame \in [Worker -> Frame \union Answer \union {NoFrame}]
         /\ handled \subseteq Client \X (1..MaxCalls) \X BOOLEAN
         /\ \A c \in Client : caller[c].socket = job[w] =>
              /\ \A f \in Range(Conn(w).requests) : f.client = c
              /\ \A r \in Range(Conn(w).replies) :
                   r.accepted /\ r.correlation # 0 => <<c, r.correlation>> \in CarriedOut
<1>1. job[w] # 0 /\ job[w] \in DOMAIN link
  BY Present DEF PoolInv, ThreadsTyped
<1>2. Conn(w) \in Link
  BY <1>1, Present, Indices DEF Conn
<1>3. /\ pc \in [Worker -> Step] /\ handled \subseteq Client \X (1..MaxCalls) \X BOOLEAN
      /\ frame \in [Worker -> Frame \union Answer \union {NoFrame}]
  BY Present DEF StepsTyped, ThreadsTyped
<1>4. ASSUME NEW c \in Client, caller[c].socket = job[w]
      PROVE  /\ \A f \in Range(Conn(w).requests) : f.client = c
             /\ \A r \in Range(Conn(w).replies) :
                  r.accepted /\ r.correlation # 0 => <<c, r.correlation>> \in CarriedOut
  BY ZenonT(90), <1>1, <1>4, Present DEF OwnReplies, Conn
<1>5. QED
  BY <1>1, <1>2, <1>3, <1>4

\* An entry of the history of dispatch: its type, and whether its request was raw.
LEMMA HandledEntry ==
  ASSUME NEW c \in Client, NEW n \in 1..MaxCalls, NEW b \in BOOLEAN
  PROVE  /\ <<c, n, b>> \in Client \X (1..MaxCalls) \X BOOLEAN
         /\ \A H : <<c, n, b>> \in H =>
              (b = TRUE /\ <<c, n, TRUE>> \in H) \/ (b = FALSE /\ <<c, n, FALSE>> \in H)
<1>1. <<c, n, b>> \in Client \X (1..MaxCalls) \X BOOLEAN
  OBVIOUS
<1>2. ASSUME NEW H, <<c, n, b>> \in H
      PROVE  (b = TRUE /\ <<c, n, TRUE>> \in H) \/ (b = FALSE /\ <<c, n, FALSE>> \in H)
  <2>1. CASE b = TRUE
    BY <1>2, <2>1, ZenonT(90)
  <2>2. CASE b = FALSE
    BY <1>2, <2>2, ZenonT(90)
  <2>3. QED
    BY <2>1, <2>2
<1>3. QED
  BY <1>1, <1>2

\* dispatch: what it accepts has been handled.
LEMMA DispatchKeeps ==
  ASSUME ServiceInv, NEW w \in Worker, Dispatch(w) PROVE ServiceInv'
<1>1. PICK called \in BOOLEAN, accepted_ \in BOOLEAN :
        /\ pc[w] = "Dispatch" /\ pc' = [pc EXCEPT ![w] = "Send"]
        /\ accepted_ => called
        /\ handled' = IF called /\ frame[w].correlation # 0
                      THEN handled \union
                             {<<frame[w].client, frame[w].correlation, frame[w].raw>>}
                      ELSE handled
        /\ frame' = [frame EXCEPT ![w] = [kind |-> frame[w].kind,
                                          correlation |-> frame[w].correlation,
                                          accepted |-> accepted_]]
        /\ UNCHANGED <<stop_requested, listening, connections, stop, running, queue, owner,
                       runner, accepted, job, backlog, link, caller, raw>>
  BY ZenonT(90) DEF Dispatch, Goto, flags, pool
<1>2. pc[w] \notin Resting /\ frame[w] \in Frame
  BY <1>1, Present DEF Resting, StepsTyped
<1>3. /\ job[w] \in DOMAIN link /\ job[w] # 0 /\ pc \in [Worker -> Step]
      /\ frame \in [Worker -> Frame \union Answer \union {NoFrame}]
      /\ handled \subseteq Client \X (1..MaxCalls) \X BOOLEAN /\ Conn(w) = link[job[w]]
      /\ \A c \in Client : caller[c].socket = job[w] =>
           \A r \in Range(Conn(w).replies) :
             r.accepted /\ r.correlation # 0 => <<c, r.correlation>> \in CarriedOut
  BY <1>2, Handling DEF Conn
<1>4. Narrows
  BY <1>1, Present, SameLinks
<1>5. /\ frame[w].kind \in Kind /\ frame[w].client \in Client
      /\ frame[w].correlation \in 0..MaxCalls /\ MaxCalls \in Nat
      /\ frame[w].raw \in BOOLEAN
      /\ frame[w].raw => frame[w].client \in RawClient
  BY <1>2, ServiceAssumption DEF Frame
<1>6. [kind |-> frame[w].kind, correlation |-> frame[w].correlation, accepted |-> accepted_]
        \in Answer
  BY <1>5 DEF Answer
<1>7. /\ frame' \in [Worker -> Frame \union Answer \union {NoFrame}] /\ frame'[w] \in Answer
      /\ frame'[w].accepted = accepted_ /\ frame'[w].correlation = frame[w].correlation
      /\ \A v \in Worker \ {w} : frame'[v] = frame[v]
  BY <1>1, <1>3, <1>6
<1>8. /\ handled \subseteq handled' /\ CarriedOut \subseteq CarriedOut'
      /\ handled' \subseteq Client \X (1..MaxCalls) \X BOOLEAN
      /\ called /\ frame[w].correlation # 0 =>
           <<frame[w].client, frame[w].correlation>> \in CarriedOut'
  <2>1. frame[w].correlation # 0 => frame[w].correlation \in 1..MaxCalls
    BY <1>5
  <2>2. /\ handled \subseteq handled'
        /\ handled' \subseteq Client \X (1..MaxCalls) \X BOOLEAN
    <3>1. frame[w].correlation # 0 =>
            <<frame[w].client, frame[w].correlation, frame[w].raw>>
              \in Client \X (1..MaxCalls) \X BOOLEAN
      BY <1>5, <2>1, HandledEntry
    <3>2. QED
      BY ZenonT(90), <1>1, <1>3, <3>1
  <2>3. CarriedOut \subseteq CarriedOut'
    BY <2>2 DEF CarriedOut
  <2>4. ASSUME called, frame[w].correlation # 0
        PROVE  <<frame[w].client, frame[w].correlation>> \in CarriedOut'
    <3>1. <<frame[w].client, frame[w].correlation, frame[w].raw>> \in handled'
      BY <1>1, <2>4
    <3>2. \/ <<frame[w].client, frame[w].correlation, FALSE>> \in handled'
          \/ /\ frame[w].client \in RawClient
             /\ <<frame[w].client, frame[w].correlation, TRUE>> \in handled'
      BY <1>5, <2>1, <2>4, <3>1, HandledEntry, ZenonT(90)
    <3>3. <<frame[w].client, frame[w].correlation>> \in Client \X (1..MaxCalls)
      BY <1>5, <2>1, <2>4
    <3>4. QED
      BY <3>2, <3>3 DEF CarriedOut
  <2>5. QED
    BY <2>2, <2>3, <2>4
<1>9. /\ pc' \in [Worker -> Step] /\ pc'[w] = "Send" /\ pc'[w] \notin Resting
      /\ \A v \in Worker \ {w} : pc'[v] = pc[v]
  BY ZenonT(90), <1>1, <1>3 DEF Step, Resting
<1>10. ASSUME NEW c \in Client, caller[c].socket = job[w]
       PROVE  /\ \A r \in Range(link'[job[w]].replies) :
                   r.accepted /\ r.correlation # 0 => <<c, r.correlation>> \in CarriedOut'
              /\ frame'[w].accepted /\ frame'[w].correlation # 0 =>
                   <<c, frame'[w].correlation>> \in CarriedOut'
  <2>1. frame[w].client = c
    BY <1>1, <1>3, <1>10, Present, ZenonT(90) DEF OwnReplies
  <2>2. called /\ frame[w].correlation # 0 => <<c, frame[w].correlation>> \in CarriedOut'
    BY <1>8, <2>1
  <2>3. accepted_ => called
    BY <1>1
  <2>4. QED
    BY <1>1, <1>3, <1>7, <1>8, <1>10, <2>2, <2>3
<1>11. QED
  BY <1>1, <1>2, <1>3, <1>4, <1>7, <1>8, <1>9, <1>10, HandlerKeeps

\* The reply to a frame, and the connection once it has been sent or lost.
LEMMA ReplyOn ==
  ASSUME NEW l \in Link, NEW r \in Reply
  PROVE  LET m == [l EXCEPT !.replies = Append(l.replies, r)] IN
         /\ m \in Link /\ m.served = l.served /\ m.requests = l.requests
         /\ Range(m.replies) = Range(l.replies) \union {r}
<1>1. l.replies \in Seq(Reply)
  BY LinkFields
<1>2. /\ Append(l.replies, r) \in Seq(Reply)
      /\ Range(Append(l.replies, r)) = Range(l.replies) \union {r}
  BY <1>1, AppendElements, AppendIndices
<1>3. QED
  BY <1>2, LinkFields, ZenonT(90)

\* A connection that is changed and then, unless its client has left, replied to.
LEMMA RepliedTo ==
  ASSUME NEW s, NEW j \in DOMAIN s, NEW l \in Link, NEW p, NEW r
  PROVE  [[s EXCEPT ![j] = l] EXCEPT ![j].replies = IF p THEN Append(@, r) ELSE @]
           \in {[s EXCEPT ![j] = l],
                [s EXCEPT ![j] = [l EXCEPT !.replies = Append(l.replies, r)]]}
<1>1. [l EXCEPT !.replies = l.replies] = l
  BY DEF Link
<1>2. ASSUME NEW v
      PROVE  [[s EXCEPT ![j] = l] EXCEPT ![j].replies = v]
               = [s EXCEPT ![j] = [l EXCEPT !.replies = v]]
  BY ZenonT(90)
<1>3. [s EXCEPT ![j] = l][j].replies = l.replies
  BY ZenonT(90)
<1>4. QED
  BY <1>1, <1>2, <1>3, ZenonT(90)

\* Sending the reply, or failing to.
LEMMA SendKeeps ==
  ASSUME ServiceInv, NEW w \in Worker, Send(w) PROVE ServiceInv'
<1> DEFINE r == [correlation |-> frame[w].correlation, accepted |-> frame[w].accepted]
           m == [Conn(w) EXCEPT !.replies = Append(Conn(w).replies, r)]
<1>1. /\ pc[w] = "Send" /\ frame' = [frame EXCEPT ![w] = NoFrame]
      /\ UNCHANGED <<stop_requested, listening, connections, stop, running, queue, owner,
                     runner, accepted, job, backlog, caller, raw, handled>>
      /\ link' = link \/ link' = [link EXCEPT ![job[w]] = m]
      /\ \E step \in {"Drop", "SetStopFlag", "Receive"} : pc' = [pc EXCEPT ![w] = step]
  BY DEF Send, Deliver, Conn, Goto, ReadOn, flags, pool
<1>2. pc[w] \notin Resting /\ frame[w] \in Answer
  BY ZenonT(90), <1>1, Present DEF Resting, StepsTyped
<1>3. /\ job[w] \in DOMAIN link /\ job[w] # 0 /\ Conn(w) \in Link /\ pc \in [Worker -> Step]
      /\ frame \in [Worker -> Frame \union Answer \union {NoFrame}]
      /\ handled \subseteq Client \X (1..MaxCalls) \X BOOLEAN /\ Conn(w) = link[job[w]]
      /\ \A c \in Client : caller[c].socket = job[w] =>
           \A x \in Range(Conn(w).replies) :
             x.accepted /\ x.correlation # 0 => <<c, x.correlation>> \in CarriedOut
  BY ZenonT(90), <1>2, Handling DEF Conn
<1>4. r \in Reply /\ r.correlation = frame[w].correlation /\ r.accepted = frame[w].accepted
  BY <1>2 DEF Answer, Reply
<1> HIDE DEF r
<1>5. /\ m \in Link /\ m.served = Conn(w).served /\ m.requests = Conn(w).requests
      /\ Range(m.replies) = Range(Conn(w).replies) \union {r}
  BY <1>3, <1>4, ReplyOn, ZenonT(90)
<1> HIDE DEF m
<1>6. /\ Narrows /\ \A i \in DOMAIN link \ {job[w]} : link'[i] = link[i]
      /\ link'[job[w]] = m \/ link'[job[w]] = Conn(w)
  <2>1. CASE link' = link
    BY <1>3, <2>1, Present, SameLinks
  <2>2. CASE link' = [link EXCEPT ![job[w]] = m]
    BY <1>3, <1>5, <2>2, Present, ChangeLink, ZenonT(90)
  <2>3. QED
    BY ZenonT(90), <1>1, <2>1, <2>2
<1>7. /\ frame' \in [Worker -> Frame \union Answer \union {NoFrame}]
      /\ \A v \in Worker \ {w} : frame'[v] = frame[v]
  BY <1>1, <1>3
<1>8. /\ pc' \in [Worker -> Step] /\ pc'[w] \notin Resting \union {"Dispatch", "Send"}
      /\ \A v \in Worker \ {w} : pc'[v] = pc[v]
  BY <1>1, <1>3 DEF Step, Resting
<1>9. ASSUME NEW c \in Client, caller[c].socket = job[w],
             NEW x \in Range(link'[job[w]].replies), x.accepted, x.correlation # 0
      PROVE  <<c, x.correlation>> \in CarriedOut
  <2>1. frame[w].accepted /\ frame[w].correlation # 0 =>
          <<c, frame[w].correlation>> \in CarriedOut
    BY ZenonT(90), <1>1, <1>3, <1>9, Present DEF OwnReplies
  <2>2. x = r \/ x \in Range(Conn(w).replies)
    BY <1>5, <1>6, <1>9
  <2>3. QED
    BY ZenonT(90), <1>3, <1>4, <1>9, <2>1, <2>2
<1>10. Range(link'[job[w]].requests) \subseteq Range(link[job[w]].requests)
  BY ZenonT(90), <1>3, <1>5, <1>6
<1>11. CarriedOut' = CarriedOut
  BY <1>1 DEF CarriedOut
<1>12. QED
  BY <1>1, <1>2, <1>3, <1>6, <1>7, <1>8, <1>9, <1>10, <1>11, HandlerKeeps

\* Reading a frame: it is the oldest on the connection, and a refusal accepts
\* nothing.
LEMMA ReceiveKeeps ==
  ASSUME ServiceInv, NEW w \in Worker, Receive(w) PROVE ServiceInv'
<1> DEFINE f == Head(Conn(w).requests)
           l == [Conn(w) EXCEPT !.requests = Tail(Conn(w).requests)]
           no(n) == [correlation |-> n, accepted |-> FALSE]
           m(n) == [l EXCEPT !.replies = Append(l.replies, no(n))]
<1>1. /\ pc[w] = "Receive" /\ Conn(w).requests # <<>>
      /\ UNCHANGED <<stop_requested, listening, connections, stop, running, queue, owner,
                     runner, accepted, job, backlog, caller, raw, handled>>
  BY DEF Receive, flags, pool
<1>2. pc[w] \notin Resting
  BY ZenonT(90), <1>1 DEF Resting
<1>3. /\ job[w] \in DOMAIN link /\ job[w] # 0 /\ Conn(w) \in Link /\ pc \in [Worker -> Step]
      /\ frame \in [Worker -> Frame \union Answer \union {NoFrame}]
      /\ handled \subseteq Client \X (1..MaxCalls) \X BOOLEAN /\ Conn(w) = link[job[w]]
      /\ \A c \in Client : caller[c].socket = job[w] =>
           /\ \A x \in Range(Conn(w).requests) : x.client = c
           /\ \A x \in Range(Conn(w).replies) :
                x.accepted /\ x.correlation # 0 => <<c, x.correlation>> \in CarriedOut
  BY <1>2, Handling DEF Conn
<1>4. /\ Conn(w).requests \in Seq(Frame) /\ Conn(w).replies \in Seq(Reply)
      /\ f \in Frame /\ f \in Range(Conn(w).requests) /\ Tail(Conn(w).requests) \in Seq(Frame)
      /\ Range(Tail(Conn(w).requests)) \subseteq Range(Conn(w).requests)
  BY <1>1, <1>3, LinkFields, TailElements
<1>5. /\ l \in Link /\ l.served = Conn(w).served /\ l.replies = Conn(w).replies
      /\ Range(l.requests) \subseteq Range(Conn(w).requests)
  <2>1. \A t \in Seq(Frame) :
          LET k == [Conn(w) EXCEPT !.requests = t] IN
          /\ k \in Link /\ k.requests = t
          /\ k.served = Conn(w).served /\ k.replies = Conn(w).replies
    BY <1>3, LinkFields
  <2>2. QED
    BY <1>4, <2>1, ZenonT(90)
<1>6. \/ /\ pc' \in {[pc EXCEPT ![w] = "Drop"], [pc EXCEPT ![w] = "Receive"]}
         /\ UNCHANGED frame
         /\ \E n \in {0, f.correlation} :
              link' \in {[link EXCEPT ![job[w]] = l], [link EXCEPT ![job[w]] = m(n)]}
      \/ /\ pc' = [pc EXCEPT ![w] = "Dispatch"] /\ frame' = [frame EXCEPT ![w] = f]
         /\ link' = [link EXCEPT ![job[w]] = l]
  <2>1. [link EXCEPT ![job[w]].requests = Tail(@)] = [link EXCEPT ![job[w]] = l]
    BY <1>3
  <2>2. ASSUME NEW n
        PROVE  [[link EXCEPT ![job[w]].requests = Tail(@)] EXCEPT ![job[w]].replies =
                  IF Conn(w).peer THEN Append(@, [correlation |-> n, accepted |-> FALSE])
                                  ELSE @]
                 \in {[link EXCEPT ![job[w]] = l], [link EXCEPT ![job[w]] = m(n)]}
    BY <1>3, <1>5, <2>1, RepliedTo, ZenonT(90)
  <2>3. QED
    BY <2>1, <2>2, ZenonT(90) DEF Receive, Goto, ReadOn
<1>7. ASSUME NEW n \in {0, f.correlation}
      PROVE  /\ m(n) \in Link /\ m(n).served = Conn(w).served /\ m(n).requests = l.requests
             /\ Range(m(n).replies) = Range(Conn(w).replies) \union {no(n)}
             /\ no(n).accepted = FALSE
  <2>1. no(n) \in Reply /\ no(n).accepted = FALSE
    BY <1>4, ServiceAssumption DEF Frame, Reply
  <2> HIDE DEF no, l
  <2>2. QED
    BY ZenonT(90), <1>5, <2>1, ReplyOn
<1> HIDE DEF f, l, m, no
<1>8. PICK n \in {0, f.correlation} :
        /\ Narrows /\ \A i \in DOMAIN link \ {job[w]} : link'[i] = link[i]
        /\ link'[job[w]] \in {l, m(n)}
  <2>1. CASE link' = [link EXCEPT ![job[w]] = l]
    BY <1>3, <1>5, <2>1, Present, ChangeLink, ZenonT(90)
  <2>2. ASSUME NEW n \in {0, f.correlation}, link' = [link EXCEPT ![job[w]] = m(n)]
        PROVE  /\ Narrows /\ \A i \in DOMAIN link \ {job[w]} : link'[i] = link[i]
               /\ link'[job[w]] = m(n)
    BY <1>3, <1>7, <2>2, Present, ChangeLink, ZenonT(90)
  <2>3. QED
    BY <1>6, <2>1, <2>2
<1>9. ASSUME NEW c \in Client, caller[c].socket = job[w],
             NEW x \in Range(link'[job[w]].replies), x.accepted, x.correlation # 0
      PROVE  <<c, x.correlation>> \in CarriedOut
  <2>1. x \in Range(Conn(w).replies)
    BY <1>5, <1>7, <1>8, <1>9, ZenonT(90)
  <2>2. QED
    BY <1>3, <1>9, <2>1
<1>10. Range(link'[job[w]].requests) \subseteq Range(link[job[w]].requests)
  <2>1. CASE link'[job[w]] = l
    BY ZenonT(90), <1>3, <1>5, <2>1
  <2>2. CASE link'[job[w]] = m(n)
    BY <1>3, <1>5, <1>7, <2>2
  <2>3. QED
    BY <1>8, <2>1, <2>2
<1>11. /\ pc' \in [Worker -> Step] /\ pc'[w] \notin Resting \union {"Send"}
       /\ \A v \in Worker \ {w} : pc'[v] = pc[v] /\ frame'[v] = frame[v]
       /\ frame' \in [Worker -> Frame \union Answer \union {NoFrame}]
       /\ pc'[w] = "Dispatch" => frame'[w] = f
  <2>1. CASE /\ pc' \in {[pc EXCEPT ![w] = "Drop"], [pc EXCEPT ![w] = "Receive"]}
             /\ UNCHANGED frame
    BY <1>3, <2>1 DEF Step, Resting
  <2>2. CASE pc' = [pc EXCEPT ![w] = "Dispatch"] /\ frame' = [frame EXCEPT ![w] = f]
    BY ZenonT(90), <1>3, <1>4, <2>2 DEF Step, Resting
  <2>3. QED
    BY <1>6, <2>1, <2>2
<1>12. /\ pc'[w] \notin Resting /\ pc'[w] # "Send"
       /\ pc'[w] = "Dispatch" => frame'[w] \in Frame
       /\ CarriedOut \subseteq CarriedOut'
       /\ handled' \subseteq Client \X (1..MaxCalls) \X BOOLEAN
  <2>1. CarriedOut' = CarriedOut
    BY <1>1 DEF CarriedOut
  <2>2. QED
    BY <1>1, <1>3, <1>4, <1>11, <2>1
<1>13. ASSUME NEW c \in Client, caller[c].socket = job[w]
       PROVE  /\ \A r \in Range(link'[job[w]].replies) :
                   r.accepted /\ r.correlation # 0 => <<c, r.correlation>> \in CarriedOut'
              /\ pc'[w] = "Dispatch" => frame'[w].client = c
  <2>1. f.client = c
    BY <1>3, <1>4, <1>13
  <2>2. QED
    BY ZenonT(90), <1>9, <1>11, <1>12, <1>13, <2>1
<1>14. QED
  BY ZenonT(90), <1>1, <1>2, <1>8, <1>10, <1>11, <1>12, <1>13, HandlerKeeps

-----------------------------------------------------------------------------
(* The steps of the owner and of the thread in run(). *)

\* start(): it finds nothing queued and no worker at work.
LEMMA StartKeeps == ServiceInv /\ Start => ServiceInv'
<1> SUFFICES ASSUME ServiceInv, Start PROVE ServiceInv'
  OBVIOUS
<1>1. /\ owner = "Down" /\ runner = "Out" /\ listening' = TRUE /\ stop_requested' = FALSE
      /\ running' = TRUE /\ stop' = FALSE /\ queue' = <<>>
      /\ pc' = [w \in Worker |-> "Ready"] /\ owner' = "Up"
      /\ UNCHANGED <<connections, runner, accepted, job, frame, backlog, link, caller, raw,
                     handled>>
  BY ZenonT(90) DEF Start
<1>2. queue = <<>> /\ \A w \in Worker : job[w] = 0
  BY <1>1, Present DEF PoolInv, Resting
<1>3. Narrows /\ BringsNothing
  BY <1>1, Present, SameLinks
<1>4. ThreadsTyped'
  <2>1. ThreadsTyped /\ MaxQueue \in Nat
    BY Present
  <2>2. queue' \in Seq(DOMAIN link) /\ Len(queue') = 0
    BY <1>1, EmptySequence
  <2>3. pc' \in [Worker -> Step]
    BY <1>1 DEF Step
  <2>4. /\ stop_requested' \in BOOLEAN /\ listening' \in BOOLEAN
        /\ stop' \in BOOLEAN /\ running' \in BOOLEAN
    BY <1>1, ZenonT(90)
  <2>5. UNCHANGED <<connections, runner, accepted, job, backlog, link>> /\ owner' = "Up"
    BY <1>1
  <2>6. QED
    BY <2>1, <2>2, <2>3, <2>4, <2>5 DEF ThreadsTyped
<1>5. StepsTyped' /\ OwnReplies' /\ AcceptedIsHandled'
  BY <1>1, <1>3, <1>4, Present, ThreadsKeep
<1>6. PoolInv'
  BY <1>1, <1>2 DEF PoolInv, Resting
<1>7. OpenIsHeld' /\ RegisteredIsServed'
  BY <1>1, <1>2, Present DEF OpenIsHeld, RegisteredIsServed, Owed
<1>8. QED
  BY <1>5, <1>6, <1>7 DEF ServiceInv

\* request_stop, whoever calls it: closing the listener.
LEMMA ListenerKeeps ==
  ASSUME ServiceInv, CloseListener, UNCHANGED <<runner, accepted, job, frame>>,
         \/ UNCHANGED owner
         \/ owner # "Down" /\ owner' \in {"CloseConnections"},
         pc' \in [Worker -> Step],
         \A w \in Worker : pc'[w] = pc[w] \/ (pc[w] \notin Resting /\ pc'[w] = "CloseConnections")
  PROVE  ServiceInv'
<1>1. /\ listening' = FALSE /\ link' = Close(Range(backlog)) /\ backlog' = <<>>
      /\ UNCHANGED <<stop_requested, connections, pool, caller, raw, handled>>
  BY ZenonT(90) DEF CloseListener
<1>2. /\ Narrows /\ BringsNothing
      /\ \A i \in DOMAIN link \intersect Range(backlog) : ~link'[i].served
  BY <1>1, Present, CloseLinks
<1>3. ThreadsTyped'
  BY <1>1, <1>2, Present, EmptySequence, ZenonT(90) DEF ThreadsTyped, Narrows, pool
<1>4. StepsTyped' /\ OwnReplies' /\ AcceptedIsHandled'
  BY <1>1, <1>2, <1>3, Present, ThreadsKeep
<1>5. PoolInv'
  <2>1. \A w \in Worker : (pc'[w] \in Resting <=> pc[w] \in Resting)
                         /\ (pc'[w] = "Exited" <=> pc[w] = "Exited")
    BY ZenonT(90) DEF Resting
  <2>2. QED
    <3>1. PoolInv /\ UNCHANGED <<stop, running, queue, job>>
      BY <1>1, Present DEF pool
    <3>2. ~listening'
      BY <1>1, ZenonT(90)
    <3>3. owner' = "Down" <=> owner = "Down"
      OBVIOUS
    <3>4. \A w \in Worker : job'[w] = 0 <=> pc'[w] \in Resting
      BY <2>1, <3>1 DEF PoolInv
    <3>5. owner' = "Down" =>
            ~running' /\ queue' = <<>> /\ \A w \in Worker : pc'[w] = "Exited"
      BY <2>1, <3>1, <3>3 DEF PoolInv
    <3>6. owner' # "Down" /\ (\E w \in Worker : pc'[w] = "Exited") => stop' /\ queue' = <<>>
      BY <2>1, <3>1, <3>3 DEF PoolInv
    <3>7. QED
      BY ZenonT(90), <3>2, <3>4, <3>5, <3>6 DEF PoolInv
<1>6. OpenIsHeld'
  BY <1>1, <1>2, Present, EmptyElements DEF OpenIsHeld, Narrows
<1>7. RegisteredIsServed'
  BY <1>1, Present DEF RegisteredIsServed, Owed, pool
<1>8. QED
  BY <1>4, <1>5, <1>6, <1>7 DEF ServiceInv

\* The other two steps of request_stop, and the steps that only change flags.
LEMMA FlagsKeep ==
  ASSUME ServiceInv, Narrows, BringsNothing,
         UNCHANGED <<listening, connections, running, queue, job, backlog, accepted,
                     caller, raw, handled, frame>>,
         stop => stop', stop' \in BOOLEAN, stop_requested' \in BOOLEAN,
         owner' \in {"Down", "Up", "CloseListener", "CloseConnections", "StopPool", "JoinPool"},
         \/ owner' = owner
         \/ /\ owner # "Down" /\ owner' # "Down"
            /\ owner' \notin {"Up", "CloseListener"} => ~listening,
         runner' \in {"Out", "Accept", "Register"},
         runner' = runner \/ (runner # "Register" /\ runner' # "Register"),
         pc' \in [Worker -> Step],
         \A w \in Worker :
           \/ pc'[w] = pc[w]
           \/ pc[w] \notin Resting /\ pc'[w] \notin Resting \union {"Dispatch", "Send"}
  PROVE  ServiceInv'
<1>1. ThreadsTyped'
  BY Present DEF ThreadsTyped, Narrows
<1>2. StepsTyped' /\ OwnReplies' /\ AcceptedIsHandled'
  BY <1>1, Present, ThreadsKeep
<1>3. PoolInv' /\ OpenIsHeld' /\ RegisteredIsServed'
  BY Present, QuietKeeps
<1>4. QED
  BY <1>2, <1>3 DEF ServiceInv

\* shutdown() begins: the stop flag.
LEMMA ShutdownKeeps == ServiceInv /\ Shutdown => ServiceInv'
<1> SUFFICES ASSUME ServiceInv, Shutdown PROVE ServiceInv'
  OBVIOUS
<1>1. /\ owner = "Up" /\ owner' = "CloseListener" /\ stop_requested' = TRUE
      /\ UNCHANGED <<listening, connections, stop, running, queue, backlog, link, caller, raw,
                     handled, runner, accepted, pc, job, frame>>
  BY DEF Shutdown, SetStopFlag, pool
<1>2. Narrows /\ BringsNothing /\ pc \in [Worker -> Step] /\ stop \in BOOLEAN
        /\ runner \in {"Out", "Accept", "Register"}
  BY <1>1, Present, SameLinks DEF ThreadsTyped
<1>3. stop_requested' \in BOOLEAN
  BY <1>1, ZenonT(90)
<1>4. QED
  BY <1>1, <1>2, <1>3, FlagsKeep

\* The rest of request_stop in shutdown().
LEMMA OwnerRequestsStopKeeps == ServiceInv /\ OwnerRequestsStop => ServiceInv'
<1> SUFFICES ASSUME ServiceInv, OwnerRequestsStop PROVE ServiceInv'
  OBVIOUS
<1>1. UNCHANGED <<runner, accepted, pc, job, frame>> /\ pc \in [Worker -> Step]
  BY Present DEF OwnerRequestsStop, ThreadsTyped
<1>2. CASE owner = "CloseListener" /\ CloseListener /\ owner' = "CloseConnections"
  BY <1>1, <1>2, ListenerKeeps
<1>3. CASE owner = "CloseConnections" /\ CloseConnections /\ owner' = "StopPool"
  <2>1. /\ link' = Close(connections)
        /\ UNCHANGED <<stop_requested, listening, connections, stop, running, queue, backlog,
                       caller, raw, handled>>
    BY <1>3 DEF CloseConnections, flags, pool
  <2>2. Narrows /\ BringsNothing
    BY <2>1, Present, CloseLinks
  <2>3. /\ ~listening /\ stop \in BOOLEAN /\ stop_requested \in BOOLEAN
        /\ runner \in {"Out", "Accept", "Register"}
    BY <1>3, Present DEF ThreadsTyped, PoolInv
  <2>4. QED
    BY <1>1, <1>3, <2>1, <2>2, <2>3, FlagsKeep
<1>4. QED
  BY <1>2, <1>3 DEF OwnerRequestsStop

\* ThreadPool::shutdown sets its flag.
LEMMA StopPoolKeeps == ServiceInv /\ StopPool => ServiceInv'
<1> SUFFICES ASSUME ServiceInv, StopPool PROVE ServiceInv'
  OBVIOUS
<1>1. /\ owner = "StopPool" /\ owner' = "JoinPool" /\ stop' = TRUE
      /\ UNCHANGED <<stop_requested, listening, connections, running, queue, runner, accepted,
                     pc, job, frame, backlog, link, caller, raw, handled>>
  BY DEF StopPool, flags
<1>2. /\ Narrows /\ BringsNothing /\ pc \in [Worker -> Step] /\ stop_requested \in BOOLEAN
      /\ runner \in {"Out", "Accept", "Register"} /\ ~listening
  BY <1>1, Present, SameLinks DEF ThreadsTyped, PoolInv
<1>3. stop' \in BOOLEAN /\ (stop => stop')
  BY <1>1, ZenonT(90)
<1>4. QED
  BY <1>1, <1>2, <1>3, FlagsKeep

\* The workers have been joined.  None left before the queue was empty, so nothing
\* that was registered is forgotten.
LEMMA JoinPoolKeeps == ServiceInv /\ JoinPool => ServiceInv'
<1> SUFFICES ASSUME ServiceInv, JoinPool PROVE ServiceInv'
  OBVIOUS
<1>1. /\ owner = "JoinPool" /\ \A w \in Worker : pc[w] = "Exited"
      /\ running' = FALSE /\ stop' = FALSE /\ queue' = <<>> /\ listening' = FALSE
      /\ owner' = "Down"
      /\ UNCHANGED <<stop_requested, connections, runner, accepted, pc, job, frame, backlog,
                     link, caller, raw, handled>>
  BY DEF JoinPool
<1>2. queue = <<>> /\ ~listening /\ \A w \in Worker : job[w] = 0
  BY <1>1, Present, ServiceAssumption DEF PoolInv, Resting
<1>3. ~running' /\ ~listening' /\ running' \in BOOLEAN /\ stop' \in BOOLEAN
        /\ listening' \in BOOLEAN
  BY <1>1, ZenonT(90)
<1>4. Narrows /\ BringsNothing
  BY <1>1, Present, SameLinks
<1>5. ThreadsTyped'
  <2>1. ThreadsTyped /\ UNCHANGED queue
    BY <1>1, <1>2, Present
  <2>2. QED
    BY <1>1, <1>3, <2>1 DEF ThreadsTyped
<1>6. StepsTyped' /\ OwnReplies' /\ AcceptedIsHandled'
  BY <1>1, <1>4, <1>5, Present, ThreadsKeep
<1>7. PoolInv'
  BY ZenonT(90), <1>1, <1>2, <1>3 DEF PoolInv, Resting
<1>8. OpenIsHeld' /\ RegisteredIsServed'
  BY <1>1, <1>2, <1>3, Present DEF OpenIsHeld, RegisteredIsServed, Owed
<1>9. QED
  BY <1>6, <1>7, <1>8 DEF ServiceInv

\* Entering run(), and the failure of accept_connection that ends it.
LEMMA RunKeeps == ServiceInv /\ (Run \/ AcceptFails) => ServiceInv'
<1> SUFFICES ASSUME ServiceInv, Run \/ AcceptFails PROVE ServiceInv'
  OBVIOUS
<1>1. /\ runner # "Register" /\ runner' \in {"Out", "Accept"}
      /\ UNCHANGED <<stop_requested, listening, connections, stop, running, queue, owner,
                     accepted, pc, job, frame, backlog, link, caller, raw, handled>>
  BY DEF Run, AcceptFails, Listen, flags, pool
<1>2. Narrows /\ BringsNothing
  BY <1>1, Present, SameLinks
<1>3. /\ pc \in [Worker -> Step] /\ stop_requested \in BOOLEAN /\ stop \in BOOLEAN
      /\ owner \in {"Down", "Up", "CloseListener", "CloseConnections", "StopPool", "JoinPool"}
  BY Present DEF ThreadsTyped
<1>4. QED
  BY <1>1, <1>2, <1>3, FlagsKeep

\* accept_connection takes the oldest connection of the backlog.
LEMMA AcceptKeeps == ServiceInv /\ Accept => ServiceInv'
<1> SUFFICES ASSUME ServiceInv, Accept PROVE ServiceInv'
  OBVIOUS
<1>1. /\ runner = "Accept" /\ listening /\ backlog # <<>> /\ backlog' = Tail(backlog)
      /\ \/ runner' = "Register" /\ accepted' = Head(backlog) /\ UNCHANGED link
         \/ /\ link' = Close({Head(backlog)})
            /\ runner' \in {"Out", "Accept"} /\ UNCHANGED accepted
      /\ UNCHANGED <<stop_requested, listening, connections, stop, running, queue, owner, pc,
                     job, frame, caller, raw, handled>>
  BY DEF Accept, Listen, flags, pool
<1>2. /\ backlog \in Seq(DOMAIN link) /\ ThreadsTyped /\ OpenIsHeld /\ link \in Seq(Link)
      /\ DOMAIN link \subseteq 1..MaxLinks
  BY Present DEF ThreadsTyped
<1>3. /\ Head(backlog) \in DOMAIN link /\ backlog' \in Seq(DOMAIN link)
      /\ Range(backlog) = Range(backlog') \union {Head(backlog)}
      /\ IsInjective(backlog') /\ Head(backlog) \notin Range(backlog')
      /\ Head(backlog) \notin connections /\ Range(backlog') \intersect connections = {}
  BY <1>1, <1>2, TailElements DEF OpenIsHeld
<1>4. /\ Narrows /\ BringsNothing
      /\ runner' # "Register" => ~link'[Head(backlog)].served
  BY ZenonT(90), <1>1, <1>2, <1>3, SameLinks, CloseLinks
<1>5. ThreadsTyped'
  BY <1>1, <1>2, <1>3, <1>4 DEF ThreadsTyped, Narrows
<1>6. StepsTyped' /\ OwnReplies' /\ AcceptedIsHandled'
  BY ZenonT(90), <1>1, <1>4, <1>5, Present, ThreadsKeep
<1>7. PoolInv' /\ RegisteredIsServed'
  BY ZenonT(90), <1>1, Present, SamePool, SameRegistry
<1>8. OpenIsHeld'
  <2>1. ASSUME NEW i \in DOMAIN link', link'[i].served
        PROVE  i \in Range(backlog') \union connections \/ (runner' = "Register" /\ i = accepted')
    BY <1>1, <1>2, <1>3, <1>4, <2>1 DEF OpenIsHeld, Narrows
  <2>2. runner' = "Register" => accepted' \in DOMAIN link'
          /\ accepted' \notin connections \union Range(backlog')
    BY <1>1, <1>3
  <2>3. QED
    BY ZenonT(90), <1>1, <1>3, <2>1, <2>2 DEF OpenIsHeld
<1>9. QED
  BY <1>6, <1>7, <1>8 DEF ServiceInv

\* The accepted connection is registered and queued, or closed.
LEMMA RegisterKeeps == ServiceInv /\ Register => ServiceInv'
<1> SUFFICES ASSUME ServiceInv, Register PROVE ServiceInv'
  OBVIOUS
<1> DEFINE taken == Cardinality(connections) < MaxConnections /\ Submits
<1>1. /\ runner = "Register"
      /\ connections' = IF taken THEN connections \union {accepted} ELSE connections
      /\ queue' = IF taken THEN Append(queue, accepted) ELSE queue
      /\ link' = IF taken THEN link ELSE Close({accepted})
      /\ runner' \in {"Out", "Accept"} /\ accepted' = 0
      /\ UNCHANGED <<stop_requested, listening, stop, running, owner, pc, job, frame, backlog,
                     caller, raw, handled>>
  BY ZenonT(90) DEF Register, Listen, flags
<1> HIDE DEF taken
<1>2. /\ ThreadsTyped /\ PoolInv /\ OpenIsHeld /\ RegisteredIsServed /\ link \in Seq(Link)
      /\ accepted \in DOMAIN link /\ accepted \notin connections \union Range(backlog)
      /\ accepted # 0 /\ Range(queue) \subseteq connections
      /\ \A w \in Worker : job[w] # 0 => job[w] \in connections
      /\ MaxLinks \in Nat /\ MaxQueue \in Nat
  <2>1. OpenIsHeld /\ DOMAIN link \subseteq 1..MaxLinks /\ MaxLinks \in Nat
    BY ZenonT(90), Present
  <2>2. accepted \in DOMAIN link /\ accepted \notin connections \union Range(backlog)
    BY ZenonT(90), <1>1, <2>1 DEF OpenIsHeld
  <2>3. 0 \notin 1..MaxLinks
    BY <2>1
  <2>4. accepted # 0
    BY ZenonT(90), <2>1, <2>2, <2>3
  <2>5. QED
    BY ZenonT(90), <2>2, <2>4, Present
<1>3. /\ Narrows /\ BringsNothing
      /\ taken => link' = link
      /\ ~taken => ~link'[accepted].served
  BY <1>1, <1>2, SameLinks, CloseLinks, ZenonT(90)
<1>4. OpenIsHeld'
  BY <1>1, <1>2, <1>3, ZenonT(90) DEF OpenIsHeld, Narrows
<1>5. CASE ~taken
  <2>1. UNCHANGED <<connections, queue>>
    BY <1>1, <1>5
  <2>2. ThreadsTyped'
    <3>1. accepted' \in 0..MaxLinks /\ runner' \in {"Out", "Accept", "Register"}
      BY <1>1, <1>2
    <3>2. QED
      BY <1>1, <1>2, <1>3, <2>1, <3>1, ZenonT(90) DEF ThreadsTyped, Narrows
  <2>3. StepsTyped' /\ OwnReplies' /\ AcceptedIsHandled'
    BY <1>1, <1>3, <2>2, Present, ThreadsKeep
  <2>4. PoolInv' /\ RegisteredIsServed'
    <3>1. UNCHANGED <<connections, queue, listening, stop, running, owner, pc, job>>
      BY <1>1, <2>1
    <3>2. PoolInv'
      BY ZenonT(90), <1>2, <3>1 DEF PoolInv
    <3>3. RegisteredIsServed'
      BY <1>2, <3>1 DEF RegisteredIsServed, Owed
    <3>4. QED
      BY <3>2, <3>3
  <2>5. QED
    BY <1>4, <2>3, <2>4 DEF ServiceInv
<1>6. CASE taken
  <2>1. /\ connections' = connections \union {accepted} /\ queue' = Append(queue, accepted)
        /\ running /\ ~stop /\ Len(queue) < MaxQueue
    BY <1>1, <1>6 DEF taken, Submits
  <2>2. /\ queue' \in Seq(DOMAIN link) /\ Len(queue') = Len(queue) + 1 /\ Len(queue) \in Nat
        /\ Range(queue') = Range(queue) \union {accepted}
        /\ IsInjective(queue')
    <3>1. queue \in Seq(DOMAIN link) /\ IsInjective(queue) /\ accepted \notin Range(queue)
      BY ZenonT(90), <1>2 DEF ThreadsTyped, RegisteredIsServed
    <3>2. /\ queue' \in Seq(DOMAIN link) /\ Len(queue') = Len(queue) + 1
          /\ Len(queue) \in Nat
      BY ZenonT(90), <1>2, <2>1, <3>1, AppendIndices, Indices
    <3>3. /\ Range(queue') = Range(queue) \union {accepted}
          /\ IsInjective(queue')
      BY ZenonT(90), <1>2, <2>1, <3>1, AppendElements
    <3>4. QED
      BY ZenonT(90), <3>2, <3>3
  <2>3. ThreadsTyped'
    <3>1. DOMAIN link' = DOMAIN link
      BY ZenonT(90), <1>3, <1>6
    <3>2. connections' \subseteq DOMAIN link
      BY ZenonT(90), <1>2, <2>1 DEF ThreadsTyped
    <3>3. Len(queue') <= MaxQueue
      BY ZenonT(90), <1>2, <2>1, QueueBound DEF ThreadsTyped
    <3>4. accepted' \in 0..MaxLinks /\ runner' \in {"Out", "Accept", "Register"}
      BY <1>1, <1>2
    <3>5. QED
      BY ZenonT(90), <1>1, <1>2, <2>2, <3>1, <3>2, <3>3, <3>4 DEF ThreadsTyped
  <2>4. StepsTyped' /\ OwnReplies' /\ AcceptedIsHandled'
    BY <1>1, <1>3, <2>3, Present, ThreadsKeep
  <2>5. owner # "Down" /\ \A w \in Worker : pc[w] # "Exited"
    BY ZenonT(90), <1>2, <2>1 DEF PoolInv
  <2>6. PoolInv'
    BY ZenonT(90), <1>1, <1>2, <2>5 DEF PoolInv
  <2>7. RegisteredIsServed'
    <3>1. Owed' = Owed \union {accepted}
      BY <1>1, <1>2, <2>2 DEF Owed
    <3>2. \A w \in Worker : job[w] # accepted
      BY <1>2
    <3>3. QED
      BY ZenonT(90), <1>1, <1>2, <2>1, <2>2, <3>1, <3>2 DEF RegisteredIsServed
  <2>8. QED
    BY <1>4, <2>4, <2>6, <2>7 DEF ServiceInv
<1>7. QED
  BY <1>5, <1>6

-----------------------------------------------------------------------------
(* The steps of a worker. *)

\* A worker takes the oldest job.
LEMMA TakeJobKeeps == ASSUME ServiceInv, NEW w \in Worker, TakeJob(w) PROVE ServiceInv'
<1>1. /\ pc[w] = "Ready" /\ queue # <<>> /\ job' = [job EXCEPT ![w] = Head(queue)]
      /\ queue' = Tail(queue) /\ pc' = [pc EXCEPT ![w] = ReadOn]
      /\ UNCHANGED <<stop_requested, listening, connections, stop, running, owner, runner,
                     accepted, frame, backlog, link, caller, raw, handled>>
  BY ZenonT(90) DEF TakeJob, Goto, flags
<1>2. /\ ThreadsTyped /\ PoolInv /\ OpenIsHeld /\ RegisteredIsServed /\ link \in Seq(Link)
      /\ DOMAIN link \subseteq 1..MaxLinks /\ queue \in Seq(DOMAIN link)
      /\ pc \in [Worker -> Step] /\ job \in [Worker -> 0..MaxLinks] /\ job[w] = 0
  BY <1>1, Present DEF ThreadsTyped, PoolInv, Resting
<1>3. /\ Head(queue) \in DOMAIN link /\ queue' \in Seq(DOMAIN link)
      /\ Range(queue) = Range(queue') \union {Head(queue)}
      /\ IsInjective(queue') /\ Head(queue) \notin Range(queue')
      /\ Head(queue) # 0 /\ Head(queue) \in 0..MaxLinks
  BY <1>1, <1>2, TailElements DEF RegisteredIsServed
<1>4. ReadOn \in {"Drop", "Receive"}
  BY DEF ReadOn
<1>5. /\ pc' \in [Worker -> Step] /\ job' \in [Worker -> 0..MaxLinks]
      /\ pc'[w] = ReadOn /\ job'[w] = Head(queue)
      /\ \A v \in Worker \ {w} : pc'[v] = pc[v] /\ job'[v] = job[v]
  BY <1>1, <1>2, <1>3, <1>4 DEF Step
<1>6. Narrows /\ BringsNothing
  BY ZenonT(90), <1>1, <1>2, SameLinks
<1>7. Len(queue') <= MaxQueue
  BY ZenonT(90), <1>1, <1>2, <1>3, Present, QueueBound DEF ThreadsTyped
<1>8. ThreadsTyped'
  BY <1>1, <1>2, <1>3, <1>5, <1>7 DEF ThreadsTyped
<1>9. StepsTyped' /\ OwnReplies' /\ AcceptedIsHandled'
  BY <1>1, <1>4, <1>5, <1>6, <1>8, Present, ThreadsKeep
<1>10. PoolInv'
  <2>1. /\ owner # "Down" /\ \A v \in Worker : pc[v] # "Exited"
    BY <1>1, <1>2 DEF PoolInv
  <2>2. \A v \in Worker : pc'[v] # "Exited" /\ (job'[v] = 0 <=> pc'[v] \in Resting)
    BY ZenonT(90), <1>2, <1>3, <1>4, <1>5, <2>1 DEF PoolInv, Resting
  <2>3. QED
    BY <1>1, <1>2, <2>1, <2>2 DEF PoolInv
<1>11. OpenIsHeld'
  BY <1>1, <1>2 DEF OpenIsHeld
<1>12. RegisteredIsServed'
  <2>1. \A v \in Worker : job[v] # Head(queue)
    BY <1>2, <1>3 DEF RegisteredIsServed
  <2>2. Owed' = Owed
    BY <1>2, <1>3, <1>5 DEF Owed
  <2>3. ASSUME NEW v \in Worker, job'[v] # 0
        PROVE  /\ job'[v] \notin Range(queue')
               /\ \A u \in Worker \ {v} : job'[u] # job'[v]
    <3>1. CASE v = w
      BY ZenonT(90), <1>2, <1>3, <1>5, <2>1, <3>1
    <3>2. CASE v # w
      <4>1. /\ job'[v] = job[v] /\ job[v] \notin Range(queue)
            /\ \A u \in Worker \ {v} : job[u] # job[v]
        BY <1>2, <1>5, <2>3, <3>2 DEF RegisteredIsServed
      <4>2. job[v] # Head(queue)
        BY <2>1
      <4>3. QED
        BY ZenonT(90), <1>3, <1>5, <4>1, <4>2
    <3>3. QED
      BY <3>1, <3>2
  <2>4. QED
    BY <1>1, <1>2, <1>3, <2>2, <2>3 DEF RegisteredIsServed
<1>13. QED
  BY <1>9, <1>10, <1>11, <1>12 DEF ServiceInv

\* A worker leaves the stopped and empty pool.
LEMMA LeavePoolKeeps == ASSUME ServiceInv, NEW w \in Worker, LeavePool(w) PROVE ServiceInv'
<1>1. /\ pc[w] = "Ready" /\ queue = <<>> /\ stop /\ pc' = [pc EXCEPT ![w] = "Exited"]
      /\ UNCHANGED <<stop_requested, listening, connections, stop, running, queue, owner,
                     runner, accepted, job, frame, backlog, link, caller, raw, handled>>
  BY DEF LeavePool, Goto, flags, pool
<1>2. ThreadsTyped /\ PoolInv /\ link \in Seq(Link)
  BY Present
<1>3. /\ pc' \in [Worker -> Step] /\ pc'[w] = "Exited"
      /\ \A v \in Worker \ {w} : pc'[v] = pc[v]
  BY <1>1, <1>2 DEF ThreadsTyped, Step
<1>4. Narrows /\ BringsNothing /\ ThreadsTyped'
  BY <1>1, <1>2, <1>3, SameLinks DEF ThreadsTyped
<1>5. StepsTyped' /\ OwnReplies' /\ AcceptedIsHandled'
  BY <1>1, <1>3, <1>4, Present, ThreadsKeep
<1>6. PoolInv'
  BY ZenonT(90), <1>1, <1>2, <1>3 DEF PoolInv, Resting
<1>7. OpenIsHeld' /\ RegisteredIsServed'
  BY ZenonT(90), <1>1, Present, SameHeld, SameRegistry
<1>8. QED
  BY <1>5, <1>6, <1>7 DEF ServiceInv

\* A worker that goes on to a step at which it has no frame in hand.
LEMMA MoveOn ==
  ASSUME ServiceInv, NEW w \in Worker, NEW step \in Step \ (Resting \union {"Dispatch", "Send"}),
         pc[w] \notin Resting, Goto(w, step)
  PROVE  /\ pc' \in [Worker -> Step] /\ pc'[w] = step
         /\ \A v \in Worker \ {w} : pc'[v] = pc[v]
  BY Present DEF Goto, ThreadsTyped

\* recv_exact fails.
LEMMA ReceiveFailsKeeps ==
  ASSUME ServiceInv, NEW w \in Worker, ReceiveFails(w) PROVE ServiceInv'
<1>1. /\ pc[w] = "Receive" /\ Goto(w, "Drop")
      /\ UNCHANGED <<stop_requested, listening, connections, stop, running, queue, owner,
                     runner, accepted, job, frame, backlog, link, caller, raw, handled>>
  BY DEF ReceiveFails, flags, pool
<1>2. /\ pc' \in [Worker -> Step] /\ pc'[w] = "Drop"
      /\ \A v \in Worker \ {w} : pc'[v] = pc[v]
  <2>1. "Drop" \in Step \ (Resting \union {"Dispatch", "Send"})
    BY DEF Step, Resting
  <2>2. pc[w] \notin Resting
    BY <1>1 DEF Resting
  <2>3. QED
    BY <1>1, <2>1, <2>2, MoveOn
<1>3. Narrows /\ BringsNothing
  BY <1>1, Present, SameLinks
<1>4. /\ stop_requested \in BOOLEAN /\ stop \in BOOLEAN
      /\ owner \in {"Down", "Up", "CloseListener", "CloseConnections", "StopPool", "JoinPool"}
      /\ runner \in {"Out", "Accept", "Register"}
  BY Present DEF ThreadsTyped
<1>5. \A v \in Worker :
        \/ pc'[v] = pc[v]
        \/ pc[v] \notin Resting /\ pc'[v] \notin Resting \union {"Dispatch", "Send"}
  BY <1>1, <1>2 DEF Resting
<1>6. QED
  BY <1>1, <1>2, <1>3, <1>4, <1>5, FlagsKeep

\* request_stop in the handler of a Shutdown frame.
LEMMA HandlerRequestsStopKeeps ==
  ASSUME ServiceInv, NEW w \in Worker, HandlerRequestsStop(w) PROVE ServiceInv'
<1>1. UNCHANGED <<owner, runner, accepted, job, frame>>
  BY DEF HandlerRequestsStop
<1>2. /\ stop_requested \in BOOLEAN /\ stop \in BOOLEAN /\ link \in Seq(Link)
      /\ owner \in {"Down", "Up", "CloseListener", "CloseConnections", "StopPool", "JoinPool"}
      /\ runner \in {"Out", "Accept", "Register"}
  BY Present DEF ThreadsTyped
<1>3. CASE pc[w] = "CloseListener" /\ CloseListener /\ Goto(w, "CloseConnections")
  <2>1. /\ pc' \in [Worker -> Step] /\ pc'[w] = "CloseConnections"
        /\ \A v \in Worker \ {w} : pc'[v] = pc[v]
    BY <1>3, MoveOn DEF Step, Resting
  <2>2. pc[w] \notin Resting
    BY <1>3 DEF Resting
  <2>3. QED
    BY <1>1, <1>3, <2>1, <2>2, ListenerKeeps
<1>4. CASE \/ pc[w] = "SetStopFlag" /\ SetStopFlag /\ Goto(w, "CloseListener")
           \/ pc[w] = "CloseConnections" /\ CloseConnections /\ Goto(w, "Drop")
  <2>1. /\ pc' \in [Worker -> Step] /\ pc[w] \notin Resting
        /\ pc'[w] \in {"CloseListener", "Drop"}
        /\ \A v \in Worker \ {w} : pc'[v] = pc[v]
    BY <1>4, MoveOn DEF Step, Resting
  <2>2. /\ link' = link \/ link' = Close(connections)
        /\ stop_requested' = TRUE \/ stop_requested' = stop_requested
        /\ UNCHANGED <<listening, connections, stop, running, queue, backlog, caller, raw,
                       handled>>
    BY <1>4 DEF SetStopFlag, CloseConnections, flags, pool
  <2>3. Narrows /\ BringsNothing
    BY <1>2, <2>2, SameLinks, CloseLinks
  <2>4. stop_requested' \in BOOLEAN
    BY <1>2, <2>2, ZenonT(90)
  <2>5. \A v \in Worker :
          \/ pc'[v] = pc[v]
          \/ pc[v] \notin Resting /\ pc'[v] \notin Resting \union {"Dispatch", "Send"}
    BY <2>1 DEF Resting
  <2>6. QED
    BY <1>1, <1>2, <2>1, <2>2, <2>3, <2>4, <2>5, FlagsKeep
<1>5. QED
  BY <1>3, <1>4 DEF HandlerRequestsStop

\* drop_connection: the worker's connection is closed and leaves the registry.
LEMMA DropConnectionKeeps ==
  ASSUME ServiceInv, NEW w \in Worker, DropConnection(w) PROVE ServiceInv'
<1>1. /\ pc[w] = "Drop" /\ connections' = connections \ {job[w]}
      /\ link' = Close(connections \intersect {job[w]})
      /\ job' = [job EXCEPT ![w] = 0] /\ pc' = [pc EXCEPT ![w] = "Ready"]
      /\ UNCHANGED <<stop_requested, listening, stop, running, queue, owner, runner, accepted,
                     frame, backlog, caller, raw, handled>>
  BY ZenonT(90) DEF DropConnection, Goto, flags, pool
<1>2. /\ ThreadsTyped /\ PoolInv /\ OpenIsHeld /\ RegisteredIsServed /\ link \in Seq(Link)
      /\ pc \in [Worker -> Step] /\ job \in [Worker -> 0..MaxLinks] /\ MaxLinks \in Nat
      /\ job[w] # 0 /\ job[w] \in connections /\ connections \subseteq DOMAIN link
  BY ZenonT(90), <1>1, Present DEF ThreadsTyped, PoolInv, Resting
<1>3. Narrows /\ BringsNothing /\ ~link'[job[w]].served
  BY <1>1, <1>2, CloseLinks, ZenonT(90)
<1>4. /\ pc' \in [Worker -> Step] /\ job' \in [Worker -> 0..MaxLinks]
      /\ pc'[w] = "Ready" /\ job'[w] = 0
      /\ \A v \in Worker \ {w} : pc'[v] = pc[v] /\ job'[v] = job[v]
  BY <1>1, <1>2 DEF Step
<1>5. ThreadsTyped'
  BY <1>1, <1>2, <1>3, <1>4, ZenonT(90) DEF ThreadsTyped, Narrows
<1>6. StepsTyped' /\ OwnReplies' /\ AcceptedIsHandled'
  BY ZenonT(90), <1>1, <1>3, <1>4, <1>5, Present, ThreadsKeep
<1>7. PoolInv'
  <2>1. owner # "Down"
    BY <1>1, <1>2 DEF PoolInv
  <2>2. \A v \in Worker : job'[v] = 0 <=> pc'[v] \in Resting
    BY <1>2, <1>4 DEF PoolInv, Resting
  <2>3. (\E v \in Worker : pc'[v] = "Exited") => stop /\ queue = <<>>
    BY <1>2, <1>4, <2>1 DEF PoolInv
  <2>4. QED
    BY <1>1, <1>2, <2>1, <2>2, <2>3 DEF PoolInv
<1>8. OpenIsHeld'
  BY <1>1, <1>2, <1>3, ZenonT(90) DEF OpenIsHeld, Narrows
<1>9. RegisteredIsServed'
  <2>1. /\ job[w] \notin Range(queue) /\ \A v \in Worker \ {w} : job[v] # job[w]
        /\ connections = Owed /\ IsInjective(queue)
    BY ZenonT(90), <1>2 DEF RegisteredIsServed
  <2>2. Owed' = Owed \ {job[w]}
    BY ZenonT(90), <1>1, <1>2, <1>4, <2>1 DEF Owed
  <2>3. ASSUME NEW v \in Worker, job'[v] # 0
        PROVE  /\ job'[v] \notin Range(queue)
               /\ \A u \in Worker \ {v} : job'[u] # job'[v]
    <3>1. v # w /\ job'[v] = job[v]
      BY <1>4, <2>3
    <3>2. job[v] \notin Range(queue) /\ \A u \in Worker \ {v} : job[u] # job[v]
      BY <1>2, <2>3, <3>1 DEF RegisteredIsServed
    <3>3. QED
      BY ZenonT(90), <1>4, <2>3, <3>1, <3>2
  <2>4. QED
    BY <1>1, <2>1, <2>2, <2>3 DEF RegisteredIsServed
<1>10. QED
  BY <1>6, <1>7, <1>8, <1>9 DEF ServiceInv

=============================================================================

--------------------------- MODULE ServiceProofs ----------------------------
(***************************************************************************)
(* Proofs about the safety of Service, for any clients, workers and bounds: *)
(* the registry and the pool agree, nothing is left open once the service  *)
(* has stopped, and an accepted call was carried out.  First the steps of  *)
(* the clients; those of the service are in ServiceInvariant.              *)
(***************************************************************************)
EXTENDS ServiceInvariant

\* Each leaf is tried with SMT, then with Zenon, then with SMT and more time.
USE SMTT(30), ZenonT(90), SMTT(60), SMTT(90)

-----------------------------------------------------------------------------
(* The steps of a client. *)

\* The fields of a Client object.
LEMMA CallerFields ==
  ASSUME ServiceInv, NEW c \in Client
  PROVE  /\ caller \in [Client -> Caller] /\ caller[c] \in Caller
         /\ caller[c].socket \in {0} \union DOMAIN link /\ caller[c].socket \in 0..MaxLinks
         /\ caller[c].next_correlation \in 1..(MaxCalls + 1) /\ MaxCalls \in Nat
         /\ caller[c].waiting \in BOOLEAN /\ caller[c].returned \subseteq 1..MaxCalls
         /\ caller[c].waiting => caller[c].socket # 0 /\ caller[c].next_correlation > 1
         /\ raw \in 0..MaxRaw /\ MaxRaw \in Nat
         /\ caller[c].socket # 0 => link[caller[c].socket] \in Link
<1>1. /\ caller \in [Client -> Caller] /\ caller[c].socket \in {0} \union DOMAIN link
      /\ caller[c].waiting => caller[c].socket # 0 /\ caller[c].next_correlation > 1
      /\ raw \in 0..MaxRaw
  BY Present DEF StepsTyped
<1>2. caller[c].socket # 0 => link[caller[c].socket] \in Link
  BY <1>1, Present, Indices
<1>3. QED
  BY <1>1, <1>2, ServiceAssumption DEF Caller

\* A step of one client on its own connection: it adds only its own requests there,
\* and takes replies away.
LEMMA ClientKeeps ==
  ASSUME ServiceInv, NEW c \in Client, Narrows,
         UNCHANGED <<stop_requested, listening, connections, stop, running, queue, owner,
                     runner, accepted, pc, job, frame, backlog, handled>>,
         caller' \in [Client -> Caller], raw' \in 0..MaxRaw,
         \A d \in Client \ {c} : caller'[d] = caller[d],
         caller'[c].socket \in {0, caller[c].socket},
         caller'[c].waiting => caller'[c].socket # 0 /\ caller'[c].next_correlation > 1,
         \A n \in caller'[c].returned : <<c, n>> \in CarriedOut,
         \A i \in DOMAIN link \ {caller[c].socket} : link'[i] = link[i],
         caller[c].socket # 0 =>
           LET j == caller[c].socket IN
           /\ \A f \in Range(link'[j].requests) : f.client = c
           /\ Range(link'[j].replies) \subseteq Range(link[j].replies)
  PROVE  ServiceInv'
<1>1. PoolInv' /\ OpenIsHeld' /\ RegisteredIsServed'
  BY Present, QuietKeeps
<1>2. ThreadsTyped'
  BY Present DEF ThreadsTyped, Narrows
<1> CarriedOut' = CarriedOut
  BY DEF CarriedOut
<1>3. StepsTyped /\ OwnReplies /\ AcceptedIsHandled
  BY Present
<1>4. StepsTyped'
  <2>1. \A d \in Client :
          /\ caller'[d].socket \in {0} \union DOMAIN link'
          /\ caller'[d].waiting => caller'[d].socket # 0 /\ caller'[d].next_correlation > 1
    BY <1>3 DEF StepsTyped, Narrows
  <2>2. QED
    BY <1>2, <1>3, <2>1 DEF StepsTyped, Narrows
<1>5. OwnReplies'
  <2>1. \A d \in Client : caller'[d].socket \in {0, caller[d].socket}
    OBVIOUS
  <2>2. \A d, e \in Client :
          caller'[d].socket = caller'[e].socket /\ caller'[d].socket # 0 => d = e
    BY <1>3, <2>1 DEF OwnReplies
  <2>3. ASSUME NEW d \in Client, caller'[d].socket # 0
        PROVE  LET l == link'[caller'[d].socket] IN
               /\ \A f \in Range(l.requests) : f.client = d
               /\ \A r \in Range(l.replies) :
                    r.accepted /\ r.correlation # 0 => <<d, r.correlation>> \in CarriedOut
               /\ \A w \in Worker : job[w] = caller'[d].socket =>
                    /\ pc[w] = "Dispatch" => frame[w].client = d
                    /\ pc[w] = "Send" /\ frame[w].accepted /\ frame[w].correlation # 0 =>
                         <<d, frame[w].correlation>> \in CarriedOut
    <3>1. /\ caller'[d].socket = caller[d].socket /\ caller[d].socket # 0
          /\ caller[d].socket \in DOMAIN link
      BY <1>3, <2>1, <2>3 DEF StepsTyped
    <3>2. LET l == link[caller[d].socket] IN
          /\ \A f \in Range(l.requests) : f.client = d
          /\ \A r \in Range(l.replies) :
               r.accepted /\ r.correlation # 0 => <<d, r.correlation>> \in CarriedOut
          /\ \A w \in Worker : job[w] = caller[d].socket =>
               /\ pc[w] = "Dispatch" => frame[w].client = d
               /\ pc[w] = "Send" /\ frame[w].accepted /\ frame[w].correlation # 0 =>
                    <<d, frame[w].correlation>> \in CarriedOut
      BY <1>3, <3>1 DEF OwnReplies
    <3>3. CASE d = c
      BY <3>1, <3>2, <3>3
    <3>4. CASE d # c
      <4>1. caller[d].socket # caller[c].socket
        BY <1>3, <3>1, <3>4 DEF OwnReplies
      <4>2. link'[caller[d].socket] = link[caller[d].socket]
        BY <3>1, <4>1
      <4>3. QED
        BY <3>1, <3>2, <4>2
    <3>5. QED
      BY <3>3, <3>4
  <2>4. QED
    BY <2>2, <2>3 DEF OwnReplies
<1>6. AcceptedIsHandled'
  BY <1>3, ZenonT(90) DEF AcceptedIsHandled
<1>7. QED
  BY <1>1, <1>4, <1>5, <1>6 DEF ServiceInv

\* Leaving.
LEMMA LeaveKeeps == ASSUME ServiceInv, NEW c \in Client, Leave(c) PROVE ServiceInv'
<1>1. /\ caller[c].socket # 0 /\ ~caller[c].waiting /\ link' = Hangup(c)
      /\ caller' = [caller EXCEPT ![c].socket = 0]
      /\ UNCHANGED <<stop_requested, listening, connections, stop, running, queue, owner,
                     runner, accepted, pc, job, frame, backlog, raw, handled>>
  BY DEF Leave, Idle, flags, pool, threads
<1>2. /\ caller \in [Client -> Caller] /\ caller[c] \in Caller /\ raw \in 0..MaxRaw
      /\ caller[c].socket \in DOMAIN link /\ MaxLinks \in Nat
  BY <1>1, CallerFields, Present
<1>3. LET k == [caller[c] EXCEPT !.socket = 0] IN
      /\ k \in Caller /\ k.socket = 0 /\ k.waiting = caller[c].waiting
      /\ k.returned = caller[c].returned
  BY <1>2 DEF Caller
<1>4. /\ caller' \in [Client -> Caller] /\ caller'[c].socket = 0 /\ ~caller'[c].waiting
      /\ caller'[c].returned = caller[c].returned
      /\ \A d \in Client \ {c} : caller'[d] = caller[d]
  BY <1>1, <1>2, <1>3
<1>5. /\ Narrows /\ \A i \in DOMAIN link \ {caller[c].socket} : link'[i] = link[i]
      /\ link'[caller[c].socket].requests = link[caller[c].socket].requests
      /\ Range(link'[caller[c].socket].replies) \subseteq Range(link[caller[c].socket].replies)
  <2>1. \A i \in DOMAIN link \ {caller[c].socket} : link'[i] = link[i]
    BY <1>1, ZenonT(90) DEF Hangup
  <2>2. QED
    BY <1>1, <1>2, <2>1, Present, HangupLinks, ZenonT(90) DEF Narrows
<1>6. \A n \in caller'[c].returned : <<c, n>> \in CarriedOut
  BY <1>4, Present DEF AcceptedIsHandled
<1>7. \A f \in Range(link[caller[c].socket].requests) : f.client = c
  BY <1>1, Present DEF OwnReplies
<1>8. QED
  BY <1>1, <1>2, <1>4, <1>5, <1>6, <1>7, ClientKeeps

\* The frames of client c.
OwnFrame(c) == {x \in Frame : x.client = c}

\* A sequence of a client's own frames.
LEMMA OwnSequence ==
  ASSUME NEW c, NEW s
  PROVE  s \in Seq(OwnFrame(c)) <=> s \in Seq(Frame) /\ \A x \in Range(s) : x.client = c
<1>1. ASSUME s \in Seq(OwnFrame(c))
      PROVE  s \in Seq(Frame) /\ \A x \in Range(s) : x.client = c
  BY <1>1, Indices DEF OwnFrame, Range
<1>2. ASSUME s \in Seq(Frame), \A x \in Range(s) : x.client = c
      PROVE  s \in Seq(OwnFrame(c))
  <2>1. /\ DOMAIN s = 1..Len(s) /\ Len(s) \in Nat
        /\ \A i \in DOMAIN s : s[i] \in OwnFrame(c)
    BY <1>2, Indices DEF OwnFrame, Range
  <2>2. s \in [1..Len(s) -> OwnFrame(c)]
    BY <1>2, <2>1
  <2>3. QED
    BY <2>1, <2>2, IndexedIsSeq
<1>3. QED
  BY <1>1, <1>2

\* What a client sends mixes with what it sent before, and with nothing else.
LEMMA JoinedIsOwn ==
  ASSUME NEW c \in Client, NEW s \in Seq(OwnFrame(c)), NEW f \in OwnFrame(c),
         NEW t \in Joined(s, f)
  PROVE  t \in Seq(OwnFrame(c))
<1>1. CASE ~Half(s)
  BY <1>1, AppendIndices DEF Joined
<1>2. CASE Half(s)
  <2>1. Len(s) \in Nat \ {0}
    BY <1>2, Indices DEF Half
  <2>2. RawFrame(f.client) \subseteq OwnFrame(c)
    BY DEF OwnFrame, RawFrame
  <2>3. ASSUME NEW u \in Completed(f) PROVE u \in Seq(OwnFrame(c))
    <3>1. \/ \E g \in RawFrame(f.client) : u = <<g>>
          \/ \E g, h \in RawFrame(f.client) : u = <<g, h>>
      BY DEF Completed
    <3>2. \A g, h \in OwnFrame(c) : <<g>> \in Seq(OwnFrame(c)) /\ <<g, h>> \in Seq(OwnFrame(c))
      OBVIOUS
    <3>3. QED
      BY <2>2, <3>1, <3>2, ZenonT(90)
  <2>4. PICK u \in Completed(f) : t = SubSeq(s, 1, Len(s) - 1) \o u
    BY <1>2 DEF Joined
  <2>5. SubSeq(s, 1, Len(s) - 1) \in Seq(OwnFrame(c))
    BY <2>1
  <2>6. QED
    BY <2>3, <2>4, <2>5
<1>3. QED
  BY <1>1, <1>2

\* A frame on its way: it is the client's own.
LEMMA TransmitLinks ==
  ASSUME ServiceInv, NEW c \in Client, caller[c].socket # 0,
         NEW f \in Frame, f.client = c, Transmit(c, f)
  PROVE  LET j == caller[c].socket IN
         /\ Narrows /\ \A i \in DOMAIN link \ {j} : link'[i] = link[i]
         /\ \A x \in Range(link'[j].requests) : x.client = c
         /\ Range(link'[j].replies) \subseteq Range(link[j].replies)
<1> DEFINE j == caller[c].socket
           m(s) == [link[j] EXCEPT !.requests = s]
<1>1. /\ j \in DOMAIN link /\ link[j] \in Link /\ link \in Seq(Link)
      /\ link[j].requests \in Seq(Frame) /\ \A x \in Range(link[j].requests) : x.client = c
  BY CallerFields, Present, LinkFields DEF OwnReplies
<1>2. PICK s \in Joined(link[j].requests, f) :
        link' = link \/ link' = [link EXCEPT ![j] = m(s)]
  BY DEF Transmit
<1>3. s \in Seq(Frame) /\ \A x \in Range(s) : x.client = c
  <2>1. link[j].requests \in Seq(OwnFrame(c)) /\ f \in OwnFrame(c)
    <3>1. link[j].requests \in Seq(OwnFrame(c))
      BY <1>1, OwnSequence
    <3>2. QED
      BY <3>1 DEF OwnFrame
  <2>2. s \in Seq(OwnFrame(c))
    BY <2>1, JoinedIsOwn
  <2>3. QED
    BY <2>2, OwnSequence
<1>4. /\ m(s) \in Link /\ m(s).served = link[j].served /\ m(s).replies = link[j].replies
      /\ m(s).requests = s
  BY <1>1, <1>3, LinkFields, ZenonT(90)
<1> HIDE DEF m
<1>5. CASE link' = link
  BY <1>1, <1>5, SameLinks
<1>6. CASE link' = [link EXCEPT ![j] = m(s)]
  <2>1. Narrows /\ link'[j] = m(s) /\ \A i \in DOMAIN link \ {j} : link'[i] = link[i]
    BY <1>1, <1>4, <1>6, ChangeLink, ZenonT(90)
  <2>2. QED
    BY <1>1, <1>3, <1>4, <2>1, ZenonT(90)
<1>7. QED
  BY <1>2, <1>5, <1>6

\* Calling.
LEMMA CallKeeps == ASSUME ServiceInv, NEW c \in Client, Call(c) PROVE ServiceInv'
<1>1. PICK kind \in {"Request", "Shutdown"} :
        /\ caller[c].socket # 0 /\ caller[c].next_correlation <= MaxCalls
        /\ Transmit(c, [kind |-> kind, client |-> c,
                        correlation |-> caller[c].next_correlation, raw |-> FALSE])
        /\ caller' = [caller EXCEPT ![c].next_correlation = @ + 1, ![c].waiting = TRUE]
        /\ UNCHANGED <<stop_requested, listening, connections, stop, running, queue, owner,
                       runner, accepted, pc, job, frame, backlog, raw, handled>>
  BY DEF Call, flags, pool, threads
<1>2. /\ caller \in [Client -> Caller] /\ caller[c] \in Caller /\ raw \in 0..MaxRaw
      /\ caller[c].next_correlation \in 1..(MaxCalls + 1) /\ MaxCalls \in Nat
  BY CallerFields
<1>3. LET f == [kind |-> kind, client |-> c, correlation |-> caller[c].next_correlation,
                raw |-> FALSE] IN
      f \in Frame /\ f.client = c
  BY <1>1, <1>2 DEF Frame, Kind
<1>4. LET j == caller[c].socket IN
      /\ Narrows /\ \A i \in DOMAIN link \ {j} : link'[i] = link[i]
      /\ \A x \in Range(link'[j].requests) : x.client = c
      /\ Range(link'[j].replies) \subseteq Range(link[j].replies)
  BY <1>1, <1>3, TransmitLinks
<1>5. LET k == [caller[c] EXCEPT !.next_correlation = caller[c].next_correlation + 1,
                                 !.waiting = TRUE] IN
      /\ k \in Caller /\ k.socket = caller[c].socket /\ k.returned = caller[c].returned
      /\ k.next_correlation = caller[c].next_correlation + 1
  <2>1. caller[c].next_correlation + 1 \in 1..(MaxCalls + 1)
    BY <1>1, <1>2
  <2>2. ASSUME NEW n \in 1..(MaxCalls + 1)
        PROVE  LET k == [caller[c] EXCEPT !.next_correlation = n, !.waiting = TRUE] IN
               /\ k \in Caller /\ k.socket = caller[c].socket
               /\ k.returned = caller[c].returned /\ k.next_correlation = n
    BY <1>2, ZenonT(90) DEF Caller
  <2>3. QED
    BY <2>1, <2>2, ZenonT(90)
<1>6. /\ caller' \in [Client -> Caller] /\ caller'[c].socket = caller[c].socket
      /\ caller'[c].returned = caller[c].returned
      /\ caller'[c].next_correlation = caller[c].next_correlation + 1
      /\ \A d \in Client \ {c} : caller'[d] = caller[d]
  BY <1>1, <1>2, <1>5
<1>7. caller'[c].socket # 0 /\ caller'[c].next_correlation > 1
  BY <1>1, <1>2, <1>6
<1>8. \A n \in caller'[c].returned : <<c, n>> \in CarriedOut
  BY <1>6, Present DEF AcceptedIsHandled
<1>9. QED
  BY <1>1, <1>2, <1>4, <1>6, <1>7, <1>8, ClientKeeps, ZenonT(90)

\* Sending raw bytes.
LEMMA SendRawKeeps == ASSUME ServiceInv, NEW c \in Client, SendRaw(c) PROVE ServiceInv'
<1>1. PICK f \in RawFrame(c) :
        /\ caller[c].socket # 0 /\ raw < MaxRaw /\ raw' = raw + 1 /\ c \in RawClient
        /\ Transmit(c, f)
        /\ UNCHANGED <<stop_requested, listening, connections, stop, running, queue, owner,
                       runner, accepted, pc, job, frame, backlog, caller, handled>>
  BY DEF SendRaw, flags, pool, threads
<1>2. /\ caller \in [Client -> Caller] /\ raw \in 0..MaxRaw /\ MaxRaw \in Nat
      /\ MaxCalls \in Nat
      /\ caller[c].waiting => caller[c].socket # 0 /\ caller[c].next_correlation > 1
  BY CallerFields
<1>3. f \in Frame /\ f.client = c
  BY DEF RawFrame
<1>4. LET j == caller[c].socket IN
      /\ Narrows /\ \A i \in DOMAIN link \ {j} : link'[i] = link[i]
      /\ \A x \in Range(link'[j].requests) : x.client = c
      /\ Range(link'[j].replies) \subseteq Range(link[j].replies)
  BY <1>1, <1>3, TransmitLinks
<1>5. raw' \in 0..MaxRaw
  BY <1>1, <1>2
<1>6. \A n \in caller[c].returned : <<c, n>> \in CarriedOut
  BY Present DEF AcceptedIsHandled
<1>7. QED
  BY <1>1, <1>2, <1>4, <1>5, <1>6, ClientKeeps

\* The end of a call, by a reply or by a broken connection: the call counts as
\* accepted only when the reply is its own, and then it was handled.
LEMMA CallReturnsKeeps ==
  ASSUME ServiceInv, NEW c \in Client, CallReturns(c) PROVE ServiceInv'
<1> DEFINE j     == caller[c].socket
           reply == Head(link[j].replies)
           own   == caller[c].next_correlation - 1
           m     == [link[j] EXCEPT !.replies = Tail(link[j].replies)]
           k(S)  == [caller[c] EXCEPT !.waiting = FALSE, !.returned = S]
<1>1. /\ caller[c].waiting
      /\ UNCHANGED <<stop_requested, listening, connections, stop, running, queue, owner,
                     runner, accepted, pc, job, frame, backlog, raw, handled>>
  <2>1. CASE Return(c)
    BY <2>1 DEF Return, Idle, flags, pool, threads
  <2>2. CASE ReturnBroken(c)
    BY <2>2 DEF ReturnBroken, Idle, flags, pool, threads
  <2>3. QED
    BY <2>1, <2>2 DEF CallReturns
<1>2. /\ caller \in [Client -> Caller] /\ caller[c] \in Caller /\ raw \in 0..MaxRaw
      /\ caller[c].next_correlation \in 1..(MaxCalls + 1) /\ MaxCalls \in Nat
      /\ j \in DOMAIN link /\ j # 0 /\ caller[c].next_correlation > 1
      /\ link[j] \in Link /\ caller[c].returned \subseteq 1..MaxCalls
  BY <1>1, CallerFields
<1>3. own \in 1..MaxCalls
  BY <1>2
<1>4. /\ \A f \in Range(link[j].requests) : f.client = c
      /\ \A r \in Range(link[j].replies) :
           r.accepted /\ r.correlation # 0 => <<c, r.correlation>> \in CarriedOut
      /\ \A n \in caller[c].returned : <<c, n>> \in CarriedOut
  BY <1>2, Present DEF OwnReplies, AcceptedIsHandled
<1>5. ASSUME NEW S \in SUBSET (1..MaxCalls)
      PROVE  /\ k(S) \in Caller /\ k(S).socket = j /\ k(S).waiting = FALSE
             /\ k(S).returned = S
  BY <1>2, ZenonT(90) DEF Caller
<1>6. k(caller[c].returned) = [caller[c] EXCEPT !.waiting = FALSE]
  BY <1>2, ZenonT(90) DEF Caller
<1>7. \/ /\ link[j].replies # <<>> /\ link' = [link EXCEPT ![j] = m]
         /\ \/ caller' = [caller EXCEPT ![c] = k(caller[c].returned)]
            \/ /\ reply.correlation = own /\ reply.accepted
               /\ caller' = [caller EXCEPT ![c] = k(caller[c].returned \union {own})]
      \/ UNCHANGED link /\ caller' = [caller EXCEPT ![c] = k(caller[c].returned)]
  BY <1>2, <1>6, ZenonT(90) DEF CallReturns, Return, ReturnBroken
<1> HIDE DEF k, own, reply, m
<1>8. PICK S \in SUBSET (1..MaxCalls) :
        /\ caller' = [caller EXCEPT ![c] = k(S)]
        /\ \A n \in S : <<c, n>> \in CarriedOut
  <2>1. CASE caller' = [caller EXCEPT ![c] = k(caller[c].returned)]
    BY <1>2, <1>4, <2>1, ZenonT(90)
  <2>2. CASE /\ link[j].replies # <<>> /\ reply.correlation = own /\ reply.accepted
             /\ caller' = [caller EXCEPT ![c] = k(caller[c].returned \union {own})]
    <3>1. reply \in Range(link[j].replies)
      BY <1>2, <2>2, LinkFields, TailElements DEF reply
    <3>2. <<c, own>> \in CarriedOut
      BY <1>3, <1>4, <2>2, <3>1
    <3>3. QED
      <4>1. /\ caller[c].returned \union {own} \in SUBSET (1..MaxCalls)
            /\ \A n \in caller[c].returned \union {own} : <<c, n>> \in CarriedOut
        BY <1>2, <1>3, <1>4, <3>2
      <4>2. QED
        BY <2>2, <4>1, ZenonT(90)
  <2>3. QED
    BY <1>7, <2>1, <2>2
<1>9. /\ caller' \in [Client -> Caller] /\ caller'[c].socket = j /\ caller'[c].waiting = FALSE
      /\ caller'[c].returned = S /\ \A d \in Client \ {c} : caller'[d] = caller[d]
  BY <1>2, <1>5, <1>8, ZenonT(90)
<1>10. /\ Narrows /\ \A i \in DOMAIN link \ {j} : link'[i] = link[i]
       /\ link'[j].requests = link[j].requests
       /\ Range(link'[j].replies) \subseteq Range(link[j].replies)
  <2>1. CASE UNCHANGED link
    BY <1>2, <2>1, Present, SameLinks
  <2>2. CASE link[j].replies # <<>> /\ link' = [link EXCEPT ![j] = m]
    <3>1. /\ Tail(link[j].replies) \in Seq(Reply)
          /\ Range(Tail(link[j].replies)) \subseteq Range(link[j].replies)
      BY <1>2, <2>2, LinkFields, TailElements
    <3>2. /\ m \in Link /\ m.served = link[j].served /\ m.requests = link[j].requests
          /\ m.replies = Tail(link[j].replies)
      BY <1>2, <3>1, LinkFields, ZenonT(90) DEF m
    <3>3. Narrows /\ link'[j] = m /\ \A i \in DOMAIN link \ {j} : link'[i] = link[i]
      BY <1>2, <2>2, <3>2, Present, ChangeLink, ZenonT(90)
    <3>4. QED
      BY <3>1, <3>2, <3>3
  <2>3. QED
    BY <1>7, <2>1, <2>2
<1>11. ~caller'[c].waiting
  BY <1>9, ZenonT(90)
<1>12. QED
  BY <1>1, <1>2, <1>4, <1>8, <1>9, <1>10, <1>11, ClientKeeps, ZenonT(90)

\* Connecting: the new connection is open and in the backlog.
LEMMA ConnectKeeps == ASSUME ServiceInv, NEW c \in Client, Connect(c) PROVE ServiceInv'
<1> DEFINE new == Len(link) + 1
<1>1. /\ ~caller[c].waiting /\ listening /\ Len(link) < MaxLinks
      /\ link' = Append(Hangup(c), NewLink) /\ backlog' = Append(backlog, new)
      /\ caller' = [caller EXCEPT ![c].socket = new]
      /\ UNCHANGED <<stop_requested, listening, connections, stop, running, queue, owner,
                     runner, accepted, pc, job, frame, raw, handled>>
  BY DEF Connect, Idle, flags, pool, threads
<1>2. /\ ThreadsTyped /\ StepsTyped /\ PoolInv /\ OpenIsHeld /\ RegisteredIsServed
      /\ OwnReplies /\ AcceptedIsHandled
      /\ link \in Seq(Link) /\ DOMAIN link = 1..Len(link) /\ Len(link) \in Nat
      /\ MaxLinks \in Nat /\ \A w \in Worker : job[w] # 0 => job[w] \in connections
      /\ caller \in [Client -> Caller] /\ caller[c] \in Caller
  BY Present, CallerFields
<1> CarriedOut' = CarriedOut
  BY <1>1 DEF CarriedOut
<1>3. NewLink \in Link /\ NewLink.requests = <<>> /\ NewLink.replies = <<>>
  BY EmptySequence DEF NewLink, Link
<1>4. /\ link' \in Seq(Link) /\ Len(link') = new /\ DOMAIN link' = DOMAIN link \union {new}
      /\ link'[new] = NewLink /\ \A i \in DOMAIN link : link'[i] = Hangup(c)[i]
      /\ new \notin DOMAIN link /\ new \in 1..MaxLinks
  <2>1. /\ Hangup(c) \in Seq(Link) /\ DOMAIN Hangup(c) = DOMAIN link
        /\ Len(Hangup(c)) = Len(link)
    BY <1>2, HangupLinks
  <2>2. /\ link' \in Seq(Link) /\ Len(link') = Len(link) + 1
        /\ link'[Len(link) + 1] = NewLink
        /\ \A i \in 1..Len(link) : link'[i] = Hangup(c)[i]
    BY <1>1, <1>3, <2>1, AppendIndices
  <2>3. DOMAIN link' = 1..(Len(link) + 1)
    BY <2>2, Indices
  <2>4. 1..(Len(link) + 1) = 1..Len(link) \union {Len(link) + 1}
    BY <1>2
  <2>5. QED
    BY <1>1, <1>2, <2>2, <2>3, <2>4
<1>5. \A i \in DOMAIN link :
        /\ link'[i].served = link[i].served /\ link'[i].requests = link[i].requests
        /\ Range(link'[i].replies) \subseteq Range(link[i].replies)
  BY <1>2, <1>4, HangupLinks, ZenonT(90)
<1> HIDE DEF new
<1>6. LET k == [caller[c] EXCEPT !.socket = new] IN
      /\ k \in Caller /\ k.socket = new /\ k.waiting = caller[c].waiting
      /\ k.returned = caller[c].returned
  <2>1. new \in 0..MaxLinks
    BY <1>4
  <2>2. QED
    BY <1>2, <2>1 DEF Caller
<1>7. /\ caller' \in [Client -> Caller] /\ caller'[c].socket = new /\ ~caller'[c].waiting
      /\ caller'[c].returned = caller[c].returned
      /\ \A d \in Client \ {c} : caller'[d] = caller[d]
  BY <1>1, <1>2, <1>6
<1>8. /\ backlog \in Seq(DOMAIN link) /\ queue \in Seq(DOMAIN link)
      /\ Range(backlog) \subseteq DOMAIN link /\ connections \subseteq DOMAIN link
  <2>1. backlog \in Seq(DOMAIN link) /\ queue \in Seq(DOMAIN link)
          /\ connections \subseteq DOMAIN link
    BY <1>2 DEF ThreadsTyped
  <2>2. \A i \in DOMAIN backlog : backlog[i] \in DOMAIN link
    BY <2>1, Indices
  <2>3. QED
    BY <2>1, <2>2 DEF Range
<1>9. /\ backlog \in Seq(DOMAIN link') /\ queue \in Seq(DOMAIN link')
      /\ backlog' \in Seq(DOMAIN link') /\ Range(backlog') = Range(backlog) \union {new}
      /\ IsInjective(backlog')
  <2>1. backlog \in Seq(DOMAIN link') /\ queue \in Seq(DOMAIN link')
    BY <1>4, <1>8
  <2>2. new \in DOMAIN link' /\ new \notin Range(backlog) /\ IsInjective(backlog)
    BY <1>2, <1>4, <1>8 DEF OpenIsHeld
  <2>3. QED
    BY <1>1, <2>1, <2>2, AppendElements, AppendIndices
<1>10. StepsTyped'
  <2>1. ThreadsTyped'
    BY <1>1, <1>2, <1>4, <1>8, <1>9 DEF ThreadsTyped
  <2>2. \A d \in Client :
          /\ caller'[d].socket \in {0} \union DOMAIN link'
          /\ caller'[d].waiting => caller'[d].socket # 0 /\ caller'[d].next_correlation > 1
    BY <1>2, <1>4, <1>7 DEF StepsTyped
  <2>3. Len(link') <= MaxLinks
    BY <1>4
  <2>4. QED
    BY <1>1, <1>2, <1>4, <1>7, <2>1, <2>2, <2>3 DEF StepsTyped
<1>11. PoolInv' /\ RegisteredIsServed'
  BY <1>1, <1>2 DEF PoolInv, RegisteredIsServed, Owed
<1>12. OpenIsHeld'
  <2>1. /\ Range(backlog) \intersect connections = {}
        /\ runner = "Register" =>
             accepted \in DOMAIN link /\ accepted \notin connections \union Range(backlog)
        /\ \A i \in DOMAIN link : link[i].served =>
             \/ i \in Range(backlog) \union connections
             \/ runner = "Register" /\ i = accepted
    BY <1>2 DEF OpenIsHeld
  <2>2. listening'
    BY <1>1
  <2>3. Range(backlog') \intersect connections = {}
    BY <1>4, <1>8, <1>9, <2>1
  <2>4. runner = "Register" =>
          accepted \in DOMAIN link' /\ accepted \notin connections \union Range(backlog')
    BY <1>4, <1>9, <2>1
  <2>5. ASSUME NEW i \in DOMAIN link', link'[i].served
        PROVE  \/ i \in Range(backlog') \union connections
               \/ runner = "Register" /\ i = accepted
    BY <1>4, <1>5, <1>9, <2>1, <2>5, ZenonT(90)
  <2>6. QED
    BY <1>1, <1>9, <2>2, <2>3, <2>4, <2>5, ZenonT(90) DEF OpenIsHeld
<1>13. OwnReplies'
  <2>1. \A d \in Client \ {c} : caller'[d].socket = caller[d].socket
          /\ (caller[d].socket # 0 => caller[d].socket \in DOMAIN link)
    BY <1>2, <1>7 DEF StepsTyped
  <2>2. \A d \in Client \ {c} : caller'[d].socket # 0 => caller'[d].socket # new
    BY <1>4, <2>1
  <2>3. \A d, e \in Client :
          caller'[d].socket = caller'[e].socket /\ caller'[d].socket # 0 => d = e
    BY <1>2, <1>7, <2>1, <2>2 DEF OwnReplies
  <2>4. \A w \in Worker : job[w] # new
    BY <1>2, <1>4, <1>8
  <2>5. ASSUME NEW d \in Client, caller'[d].socket # 0
        PROVE  LET l == link'[caller'[d].socket] IN
               /\ \A f \in Range(l.requests) : f.client = d
               /\ \A r \in Range(l.replies) :
                    r.accepted /\ r.correlation # 0 => <<d, r.correlation>> \in CarriedOut
               /\ \A w \in Worker : job[w] = caller'[d].socket =>
                    /\ pc[w] = "Dispatch" => frame[w].client = d
                    /\ pc[w] = "Send" /\ frame[w].accepted /\ frame[w].correlation # 0 =>
                         <<d, frame[w].correlation>> \in CarriedOut
    <3>1. CASE d = c
      BY <1>3, <1>4, <1>7, <2>4, <3>1, EmptyElements
    <3>2. CASE d # c
      <4>1. caller'[d].socket = caller[d].socket /\ caller[d].socket \in DOMAIN link
        BY <2>1, <2>5, <3>2
      <4>2. LET l == link[caller[d].socket] IN
            /\ \A f \in Range(l.requests) : f.client = d
            /\ \A r \in Range(l.replies) :
                 r.accepted /\ r.correlation # 0 => <<d, r.correlation>> \in CarriedOut
            /\ \A w \in Worker : job[w] = caller[d].socket =>
                 /\ pc[w] = "Dispatch" => frame[w].client = d
                 /\ pc[w] = "Send" /\ frame[w].accepted /\ frame[w].correlation # 0 =>
                      <<d, frame[w].correlation>> \in CarriedOut
        BY <1>2, <2>5, <4>1 DEF OwnReplies
      <4>3. QED
        BY <1>5, <4>1, <4>2
    <3>3. QED
      BY <3>1, <3>2, ZenonT(90)
  <2>6. QED
    BY <1>1, <2>3, <2>5, ZenonT(90) DEF OwnReplies
<1>14. AcceptedIsHandled'
  BY <1>1, <1>2, <1>7, ZenonT(90) DEF AcceptedIsHandled
<1>15. QED
  BY <1>10, <1>11, <1>12, <1>13, <1>14 DEF ServiceInv

-----------------------------------------------------------------------------
(* The theorems. *)

\* Before the first start() there is nothing to agree on.
LEMMA InitHolds == Init => ServiceInv
<1> SUFFICES ASSUME Init PROVE ServiceInv
  OBVIOUS
<1>1. /\ connections = {} /\ queue = <<>> /\ owner = "Down" /\ runner = "Out" /\ accepted = 0
      /\ pc = [w \in Worker |-> "Exited"] /\ job = [w \in Worker |-> 0]
      /\ frame = [w \in Worker |-> NoFrame] /\ backlog = <<>> /\ link = <<>>
      /\ handled = {} /\ raw = 0
      /\ caller = [c \in Client |-> [socket |-> 0, next_correlation |-> 1,
                                    waiting |-> FALSE, returned |-> {}]]
  BY DEF Init
<1>2. /\ stop_requested \in BOOLEAN /\ listening \in BOOLEAN /\ stop \in BOOLEAN
      /\ running \in BOOLEAN /\ ~running /\ ~listening
  BY ZenonT(90) DEF Init
<1>3. /\ MaxQueue \in Nat /\ MaxConnections \in Nat /\ MaxLinks \in Nat /\ MaxCalls \in Nat
      /\ MaxRaw \in Nat /\ Worker # {}
  BY ServiceAssumption
<1>4. [socket |-> 0, next_correlation |-> 1, waiting |-> FALSE, returned |-> {}] \in Caller
  BY <1>3 DEF Caller
<1>5. caller \in [Client -> Caller] /\ \A c \in Client : /\ caller[c].socket = 0
                                                        /\ ~caller[c].waiting
                                                        /\ caller[c].returned = {}
  BY <1>1, <1>4
<1>6. /\ link \in Seq(Link) /\ Len(link) = 0 /\ DOMAIN link = {} /\ Len(queue) = 0
      /\ queue \in Seq(DOMAIN link) /\ backlog \in Seq(DOMAIN link)
  BY <1>1, EmptySequence
<1>7. StepsTyped
  BY <1>1, <1>2, <1>3, <1>5, <1>6 DEF StepsTyped, ThreadsTyped, Step
<1>8. PoolInv
  BY <1>1, <1>2 DEF PoolInv, Resting
<1>9. OpenIsHeld
  BY <1>1, <1>6, EmptyElements DEF OpenIsHeld
<1>10. RegisteredIsServed
  <2>1. Owed = {}
    BY <1>1, EmptyElements DEF Owed
  <2>2. QED
    BY <1>1, <2>1, EmptyElements DEF RegisteredIsServed
<1>11. OwnReplies /\ AcceptedIsHandled
  BY <1>5 DEF OwnReplies, AcceptedIsHandled
<1>12. QED
  BY <1>7, <1>8, <1>9, <1>10, <1>11 DEF ServiceInv

\* Every step of every thread keeps the invariant.
LEMMA StepKeeps == ServiceInv /\ [Next]_vars => ServiceInv'
<1> SUFFICES ASSUME ServiceInv, [Next]_vars PROVE ServiceInv'
  OBVIOUS
<1>1. CASE Start \/ Shutdown \/ OwnerStep
  BY <1>1, StartKeeps, ShutdownKeeps, OwnerRequestsStopKeeps, StopPoolKeeps, JoinPoolKeeps
     DEF OwnerStep
<1>2. CASE Run \/ RunnerStep
  BY <1>2, RunKeeps, AcceptKeeps, RegisterKeeps DEF RunnerStep
<1>3. ASSUME NEW w \in Worker, WorkerStep(w) PROVE ServiceInv'
  BY <1>3, TakeJobKeeps, LeavePoolKeeps, ReceiveKeeps, ReceiveFailsKeeps, DispatchKeeps,
     SendKeeps, HandlerRequestsStopKeeps, DropConnectionKeeps DEF WorkerStep
<1>4. ASSUME NEW c \in Client,
             Connect(c) \/ Leave(c) \/ Call(c) \/ SendRaw(c) \/ CallReturns(c)
      PROVE  ServiceInv'
  BY <1>4, ConnectKeeps, LeaveKeeps, CallKeeps, SendRawKeeps, CallReturnsKeeps
<1>5. CASE UNCHANGED vars
  <2>1. UNCHANGED <<stop_requested, listening, connections, stop, running, queue, owner, runner,
                    accepted, pc, job, frame, backlog, link, caller, raw, handled>>
    BY <1>5 DEF vars, flags, pool, threads
  <2>2. /\ Narrows /\ BringsNothing /\ pc \in [Worker -> Step] /\ stop_requested \in BOOLEAN
        /\ stop \in BOOLEAN /\ runner \in {"Out", "Accept", "Register"}
        /\ owner \in {"Down", "Up", "CloseListener", "CloseConnections", "StopPool", "JoinPool"}
    BY <2>1, Present, SameLinks DEF ThreadsTyped
  <2>3. QED
    BY <2>1, <2>2, FlagsKeep
<1>6. QED
  BY <1>1, <1>2, <1>3, <1>4, <1>5 DEF Next

\* In every state the service and its clients can reach, the invariant holds.
THEOREM ServiceCorrect == Spec => []ServiceInv
<1>1. Init => ServiceInv
  BY InitHolds
<1>2. ServiceInv /\ [Next]_vars => ServiceInv'
  BY StepKeeps
<1>3. QED
  BY <1>1, <1>2, PTL DEF Spec

\* Every registered connection has exactly one handler, queued or running, and every
\* handler a registered connection (run, handle_connection, drop_connection).
THEOREM RegistryAgrees == Spec => []RegisteredIsServed
<1>1. ServiceInv => RegisteredIsServed
  BY DEF ServiceInv
<1>2. QED
  BY <1>1, ServiceCorrect, PTL

\* Once shutdown() and run() have returned, the service holds no open connection.  By
\* then the workers have left and the queue is empty, so nothing is registered; the
\* listener is closed, so nothing is in the backlog; and run() has none in hand
\* (request_stop, run, shutdown).
THEOREM StopLeavesNothingOpen == Spec => []NothingLeftOpen
<1>1. ServiceInv => NothingLeftOpen
  <2> SUFFICES ASSUME ServiceInv, owner = "Down", runner = "Out"
               PROVE  connections = {} /\ \A i \in DOMAIN link : ~link[i].served
    BY DEF NothingLeftOpen
  <2>1. queue = <<>> /\ ~listening /\ \A w \in Worker : job[w] = 0
    BY Present DEF PoolInv, Resting
  <2>2. connections = {}
    BY <2>1, Present, EmptyElements DEF RegisteredIsServed, Owed
  <2>3. Range(backlog) = {}
    BY <2>1, Present, EmptyElements DEF OpenIsHeld
  <2>4. QED
    BY <2>2, <2>3, Present DEF OpenIsHeld
<1>2. QED
  BY <1>1, ServiceCorrect, PTL

\* A call that returns acceptance was carried out by the engine, or a request was that
\* its own client sent raw under the same number; for a client that sends no raw
\* bytes, the call itself was.  Replies to frames of other numbers, and to bytes that
\* were mixed up on the way, are never taken for it (Client::call, send_raw,
\* dispatch).
THEOREM AcceptanceIsEarned == Spec => []AcceptedIsHandled
<1>1. ServiceInv => AcceptedIsHandled
  BY DEF ServiceInv
<1>2. QED
  BY <1>1, ServiceCorrect, PTL

-----------------------------------------------------------------------------
(* The size of the registry. *)

INSTANCE FiniteSetTheorems

\* The registry has at most max_connections entries.
RegistryBounded == Cardinality(connections) <= MaxConnections

\* A registry with one connection more or less stays finite.
LEMMA RegistrySize ==
  ASSUME ServiceInv, RegistryBounded, NEW i
  PROVE  /\ Cardinality(connections \ {i}) <= MaxConnections
         /\ Cardinality(connections) < MaxConnections =>
              Cardinality(connections \union {i}) <= MaxConnections
<1>1. /\ connections \subseteq 1..Len(link) /\ Len(link) \in Nat /\ MaxConnections \in Nat
      /\ Cardinality(connections) <= MaxConnections
  BY Present DEF ThreadsTyped, RegistryBounded
<1>2. IsFiniteSet(connections)
  <2>1. IsFiniteSet(1..Len(link))
    BY <1>1, FS_Interval
  <2>2. QED
    BY <1>1, <2>1, FS_Subset, ZenonT(90)
<1>3. /\ Cardinality(connections) \in Nat
      /\ Cardinality(connections \ {i}) \in Nat
      /\ Cardinality(connections \ {i}) <= Cardinality(connections)
  BY <1>2, FS_CardinalityType, FS_RemoveElement, FS_Subset
<1>4. Cardinality(connections \union {i}) <= Cardinality(connections) + 1
        /\ Cardinality(connections \union {i}) \in Nat
  <2>1. CASE i \in connections
    <3>1. connections \union {i} = connections
      BY <2>1
    <3>2. QED
      BY <1>3, <3>1
  <2>2. CASE i \notin connections
    <3>1. Cardinality(connections \union {i}) = Cardinality(connections) + 1
      BY <1>2, <2>2, FS_AddElement
    <3>2. QED
      BY <1>3, <3>1
  <2>3. QED
    BY <2>1, <2>2
<1>5. QED
  BY <1>1, <1>2, <1>3, <1>4

\* Only run() adds to the registry, and only when there is room.
LEMMA BoundKeeps == ServiceInv /\ RegistryBounded /\ [Next]_vars => RegistryBounded'
<1> SUFFICES ASSUME ServiceInv, RegistryBounded, [Next]_vars PROVE RegistryBounded'
  OBVIOUS
<1>1. CASE UNCHANGED connections
  BY <1>1 DEF RegistryBounded
<1>2. CASE Register
  <2>1. \/ UNCHANGED connections
        \/ /\ Cardinality(connections) < MaxConnections
           /\ connections' = connections \union {accepted}
    BY <1>2 DEF Register
  <2>2. QED
    BY <1>1, <2>1, RegistrySize DEF RegistryBounded
<1>3. ASSUME NEW w \in Worker, DropConnection(w) PROVE RegistryBounded'
  <2>1. connections' = connections \ {job[w]}
    BY <1>3 DEF DropConnection
  <2>2. QED
    BY <2>1, RegistrySize DEF RegistryBounded
<1>4. CASE Start \/ Shutdown \/ OwnerStep \/ Run \/ Accept \/ AcceptFails
  BY <1>1, <1>4 DEF Start, Shutdown, SetStopFlag, OwnerStep, OwnerRequestsStop, CloseListener,
     CloseConnections, StopPool, JoinPool, Run, Accept, AcceptFails
<1>5. ASSUME NEW w \in Worker, WorkerStep(w) PROVE RegistryBounded'
  <2>1. CASE TakeJob(w) \/ LeavePool(w) \/ Receive(w) \/ ReceiveFails(w)
    <3>1. TakeJob(w) \/ LeavePool(w) => UNCHANGED connections
      BY DEF TakeJob, LeavePool
    <3>2. Receive(w) \/ ReceiveFails(w) => UNCHANGED connections
      BY DEF Receive, ReceiveFails
    <3>3. QED
      BY <1>1, <2>1, <3>1, <3>2
  <2>2. CASE Dispatch(w) \/ Send(w)
    <3>1. UNCHANGED connections
      BY <2>2 DEF Dispatch, Send
    <3>2. QED
      BY <1>1, <3>1
  <2>3. CASE HandlerRequestsStop(w)
    BY <1>1, <2>3 DEF HandlerRequestsStop, SetStopFlag, CloseListener, CloseConnections
  <2>4. QED
    BY <1>3, <1>5, <2>1, <2>2, <2>3 DEF WorkerStep
<1>6. ASSUME NEW c \in Client,
             Connect(c) \/ Leave(c) \/ Call(c) \/ SendRaw(c) \/ CallReturns(c)
      PROVE  RegistryBounded'
  <2>1. Connect(c) \/ Leave(c) => UNCHANGED connections
    BY DEF Connect, Leave
  <2>2. Call(c) \/ SendRaw(c) => UNCHANGED connections
    BY DEF Call, SendRaw
  <2>3. Return(c) \/ ReturnBroken(c) => UNCHANGED connections
    BY DEF Return, ReturnBroken
  <2>4. QED
    BY <1>1, <1>6, <2>1, <2>2, <2>3 DEF CallReturns
<1>7. CASE UNCHANGED vars
  BY <1>1, <1>7 DEF vars
<1>8. QED
  BY <1>2, <1>4, <1>5, <1>6, <1>7 DEF Next, RunnerStep

\* The tables stay well formed, the registry within max_connections and the pool's
\* queue within max_queue_depth, for every number of clients and workers (run,
\* try_submit).
THEOREM TablesWellFormed == Spec => []TypeOK
<1>1. Init => RegistryBounded
  <2>1. Init => connections = {}
    BY DEF Init
  <2>2. QED
    BY <2>1, FS_EmptySet, ServiceAssumption DEF RegistryBounded
<1>2. ServiceInv /\ RegistryBounded => TypeOK
  BY DEF ServiceInv, StepsTyped, ThreadsTyped, RegistryBounded, TypeOK
<1>3. QED
  BY <1>1, <1>2, BoundKeeps, ServiceCorrect, PTL DEF Spec

=============================================================================

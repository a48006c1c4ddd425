--------------------------- MODULE GatewayProofs ---------------------------
(***************************************************************************)
(* What leaves the gateway for the workers and comes back.                 *)
(*                                                                         *)
(* The broker client sends every request once and in order, for any number *)
(* of brokers, requests, silences and restarts.                            *)
(*                                                                         *)
(* Bodies and the conversions of zmsg: a frame of 17 bytes that starts     *)
(* with 0, or of 33 that start with '@', is taken for an identity.  The    *)
(* layouts of the bodies rule both out whatever the payload's size, which  *)
(* the runs can show for a few sizes only.                                 *)
(*                                                                         *)
(* A request on its way is one its player has made, for the service that   *)
(* handles it; what a worker posts is with the players it is for, or on    *)
(* its way: for any players, requests and messages.                        *)
(***************************************************************************)
EXTENDS MdCli, Message, FiniteSetTheorems, SequenceTheorems, TLAPS

\* Numbered: the requests 1 .. n in the order of their calls.
Numbered(n) == [i \in 1 .. n |-> i]

\* TypesOK: the types the proof needs; a call that is inside send was counted.
TypesOK ==
    /\ sent \in Seq(Nat) /\ requests \in Seq(Nat)
    /\ submitted \in Nat
    /\ mainPc \in {"idle", "reset"}
    /\ mainPc = "reset" => submitted > 0

Ordered == TypesOK /\ SentOnce

\* Nothing has been sent at the start.
LEMMA InitOrdered == Init => Ordered
  <1>1. ASSUME Init PROVE TypesOK
    BY <1>1 DEF Init, TypesOK
  <1>2. ASSUME Init PROVE SentOnce
    BY <1>2 DEF Init, SentOnce
  <1>3. QED
    BY <1>1, <1>2 DEF Ordered

\* The next number continues the numbers.
LEMMA AppendLast ==
    ASSUME NEW s \in Seq(Nat), NEW t \in Seq(Nat), NEW n \in Nat
    PROVE  s \o Append(t, n) = Append(s \o t, n)
  <1>1. <<n>> \in Seq(Nat) /\ s \o t \in Seq(Nat)
    BY ConcatProperties
  <1>2. Append(t, n) = t \o <<n>>
    BY AppendIsConcat
  <1>3. Append(s \o t, n) = (s \o t) \o <<n>>
    BY <1>1, AppendIsConcat
  <1>4. (s \o t) \o <<n>> = s \o (t \o <<n>>)
    BY <1>1, ConcatAssociative
  <1>5. QED
    BY <1>2, <1>3, <1>4

\* What send appends is the next number.
LEMMA QueueOrdered == Ordered /\ SendQueue => Ordered'
  <1> SUFFICES ASSUME Ordered, SendQueue PROVE Ordered'
    OBVIOUS
  <1>1. TypesOK'
    BY DEF Ordered, TypesOK, SendQueue
  <1>2. /\ sent \in Seq(Nat) /\ requests \in Seq(Nat) /\ submitted \in Nat
        /\ submitted > 0 /\ mainPc = "reset" /\ mainPc' = "idle"
        /\ sent' = sent /\ submitted' = submitted
        /\ requests' = Append(requests, submitted)
        /\ sent \o requests = Numbered(submitted - 1)
    BY DEF Ordered, TypesOK, SentOnce, SendQueue, Numbered
  <1>3. sent' \o requests' = Append(sent \o requests, submitted)
    BY <1>2, AppendLast
  <1>4. Append(Numbered(submitted - 1), submitted) = Numbered(submitted)
    <2> DEFINE s == Numbered(submitted - 1)
    <2>1. s \in Seq(Nat) /\ Len(s) = submitted - 1
      BY <1>2 DEF Numbered
    <2>2. QED
      BY <1>2, <2>1 DEF Numbered
  <1>5. SentOnce'
    BY <1>2, <1>3, <1>4 DEF SentOnce, Numbered
  <1>6. QED
    BY <1>1, <1>5 DEF Ordered

\* What a turn of send_requests moves is the front of the queue, to the end of what
\* was sent.
LEMMA DrainOrdered == Ordered /\ Drain => Ordered'
  <1> SUFFICES ASSUME Ordered, Drain PROVE Ordered'
    OBVIOUS
  <1>1. CASE requests # <<>> /\ status[nextB]
    <2>1. /\ sent \in Seq(Nat) /\ requests \in Seq(Nat)
          /\ sent' = Append(sent, Head(requests)) /\ requests' = Tail(requests)
          /\ mainPc' = mainPc /\ submitted' = submitted
      BY <1>1 DEF Ordered, TypesOK, Drain
    <2>2. sent' \o requests' = sent \o requests
      BY <1>1, <2>1
    <2>3. sent' \in Seq(Nat) /\ requests' \in Seq(Nat)
      BY <1>1, <2>1
    <2>4. QED
      BY <2>1, <2>2, <2>3 DEF Ordered, TypesOK, SentOnce
  <1>2. CASE ~(requests # <<>> /\ status[nextB])
    BY <1>2 DEF Ordered, TypesOK, SentOnce, Drain
  <1>3. QED
    BY <1>1, <1>2

\* All other steps leave the queue and what was sent alone; a call that begins is
\* counted and inside send.
LEMMA StepOrdered == Ordered /\ [Next]_vars => Ordered'
  <1> SUFFICES ASSUME Ordered, [Next]_vars PROVE Ordered'
    OBVIOUS
  <1>1. CASE SendReset
    BY <1>1 DEF Ordered, TypesOK, SentOnce, SendReset
  <1>2. CASE SendQueue
    BY <1>2, QueueOrdered
  <1>3. CASE Drain
    BY <1>3, DrainOrdered
  <1>4. CASE TakeSignal \/ Scan \/ Check \/ Lock
    BY <1>4 DEF Ordered, TypesOK, SentOnce, TakeSignal, Scan, Check, Lock
  <1>5. ASSUME NEW b \in Brokers, Receive(b) \/ Expire(b) \/ Restart(b)
        PROVE  Ordered'
    BY <1>5 DEF Ordered, TypesOK, SentOnce, Receive, Expire, Restart
  <1>6. CASE UNCHANGED vars
    BY <1>6 DEF Ordered, TypesOK, SentOnce, vars
  <1>7. QED
    BY <1>1, <1>2, <1>3, <1>4, <1>5, <1>6 DEF Next, RecvStep

\* AlwaysSentOnce: send and send_requests lose, double and reorder no request, although
\* they share the queue between two threads.
THEOREM AlwaysSentOnce == Spec => []SentOnce
  <1>1. Ordered => SentOnce
    BY DEF Ordered
  <1>2. QED
    BY <1>1, InitOrdered, StepOrdered, PTL DEF Spec

-----------------------------------------------------------------------------

Unchanged(f) == DecodeUuid(f) = f /\ EncodeUuid(f) = f

\* A frame that neither conversion is meant for.
LEMMA NotAnIdentity ==
    ASSUME NEW f, ~(f.size = 33 /\ f.first = At), ~(f.size = 17 /\ f.first = 0)
    PROVE  Unchanged(f)
BY DEF Unchanged, DecodeUuid, EncodeUuid

\* Text frames.
LEMMA TextUnchanged == \A s : Unchanged(Text(s)) /\ Unchanged(Empty)
<1> TAKE s
<1>1. Text(s).size = 1 /\ Empty.size = 0
  BY DEF Text, Empty
<1> QED BY <1>1, NotAnIdentity

\* RequestUnchanged: a request of any payload reaches the worker as write_id and
\* SendMessage of the gateway laid it out (_login_worker.cpp, OnMessage): a request of
\* 17 or 33 bytes starts with the low byte of its length, 15 or 31.
THEOREM RequestUnchanged ==
    ASSUME NEW p, NEW id, NEW n \in Nat
    PROVE  Unchanged(RequestBody(p, id, n))
<1> DEFINE f == RequestBody(p, id, n)
<1>1. f.size = n + 8 /\ f.first = (n + 6) % 256
  BY DEF RequestBody
<1>2. ~(f.size = 33 /\ f.first = At)
  <2>1. CASE n = 25  BY <1>1, <2>1 DEF At
  <2>2. CASE n # 25  BY <1>1, <2>2
  <2> QED BY <2>1, <2>2
<1>3. ~(f.size = 17 /\ f.first = 0)
  <2>1. CASE n = 9   BY <1>1, <2>1
  <2>2. CASE n # 9   BY <1>1, <2>2
  <2> QED BY <2>1, <2>2
<1> QED BY <1>2, <1>3, NotAnIdentity

\* ReplyUnchanged: a message for at least one player reaches the gateway as the worker
\* laid it out (_small_map.cpp, SendToPlayerList): with few enough players to fit in
\* 33 bytes it starts with their number, 1 to 7, which is neither 0 nor '@'.
THEOREM ReplyUnchanged ==
    ASSUME NEW us, IsFiniteSet(us), us # {}, NEW n \in Nat, NEW k
    PROVE  Unchanged(ReplyBody(us, n, k))
<1> DEFINE f == ReplyBody(us, n, k)
           c == Cardinality(us)
<1>1. c \in Nat /\ c # 0
  BY FS_CardinalityType, FS_EmptySet
<1>2. f.size = 4 * c + n + 4 /\ f.first = c % 256
  BY <1>1 DEF ReplyBody
<1>3. CASE c > 7
  BY <1>1, <1>2, <1>3, NotAnIdentity
<1>4. CASE c \in 1..7
  <2>1. c % 256 = c
    BY <1>4
  <2> QED BY <1>2, <1>4, <2>1, NotAnIdentity DEF At
<1> QED BY <1>1, <1>3, <1>4
-----------------------------------------------------------------------------
(* The way of a request and of a message, frame by frame.                  *)

\* What zmsg reads of frames that no conversion changes.
LEMMA FourFrames ==
    ASSUME NEW a, NEW b, NEW c, NEW d,
           Unchanged(a), Unchanged(b), Unchanged(c), Unchanged(d)
    PROVE  Sent(<<a, b, c, d>>) = <<a, b, c, d>> /\ Recv(<<a, b, c, d>>) = <<a, b, c, d>>
BY DEF Unchanged, Sent, Recv

\* A message of six frames.
LEMMA SixFrames ==
    ASSUME NEW a, NEW b, NEW c, NEW d, NEW e, NEW f,
           Unchanged(a), Unchanged(b), Unchanged(c), Unchanged(d), Unchanged(e), Unchanged(f)
    PROVE  /\ Sent(<<a, b, c, d, e, f>>) = <<a, b, c, d, e, f>>
           /\ Recv(<<a, b, c, d, e, f>>) = <<a, b, c, d, e, f>>
BY DEF Unchanged, Sent, Recv

\* Frames put before others, and taken off.
LEMMA OneAndFour ==
    ASSUME NEW a, NEW b, NEW c, NEW d, NEW e
    PROVE  <<a>> \o <<b, c, d, e>> = <<a, b, c, d, e>>
<1> DEFINE S == {a, b, c, d, e}
           u == <<a>>
           v == <<b, c, d, e>>
           w == <<a, b, c, d, e>>
<1>1. u \in Seq(S) /\ v \in Seq(S) /\ w \in Seq(S)
  OBVIOUS
<1>2. Len(u) = 1 /\ Len(v) = 4 /\ Len(w) = 5
  OBVIOUS
<1>3. \A i \in 1..5 : w[i] = IF i <= 1 THEN u[i] ELSE v[i - 1]
  OBVIOUS
<1> HIDE DEF S, u, v, w
<1>4. /\ u \o v \in Seq(S)
      /\ Len(u \o v) = Len(u) + Len(v)
      /\ \A i \in 1..Len(u) + Len(v) :
            (u \o v)[i] = IF i <= Len(u) THEN u[i] ELSE v[i - Len(u)]
  BY <1>1, ConcatProperties
<1>5. Len(u \o v) = Len(w) /\ \A i \in 1..Len(u \o v) : (u \o v)[i] = w[i]
  BY <1>2, <1>3, <1>4
<1>6. u \o v = w
  BY <1>1, <1>4, <1>5, SeqEqual
<1> QED BY <1>6 DEF u, v, w

\* Two frames before one.
LEMMA TwoAndOne ==
    ASSUME NEW a, NEW b, NEW c
    PROVE  <<a, b>> \o <<c>> = <<a, b, c>>
<1> DEFINE S == {a, b, c}
           u == <<a, b>>
           v == <<c>>
           w == <<a, b, c>>
<1>1. u \in Seq(S) /\ v \in Seq(S) /\ w \in Seq(S)
  OBVIOUS
<1>2. Len(u) = 2 /\ Len(v) = 1 /\ Len(w) = 3
  OBVIOUS
<1>3. \A i \in 1..3 : w[i] = IF i <= 2 THEN u[i] ELSE v[i - 2]
  OBVIOUS
<1> HIDE DEF S, u, v, w
<1>4. /\ u \o v \in Seq(S)
      /\ Len(u \o v) = Len(u) + Len(v)
      /\ \A i \in 1..Len(u) + Len(v) :
            (u \o v)[i] = IF i <= Len(u) THEN u[i] ELSE v[i - Len(u)]
  BY <1>1, ConcatProperties
<1>5. Len(u \o v) = Len(w) /\ \A i \in 1..Len(u \o v) : (u \o v)[i] = w[i]
  BY <1>2, <1>3, <1>4
<1>6. u \o v = w
  BY <1>1, <1>4, <1>5, SeqEqual
<1> QED BY <1>6 DEF u, v, w

\* Three frames before three.
LEMMA ThreeAndThree ==
    ASSUME NEW a, NEW b, NEW c, NEW d, NEW e, NEW f
    PROVE  <<a, b, c>> \o <<d, e, f>> = <<a, b, c, d, e, f>>
<1> DEFINE S == {a, b, c, d, e, f}
           u == <<a, b, c>>
           v == <<d, e, f>>
           w == <<a, b, c, d, e, f>>
<1>1. u \in Seq(S) /\ v \in Seq(S) /\ w \in Seq(S)
  OBVIOUS
<1>2. Len(u) = 3 /\ Len(v) = 3 /\ Len(w) = 6
  OBVIOUS
<1>3. \A i \in 1..6 : w[i] = IF i <= 3 THEN u[i] ELSE v[i - 3]
  OBVIOUS
<1> HIDE DEF S, u, v, w
<1>4. /\ u \o v \in Seq(S)
      /\ Len(u \o v) = Len(u) + Len(v)
      /\ \A i \in 1..Len(u) + Len(v) :
            (u \o v)[i] = IF i <= Len(u) THEN u[i] ELSE v[i - Len(u)]
  BY <1>1, ConcatProperties
<1>5. Len(u \o v) = Len(w) /\ \A i \in 1..Len(u \o v) : (u \o v)[i] = w[i]
  BY <1>2, <1>3, <1>4
<1>6. u \o v = w
  BY <1>1, <1>4, <1>5, SeqEqual
<1> QED BY <1>6 DEF u, v, w

\* Three frames before one.
LEMMA ThreeAndOne ==
    ASSUME NEW a, NEW b, NEW c, NEW d
    PROVE  <<a, b, c>> \o <<d>> = <<a, b, c, d>>
<1> DEFINE S == {a, b, c, d}
           u == <<a, b, c>>
           v == <<d>>
           w == <<a, b, c, d>>
<1>1. u \in Seq(S) /\ v \in Seq(S) /\ w \in Seq(S)
  OBVIOUS
<1>2. Len(u) = 3 /\ Len(v) = 1 /\ Len(w) = 4
  OBVIOUS
<1>3. \A i \in 1..4 : w[i] = IF i <= 3 THEN u[i] ELSE v[i - 3]
  OBVIOUS
<1> HIDE DEF S, u, v, w
<1>4. /\ u \o v \in Seq(S)
      /\ Len(u \o v) = Len(u) + Len(v)
      /\ \A i \in 1..Len(u) + Len(v) :
            (u \o v)[i] = IF i <= Len(u) THEN u[i] ELSE v[i - Len(u)]
  BY <1>1, ConcatProperties
<1>5. Len(u \o v) = Len(w) /\ \A i \in 1..Len(u \o v) : (u \o v)[i] = w[i]
  BY <1>2, <1>3, <1>4
<1>6. u \o v = w
  BY <1>1, <1>4, <1>5, SeqEqual
<1> QED BY <1>6 DEF u, v, w

\* Four frames taken off from five.
LEMMA FourTakenOff ==
    ASSUME NEW a, NEW b, NEW c, NEW d, NEW e
    PROVE  WithoutFirst(<<a, b, c, d, e>>, 4) = <<e>>
<1> DEFINE S == {a, b, c, d, e}
           u == <<a, b, c, d, e>>
           v == <<e>>
<1>1. u \in Seq(S) /\ v \in Seq(S)
  OBVIOUS
<1>2. Len(u) = 5 /\ Len(v) = 1
  OBVIOUS
<1>3. /\ \A i \in 5..5 : u[i] \in S
      /\ \A i \in 1..1 : v[i] = u[i + 4]
  OBVIOUS
<1> HIDE DEF S, u, v
<1>4. /\ SubSeq(u, 5, 5) \in Seq(S)
      /\ Len(SubSeq(u, 5, 5)) = 1
      /\ \A i \in 1..1 : SubSeq(u, 5, 5)[i] = u[i + 4]
  BY <1>3, SubSeqProperties
<1>5. SubSeq(u, 5, 5) = v
  BY <1>1, <1>2, <1>3, <1>4, SeqEqual
<1> QED BY <1>2, <1>5 DEF WithoutFirst, u, v

\* Three frames taken off from six.
LEMMA ThreeTakenOff ==
    ASSUME NEW a, NEW b, NEW c, NEW d, NEW e, NEW f
    PROVE  WithoutFirst(<<a, b, c, d, e, f>>, 3) = <<d, e, f>>
<1> DEFINE S == {a, b, c, d, e, f}
           u == <<a, b, c, d, e, f>>
           v == <<d, e, f>>
<1>1. u \in Seq(S) /\ v \in Seq(S)
  OBVIOUS
<1>2. Len(u) = 6 /\ Len(v) = 3
  OBVIOUS
<1>3. /\ \A i \in 4..6 : u[i] \in S
      /\ \A i \in 1..3 : v[i] = u[i + 3]
  OBVIOUS
<1> HIDE DEF S, u, v
<1>4. /\ SubSeq(u, 4, 6) \in Seq(S)
      /\ Len(SubSeq(u, 4, 6)) = 3
      /\ \A i \in 1..3 : SubSeq(u, 4, 6)[i] = u[i + 3]
  BY <1>3, SubSeqProperties
<1>5. SubSeq(u, 4, 6) = v
  BY <1>1, <1>2, <1>3, <1>4, SeqEqual
<1> QED BY <1>2, <1>5 DEF WithoutFirst, u, v

\* Two frames taken off from three.
LEMMA TwoTakenOff ==
    ASSUME NEW a, NEW b, NEW c
    PROVE  WithoutFirst(<<a, b, c>>, 2) = <<c>>
<1> DEFINE S == {a, b, c}
           u == <<a, b, c>>
           v == <<c>>
<1>1. u \in Seq(S) /\ v \in Seq(S)
  OBVIOUS
<1>2. Len(u) = 3 /\ Len(v) = 1
  OBVIOUS
<1>3. /\ \A i \in 3..3 : u[i] \in S
      /\ \A i \in 1..1 : v[i] = u[i + 2]
  OBVIOUS
<1> HIDE DEF S, u, v
<1>4. /\ SubSeq(u, 3, 3) \in Seq(S)
      /\ Len(SubSeq(u, 3, 3)) = 1
      /\ \A i \in 1..1 : SubSeq(u, 3, 3)[i] = u[i + 2]
  BY <1>3, SubSeqProperties
<1>5. SubSeq(u, 3, 3) = v
  BY <1>1, <1>2, <1>3, <1>4, SeqEqual
<1> QED BY <1>2, <1>5 DEF WithoutFirst, u, v

\* Neither conversion touches the headers and commands of the protocol.
LEMMA HeadersUnchanged ==
    /\ Unchanged(Empty) /\ Unchanged(MDPC) /\ Unchanged(MDPW) /\ Unchanged(Gateway)
    /\ Unchanged(Request) /\ Unchanged(Reply)
BY TextUnchanged DEF MDPC, MDPW, Gateway, Request, Reply

\* What the broker makes of a client's message for service s.
AtBroker(s, body) == <<Gateway>> \o Recv(ToBroker(Text(s), body))
AtWorker(s, body) ==
    Recv(ToWorker(Request, Wrap(WithoutFirst(AtBroker(s, body), 4), Gateway)))

\* RequestArrives: after send_to_broker of the gateway, client_process and worker_send of
\* the broker and every send and recv of zmsg between them, the worker finds the body
\* the gateway built, whatever its size, and the gateway's address to answer.
THEOREM RequestArrives ==
    ASSUME NEW s, NEW p, NEW id, NEW n \in Nat
    PROVE  LET msg == AtWorker(s, RequestBody(p, id, n))
           IN /\ Len(msg) = 6 /\ msg[1] = Empty /\ msg[2] = MDPW /\ msg[3] = Request
              /\ msg[4] = Gateway /\ Body(msg) = RequestBody(p, id, n)
<1> DEFINE b == RequestBody(p, id, n)
<1>1. Unchanged(b) /\ Unchanged(Text(s))
  BY RequestUnchanged, TextUnchanged
<1> HIDE DEF b
<1>2. Recv(ToBroker(Text(s), b)) = <<Empty, MDPC, Text(s), b>>
  BY <1>1, FourFrames, HeadersUnchanged DEF ToBroker
<1>3. AtBroker(s, b) = <<Gateway, Empty, MDPC, Text(s), b>>
  BY <1>2, OneAndFour DEF AtBroker
<1>4. WithoutFirst(AtBroker(s, b), 4) = <<b>>
  BY <1>3, FourTakenOff
<1>5. <<Empty, MDPW, Request>> \o Wrap(<<b>>, Gateway)
        = <<Empty, MDPW, Request, Gateway, Empty, b>>
  <2>1. Wrap(<<b>>, Gateway) = <<Gateway, Empty, b>>
    BY TwoAndOne DEF Wrap
  <2>2. <<Empty, MDPW, Request>> \o <<Gateway, Empty, b>>
          = <<Empty, MDPW, Request, Gateway, Empty, b>>
    BY ThreeAndThree
  <2> QED BY <2>1, <2>2
<1>6. AtWorker(s, b) = <<Empty, MDPW, Request, Gateway, Empty, b>>
  BY <1>1, <1>4, <1>5, SixFrames, HeadersUnchanged DEF AtWorker, ToWorker
<1>7. Body(AtWorker(s, b)) = b
  BY <1>6 DEF Body
<1> QED BY <1>6, <1>7 DEF b

\* What the gateway makes of a message worker s posts with the gateway's address.
FromWorkerAtBroker(body) == Recv(FromWorker(Reply, Wrap(<<body>>, Gateway)))
AtGateway(s, body) ==
    Recv(ToClient(Text(s), WithoutFirst(WithoutFirst(FromWorkerAtBroker(body), 3), 2)))

\* ReplyArrives: after __send of the worker, worker_process and client_send of the broker
\* and every send and recv between them, the gateway finds the body the worker built.
THEOREM ReplyArrives ==
    ASSUME NEW s, NEW us, IsFiniteSet(us), us # {}, NEW n \in Nat, NEW k
    PROVE  LET msg == AtGateway(s, ReplyBody(us, n, k))
           IN /\ Len(msg) = 4 /\ msg[1] = Empty /\ msg[2] = MDPC
              /\ Body(msg) = ReplyBody(us, n, k)
<1> DEFINE b == ReplyBody(us, n, k)
<1>1. Unchanged(b) /\ Unchanged(Text(s))
  BY ReplyUnchanged, TextUnchanged
<1> HIDE DEF b
<1>2. <<Empty, MDPW, Reply>> \o Wrap(<<b>>, Gateway)
        = <<Empty, MDPW, Reply, Gateway, Empty, b>>
  <2>1. Wrap(<<b>>, Gateway) = <<Gateway, Empty, b>>
    BY TwoAndOne DEF Wrap
  <2>2. <<Empty, MDPW, Reply>> \o <<Gateway, Empty, b>>
          = <<Empty, MDPW, Reply, Gateway, Empty, b>>
    BY ThreeAndThree
  <2> QED BY <2>1, <2>2
<1>3. FromWorkerAtBroker(b) = <<Empty, MDPW, Reply, Gateway, Empty, b>>
  BY <1>1, <1>2, SixFrames, HeadersUnchanged DEF FromWorkerAtBroker, FromWorker
<1>4. WithoutFirst(WithoutFirst(FromWorkerAtBroker(b), 3), 2) = <<b>>
  BY <1>3, ThreeTakenOff, TwoTakenOff
<1>5. <<Empty, MDPC, Text(s)>> \o <<b>> = <<Empty, MDPC, Text(s), b>>
  BY ThreeAndOne
<1>6. AtGateway(s, b) = <<Empty, MDPC, Text(s), b>>
  BY <1>1, <1>4, <1>5, FourFrames, HeadersUnchanged DEF AtGateway, ToClient
<1>7. Body(AtGateway(s, b)) = b
  BY <1>6 DEF Body
<1> QED BY <1>6, <1>7 DEF b
-----------------------------------------------------------------------------
(* What is on its way between gateway, broker and workers.                 *)

\* Messages in each direction, after the conversions.
Up(s, b) == <<Empty, MDPC, Text(s), b>>
Down(b) == <<Empty, MDPW, Request, Gateway, Empty, b>>
Back(b) == <<Empty, MDPW, Reply, Gateway, Empty, b>>
WorkerBeat == <<Empty, MDPW, Beat>>
ClientBeat == <<Empty, MDPC, Beat>>

\* zmsg::send and recv leave them as they are.
LEMMA MessagesUnchanged ==
    /\ \A s, b : Unchanged(b) => Sent(Up(s, b)) = Up(s, b) /\ Recv(Up(s, b)) = Up(s, b)
    /\ \A b : Unchanged(b) => /\ Sent(Down(b)) = Down(b) /\ Recv(Down(b)) = Down(b)
                              /\ Sent(Back(b)) = Back(b) /\ Recv(Back(b)) = Back(b)
<1>1. ASSUME NEW s, NEW b, Unchanged(b) PROVE Sent(Up(s, b)) = Up(s, b) /\ Recv(Up(s, b)) = Up(s, b)
  BY <1>1, TextUnchanged, HeadersUnchanged, FourFrames DEF Up
<1>2. ASSUME NEW b, Unchanged(b)
      PROVE  /\ Sent(Down(b)) = Down(b) /\ Recv(Down(b)) = Down(b)
             /\ Sent(Back(b)) = Back(b) /\ Recv(Back(b)) = Back(b)
  BY <1>2, HeadersUnchanged, SixFrames DEF Down, Back
<1> QED
  BY <1>1, <1>2

\* Heartbeats and registrations, as they are sent and as they are read.
LEMMA BeatsUnchanged ==
    /\ ToBroker(Beat, Empty) = Up("HEARTBEAT", Empty)
    /\ ToWorker(Beat, <<>>) = WorkerBeat /\ Recv(WorkerBeat) = WorkerBeat
    /\ ToClient(Beat, <<>>) = ClientBeat /\ Recv(ClientBeat) = ClientBeat
    /\ \A s \in Services : From(s, Beat, <<>>) = WorkerBeat
<1>b. Unchanged(Beat) /\ Unchanged(Empty) /\ Unchanged(MDPC) /\ Unchanged(MDPW)
  BY TextUnchanged DEF Beat, MDPC, MDPW
<1>1. ToBroker(Beat, Empty) = Up("HEARTBEAT", Empty)
  BY <1>b, MessagesUnchanged DEF ToBroker, Up, Beat
<1>2. <<Empty, MDPW, Beat>> \o <<>> = WorkerBeat /\ <<Empty, MDPC, Beat>> \o <<>> = ClientBeat
  <2>1. \A a, b, c : <<a, b, c>> \o <<>> = <<a, b, c>>
    <3> TAKE a, b, c
    <3> DEFINE S == {a, b, c}
    <3>1. <<a, b, c>> \in Seq(S)
      OBVIOUS
    <3> QED
      BY <3>1, ConcatEmptySeq
  <2> QED
    BY <2>1 DEF WorkerBeat, ClientBeat
<1>3. /\ Sent(WorkerBeat) = WorkerBeat /\ Recv(WorkerBeat) = WorkerBeat
      /\ Sent(ClientBeat) = ClientBeat /\ Recv(ClientBeat) = ClientBeat
  BY <1>b DEF Unchanged, Sent, Recv, WorkerBeat, ClientBeat
<1> QED
  BY <1>1, <1>2, <1>3 DEF ToWorker, ToClient, From, FromWorker, FromPython

\* What the broker makes of a client's message.
LEMMA BrokerPassesDown ==
    ASSUME NEW s, NEW b, Unchanged(b)
    PROVE  /\ ToBroker(Text(s), b) = Up(s, b)
           /\ \A msg : msg = <<Gateway>> \o Recv(Up(s, b)) =>
                 /\ msg[1] = Gateway /\ msg[4] = Text(s)
                 /\ ToWorker(Request, Wrap(WithoutFirst(msg, 4), msg[1])) = Down(b)
<1> PICK t : t = Text(s)
  OBVIOUS
<1>1. ToBroker(t, b) = Up(s, b) /\ Recv(Up(s, b)) = Up(s, b) /\ Up(s, b) = <<Empty, MDPC, t, b>>
  BY MessagesUnchanged DEF ToBroker, Up
<1>2. <<Gateway>> \o Recv(Up(s, b)) = <<Gateway, Empty, MDPC, t, b>>
  BY <1>1, OneAndFour
<1>3. WithoutFirst(<<Gateway, Empty, MDPC, t, b>>, 4) = <<b>>
  BY FourTakenOff
<1>4. Wrap(<<b>>, Gateway) = <<Gateway, Empty, b>>
  BY TwoAndOne DEF Wrap
<1>5. <<Empty, MDPW, Request>> \o <<Gateway, Empty, b>> = Down(b)
  BY ThreeAndThree DEF Down
<1>6. Sent(Down(b)) = Down(b)
  BY MessagesUnchanged
<1>7. ToWorker(Request, <<Gateway, Empty, b>>) = Down(b)
  BY <1>5, <1>6 DEF ToWorker
<1>8. ASSUME NEW msg, msg = <<Gateway>> \o Recv(Up(s, b))
      PROVE  /\ msg[1] = Gateway /\ msg[4] = t
             /\ ToWorker(Request, Wrap(WithoutFirst(msg, 4), msg[1])) = Down(b)
  <2>1. msg[1] = Gateway /\ msg[4] = t /\ WithoutFirst(msg, 4) = <<b>>
    <3>1. msg = <<Gateway, Empty, MDPC, t, b>>
      BY <1>2, <1>8
    <3>2. msg[1] = Gateway /\ msg[4] = t
      BY <3>1
    <3>3. WithoutFirst(msg, 4) = <<b>>
      BY <1>3, <3>1, Zenon
    <3> QED
      BY <3>2, <3>3
  <2>2. Wrap(WithoutFirst(msg, 4), msg[1]) = <<Gateway, Empty, b>>
    BY <1>4, <2>1, Zenon
  <2> QED
    BY <1>7, <2>1, <2>2, Zenon
<1> QED
  BY <1>1, <1>8

\* What a worker reads of it.
LEMMA WorkerGets ==
    ASSUME NEW b, Unchanged(b)
    PROVE  LET msg == Recv(Down(b))
           IN Framed(msg) /\ msg[3] = Request /\ msg[4] = Gateway /\ Body(msg) = b
<1>1. Recv(Down(b)) = Down(b)
  BY MessagesUnchanged
<1>2. /\ Framed(Down(b)) /\ Down(b)[3] = Request /\ Down(b)[4] = Gateway
      /\ Body(Down(b)) = b
  <2> DEFINE f == <<Empty, MDPW, Request, Gateway, Empty, b>>
  <2>1. Len(f) = 6 /\ f[1] = Empty /\ f[2] = MDPW /\ f[3] = Request /\ f[4] = Gateway /\ f[6] = b
    OBVIOUS
  <2> HIDE DEF f
  <2>2. Down(b) = f
    BY DEF Down, f
  <2> QED
    BY <2>1, <2>2 DEF Framed, Body
<1> QED
  BY <1>1, <1>2

\* What a worker sends, and what the broker makes of it.
LEMMA BrokerPassesBack ==
    ASSUME NEW s, NEW b, Unchanged(b)
    PROVE  /\ FromWorker(Reply, Wrap(<<b>>, Gateway)) = Back(b)
           /\ FromPython(Reply, Wrap(<<b>>, Gateway)) = Back(b)
           /\ \A msg, rest : msg = Recv(Back(b)) /\ rest = WithoutFirst(msg, 3) =>
                 /\ msg[3] = Reply /\ rest[1] = Gateway
                 /\ ToClient(Text(s), WithoutFirst(rest, 2)) = Up(s, b)
<1>1. Wrap(<<b>>, Gateway) = <<Gateway, Empty, b>>
  BY TwoAndOne DEF Wrap
<1>2. <<Empty, MDPW, Reply>> \o <<Gateway, Empty, b>> = Back(b)
  BY ThreeAndThree DEF Back
<1>3. Sent(Back(b)) = Back(b) /\ Recv(Back(b)) = Back(b)
  BY MessagesUnchanged
<1>4. WithoutFirst(Back(b), 3) = <<Gateway, Empty, b>>
  BY ThreeTakenOff DEF Back
<1>5. WithoutFirst(<<Gateway, Empty, b>>, 2) = <<b>>
  BY TwoTakenOff
<1>6. <<Empty, MDPC, Text(s)>> \o <<b>> = Up(s, b)
  BY ThreeAndOne DEF Up
<1>7. Sent(Up(s, b)) = Up(s, b)
  BY MessagesUnchanged
<1>8. ToClient(Text(s), <<b>>) = Up(s, b)
  BY <1>6, <1>7 DEF ToClient
<1>9. Back(b)[3] = Reply
  BY DEF Back
<1>10. /\ FromWorker(Reply, <<Gateway, Empty, b>>) = Back(b)
       /\ FromPython(Reply, <<Gateway, Empty, b>>) = Back(b)
  BY <1>2, <1>3 DEF FromWorker, FromPython
<1>11. ASSUME NEW msg, NEW rest, msg = Recv(Back(b)), rest = WithoutFirst(msg, 3)
       PROVE  /\ msg[3] = Reply /\ rest[1] = Gateway
              /\ ToClient(Text(s), WithoutFirst(rest, 2)) = Up(s, b)
  <2>1. msg = Back(b) /\ rest = <<Gateway, Empty, b>>
    BY <1>3, <1>4, <1>11, Zenon
  <2>2. rest[1] = Gateway
    BY <2>1
  <2>3. WithoutFirst(rest, 2) = <<b>>
    BY <1>5, <2>1, Zenon
  <2>4. ToClient(Text(s), WithoutFirst(rest, 2)) = Up(s, b)
    BY <1>8, <2>3, Zenon
  <2> QED
    BY <1>9, <2>1, <2>2, <2>4
<1>12. /\ FromWorker(Reply, Wrap(<<b>>, Gateway)) = Back(b)
       /\ FromPython(Reply, Wrap(<<b>>, Gateway)) = Back(b)
  BY <1>1, <1>10, Zenon
<1> QED
  BY <1>11, <1>12

\* What the gateway reads of it.
LEMMA GatewayGets ==
    ASSUME NEW s, NEW b, Unchanged(b)
    PROVE  \A msg : msg = Recv(Up(s, b)) =>
              /\ Len(msg) >= 3 /\ msg[1] = Empty /\ msg[2] = MDPC /\ msg[3] = Text(s) /\ Body(msg) = b
<1>1. Recv(Up(s, b)) = Up(s, b)
  BY MessagesUnchanged
<1>2. /\ Len(Up(s, b)) = 4 /\ Up(s, b)[1] = Empty /\ Up(s, b)[2] = MDPC /\ Up(s, b)[3] = Text(s)
      /\ Body(Up(s, b)) = b
  <2> DEFINE t == Text(s)
             f == <<Empty, MDPC, t, b>>
  <2> HIDE DEF t
  <2>1. Len(f) = 4 /\ f[1] = Empty /\ f[2] = MDPC /\ f[3] = t /\ f[4] = b
    OBVIOUS
  <2> HIDE DEF f
  <2>2. Up(s, b) = f
    BY DEF Up, f, t
  <2> QED
    BY <2>1, <2>2 DEF Body, t
<1>3. ASSUME NEW msg, msg = Recv(Up(s, b))
      PROVE  Len(msg) >= 3 /\ msg[1] = Empty /\ msg[2] = MDPC /\ msg[3] = Text(s) /\ Body(msg) = b
  <2>1. Len(msg) = 4 /\ msg[1] = Empty /\ msg[2] = MDPC /\ msg[3] = Text(s) /\ Body(msg) = b
    BY <1>1, <1>2, <1>3, Zenon
  <2>2. Len(msg) >= 3
    BY <2>1
  <2> QED
    BY <2>1, <2>2
<1> QED
  BY <1>3

\* Names differ as texts.
LEMMA TextsDiffer ==
    /\ \A s, t : Text(s) = Text(t) => s = t
    /\ \A s \in Services : Text(s) # Beat
    /\ Reply # Ready /\ Request # Beat
<1>1. \A s, t : Text(s) = Text(t) => s = t
  <2> TAKE s, t
  <2> HAVE Text(s) = Text(t)
  <2>1. Text(s).data[1] = s /\ Text(t).data[1] = t
    BY DEF Text
  <2> QED
    BY <2>1
<1> QED
  BY <1>1 DEF Services, Cpp, Beat, Reply, Ready, Request

\* The broker finds READY in a registration.
LEMMA RegistrationRead ==
    /\ \A s : Recv(Registration(s))[3] = Ready
    /\ Recv(PythonRegistration)[3] = Ready
<1>1. ASSUME NEW x, NEW y, NEW m, m = <<Empty, MDPW, Ready>> \o <<x, y>>
      PROVE  Recv(m)[3] = Ready /\ Recv(Sent(m))[3] = Ready
  <2> DEFINE S == {Empty, MDPW, Ready, x, y}
             u == <<Empty, MDPW, Ready>>
             v == <<x, y>>
  <2>1. u \in Seq(S) /\ v \in Seq(S) /\ Len(u) = 3 /\ Len(v) = 2 /\ u[3] = Ready
    OBVIOUS
  <2> HIDE DEF S, u, v
  <2>2. m = u \o v
    BY <1>1 DEF u, v
  <2>3. m \in Seq(S) /\ Len(m) = 5 /\ m[3] = Ready
    <3>1. /\ u \o v \in Seq(S) /\ Len(u \o v) = Len(u) + Len(v)
          /\ \A i \in 1 .. Len(u) + Len(v) :
                (u \o v)[i] = IF i <= Len(u) THEN u[i] ELSE v[i - Len(u)]
      BY <2>1, ConcatProperties
    <3> QED
      BY <2>1, <2>2, <3>1
  <2>4. 3 \in DOMAIN m
    BY <2>3, LenProperties
  <2>5. DecodeUuid(Ready) = Ready /\ EncodeUuid(Ready) = Ready
    BY TextUnchanged DEF Ready, Unchanged
  <2>6. Recv(m)[3] = Ready /\ DOMAIN Sent(m) = DOMAIN m /\ Sent(m)[3] = Ready
    BY <2>3, <2>4, <2>5 DEF Recv, Sent
  <2> QED
    BY <2>4, <2>5, <2>6 DEF Recv
<1> QED
  BY <1>1 DEF Registration, PythonRegistration, FromWorker, FromPython

\* Requests of players who have logged in, for a service that may get them.
Routed(s, id) == id \in {Login, Logout} \/ ServiceOf(id) = s
Known(qs, p) == Asked(p, Login, 0) \in qs
Asking(qs, s) == {a \in qs : Routed(s, a.id) /\ Known(qs, a.player)}
AskingBody(a) == RequestBody(a.player, a.id, a.payload)
PostedBody(m, k) == ReplyBody(m.to, m.payload, k)

\* What may be on each way, of the requests qs and the messages ms posted.
UpMessages(qs) ==
    {Up("HEARTBEAT", Empty), Up("worldmap", Text("aa"))}
      \cup UNION {{Up(s, AskingBody(a)) : a \in Asking(qs, s)} : s \in Services}
DownMessages(qs, s) ==
    {WorkerBeat} \cup (IF s = "worldmap" THEN {Down(Text("aa"))} ELSE {})
      \cup {Down(AskingBody(a)) : a \in Asking(qs, s)}
BackMessages(ms) ==
    {WorkerBeat, PythonRegistration, Back(ErrorText)} \cup {Registration(s) : s \in Services}
      \cup {Back(PostedBody(ms[k], k)) : k \in DOMAIN ms}
OutMessages(ms) ==
    {ClientBeat} \cup {Up(s, ErrorText) : s \in Services}
      \cup UNION {{Up(s, PostedBody(ms[k], k)) : k \in DOMAIN ms} : s \in Services}

Post(qs) == {m \in [to : SUBSET Players, payload : Nat] :
               m.to # {} /\ IsFiniteSet(m.to) /\ \A p \in m.to : Known(qs, p)}

PlayersOK ==
    /\ loginStatus \in [Players -> BOOLEAN]
    /\ \A p \in Players : loginStatus[p] => Known(asked, p)
    /\ asked \subseteq [player : Players, id : Nat, payload : Nat]
    /\ posted \in Seq(Post(asked))
WaysOK ==
    /\ toBroker \in Seq(UpMessages(asked))
    /\ DOMAIN toWorker = Services /\ \A s \in Services : toWorker[s] \in Seq(DownMessages(asked, s))
    /\ DOMAIN fromWorker = Services /\ \A s \in Services : fromWorker[s] \in Seq(BackMessages(posted))
    /\ toGateway \in Seq(OutMessages(posted))
WorkersOK ==
    /\ "assert" \notin fault
    /\ replyTo \in [Services -> {Nobody, Gateway}]
    /\ audience \in [Services -> SUBSET Players]
    /\ \A s \in Services :
         /\ IsFiniteSet(audience[s])
         /\ audience[s] # {} => replyTo[s] = Gateway
         /\ \A p \in audience[s] : Known(asked, p)

\* A message posted for a player is with him, on its way, or he has gone.
OnItsWay(k) ==
    \E s \in Services :
       \/ Contains(fromWorker[s], Back(PostedBody(posted[k], k)))
       \/ Contains(toGateway, Up(s, PostedBody(posted[k], k)))
Received(p, k) == <<k, posted[k].payload>> \in received[p]
DeliveryOK ==
    /\ DOMAIN received = Players
    /\ \A p \in Players : \A m \in received[p] :
          m[1] \in DOMAIN posted /\ p \in posted[m[1]].to /\ m[2] = posted[m[1]].payload
    /\ \A k \in DOMAIN posted : \A p \in posted[k].to :
          Received(p, k) \/ ~loginStatus[p] \/ OnItsWay(k)

MessageInv == PlayersOK /\ WaysOK /\ WorkersOK /\ DeliveryOK /\ AsAsked

\* The table of the world map: the ids in order, but for StudySkill.
LEMMA WorldMapTableIs ==
    /\ Len(WorldMapTable) = 13 /\ WorldMapTable[13] = Logout
    /\ \A j \in 1 .. 11 : WorldMapTable[j] = WorldMapNearBy + j - 1
<1> DEFINE u == [i \in 1..11 |-> WorldMapNearBy + i - 1]
           v == <<LeaveWordMap, Logout>>
<1>1. u \in Seq(Nat) /\ v \in Seq(Nat) /\ Len(u) = 11 /\ Len(v) = 2 /\ v[2] = Logout
      /\ \A j \in 1 .. 11 : u[j] = WorldMapNearBy + j - 1
  BY DEF WorldMapNearBy, LeaveWordMap, Logout
<1> HIDE DEF u, v
<1>2. /\ Len(u \o v) = Len(u) + Len(v)
      /\ \A i \in 1 .. Len(u) + Len(v) :
            (u \o v)[i] = IF i <= Len(u) THEN u[i] ELSE v[i - Len(u)]
  BY <1>1, ConcatProperties
<1>3. Len(u \o v) = 13 /\ (u \o v)[13] = Logout
      /\ \A j \in 1 .. 11 : (u \o v)[j] = WorldMapNearBy + j - 1
  <2>1. PICK w : w = u \o v
    OBVIOUS
  <2>2. Len(w) = 13 /\ \A i \in 1 .. 13 : w[i] = IF i <= 11 THEN u[i] ELSE v[i - 11]
    <3>1. PICK k, m : k = Len(u) /\ m = Len(v)
      OBVIOUS
    <3>2. /\ Len(w) = k + m
          /\ \A i \in 1 .. k + m : w[i] = IF i <= k THEN u[i] ELSE v[i - k]
      BY <1>2, <2>1, <3>1, Zenon
    <3>3. k = 11 /\ m = 2
      BY <1>1, <3>1
    <3> QED
      BY <3>2, <3>3
  <2>3. w[13] = v[2]
    BY <2>2
  <2>4. \A j \in 1 .. 11 : w[j] = u[j]
    BY <2>2
  <2> QED
    BY <1>1, <2>1, <2>2, <2>3, <2>4
<1>4. WorldMapTable = u \o v
  BY DEF WorldMapTable, u, v
<1> QED
  BY <1>3, <1>4

\* The small map's.
LEMMA LogicTableIs ==
    /\ Len(LogicTable) = 5 /\ LogicTable[1] = Login /\ LogicTable[2] = Logout
    /\ \A j \in 3 .. 5 : LogicTable[j] = SoldierInfo + j - 3
<1> DEFINE u == <<Login, Logout>>
           v == [i \in 1..3 |-> SoldierInfo + i - 1]
<1>1. u \in Seq(Nat) /\ v \in Seq(Nat) /\ Len(u) = 2 /\ Len(v) = 3
      /\ u[1] = Login /\ u[2] = Logout /\ \A j \in 1 .. 3 : v[j] = SoldierInfo + j - 1
  BY DEF SoldierInfo, Login, Logout
<1> HIDE DEF u, v
<1>2. /\ Len(u \o v) = Len(u) + Len(v)
      /\ \A i \in 1 .. Len(u) + Len(v) :
            (u \o v)[i] = IF i <= Len(u) THEN u[i] ELSE v[i - Len(u)]
  BY <1>1, ConcatProperties
<1>3. Len(u \o v) = 5 /\ (u \o v)[1] = Login /\ (u \o v)[2] = Logout
      /\ \A j \in 3 .. 5 : (u \o v)[j] = SoldierInfo + j - 3
  <2>1. PICK w : w = u \o v
    OBVIOUS
  <2>2. Len(w) = 5 /\ \A i \in 1 .. 5 : w[i] = IF i <= 2 THEN u[i] ELSE v[i - 2]
    <3>1. PICK k, m : k = Len(u) /\ m = Len(v)
      OBVIOUS
    <3>2. /\ Len(w) = k + m
          /\ \A i \in 1 .. k + m : w[i] = IF i <= k THEN u[i] ELSE v[i - k]
      BY <1>2, <2>1, <3>1, Zenon
    <3>3. k = 2 /\ m = 3
      BY <1>1, <3>1
    <3> QED
      BY <3>2, <3>3
  <2>3. w[1] = u[1] /\ w[2] = u[2]
    BY <2>2
  <2>4. w[3] = v[1] /\ w[4] = v[2] /\ w[5] = v[3]
    BY <2>2
  <2>5. w[3] = SoldierInfo /\ w[4] = SoldierInfo + 1 /\ w[5] = SoldierInfo + 2
    BY <1>1, <2>4 DEF SoldierInfo
  <2>6. ASSUME NEW j \in 3 .. 5 PROVE w[j] = SoldierInfo + j - 3
    BY <2>5, <2>6 DEF SoldierInfo
  <2> QED
    BY <1>1, <2>1, <2>2, <2>3, <2>6
<1>4. LogicTable = u \o v
  BY DEF LogicTable, u, v
<1> QED
  BY <1>3, <1>4

\* What a handler is selected for: the one written for the request, but for the places the
\* world map's table misses.
LEMMA HandlerRight ==
    ASSUME NEW s \in Services, NEW id \in Nat, Routed(s, id), Handler(s, id) # Refused
    PROVE  Handler(s, id) = id \/ (id \in Misplaced /\ s = "worldmap")
<1>1. CASE s = "python_service"
  BY <1>1 DEF Handler, NameByComment
<1>2. CASE s = "pvpServer"
  BY <1>2 DEF Handler
<1>3. CASE s = "worldmap"
  <2>1. id \in {Login, Logout} \/ id \in WorldMapNearBy .. LeaveWordMap
    BY <1>3 DEF Routed, ServiceOf
  <2> DEFINE i == IF id = Logout THEN 12 ELSE id - WorldMapNearBy
  <2>2. Handler(s, id) = Select(WorldMapTable, i, 13)
    BY <1>3 DEF Handler
  <2>3. CASE id = Login
    BY <2>2, <2>3 DEF Select, Login, Logout, WorldMapNearBy
  <2>4. CASE id # Login /\ id \notin Misplaced
    <3>1. i \in 0 .. 12 /\ (i \in 0 .. 10 \/ (i = 12 /\ id = Logout))
      BY <2>1, <2>4 DEF Login, Logout, WorldMapNearBy, LeaveWordMap, StudySkill, Misplaced
    <3>2. Len(WorldMapTable) = 13 /\ WorldMapTable[13] = Logout
          /\ \A j \in 1 .. 11 : WorldMapTable[j] = WorldMapNearBy + j - 1
      BY WorldMapTableIs
    <3>3. Handler(s, id) = WorldMapTable[i + 1]
      BY <2>2, <3>1, <3>2 DEF Select
    <3> QED
      BY <3>1, <3>2, <3>3 DEF Logout, WorldMapNearBy
  <2>5. CASE id \in Misplaced
    BY <1>3, <2>5
  <2> QED
    BY <2>3, <2>4, <2>5
<1>4. CASE s = "logic"
  <2>1. id \in {Login, Logout} \/ id \in SoldierInfo .. CompleteAtOnce
    BY <1>4 DEF Routed, ServiceOf
  <2> DEFINE i == IF id = Login THEN 0 ELSE IF id = Logout THEN 1 ELSE id - SoldierInfo + 2
  <2>2. Handler(s, id) = Select(LogicTable, i, 4)
    BY <1>4 DEF Handler
  <2>3. i \in 0 .. 4
    BY <2>1 DEF SoldierInfo, CompleteAtOnce
  <2>4. Len(LogicTable) = 5 /\ LogicTable[1] = Login /\ LogicTable[2] = Logout
        /\ \A j \in 3 .. 5 : LogicTable[j] = SoldierInfo + j - 3
    BY LogicTableIs
  <2>5. Handler(s, id) = LogicTable[i + 1]
    BY <2>2, <2>3, <2>4 DEF Select
  <2>6. CASE id \in {Login, Logout}
    BY <2>4, <2>5, <2>6 DEF Login, Logout
  <2>7. CASE id \notin {Login, Logout}
    BY <2>1, <2>4, <2>5, <2>7 DEF SoldierInfo, CompleteAtOnce
  <2> QED
    BY <2>6, <2>7
<1> QED
  BY <1>1, <1>2, <1>3, <1>4 DEF Services, Cpp

\* The chat handlers, which the connection calls itself.
LEMMA ChatRight ==
    ASSUME NEW id \in Nat, ServiceOf(id) = "chatworker"
    PROVE  Select([i \in 1..4 |-> WorldChannelMsg + i - 1], id - WorldChannelMsg, 4) = id
<1>1. id \in WorldChannelMsg .. FindFriend
  BY DEF ServiceOf
<1> DEFINE t == [i \in 1..4 |-> WorldChannelMsg + i - 1]
<1>2. Len(t) = 4 /\ \A i \in 1 .. 4 : t[i] = WorldChannelMsg + i - 1
  OBVIOUS
<1>3. id - WorldChannelMsg \in 0 .. 3
  BY <1>1 DEF WorldChannelMsg, FindFriend
<1> HIDE DEF t
<1>4. Select(t, id - WorldChannelMsg, 4) = t[id - WorldChannelMsg + 1]
  BY <1>2, <1>3 DEF Select
<1>5. t[id - WorldChannelMsg + 1] = id
  BY <1>2, <1>3 DEF WorldChannelMsg
<1> QED
  BY <1>4, <1>5 DEF t

\* Bodies go through the conversions.
LEMMA BodiesUnchanged ==
    /\ Unchanged(ErrorText) /\ Unchanged(Text("aa")) /\ Unchanged(Empty)
    /\ \A a : a.payload \in Nat => Unchanged(AskingBody(a))
    /\ \A qs, k : \A m \in Post(qs) : Unchanged(PostedBody(m, k))
<1>1. Unchanged(ErrorText)
  <2>1. ErrorText.size = 36
    BY DEF ErrorText
  <2> QED
    BY <2>1, NotAnIdentity
<1>2. ASSUME NEW a, a.payload \in Nat PROVE Unchanged(AskingBody(a))
  BY <1>2, RequestUnchanged DEF AskingBody
<1>3. ASSUME NEW qs, NEW k, NEW m \in Post(qs) PROVE Unchanged(PostedBody(m, k))
  <2>1. IsFiniteSet(m.to) /\ m.to # {} /\ m.payload \in Nat
    BY DEF Post
  <2> QED
    BY <2>1, ReplyUnchanged DEF PostedBody
<1> QED
  BY <1>1, <1>2, <1>3, TextUnchanged

\* What may be on the ways, element by element.
LEMMA UpIs ==
    ASSUME NEW qs, NEW x
    PROVE  x \in UpMessages(qs) <=>
              \/ x = Up("HEARTBEAT", Empty) \/ x = Up("worldmap", Text("aa"))
              \/ \E s \in Services : \E a \in Asking(qs, s) : x = Up(s, AskingBody(a))
<1>1. x \in UNION {{Up(s, AskingBody(a)) : a \in Asking(qs, s)} : s \in Services}
      <=> \E s \in Services : \E a \in Asking(qs, s) : x = Up(s, AskingBody(a))
  OBVIOUS
<1> QED
  BY <1>1 DEF UpMessages

\* To a worker.
LEMMA DownIs ==
    ASSUME NEW qs, NEW s, NEW x
    PROVE  x \in DownMessages(qs, s) <=>
              \/ x = WorkerBeat \/ (s = "worldmap" /\ x = Down(Text("aa")))
              \/ \E a \in Asking(qs, s) : x = Down(AskingBody(a))
<1>1. CASE s = "worldmap"
  BY <1>1 DEF DownMessages
<1>2. CASE s # "worldmap"
  BY <1>2 DEF DownMessages
<1> QED
  BY <1>1, <1>2

\* From a worker.
LEMMA BackIs ==
    ASSUME NEW ms, NEW x
    PROVE  x \in BackMessages(ms) <=>
              \/ x = WorkerBeat \/ x = PythonRegistration \/ x = Back(ErrorText)
              \/ \E s \in Services : x = Registration(s)
              \/ \E k \in DOMAIN ms : x = Back(PostedBody(ms[k], k))
BY DEF BackMessages

\* To the gateway.
LEMMA OutIs ==
    ASSUME NEW ms, NEW x
    PROVE  x \in OutMessages(ms) <=>
              \/ x = ClientBeat \/ \E s \in Services : x = Up(s, ErrorText)
              \/ \E s \in Services : \E k \in DOMAIN ms : x = Up(s, PostedBody(ms[k], k))
<1>1. x \in UNION {{Up(s, PostedBody(ms[k], k)) : k \in DOMAIN ms} : s \in Services}
      <=> \E s \in Services : \E k \in DOMAIN ms : x = Up(s, PostedBody(ms[k], k))
  OBVIOUS
<1> QED
  BY <1>1 DEF OutMessages

\* A request more leaves what may be on the ways.
LEMMA AsksMore ==
    ASSUME NEW qs, NEW rs, qs \subseteq rs
    PROVE  /\ UpMessages(qs) \subseteq UpMessages(rs) /\ Post(qs) \subseteq Post(rs)
           /\ \A s : DownMessages(qs, s) \subseteq DownMessages(rs, s)
<1>1. \A s : \A a \in Asking(qs, s) : a \in Asking(rs, s)
  BY DEF Asking, Known
<1>2. ASSUME NEW x \in UpMessages(qs) PROVE x \in UpMessages(rs)
  BY <1>1, UpIs
<1>3. Post(qs) \subseteq Post(rs)
  BY DEF Post, Known
<1>4. ASSUME NEW s, NEW x \in DownMessages(qs, s) PROVE x \in DownMessages(rs, s)
  BY <1>1, DownIs
<1> QED
  BY <1>2, <1>3, <1>4

\* So does a message more.
LEMMA PostsMore ==
    ASSUME NEW ms, NEW ns, \A k \in DOMAIN ms : k \in DOMAIN ns /\ ns[k] = ms[k]
    PROVE  BackMessages(ms) \subseteq BackMessages(ns) /\ OutMessages(ms) \subseteq OutMessages(ns)
<1>1. ASSUME NEW x \in BackMessages(ms) PROVE x \in BackMessages(ns)
  BY BackIs
<1>2. ASSUME NEW x \in OutMessages(ms) PROVE x \in OutMessages(ns)
  BY OutIs
<1> QED
  BY <1>1, <1>2

\* The elements of a sequence.
LEMMA Elements ==
    ASSUME NEW S, NEW s \in Seq(S)
    PROVE  /\ \A T : S \subseteq T => s \in Seq(T)
           /\ \A x \in S : Append(s, x) \in Seq(S)
           /\ s # <<>> => Head(s) \in S /\ Tail(s) \in Seq(S)
<1>1. \A x \in S : Append(s, x) \in Seq(S)
  BY AppendProperties
<1>2. s # <<>> => Head(s) \in S /\ Tail(s) \in Seq(S)
  BY HeadTailProperties
<1>3. ASSUME NEW T, S \subseteq T PROVE s \in Seq(T)
  <2>1. Len(s) \in Nat /\ s = [i \in 1 .. Len(s) |-> s[i]] /\ \A i \in 1 .. Len(s) : s[i] \in T
    BY <1>3, LenProperties
  <2> QED
    BY <2>1, IsASeq
<1> QED
  BY <1>1, <1>2, <1>3

\* What a sequence contains, with an element more or less.
LEMMA Contained ==
    ASSUME NEW S, NEW s \in Seq(S)
    PROVE  /\ \A x \in S : /\ \A y : Contains(s, y) => Contains(Append(s, x), y)
                           /\ Contains(Append(s, x), x)
           /\ s # <<>> => \A y : Contains(s, y) => y = Head(s) \/ Contains(Tail(s), y)
           /\ \A y : ~Contains(<<>>, y)
<1> PICK n : n = Len(s)
  OBVIOUS
<1>1. n \in Nat /\ DOMAIN s = 1 .. n
  BY LenProperties
<1>2. ASSUME NEW x \in S
      PROVE  /\ \A y : Contains(s, y) => Contains(Append(s, x), y)
             /\ Contains(Append(s, x), x)
  <2> PICK r : r = Append(s, x)
    OBVIOUS
  <2>1. r \in Seq(S) /\ Len(r) = n + 1 /\ \A i \in 1 .. n : r[i] = s[i]
    BY AppendProperties
  <2>2. r[n + 1] = x
    BY AppendProperties
  <2>3. Contains(r, x)
    BY <1>1, <2>1, <2>2 DEF Contains
  <2>4. ASSUME NEW y, Contains(s, y) PROVE Contains(r, y)
    BY <1>1, <2>1, <2>4 DEF Contains
  <2> QED
    BY <2>3, <2>4
<1>3. ASSUME s # <<>>, NEW y, Contains(s, y)
      PROVE  y = Head(s) \/ Contains(Tail(s), y)
  <2> PICK r : r = Tail(s)
    OBVIOUS
  <2>1. r \in Seq(S) /\ Len(r) = n - 1 /\ Head(s) = s[1] /\ \A j \in 1 .. n - 1 : r[j] = s[j + 1]
    BY <1>1, <1>3, HeadTailProperties
  <2>2. PICK i \in 1 .. n : s[i] = y
    BY <1>3 DEF Contains
  <2>3. i = 1 \/ (i - 1 \in 1 .. n - 1 /\ (i - 1) + 1 = i)
    BY <1>1
  <2> QED
    BY <2>1, <2>2, <2>3 DEF Contains
<1>4. \A y : ~Contains(<<>>, y)
  BY DEF Contains
<1> QED
  BY <1>2, <1>3, <1>4

\* Nothing has been sent but the first heartbeat and "aa".
LEMMA MessageInitially == MessageInit => MessageInv
<1> SUFFICES ASSUME MessageInit PROVE MessageInv
  OBVIOUS
<1>1. \A S : <<>> \in Seq(S)
  OBVIOUS
<1>2. PlayersOK
  BY <1>1 DEF MessageInit, PlayersOK
<1>3. WaysOK
  <2>1. ToBroker(Beat, Empty) = Up("HEARTBEAT", Empty)
    BY BeatsUnchanged
  <2>2. ToBroker(Text("worldmap"), Text("aa")) = Up("worldmap", Text("aa"))
    BY BodiesUnchanged, BrokerPassesDown
  <2>3. toBroker = <<Up("HEARTBEAT", Empty), Up("worldmap", Text("aa"))>>
    BY <2>1, <2>2 DEF MessageInit
  <2>4. PICK x, y, S : x = Up("HEARTBEAT", Empty) /\ y = Up("worldmap", Text("aa")) /\ S = UpMessages(asked)
    OBVIOUS
  <2>5. x \in S /\ y \in S
    BY <2>4 DEF UpMessages
  <2>6. <<x, y>> \in Seq(S)
    BY <2>5
  <2>7. toBroker \in Seq(UpMessages(asked))
    BY <2>3, <2>4, <2>6
  <2>8. /\ DOMAIN toWorker = Services /\ DOMAIN fromWorker = Services /\ toGateway = <<>>
        /\ \A s \in Services : toWorker[s] = <<>> /\ fromWorker[s] = <<>>
    BY DEF MessageInit
  <2> QED
    BY <1>1, <2>7, <2>8 DEF WaysOK
<1>4. WorkersOK
  <2>1. IsFiniteSet({})
    BY FS_EmptySet
  <2> QED
    BY <2>1 DEF MessageInit, WorkersOK
<1>5. DeliveryOK
  BY DEF MessageInit, DeliveryOK
<1>6. AsAsked
  BY DEF MessageInit, AsAsked
<1> QED
  BY <1>2, <1>3, <1>4, <1>5, <1>6 DEF MessageInv

\* A message that comes on the way back is as it was posted.
LEMMA PostedRead ==
    ASSUME PlayersOK, NEW k \in DOMAIN posted
    PROVE  /\ posted[k] \in Post(asked) /\ Unchanged(PostedBody(posted[k], k))
           /\ posted[k].payload \in Nat /\ IsFiniteSet(posted[k].to)
<1>1. posted \in Seq(Post(asked))
  BY DEF PlayersOK
<1>2. posted[k] \in Post(asked)
  BY <1>1, LenProperties
<1>3. Unchanged(PostedBody(posted[k], k))
  BY <1>2, BodiesUnchanged
<1> QED
  BY <1>2, <1>3 DEF Post

\* A request on its way is one of a player.
LEMMA AskedRead ==
    ASSUME PlayersOK, NEW s, NEW a \in Asking(asked, s)
    PROVE  /\ a \in asked /\ a.player \in Players /\ a.id \in Nat /\ a.payload \in Nat
           /\ Routed(s, a.id) /\ Known(asked, a.player) /\ Unchanged(AskingBody(a))
<1>1. a \in asked /\ a \in [player : Players, id : Nat, payload : Nat]
      /\ Routed(s, a.id) /\ Known(asked, a.player)
  BY DEF Asking, PlayersOK
<1> QED
  BY <1>1, BodiesUnchanged

\* What clients do adds to asked and to the messages for the broker.  A player who logs in
\* has not asked to before, so that nothing has been posted for him.
LEMMA ClientSide ==
    ASSUME MessageInv, asked \subseteq asked',
           asked' \subseteq [player : Players, id : Nat, payload : Nat],
           loginStatus' \in [Players -> BOOLEAN],
           \A p \in Players : loginStatus'[p] =>
              Known(asked', p) /\ (loginStatus[p] \/ ~Known(asked, p)),
           toBroker' \in Seq(UpMessages(asked')),
           UNCHANGED <<workerSide, received, fault>>, AsAsked'
    PROVE  MessageInv'
<1> USE DEF MessageInv
<1>0. /\ toGateway' = toGateway /\ toWorker' = toWorker /\ fromWorker' = fromWorker
      /\ replyTo' = replyTo /\ audience' = audience /\ posted' = posted
      /\ received' = received /\ fault' = fault
  BY DEF workerSide
<1>1. /\ Post(asked) \subseteq Post(asked')
      /\ \A s : DownMessages(asked, s) \subseteq DownMessages(asked', s)
      /\ \A p : Known(asked, p) => Known(asked', p)
  <2> PICK qs, rs : qs = asked /\ rs = asked'
    OBVIOUS
  <2>1. Post(qs) \subseteq Post(rs) /\ \A s : DownMessages(qs, s) \subseteq DownMessages(rs, s)
    BY AsksMore
  <2>2. \A p : Known(qs, p) => Known(rs, p)
    BY DEF Known
  <2> QED
    BY <2>1, <2>2
<1>2. PlayersOK'
  <2>1. posted \in Seq(Post(asked'))
    BY <1>1, Elements DEF PlayersOK
  <2> QED
    BY <1>0, <2>1 DEF PlayersOK, Known
<1>3. WaysOK'
  <2>1. ASSUME NEW s \in Services PROVE toWorker[s] \in Seq(DownMessages(asked', s))
    BY <1>1, Elements DEF WaysOK
  <2> QED
    BY <1>0, <2>1 DEF WaysOK
<1>4. WorkersOK'
  BY <1>0, <1>1 DEF WorkersOK, Known
<1>5. DeliveryOK'
  <2>1. ASSUME NEW k \in DOMAIN posted, NEW p \in posted[k].to
        PROVE  Received(p, k) \/ ~loginStatus'[p] \/ OnItsWay(k)
    <3>1. p \in Players /\ Known(asked, p)
      BY PostedRead DEF Post
    <3>2. Received(p, k) \/ ~loginStatus[p] \/ OnItsWay(k)
      BY DEF DeliveryOK
    <3> QED
      BY <3>1, <3>2
  <2> QED
    BY <1>0, <2>1 DEF DeliveryOK, Received, OnItsWay
<1> QED
  BY <1>2, <1>3, <1>4, <1>5

\* What a logged in player asks for goes to the broker as it may.
LEMMA UpRight ==
    ASSUME NEW qs, NEW s \in Services, NEW a \in Asking(qs, s), a.payload \in Nat
    PROVE  ToBroker(Text(s), AskingBody(a)) \in UpMessages(qs)
<1>1. Unchanged(AskingBody(a))
  BY BodiesUnchanged
<1>2. ToBroker(Text(s), AskingBody(a)) = Up(s, AskingBody(a))
  BY <1>1, BrokerPassesDown
<1> QED
  BY <1>2, UpIs

\* The notices of a login and of a close.
LEMMA NoticesRight ==
    ASSUME NEW qs, NEW p \in Players, NEW id \in {Login, Logout},
           Asked(p, id, 0) \in qs, Known(qs, p)
    PROVE  [i \in DOMAIN Notices(id) |-> ToBroker(Text(Notices(id)[i]), RequestBody(p, id, 0))]
              \in Seq(UpMessages(qs))
<1>1. PICK ns : ns = Notices(id)
  OBVIOUS
<1>2. /\ DOMAIN ns = 1 .. Len(ns) /\ Len(ns) \in Nat
      /\ \A i \in DOMAIN ns : ns[i] \in Services
  <2>1. CASE id = Login
    BY <1>1, <2>1 DEF Notices, Services, Cpp
  <2>2. CASE id = Logout
    BY <1>1, <2>2 DEF Notices, Services, Cpp, Login, Logout
  <2> QED
    BY <2>1, <2>2
<1>3. PICK a : a = Asked(p, id, 0)
  OBVIOUS
<1>4. a.player = p /\ a.id = id /\ a.payload = 0
  BY <1>3 DEF Asked
<1>5. AskingBody(a) = RequestBody(p, id, 0)
  BY <1>4 DEF AskingBody
<1>6. ASSUME NEW s \in Services PROVE ToBroker(Text(s), RequestBody(p, id, 0)) \in UpMessages(qs)
  <2>1. a \in Asking(qs, s)
    BY <1>3, <1>4 DEF Asking, Routed
  <2>2. ToBroker(Text(s), AskingBody(a)) \in UpMessages(qs)
    BY <1>4, <2>1, UpRight
  <2> QED
    BY <1>5, <2>2
<1>7. \A i \in 1 .. Len(ns) : ToBroker(Text(ns[i]), RequestBody(p, id, 0)) \in UpMessages(qs)
  BY <1>2, <1>6
<1>8. [i \in 1 .. Len(ns) |-> ToBroker(Text(ns[i]), RequestBody(p, id, 0))] \in Seq(UpMessages(qs))
  BY <1>2, <1>7, IsASeq
<1> QED
  BY <1>1, <1>2, <1>8

\* A login or a close adds its request and its notices.
LEMMA NotifyRight ==
    ASSUME MessageInv, NEW p \in Players, NEW id \in {Login, Logout}, Notify(p, id),
           Known(asked', p)
    PROVE  /\ asked \subseteq asked' /\ asked' \subseteq [player : Players, id : Nat, payload : Nat]
           /\ toBroker' \in Seq(UpMessages(asked'))
<1>1. PICK rs : rs = asked'
  OBVIOUS
<1>2. rs = asked \cup {Asked(p, id, 0)}
  BY <1>1 DEF Notify
<1>3. Asked(p, id, 0) \in [player : Players, id : Nat, payload : Nat]
  BY DEF Asked, Login, Logout
<1>4. asked \subseteq rs /\ rs \subseteq [player : Players, id : Nat, payload : Nat]
  BY <1>2, <1>3 DEF MessageInv, PlayersOK
<1>5. toBroker \in Seq(UpMessages(rs))
  <2>1. UpMessages(asked) \subseteq UpMessages(rs)
    BY <1>4, AsksMore
  <2> QED
    BY <2>1, Elements DEF MessageInv, WaysOK
<1>6. Known(rs, p)
  BY <1>1 DEF Known
<1>7. [i \in DOMAIN Notices(id) |-> ToBroker(Text(Notices(id)[i]), RequestBody(p, id, 0))]
         \in Seq(UpMessages(rs))
  BY <1>2, <1>6, NoticesRight
<1>8. toBroker' \in Seq(UpMessages(rs))
  BY <1>5, <1>7, ConcatProperties DEF Notify
<1> QED
  BY <1>1, <1>4, <1>8

\* A request, a login and a close.
LEMMA ClientSteps ==
    ASSUME MessageInv, NEW p \in Players,
           \/ LogsIn(p) \/ Closes(p)
           \/ \E id \in RequestIds, n \in Payloads : ClientAsks(p, id, n)
    PROVE  MessageInv'
<1>1. CASE LogsIn(p)
  <2>1. /\ Notify(p, Login) /\ ~Known(asked, p) /\ loginStatus' = [loginStatus EXCEPT ![p] = TRUE]
        /\ UNCHANGED <<workerSide, received, fault>> /\ ran' = ran
    BY <1>1 DEF LogsIn, Known
  <2>2. Known(asked', p)
    BY <2>1 DEF Known, Notify
  <2>3. /\ asked \subseteq asked' /\ asked' \subseteq [player : Players, id : Nat, payload : Nat]
        /\ toBroker' \in Seq(UpMessages(asked'))
    BY <2>1, <2>2, NotifyRight
  <2>4. AsAsked'
    BY <2>1, <2>3 DEF MessageInv, AsAsked
  <2>5. /\ loginStatus' \in [Players -> BOOLEAN]
        /\ \A q \in Players : loginStatus'[q] =>
              Known(asked', q) /\ (loginStatus[q] \/ ~Known(asked, q))
    BY <2>1, <2>2, <2>3 DEF MessageInv, PlayersOK, Known
  <2> QED
    BY <2>1, <2>3, <2>4, <2>5, ClientSide
<1>2. CASE Closes(p)
  <2>1. /\ Notify(p, Logout) /\ loginStatus[p] /\ loginStatus' = [loginStatus EXCEPT ![p] = FALSE]
        /\ UNCHANGED <<workerSide, received, fault>> /\ ran' = ran
    BY <1>2 DEF Closes
  <2>2. Known(asked', p)
    BY <2>1 DEF MessageInv, PlayersOK, Known, Notify
  <2>3. /\ asked \subseteq asked' /\ asked' \subseteq [player : Players, id : Nat, payload : Nat]
        /\ toBroker' \in Seq(UpMessages(asked'))
    BY <2>1, <2>2, NotifyRight
  <2>4. AsAsked'
    BY <2>1, <2>3 DEF MessageInv, AsAsked
  <2>5. /\ loginStatus' \in [Players -> BOOLEAN]
        /\ \A q \in Players : loginStatus'[q] =>
              Known(asked', q) /\ (loginStatus[q] \/ ~Known(asked, q))
    BY <2>1, <2>2, <2>3 DEF MessageInv, PlayersOK, Known
  <2> QED
    BY <2>1, <2>3, <2>4, <2>5, ClientSide
<1>3. ASSUME NEW id \in RequestIds, NEW n \in Payloads, ClientAsks(p, id, n) PROVE MessageInv'
  <2>1. PICK a, s, rs : a = Asked(p, id, n) /\ s = ServiceOf(id) /\ rs = asked'
    OBVIOUS
  <2>2. /\ rs = asked \cup {a} /\ id \in Nat /\ n \in Nat
        /\ UNCHANGED <<workerSide, received, fault>> /\ loginStatus' = loginStatus
    BY <1>3, <2>1, MessageAssumption DEF ClientAsks
  <2>3. a.player = p /\ a.id = id /\ a.payload = n
        /\ a \in [player : Players, id : Nat, payload : Nat]
    BY <2>1, <2>2 DEF Asked
  <2>4. asked \subseteq rs /\ rs \subseteq [player : Players, id : Nat, payload : Nat]
    BY <2>2, <2>3 DEF MessageInv, PlayersOK
  <2>5. /\ loginStatus' \in [Players -> BOOLEAN]
        /\ \A q \in Players : loginStatus'[q] => Known(rs, q) /\ loginStatus[q]
    BY <2>2, <2>4 DEF MessageInv, PlayersOK, Known
  <2>6. toBroker \in Seq(UpMessages(rs))
    <3>1. UpMessages(asked) \subseteq UpMessages(rs)
      BY <2>4, AsksMore
    <3> QED
      BY <3>1, Elements DEF MessageInv, WaysOK
  <2>7. \/ toBroker' = toBroker /\ ran' = ran
        \/ toBroker' = toBroker /\ ran' = ran \cup {Run("gateway", id, p, n)}
        \/ /\ toBroker' = toBroker /\ s = "chatworker"
           /\ ran' = ran \cup {Run(s, Select([i \in 1..4 |-> WorldChannelMsg + i - 1],
                                             id - WorldChannelMsg, 4), p, n)}
        \/ /\ toBroker' = Append(toBroker, ToBroker(Text(s), RequestBody(p, id, n)))
           /\ ran' = ran /\ s \in Services /\ loginStatus[p]
    <3> HIDE DEF Services, Run, Select, ToBroker, Text, RequestBody, ServiceOf
    <3>1. CASE id < LoginServiceNum
      BY <1>3, <2>1, <3>1 DEF ClientAsks
    <3>2. CASE ~(id < LoginServiceNum) /\ s = "chatworker" /\ loginStatus[p]
      BY <1>3, <2>1, <3>2 DEF ClientAsks
    <3>3. CASE ~(id < LoginServiceNum) /\ s # "chatworker" /\ s \in Services /\ loginStatus[p]
      BY <1>3, <2>1, <3>3 DEF ClientAsks
    <3>4. CASE /\ ~(id < LoginServiceNum) /\ ~(s = "chatworker" /\ loginStatus[p])
               /\ ~(s \in Services /\ loginStatus[p])
      BY <1>3, <2>1, <3>4 DEF ClientAsks
    <3> QED
      BY <3>1, <3>2, <3>3, <3>4
  <2>8. toBroker' \in Seq(UpMessages(rs))
    <3>1. ASSUME s \in Services, loginStatus[p]
          PROVE  ToBroker(Text(s), RequestBody(p, id, n)) \in UpMessages(rs)
      <4>1. a \in Asking(rs, s)
        <5>1. Known(rs, p)
          BY <2>2, <2>5, <3>1
        <5> QED
          BY <2>1, <2>2, <2>3, <5>1 DEF Asking, Routed
      <4>2. RequestBody(p, id, n) = AskingBody(a)
        BY <2>3 DEF AskingBody
      <4> QED
        BY <2>2, <2>3, <3>1, <4>1, <4>2, UpRight
    <3> QED
      BY <2>6, <2>7, <3>1, Elements
  <2>9. AsAsked'
    <3>1. ASSUME NEW r \in ran
          PROVE  \E b \in rs : /\ r.player = b.player /\ r.payload = b.payload
                               /\ r.where \in {"gateway", ServiceOf(b.id)} \/ b.id \in {Login, Logout}
                               /\ r.handler = b.id \/ (b.id \in Misplaced /\ r.where = "worldmap")
      BY <2>4 DEF MessageInv, AsAsked
    <3>2. ASSUME NEW w, NEW r, r = Run(w, id, p, n), w \in {"gateway", s}
          PROVE  \E b \in rs : /\ r.player = b.player /\ r.payload = b.payload
                               /\ r.where \in {"gateway", ServiceOf(b.id)} \/ b.id \in {Login, Logout}
                               /\ r.handler = b.id \/ (b.id \in Misplaced /\ r.where = "worldmap")
      <4>1. r.player = p /\ r.payload = n /\ r.where = w /\ r.handler = id
        BY <3>2 DEF Run
      <4> QED
        BY <2>1, <2>2, <2>3, <3>2, <4>1
    <3>3. s = "chatworker" =>
             Select([i \in 1..4 |-> WorldChannelMsg + i - 1], id - WorldChannelMsg, 4) = id
      BY <2>1, <2>2, ChatRight
    <3>4. \A r \in ran' : r \in ran \/ r = Run("gateway", id, p, n)
                          \/ (s = "chatworker" /\ r = Run(s, id, p, n))
      BY <2>7, <3>3
    <3> QED
      BY <2>1, <3>1, <3>2, <3>4 DEF AsAsked
  <2> QED
    BY <2>1, <2>2, <2>4, <2>5, <2>8, <2>9, ClientSide
<1> QED
  BY <1>1, <1>2, <1>3

\* A step that posts, delivers and logs in or out nothing only has to leave messages on their way.
LEMMA StillOnItsWay ==
    ASSUME DeliveryOK, UNCHANGED <<received, posted, loginStatus>>,
           \A k \in DOMAIN posted : OnItsWay(k) => OnItsWay(k)'
    PROVE  DeliveryOK'
BY DEF DeliveryOK, Received

\* The gateway's own heartbeat.
LEMMA GatewayBeatsStep ==
    ASSUME MessageInv, GatewayBeats
    PROVE  MessageInv'
<1>1. /\ toBroker' = <<ToBroker(Beat, Empty)>>
      /\ UNCHANGED <<workerSide, received, fault>> /\ asked' = asked /\ ran' = ran
      /\ loginStatus' = loginStatus
  BY DEF GatewayBeats
<1>2. toBroker' \in Seq(UpMessages(asked'))
  <2>1. PICK x, S : x = ToBroker(Beat, Empty) /\ S = UpMessages(asked)
    OBVIOUS
  <2>2. x \in S
    BY <2>1, BeatsUnchanged, UpIs
  <2>3. <<x>> \in Seq(S)
    BY <2>2
  <2> QED
    BY <1>1, <2>1, <2>3
<1>3. AsAsked'
  BY <1>1 DEF MessageInv, AsAsked
<1>4. /\ asked \subseteq asked' /\ asked' \subseteq [player : Players, id : Nat, payload : Nat]
      /\ loginStatus' \in [Players -> BOOLEAN]
      /\ \A p \in Players : loginStatus'[p] =>
            Known(asked', p) /\ (loginStatus[p] \/ ~Known(asked, p))
  BY <1>1 DEF MessageInv, PlayersOK
<1> QED
  BY <1>1, <1>2, <1>3, <1>4, ClientSide

\* What handler_in_gateway does with what a worker posted, and with the text of an error.
LEMMA Delivered ==
    /\ Deliver(ErrorText) => received' = received
    /\ \A qs, k : \A m \in Post(qs) : Deliver(PostedBody(m, k)) =>
          received' = [p \in Players |-> IF p \in m.to /\ loginStatus[p]
                                         THEN received[p] \cup {<<k, m.payload>>} ELSE received[p]]
<1>1. Deliver(ErrorText) => received' = received
  <2>1. ErrorText.data[1] = "unpack error or out of array" /\ ErrorText.size = 36
    BY DEF ErrorText
  <2>2. UserCount(ErrorText) = 110 * 256 + 117
    BY <2>1 DEF UserCount
  <2>3. UserCount(ErrorText) * 4 + 2 > ErrorText.size
    <3> PICK c, z : c = UserCount(ErrorText) /\ z = ErrorText.size
      OBVIOUS
    <3>1. c = 28277 /\ z = 36
      <4>1. c = 110 * 256 + 117
        BY <2>2
      <4>2. 110 * 256 + 117 = 28277
        OBVIOUS
      <4>3. z = 36
        BY <2>1
      <4> QED
        BY <4>1, <4>2, <4>3
    <3>2. c * 4 + 2 > z
      BY <3>1
    <3> QED
      BY <3>2
  <2> QED
    BY <2>3 DEF Deliver
<1>2. ASSUME NEW qs, NEW k, NEW m \in Post(qs), Deliver(PostedBody(m, k))
      PROVE  received' = [p \in Players |-> IF p \in m.to /\ loginStatus[p]
                                            THEN received[p] \cup {<<k, m.payload>>} ELSE received[p]]
  <2>1. PICK f, c : f = PostedBody(m, k) /\ c = Cardinality(m.to)
    OBVIOUS
  <2>2. m.payload \in Nat /\ IsFiniteSet(m.to)
    BY DEF Post
  <2>3. c \in Nat
    BY <2>1, <2>2, FS_CardinalityType
  <2>4. /\ f.size = 2 + 4 * c + 2 + m.payload /\ f.data[1] = "reply" /\ f.data[2] = m.to
        /\ f.data[3] = m.payload /\ f.data[4] = k
    BY <2>1 DEF PostedBody, ReplyBody
  <2>5. UserCount(f) = c
    BY <2>1, <2>4 DEF UserCount
  <2>6. ~(UserCount(f) * 4 + 2 > f.size)
    BY <2>2, <2>3, <2>4, <2>5
  <2>7. received' = [p \in Players |-> IF p \in f.data[2] /\ loginStatus[p]
                                       THEN received[p] \cup {<<f.data[4], f.data[3]>>}
                                       ELSE received[p]]
    BY <1>2, <2>1, <2>6 DEF Deliver
  <2> QED
    BY <2>4, <2>7
<1> QED
  BY <1>1, <1>2

\* The gateway reads: a heartbeat, an error, which it drops, or what has been posted.
LEMMA GatewayReadsStep ==
    ASSUME MessageInv, GatewayReads
    PROVE  MessageInv'
<1> USE DEF MessageInv
<1> PICK x, msg, S : x = Head(toGateway) /\ msg = Recv(x) /\ S = OutMessages(posted)
  OBVIOUS
<1>1. /\ toGateway # <<>> /\ toGateway' = Tail(toGateway) /\ loginStatus' = loginStatus
      /\ toBroker' = toBroker /\ toWorker' = toWorker /\ fromWorker' = fromWorker
      /\ replyTo' = replyTo /\ audience' = audience
      /\ asked' = asked /\ ran' = ran /\ posted' = posted
  BY DEF GatewayReads, history
<1>2. toGateway \in Seq(S) /\ x \in S /\ toGateway' \in Seq(S)
      /\ \A y : Contains(toGateway, y) => y = x \/ Contains(toGateway', y)
  BY <1>1, Elements, Contained DEF WaysOK
<1>3. Len(msg) >= 3 /\ msg[1] = Empty /\ msg[2] = MDPC =>
         IF msg[3] = Beat THEN received' = received /\ fault' = fault
         ELSE Deliver(Body(msg)) /\ fault' = fault
  BY DEF GatewayReads
<1>4. ASSUME NEW s \in Services, NEW b, x = Up(s, b), Unchanged(b)
      PROVE  Deliver(b) /\ fault' = fault
  <2>1. Len(msg) >= 3 /\ msg[1] = Empty /\ msg[2] = MDPC /\ msg[3] = Text(s) /\ Body(msg) = b
    BY <1>4, GatewayGets
  <2>2. msg[3] # Beat
    BY <2>1, TextsDiffer
  <2> QED
    BY <1>3, <2>1, <2>2
<1>5. x = ClientBeat => received' = received /\ fault' = fault
  <2> HAVE x = ClientBeat
  <2>1. msg = <<Empty, MDPC, Beat>>
    BY BeatsUnchanged DEF ClientBeat
  <2> QED
    BY <1>3, <2>1
<1>6. /\ fault' = fault
      /\ \/ received' = received
         \/ \E k \in DOMAIN posted :
               received' = [p \in Players |->
                              IF p \in posted[k].to /\ loginStatus[p]
                              THEN received[p] \cup {<<k, posted[k].payload>>} ELSE received[p]]
  <2>1. CASE x = ClientBeat
    BY <1>5, <2>1
  <2>2. ASSUME NEW s \in Services, x = Up(s, ErrorText)
        PROVE  fault' = fault /\ received' = received
    BY <1>4, <2>2, BodiesUnchanged, Delivered
  <2>3. ASSUME NEW s \in Services, NEW k \in DOMAIN posted, x = Up(s, PostedBody(posted[k], k))
        PROVE  /\ fault' = fault
               /\ received' = [p \in Players |->
                                 IF p \in posted[k].to /\ loginStatus[p]
                                 THEN received[p] \cup {<<k, posted[k].payload>>} ELSE received[p]]
    <3>1. posted[k] \in Post(asked) /\ Unchanged(PostedBody(posted[k], k))
      BY PostedRead
    <3>2. Deliver(PostedBody(posted[k], k)) /\ fault' = fault
      BY <1>4, <2>3, <3>1
    <3> QED
      BY <3>1, <3>2, Delivered
  <2> QED
    BY <1>2, <2>1, <2>2, <2>3, OutIs
<1>7. ASSUME NEW s \in Services, NEW k \in DOMAIN posted, x = Up(s, PostedBody(posted[k], k)),
             NEW p \in posted[k].to
      PROVE  ~loginStatus[p] \/ <<k, posted[k].payload>> \in received'[p]
  <2>1. posted[k] \in Post(asked) /\ Unchanged(PostedBody(posted[k], k)) /\ p \in Players
    BY PostedRead DEF Post
  <2>2. Deliver(PostedBody(posted[k], k))
    BY <1>4, <1>7, <2>1
  <2>3. received' = [q \in Players |->
                       IF q \in posted[k].to /\ loginStatus[q]
                       THEN received[q] \cup {<<k, posted[k].payload>>} ELSE received[q]]
    BY <2>1, <2>2, Delivered
  <2> QED
    BY <2>1, <2>3
<1>8. PlayersOK' /\ AsAsked'
  BY <1>1 DEF PlayersOK, AsAsked, Known
<1>9. WaysOK'
  BY <1>1, <1>2 DEF WaysOK
<1>10. WorkersOK'
  BY <1>1, <1>6 DEF WorkersOK, Known
<1>11. DeliveryOK'
  <2>1. DOMAIN received' = Players /\ \A p \in Players : \A m \in received'[p] :
          m[1] \in DOMAIN posted /\ p \in posted[m[1]].to /\ m[2] = posted[m[1]].payload
    BY <1>6 DEF DeliveryOK
  <2>2. \A p \in Players : received[p] \subseteq received'[p]
    BY <1>6 DEF DeliveryOK
  <2>3. ASSUME NEW k \in DOMAIN posted, NEW p \in posted[k].to
        PROVE  <<k, posted[k].payload>> \in received'[p] \/ ~loginStatus[p] \/ OnItsWay(k)'
    <3>0. p \in Players
      BY PostedRead DEF Post
    <3>1. Received(p, k) \/ ~loginStatus[p] \/ OnItsWay(k)
      BY DEF DeliveryOK
    <3>2. OnItsWay(k) => OnItsWay(k)' \/ \E s \in Services : x = Up(s, PostedBody(posted[k], k))
      BY <1>1, <1>2 DEF OnItsWay
    <3> QED
      BY <1>7, <2>2, <3>0, <3>1, <3>2 DEF Received
  <2> QED
    BY <1>1, <2>1, <2>3 DEF DeliveryOK, Received
<1> QED
  BY <1>8, <1>9, <1>10, <1>11

\* The broker reads what the gateway sends: a heartbeat, or a message for a worker.
LEMMA BrokerReadsClientStep ==
    ASSUME MessageInv, BrokerReadsClient
    PROVE  MessageInv'
<1> USE DEF MessageInv
<1> PICK x, msg : x = Head(toBroker) /\ msg = <<Gateway>> \o Recv(x)
  OBVIOUS
<1>1. /\ toBroker # <<>> /\ toBroker' = Tail(toBroker) /\ loginStatus' = loginStatus
      /\ toGateway' = toGateway /\ fromWorker' = fromWorker
      /\ replyTo' = replyTo /\ audience' = audience /\ received' = received /\ fault' = fault
      /\ asked' = asked /\ ran' = ran /\ posted' = posted
  BY DEF BrokerReadsClient, gatewaySide
<1>2. x \in UpMessages(asked) /\ toBroker' \in Seq(UpMessages(asked))
  BY <1>1, Elements DEF WaysOK
<1>3. \/ msg[4] = Beat /\ toWorker' = toWorker
      \/ /\ msg[4] # Beat
         /\ toWorker' = [toWorker EXCEPT ![msg[4].data[1]] =
                           Append(@, ToWorker(Request, Wrap(WithoutFirst(msg, 4), msg[1])))]
  BY DEF BrokerReadsClient
<1>4. ASSUME NEW s \in Services, NEW b, Unchanged(b), x = Up(s, b), Down(b) \in DownMessages(asked, s)
      PROVE  /\ DOMAIN toWorker' = Services
             /\ \A t \in Services : toWorker'[t] \in Seq(DownMessages(asked, t))
  <2>1. /\ msg[1] = Gateway /\ msg[4] = Text(s)
        /\ ToWorker(Request, Wrap(WithoutFirst(msg, 4), msg[1])) = Down(b)
    BY <1>4, BrokerPassesDown
  <2>2. msg[4] # Beat /\ msg[4].data[1] = s
    <3>1. Text(s).data[1] = s
      BY DEF Text
    <3> QED
      BY <2>1, <3>1, TextsDiffer
  <2>3. toWorker' = [toWorker EXCEPT ![s] = Append(@, Down(b))]
    BY <1>3, <2>1, <2>2
  <2>4. Append(toWorker[s], Down(b)) \in Seq(DownMessages(asked, s))
    BY <1>4, Elements DEF WaysOK
  <2> QED
    BY <2>3, <2>4 DEF WaysOK
<1>5. /\ DOMAIN toWorker' = Services
      /\ \A t \in Services : toWorker'[t] \in Seq(DownMessages(asked, t))
  <2>1. CASE x = Up("HEARTBEAT", Empty)
    <3>1. msg[4] = Text("HEARTBEAT")
      BY <2>1, BodiesUnchanged, BrokerPassesDown
    <3> QED
      BY <1>3, <3>1 DEF Beat, WaysOK
  <2>2. CASE x = Up("worldmap", Text("aa"))
    <3>1. "worldmap" \in Services /\ Unchanged(Text("aa"))
      BY BodiesUnchanged DEF Services, Cpp
    <3>2. Down(Text("aa")) \in DownMessages(asked, "worldmap")
      BY DownIs
    <3> QED
      BY <1>4, <2>2, <3>1, <3>2
  <2>3. ASSUME NEW s \in Services, NEW a \in Asking(asked, s), x = Up(s, AskingBody(a))
        PROVE  /\ DOMAIN toWorker' = Services
               /\ \A t \in Services : toWorker'[t] \in Seq(DownMessages(asked, t))
    <3>1. Unchanged(AskingBody(a))
      BY AskedRead
    <3>2. Down(AskingBody(a)) \in DownMessages(asked, s)
      BY DownIs
    <3> QED
      BY <1>4, <2>3, <3>1, <3>2
  <2> QED
    BY <1>2, <2>1, <2>2, <2>3, UpIs
<1>6. WaysOK'
  BY <1>1, <1>2, <1>5 DEF WaysOK
<1>7. PlayersOK' /\ AsAsked' /\ WorkersOK'
  BY <1>1 DEF PlayersOK, AsAsked, Known, WorkersOK
<1>8. DeliveryOK'
  BY <1>1, StillOnItsWay DEF OnItsWay
<1> QED
  BY <1>6, <1>7, <1>8

\* The broker reads what a worker sends: a registration, a heartbeat, or a message for the
\* gateway.
LEMMA BrokerReadsWorkerStep ==
    ASSUME MessageInv, NEW s \in Services, BrokerReadsWorker(s)
    PROVE  MessageInv'
<1> USE DEF MessageInv
<1> PICK x, msg, rest, S : /\ x = Head(fromWorker[s]) /\ msg = Recv(x) /\ rest = WithoutFirst(msg, 3)
                           /\ S = OutMessages(posted)
  OBVIOUS
<1>1. /\ fromWorker[s] # <<>> /\ fromWorker' = [fromWorker EXCEPT ![s] = Tail(@)]
      /\ loginStatus' = loginStatus /\ toBroker' = toBroker /\ toWorker' = toWorker
      /\ replyTo' = replyTo /\ audience' = audience /\ received' = received /\ fault' = fault
      /\ asked' = asked /\ ran' = ran /\ posted' = posted
  BY DEF BrokerReadsWorker, gatewaySide
<1>2. /\ x \in BackMessages(posted) /\ Tail(fromWorker[s]) \in Seq(BackMessages(posted))
      /\ \A y : Contains(fromWorker[s], y) => y = x \/ Contains(Tail(fromWorker[s]), y)
  BY <1>1, Elements, Contained DEF WaysOK
<1>3. /\ msg[3] # Reply => toGateway' = toGateway
      /\ msg[3] = Reply /\ rest[1] = Gateway =>
            toGateway' = Append(toGateway, ToClient(Text(s), WithoutFirst(rest, 2)))
  <2>1. CASE msg[3] = Ready
    BY <2>1, TextsDiffer DEF BrokerReadsWorker
  <2>2. CASE msg[3] # Ready /\ msg[3] = Reply
    BY <2>2 DEF BrokerReadsWorker
  <2>3. CASE msg[3] # Ready /\ msg[3] # Reply
    BY <2>3 DEF BrokerReadsWorker
  <2> QED
    BY <2>1, <2>2, <2>3
<1>4. ASSUME NEW b, Unchanged(b), x = Back(b)
      PROVE  toGateway' = Append(toGateway, Up(s, b))
  <2>1. /\ msg[3] = Reply /\ rest[1] = Gateway
        /\ ToClient(Text(s), WithoutFirst(rest, 2)) = Up(s, b)
    BY <1>4, BrokerPassesBack
  <2> QED
    BY <1>3, <2>1
<1>5. \/ toGateway' = toGateway
      \/ \E y \in S : toGateway' = Append(toGateway, y)
  <2>1. CASE x = WorkerBeat
    <3>1. msg[3] = Beat
      BY <2>1, BeatsUnchanged DEF WorkerBeat
    <3>2. Beat # Reply
      BY DEF Beat, Reply, Text
    <3> QED
      BY <1>3, <3>1, <3>2
  <2>2. CASE x = PythonRegistration \/ \E t \in Services : x = Registration(t)
    <3>1. msg[3] = Ready
      BY <2>2, RegistrationRead
    <3> QED
      BY <1>3, <3>1, TextsDiffer
  <2>3. CASE x = Back(ErrorText)
    <3>1. toGateway' = Append(toGateway, Up(s, ErrorText)) /\ Up(s, ErrorText) \in S
      BY <1>4, <2>3, BodiesUnchanged, OutIs
    <3> QED
      BY <3>1
  <2>4. ASSUME NEW k \in DOMAIN posted, x = Back(PostedBody(posted[k], k))
        PROVE  \E y \in S : toGateway' = Append(toGateway, y)
    <3>1. toGateway' = Append(toGateway, Up(s, PostedBody(posted[k], k)))
      BY <1>4, <2>4, PostedRead
    <3>2. Up(s, PostedBody(posted[k], k)) \in S
      BY OutIs
    <3> QED
      BY <3>1, <3>2
  <2> QED
    BY <1>2, <2>1, <2>2, <2>3, <2>4, BackIs
<1>6. toGateway \in Seq(S)
  BY DEF WaysOK
<1>7. toGateway' \in Seq(S) /\ \A y : Contains(toGateway, y) => Contains(toGateway', y)
  <2>1. CASE toGateway' = toGateway
    BY <1>6, <2>1
  <2>2. ASSUME NEW z \in S, toGateway' = Append(toGateway, z)
        PROVE  toGateway' \in Seq(S) /\ \A y : Contains(toGateway, y) => Contains(toGateway', y)
    BY <1>6, <2>2, Elements, Contained
  <2> QED
    BY <1>5, <2>1, <2>2
<1>8. WaysOK'
  BY <1>1, <1>2, <1>7 DEF WaysOK
<1>9. PlayersOK' /\ AsAsked' /\ WorkersOK'
  BY <1>1 DEF PlayersOK, AsAsked, Known, WorkersOK
<1>10. ASSUME NEW k \in DOMAIN posted, OnItsWay(k) PROVE OnItsWay(k)'
  <2> PICK b, u : b = Back(PostedBody(posted[k], k)) /\ u = PostedBody(posted[k], k)
    OBVIOUS
  <2>1. PICK t \in Services : Contains(fromWorker[t], b) \/ Contains(toGateway, Up(t, u))
    BY <1>10 DEF OnItsWay
  <2>2. CASE Contains(toGateway, Up(t, u))
    BY <1>1, <1>7, <2>2 DEF OnItsWay
  <2>3. CASE Contains(fromWorker[t], b) /\ (t # s \/ b # x)
    <3>1. Contains(fromWorker'[t], b)
      BY <1>1, <1>2, <2>3 DEF WaysOK
    <3> QED
      BY <1>1, <3>1 DEF OnItsWay
  <2>4. CASE b = x
    <3>1. toGateway' = Append(toGateway, Up(s, u)) /\ Up(s, u) \in S
      BY <1>4, <2>4, PostedRead, OutIs
    <3>2. Contains(toGateway', Up(s, u))
      BY <1>6, <3>1, Contained
    <3> QED
      BY <1>1, <3>2 DEF OnItsWay
  <2> QED
    BY <2>1, <2>2, <2>3, <2>4
<1>11. DeliveryOK'
  BY <1>1, <1>10, StillOnItsWay
<1> QED
  BY <1>8, <1>9, <1>11

\* Nothing is on its way when all is quiet.
LEMMA NothingUnderWay ==
    ASSUME Quiet
    PROVE  \A k : ~OnItsWay(k)
BY DEF Quiet, OnItsWay, Contains

\* The broker's heartbeats.
LEMMA BrokerBeatsStep ==
    ASSUME MessageInv, BrokerBeats
    PROVE  MessageInv'
<1> USE DEF MessageInv
<1>1. /\ Quiet
      /\ toWorker' = [s \in Services |-> IF s \in listed THEN <<WorkerBeat>> ELSE <<>>]
      /\ toGateway' = IF clientKnown THEN <<ClientBeat>> ELSE <<>>
      /\ loginStatus' = loginStatus /\ toBroker' = toBroker /\ fromWorker' = fromWorker
      /\ replyTo' = replyTo /\ audience' = audience /\ received' = received /\ fault' = fault
      /\ asked' = asked /\ ran' = ran /\ posted' = posted
  BY BeatsUnchanged DEF BrokerBeats, gatewaySide
<1>2. ASSUME NEW S, NEW x \in S PROVE <<x>> \in Seq(S) /\ <<>> \in Seq(S)
  OBVIOUS
<1>3. toGateway' \in Seq(OutMessages(posted))
  BY <1>1, <1>2, OutIs
<1>4. ASSUME NEW s \in Services PROVE toWorker'[s] \in Seq(DownMessages(asked, s))
  BY <1>1, <1>2, DownIs
<1>5. WaysOK'
  BY <1>1, <1>3, <1>4 DEF WaysOK
<1>6. PlayersOK' /\ AsAsked' /\ WorkersOK'
  BY <1>1 DEF PlayersOK, AsAsked, Known, WorkersOK
<1>7. DeliveryOK'
  BY <1>1, NothingUnderWay, StillOnItsWay
<1> QED
  BY <1>5, <1>6, <1>7

\* A worker registers or beats.
LEMMA WorkerSpeaks ==
    ASSUME MessageInv, NEW s \in Services, NEW x \in BackMessages(posted), fromWorker[s] = <<>>,
           fromWorker' = [fromWorker EXCEPT ![s] = <<x>>],
           UNCHANGED <<othersThanWorkers, toWorker, replyTo, audience, ran, posted, fault>>
    PROVE  MessageInv'
<1> USE DEF MessageInv
<1>1. /\ toWorker' = toWorker /\ toGateway' = toGateway
      /\ loginStatus' = loginStatus /\ toBroker' = toBroker
      /\ replyTo' = replyTo /\ audience' = audience /\ received' = received /\ fault' = fault
      /\ asked' = asked /\ ran' = ran /\ posted' = posted
  BY DEF othersThanWorkers
<1>2. ASSUME NEW S, NEW y \in S PROVE <<y>> \in Seq(S)
  OBVIOUS
<1>3. <<x>> \in Seq(BackMessages(posted))
  BY <1>2
<1>4. WaysOK'
  BY <1>1, <1>3 DEF WaysOK
<1>5. PlayersOK' /\ AsAsked' /\ WorkersOK'
  BY <1>1 DEF PlayersOK, AsAsked, Known, WorkersOK
<1>6. ASSUME NEW k \in DOMAIN posted, OnItsWay(k) PROVE OnItsWay(k)'
  <2>1. PICK t \in Services : \/ Contains(fromWorker[t], Back(PostedBody(posted[k], k)))
                              \/ Contains(toGateway, Up(t, PostedBody(posted[k], k)))
    BY <1>6 DEF OnItsWay
  <2>2. CASE t = s
    <3>1. \A y : ~Contains(<<>>, y)
      BY DEF Contains
    <3> QED
      BY <1>1, <2>1, <2>2, <3>1 DEF OnItsWay
  <2>3. CASE t # s
    <3>1. fromWorker'[t] = fromWorker[t]
      BY <2>3 DEF WaysOK
    <3> QED
      BY <1>1, <2>1, <3>1 DEF OnItsWay
  <2> QED
    BY <2>2, <2>3
<1>7. DeliveryOK'
  BY <1>1, <1>6, StillOnItsWay
<1> QED
  BY <1>4, <1>5, <1>7

\* It registers when a request waits, and beats when nothing does.
LEMMA WorkerBeatsStep ==
    ASSUME MessageInv, NEW s \in Services, WorkerStarts(s) \/ WorkerBeats(s)
    PROVE  MessageInv'
<1>1. CASE WorkerStarts(s)
  <2> PICK x : x = IF s \in Cpp THEN Registration(s) ELSE PythonRegistration
    OBVIOUS
  <2>1. x \in BackMessages(posted)
    BY BackIs
  <2>2. /\ fromWorker[s] = <<>> /\ fromWorker' = [fromWorker EXCEPT ![s] = <<x>>]
        /\ UNCHANGED <<othersThanWorkers, toWorker, replyTo, audience, ran, posted, fault>>
    BY <1>1 DEF WorkerStarts
  <2> QED
    BY <2>1, <2>2, WorkerSpeaks
<1>2. CASE WorkerBeats(s)
  <2>1. WorkerBeat \in BackMessages(posted)
    BY BackIs
  <2>2. From(s, Beat, <<>>) = WorkerBeat
    BY BeatsUnchanged
  <2>3. /\ Quiet /\ fromWorker' = [fromWorker EXCEPT ![s] = <<WorkerBeat>>]
        /\ UNCHANGED <<othersThanWorkers, toWorker, replyTo, audience, ran, posted, fault>>
    BY <1>2, <2>2 DEF WorkerBeats
  <2>4. fromWorker[s] = <<>>
    BY <2>3 DEF Quiet
  <2> QED
    BY <2>1, <2>3, <2>4, WorkerSpeaks
<1> QED
  BY <1>1, <1>2

\* What Process does with "aa" and with a request: a handler runs for it, the one of the
\* request, or an error is on its way.
LEMMA Processed ==
    /\ \A s, c : Process(s, Text("aa"), c) =>
          /\ fault' = fault \cup {"short_read"}
          /\ fromWorker' = fromWorker /\ ran' = ran /\ audience' = audience
    /\ \A s, c, a : a.payload \in Nat /\ Process(s, AskingBody(a), c) =>
          /\ fault' = fault
          /\ \/ /\ ran' = ran \/ ( /\ Handler(s, a.id) # Refused
                                   /\ ran' = ran \cup {Run(s, Handler(s, a.id), a.player, a.payload)})
                /\ audience' = [audience EXCEPT ![s] = @ \cup {a.player}]
                /\ fromWorker' = fromWorker
             \/ /\ ran' = ran /\ audience' = audience
                /\ \/ fromWorker' = fromWorker
                   \/ fromWorker' = [fromWorker EXCEPT ![s] =
                                       Append(@, FromWorker(Reply, Wrap(<<ErrorText>>, c)))]
<1>1. ASSUME NEW s, NEW c, Process(s, Text("aa"), c)
      PROVE  /\ fault' = fault \cup {"short_read"}
             /\ fromWorker' = fromWorker /\ ran' = ran /\ audience' = audience
  <2> PICK f : f = Text("aa")
    OBVIOUS
  <2>1. f.size = 1
    BY DEF Text
  <2>2. f.size < 8
    BY <2>1
  <2>3. Process(s, f, c)
    BY <1>1
  <2> QED
    BY <2>1, <2>2, <2>3 DEF Process
<1>2. ASSUME NEW s, NEW c, NEW a, a.payload \in Nat, Process(s, AskingBody(a), c)
      PROVE  /\ fault' = fault
             /\ \/ /\ ran' = ran \/ ( /\ Handler(s, a.id) # Refused
                                      /\ ran' = ran \cup {Run(s, Handler(s, a.id), a.player, a.payload)})
                   /\ audience' = [audience EXCEPT ![s] = @ \cup {a.player}]
                   /\ fromWorker' = fromWorker
                \/ /\ ran' = ran /\ audience' = audience
                   /\ \/ fromWorker' = fromWorker
                      \/ fromWorker' = [fromWorker EXCEPT ![s] =
                                          Append(@, FromWorker(Reply, Wrap(<<ErrorText>>, c)))]
  <2> PICK f : f = AskingBody(a)
    OBVIOUS
  <2>1. /\ f.size = 2 + 4 + 2 + a.payload /\ f.data[1] = "request" /\ f.data[2] = a.player
        /\ f.data[3] = a.id /\ f.data[4] = a.payload
    BY DEF AskingBody, RequestBody
  <2>2. f.size >= 8 /\ ~(f.size < 8)
    BY <1>2, <2>1
  <2>3. Process(s, f, c)
    BY <1>2
  <2>4. CASE a.payload > 0 \/ a.id \in {Login, Logout}
    BY <2>1, <2>2, <2>3, <2>4 DEF Process
  <2>5. CASE ~(a.payload > 0 \/ a.id \in {Login, Logout})
    BY <2>1, <2>2, <2>3, <2>5 DEF Process
  <2> QED
    BY <2>4, <2>5
<1> QED
  BY <1>1, <1>2

\* A handler that runs for a request its player has made.
LEMMA RanAsAsked ==
    ASSUME PlayersOK, AsAsked, NEW s \in Services, NEW a \in Asking(asked, s), asked' = asked,
           Handler(s, a.id) # Refused,
           ran' = ran \cup {Run(s, Handler(s, a.id), a.player, a.payload)}
    PROVE  AsAsked'
<1> PICK h, q : h = Handler(s, a.id) /\ q = Run(s, h, a.player, a.payload)
  OBVIOUS
<1>1. a \in asked /\ a.id \in Nat /\ Routed(s, a.id)
  BY AskedRead
<1>2. h = a.id \/ (a.id \in Misplaced /\ s = "worldmap")
  BY <1>1, HandlerRight
<1>3. q.where = s /\ q.handler = h /\ q.player = a.player /\ q.payload = a.payload
  BY DEF Run
<1>4. ServiceOf(a.id) = s \/ a.id \in {Login, Logout}
  BY <1>1 DEF Routed
<1>5. ran' = ran \cup {q}
  OBVIOUS
<1> QED
  BY <1>1, <1>2, <1>3, <1>4, <1>5 DEF AsAsked

\* A C++ worker reads: a heartbeat, "aa", or a request, which it answers with an error or runs.
LEMMA WorkerReadsStep ==
    ASSUME MessageInv, NEW s \in Cpp, WorkerReads(s)
    PROVE  MessageInv'
<1> USE DEF MessageInv
<1> PICK x, msg : x = Head(toWorker[s]) /\ msg = Recv(x)
  OBVIOUS
<1>0. s \in Services
  BY DEF Services
<1>1. /\ toWorker[s] # <<>> /\ toWorker' = [toWorker EXCEPT ![s] = Tail(@)]
      /\ loginStatus' = loginStatus /\ toBroker' = toBroker /\ toGateway' = toGateway
      /\ received' = received /\ asked' = asked /\ posted' = posted
  BY DEF WorkerReads, othersThanWorkers
<1>2. x \in DownMessages(asked, s) /\ Tail(toWorker[s]) \in Seq(DownMessages(asked, s))
  BY <1>0, <1>1, Elements DEF WaysOK
<1>3. /\ Framed(msg) /\ msg[3] = Request =>
            replyTo' = [replyTo EXCEPT ![s] = msg[4]] /\ Process(s, Body(msg), msg[4])
      /\ Framed(msg) /\ msg[3] # Request =>
            /\ replyTo' = replyTo /\ fromWorker' = fromWorker /\ ran' = ran
            /\ audience' = audience /\ fault' = fault
  <2>1. CASE Framed(msg) /\ msg[3] = Request
    BY <2>1 DEF WorkerReads
  <2>2. CASE Framed(msg) /\ msg[3] # Request
    BY <2>2 DEF WorkerReads
  <2> QED
    BY <2>1, <2>2
<1>4. ASSUME NEW b, Unchanged(b), x = Down(b)
      PROVE  replyTo' = [replyTo EXCEPT ![s] = Gateway] /\ Process(s, b, Gateway)
  <2>1. Framed(msg) /\ msg[3] = Request /\ msg[4] = Gateway /\ Body(msg) = b
    BY <1>4, WorkerGets
  <2> QED
    BY <1>3, <2>1
<1> DEFINE Sent2(y) == fromWorker' = [fromWorker EXCEPT ![s] = Append(@, y)]
<1>5. /\ AsAsked' /\ "assert" \notin fault'
      /\ replyTo' = replyTo \/ replyTo' = [replyTo EXCEPT ![s] = Gateway]
      /\ \/ audience' = audience
         \/ \E p \in Players : /\ audience' = [audience EXCEPT ![s] = @ \cup {p}]
                               /\ Known(asked, p) /\ replyTo' = [replyTo EXCEPT ![s] = Gateway]
      /\ fromWorker' = fromWorker \/ Sent2(Back(ErrorText))
  <2>1. CASE x = WorkerBeat
    <3>1. msg = WorkerBeat
      BY <2>1, BeatsUnchanged
    <3>2. Framed(WorkerBeat) /\ WorkerBeat[3] = Beat
      BY DEF Framed, WorkerBeat
    <3>3. msg[3] # Request
      BY <3>1, <3>2, TextsDiffer
    <3>4. AsAsked'
      BY <1>1, <1>3, <3>1, <3>2, <3>3 DEF AsAsked
    <3> QED
      BY <1>3, <3>1, <3>2, <3>3, <3>4 DEF WorkersOK
  <2>2. CASE x = Down(Text("aa"))
    <3>1. /\ replyTo' = [replyTo EXCEPT ![s] = Gateway] /\ fault' = fault \cup {"short_read"}
          /\ fromWorker' = fromWorker /\ ran' = ran /\ audience' = audience
      BY <1>4, <2>2, BodiesUnchanged, Processed
    <3>2. AsAsked'
      BY <1>1, <3>1 DEF AsAsked
    <3> QED
      BY <3>1, <3>2 DEF WorkersOK
  <2>3. ASSUME NEW a \in Asking(asked, s), x = Down(AskingBody(a))
        PROVE  /\ AsAsked' /\ "assert" \notin fault'
               /\ replyTo' = [replyTo EXCEPT ![s] = Gateway]
               /\ \/ audience' = audience
                  \/ \E p \in Players : /\ audience' = [audience EXCEPT ![s] = @ \cup {p}]
                                        /\ Known(asked, p)
               /\ fromWorker' = fromWorker \/ Sent2(Back(ErrorText))
    <3>1. /\ a \in asked /\ a.player \in Players /\ a.payload \in Nat
          /\ Known(asked, a.player) /\ Unchanged(AskingBody(a))
      BY AskedRead
    <3>2. replyTo' = [replyTo EXCEPT ![s] = Gateway] /\ Process(s, AskingBody(a), Gateway)
      BY <1>4, <2>3, <3>1
    <3>3. FromWorker(Reply, Wrap(<<ErrorText>>, Gateway)) = Back(ErrorText)
      BY BodiesUnchanged, BrokerPassesBack
    <3>4. /\ fault' = fault
          /\ \/ /\ ran' = ran \/ ( /\ Handler(s, a.id) # Refused
                                   /\ ran' = ran \cup {Run(s, Handler(s, a.id), a.player, a.payload)})
                /\ audience' = [audience EXCEPT ![s] = @ \cup {a.player}]
                /\ fromWorker' = fromWorker
             \/ /\ ran' = ran /\ audience' = audience
                /\ fromWorker' = fromWorker \/ Sent2(Back(ErrorText))
      BY <3>1, <3>2, <3>3, Processed
    <3>5. AsAsked'
      <4>1. CASE ran' = ran
        BY <1>1, <4>1 DEF AsAsked
      <4>2. CASE /\ Handler(s, a.id) # Refused
                 /\ ran' = ran \cup {Run(s, Handler(s, a.id), a.player, a.payload)}
        BY <1>0, <1>1, <4>2, RanAsAsked
      <4> QED
        BY <3>4, <4>1, <4>2
    <3>6. "assert" \notin fault'
      BY <3>4 DEF WorkersOK
    <3> HIDE DEF Sent2
    <3> QED
      BY <3>1, <3>2, <3>4, <3>5, <3>6
  <2> HIDE DEF Sent2
  <2> QED
    BY <1>2, <2>1, <2>2, <2>3, DownIs
<1>6. PlayersOK'
  BY <1>1 DEF PlayersOK, Known
<1>7. /\ DOMAIN fromWorker' = Services
      /\ \A t \in Services : /\ fromWorker'[t] \in Seq(BackMessages(posted))
                             /\ \A y : Contains(fromWorker[t], y) => Contains(fromWorker'[t], y)
  <2>1. CASE fromWorker' = fromWorker
    BY <2>1 DEF WaysOK
  <2>2. CASE Sent2(Back(ErrorText))
    <3> PICK y, S : y = Back(ErrorText) /\ S = BackMessages(posted)
      OBVIOUS
    <3>1. y \in S /\ fromWorker[s] \in Seq(S)
      BY <1>0, BackIs DEF WaysOK
    <3>2. /\ Append(fromWorker[s], y) \in Seq(S)
          /\ \A z : Contains(fromWorker[s], z) => Contains(Append(fromWorker[s], y), z)
      BY <3>1, Elements, Contained
    <3>3. fromWorker' = [fromWorker EXCEPT ![s] = Append(fromWorker[s], y)]
      BY <2>2
    <3> QED
      BY <1>0, <3>2, <3>3 DEF WaysOK
  <2> QED
    BY <1>5, <2>1, <2>2
<1>8. WaysOK'
  BY <1>0, <1>1, <1>2, <1>7 DEF WaysOK
<1>9. WorkersOK'
  <2>1. replyTo' \in [Services -> {Nobody, Gateway}]
        /\ \A t \in Services : replyTo[t] = Gateway => replyTo'[t] = Gateway
    BY <1>0, <1>5 DEF WorkersOK
  <2>2. CASE audience' = audience
    BY <1>1, <1>5, <2>1, <2>2 DEF WorkersOK, Known
  <2>3. ASSUME NEW p \in Players, audience' = [audience EXCEPT ![s] = @ \cup {p}],
               Known(asked, p), replyTo' = [replyTo EXCEPT ![s] = Gateway]
        PROVE  WorkersOK'
    <3>1. audience' \in [Services -> SUBSET Players]
      BY <1>0, <2>3 DEF WorkersOK
    <3>2. \A t \in Services : \/ audience'[t] = audience[t]
                              \/ t = s /\ audience'[t] = audience[s] \cup {p}
      BY <1>0, <2>3 DEF WorkersOK
    <3>3. IsFiniteSet(audience[s] \cup {p})
      BY <1>0, FS_AddElement DEF WorkersOK
    <3>4. replyTo'[s] = Gateway
      BY <1>0, <2>3 DEF WorkersOK
    <3>5. ASSUME NEW t \in Services
          PROVE  /\ IsFiniteSet(audience'[t]) /\ (audience'[t] # {} => replyTo'[t] = Gateway)
                 /\ \A q \in audience'[t] : Known(asked, q)
      <4>1. CASE audience'[t] = audience[t]
        BY <2>1, <4>1 DEF WorkersOK
      <4>2. CASE t = s /\ audience'[t] = audience[s] \cup {p}
        BY <2>3, <3>3, <3>4, <4>2 DEF WorkersOK
      <4> QED
        BY <3>2, <4>1, <4>2
    <3> QED
      BY <1>1, <1>5, <2>1, <3>1, <3>5 DEF WorkersOK, Known
  <2> HIDE DEF Sent2
  <2> QED
    BY <1>5, <2>2, <2>3
<1>10. DeliveryOK'
  BY <1>1, <1>7, StillOnItsWay DEF OnItsWay
<1> QED
  BY <1>5, <1>6, <1>8, <1>9, <1>10

\* A message posted: it is on its way to those it is posted for.
LEMMA PostStep ==
    ASSUME MessageInv, NEW s \in Services, NEW m \in Post(asked),
           posted' = Append(posted, m),
           fromWorker' = [fromWorker EXCEPT ![s] = Append(@, Back(PostedBody(m, Len(posted) + 1)))],
           UNCHANGED <<othersThanWorkers, toWorker, ran>>, WorkersOK'
    PROVE  MessageInv'
<1> USE DEF MessageInv
<1>1. /\ toWorker' = toWorker /\ toGateway' = toGateway /\ loginStatus' = loginStatus
      /\ toBroker' = toBroker /\ received' = received /\ asked' = asked /\ ran' = ran
  BY DEF othersThanWorkers
<1> PICK n, ns, S, y : /\ n = Len(posted) /\ ns = posted' /\ S = BackMessages(ns)
                       /\ y = Back(PostedBody(m, n + 1))
  OBVIOUS
<1>2. posted \in Seq(Post(asked)) /\ n \in Nat /\ DOMAIN posted = 1 .. n
  BY LenProperties DEF PlayersOK
<1>3. /\ ns \in Seq(Post(asked)) /\ Len(ns) = n + 1 /\ ns[n + 1] = m
      /\ \A i \in 1 .. n : ns[i] = posted[i]
  BY <1>2, AppendProperties
<1>4. DOMAIN ns = 1 .. n + 1
  BY <1>3, LenProperties
<1>5. \A k \in DOMAIN posted : k \in DOMAIN ns /\ ns[k] = posted[k]
  BY <1>2, <1>3, <1>4
<1>6. BackMessages(posted) \subseteq S /\ OutMessages(posted) \subseteq OutMessages(ns)
  BY <1>5, PostsMore
<1>7. y \in S
  <2>1. n + 1 \in DOMAIN ns /\ ns[n + 1] = m
    BY <1>2, <1>3, <1>4
  <2> QED
    BY <2>1, BackIs
<1>8. \A t \in Services : fromWorker[t] \in Seq(S)
  BY <1>6, Elements DEF WaysOK
<1>9. /\ Append(fromWorker[s], y) \in Seq(S) /\ Contains(Append(fromWorker[s], y), y)
      /\ \A z : Contains(fromWorker[s], z) => Contains(Append(fromWorker[s], y), z)
  BY <1>7, <1>8, Elements, Contained
<1>10. fromWorker' = [fromWorker EXCEPT ![s] = Append(fromWorker[s], y)]
  OBVIOUS
<1>11. toGateway \in Seq(OutMessages(ns))
  BY <1>6, Elements DEF WaysOK
<1>12. WaysOK'
  BY <1>1, <1>8, <1>9, <1>10, <1>11 DEF WaysOK
<1>13. PlayersOK'
  BY <1>1, <1>3 DEF PlayersOK, Known
<1>14. AsAsked'
  BY <1>1 DEF AsAsked
<1>15. DeliveryOK'
  <2>1. ASSUME NEW p \in Players, NEW r \in received[p]
        PROVE  r[1] \in DOMAIN ns /\ p \in ns[r[1]].to /\ r[2] = ns[r[1]].payload
    BY <1>5 DEF DeliveryOK
  <2>2. \A t \in Services : \A z : Contains(fromWorker[t], z) => Contains(fromWorker'[t], z)
    BY <1>9, <1>10 DEF WaysOK
  <2>3. ASSUME NEW k \in 1 .. n, NEW p \in posted[k].to
        PROVE  (<<k, ns[k].payload>> \in received[p]) \/ ~loginStatus[p] \/ OnItsWay(k)'
    <3>1. k \in DOMAIN posted /\ ns[k] = posted[k]
      BY <1>2, <1>5
    <3>2. Received(p, k) \/ ~loginStatus[p] \/ OnItsWay(k)
      BY <3>1 DEF DeliveryOK
    <3>3. OnItsWay(k) => OnItsWay(k)'
      <4>1. \A z, w : z = Back(PostedBody(posted[k], k)) => z = Back(PostedBody(ns[k], k))
        BY <3>1
      <4>2. \A t, z : z = Up(t, PostedBody(posted[k], k)) => z = Up(t, PostedBody(ns[k], k))
        BY <3>1
      <4> QED
        BY <1>1, <2>2, <3>1 DEF OnItsWay
    <3> QED
      BY <3>1, <3>2, <3>3 DEF Received
  <2>4. OnItsWay(n + 1)'
    <3>1. Contains(fromWorker'[s], y)
      BY <1>9, <1>10 DEF WaysOK
    <3>2. y = Back(PostedBody(ns[n + 1], n + 1))
      BY <1>3
    <3> QED
      BY <3>1, <3>2 DEF OnItsWay
  <2>5. ASSUME NEW k \in DOMAIN ns, NEW p \in ns[k].to
        PROVE  (<<k, ns[k].payload>> \in received[p]) \/ ~loginStatus[p] \/ OnItsWay(k)'
    <3>1. k = n + 1 \/ (k \in 1 .. n /\ ns[k] = posted[k])
      BY <1>2, <1>3, <1>4
    <3>2. CASE k = n + 1
      BY <2>4, <3>2
    <3>3. CASE k \in 1 .. n /\ ns[k] = posted[k]
      <4>1. p \in posted[k].to
        BY <2>5, <3>3
      <4> QED
        BY <2>3, <3>3, <4>1
    <3> QED
      BY <3>1, <3>2, <3>3
  <2> QED
    BY <1>1, <2>1, <2>5 DEF DeliveryOK, Received
<1> QED
  BY <1>12, <1>13, <1>14, <1>15

\* SendToPlayer and SendToPlayerList: a worker that has heard of a player has somebody to
\* reply to.
LEMMA WorkerPostsStep ==
    ASSUME MessageInv, NEW s \in Cpp, NEW us \in SUBSET Players, NEW n \in Payloads \ {0},
           WorkerPosts(s, us, n)
    PROVE  MessageInv'
<1> USE DEF MessageInv
<1> PICK m : m = [to |-> us, payload |-> n]
  OBVIOUS
<1>0. s \in Services /\ m.to = us /\ m.payload = n
  BY DEF Services
<1>1. us # {} /\ us \subseteq audience[s] /\ posted' = Append(posted, m)
      /\ UNCHANGED <<othersThanWorkers, toWorker, replyTo, audience, ran>>
  BY DEF WorkerPosts
<1>2. replyTo[s] = Gateway
  BY <1>0, <1>1 DEF WorkersOK
<1>3. m \in Post(asked)
  <2>1. IsFiniteSet(us)
    BY <1>0, <1>1, FS_Subset DEF WorkersOK
  <2>2. \A p \in us : Known(asked, p)
    BY <1>0, <1>1 DEF WorkersOK
  <2>3. m \in [to : SUBSET Players, payload : Nat]
    BY MessageAssumption
  <2> QED
    BY <1>0, <1>1, <2>1, <2>2, <2>3 DEF Post
<1>4. Len(posted') = Len(posted) + 1
  BY <1>1, <1>3, AppendProperties DEF PlayersOK
<1>5. PICK b : b = PostedBody(m, Len(posted) + 1)
  OBVIOUS
<1>6. ReplyBody(us, n, Len(posted')) = b
  BY <1>0, <1>4, <1>5 DEF PostedBody
<1>7. fromWorker' = [fromWorker EXCEPT ![s] = Append(@, FromWorker(Reply, Wrap(<<b>>, Gateway)))]
      /\ fault' = fault
  BY <1>2, <1>6, NobodyAssumption DEF WorkerPosts
<1>8. FromWorker(Reply, Wrap(<<b>>, Gateway)) = Back(b)
  BY <1>3, <1>5, BodiesUnchanged, BrokerPassesBack
<1>9. fromWorker' = [fromWorker EXCEPT ![s] = Append(@, Back(PostedBody(m, Len(posted) + 1)))]
  BY <1>5, <1>7, <1>8
<1>10. WorkersOK'
  BY <1>1, <1>7 DEF WorkersOK, Known, othersThanWorkers
<1> QED
  BY <1>0, <1>1, <1>3, <1>9, <1>10, PostStep

\* The Python worker answers whoever asked.
LEMMA PythonAnswersStep ==
    ASSUME MessageInv, NEW s \in Services, NEW n \in Payloads \ {0}, PythonAnswers(s, n)
    PROVE  MessageInv'
<1> USE DEF MessageInv
<1> PICK m : m = [to |-> audience[s], payload |-> n]
  OBVIOUS
<1>0. m.to = audience[s] /\ m.payload = n
  OBVIOUS
<1>1. /\ audience[s] # {} /\ posted' = Append(posted, m)
      /\ audience' = [audience EXCEPT ![s] = {}]
      /\ UNCHANGED <<othersThanWorkers, toWorker, replyTo, ran>> /\ fault' = fault
  BY DEF PythonAnswers
<1>2. replyTo[s] = Gateway
  BY <1>1 DEF WorkersOK
<1>3. m \in Post(asked)
  BY <1>0, <1>1, MessageAssumption DEF WorkersOK, Post
<1>4. Len(posted') = Len(posted) + 1
  BY <1>1, <1>3, AppendProperties DEF PlayersOK
<1>5. PICK b : b = PostedBody(m, Len(posted) + 1)
  OBVIOUS
<1>6. ReplyBody(audience[s], n, Len(posted')) = b
  BY <1>0, <1>4, <1>5 DEF PostedBody
<1>7. fromWorker' = [fromWorker EXCEPT ![s] = Append(@, FromPython(Reply, Wrap(<<b>>, Gateway)))]
  BY <1>2, <1>6 DEF PythonAnswers
<1>8. FromPython(Reply, Wrap(<<b>>, Gateway)) = Back(b)
  BY <1>3, <1>5, BodiesUnchanged, BrokerPassesBack
<1>9. fromWorker' = [fromWorker EXCEPT ![s] = Append(@, Back(PostedBody(m, Len(posted) + 1)))]
  BY <1>5, <1>7, <1>8
<1>10. WorkersOK'
  <2>1. IsFiniteSet({})
    BY FS_EmptySet
  <2> QED
    BY <1>1, <2>1 DEF WorkersOK, Known, othersThanWorkers
<1> QED
  BY <1>1, <1>3, <1>9, <1>10, PostStep

\* The Python worker reads: a heartbeat, or a request, which ends it or runs.
LEMMA PythonReadsStep ==
    ASSUME MessageInv, NEW s \in Services \ Cpp, PythonReads(s)
    PROVE  MessageInv'
<1> USE DEF MessageInv
<1> PICK x : x = Head(toWorker[s])
  OBVIOUS
<1>0. s \in Services /\ s = "python_service"
  BY DEF Services
<1>1. /\ toWorker[s] # <<>> /\ toWorker' = [toWorker EXCEPT ![s] = Tail(@)]
      /\ loginStatus' = loginStatus /\ toBroker' = toBroker /\ toGateway' = toGateway
      /\ received' = received /\ asked' = asked /\ posted' = posted /\ fromWorker' = fromWorker
  BY DEF PythonReads, othersThanWorkers
<1>2. x \in DownMessages(asked, s) /\ Tail(toWorker[s]) \in Seq(DownMessages(asked, s))
  BY <1>0, <1>1, Elements DEF WaysOK
<1>3. /\ Framed(x) /\ x[3] = Request =>
            replyTo' = [replyTo EXCEPT ![s] = x[4]] /\ PythonProcess(s, Body(x))
      /\ Framed(x) /\ x[3] # Request =>
            replyTo' = replyTo /\ ran' = ran /\ audience' = audience /\ fault' = fault
  <2>1. CASE Framed(x) /\ x[3] = Request
    BY <2>1 DEF PythonReads
  <2>2. CASE Framed(x) /\ x[3] # Request
    BY <2>2 DEF PythonReads
  <2> QED
    BY <2>1, <2>2
<1>4. \/ /\ x = WorkerBeat /\ replyTo' = replyTo /\ ran' = ran
         /\ audience' = audience /\ fault' = fault
      \/ \E a \in Asking(asked, s) :
            /\ replyTo' = [replyTo EXCEPT ![s] = Gateway]
            /\ \/ ran' = ran /\ audience' = audience /\ fault' = fault \cup {"unpack"}
               \/ /\ ran' = ran \cup {Run(s, Handler(s, a.id), a.player, a.payload)}
                  /\ fault' = fault
                  /\ \/ audience' = [audience EXCEPT ![s] = {}]
                     \/ audience' = [audience EXCEPT ![s] = {a.player}]
  <2>1. CASE x = WorkerBeat
    <3>1. Framed(WorkerBeat) /\ WorkerBeat[3] = Beat
      BY DEF Framed, WorkerBeat
    <3> QED
      BY <1>3, <2>1, <3>1, TextsDiffer
  <2>2. ASSUME NEW a \in Asking(asked, s), x = Down(AskingBody(a))
        PROVE  /\ replyTo' = [replyTo EXCEPT ![s] = Gateway]
               /\ \/ ran' = ran /\ audience' = audience /\ fault' = fault \cup {"unpack"}
                  \/ /\ ran' = ran \cup {Run(s, Handler(s, a.id), a.player, a.payload)}
                     /\ fault' = fault
                     /\ \/ audience' = [audience EXCEPT ![s] = {}]
                        \/ audience' = [audience EXCEPT ![s] = {a.player}]
    <3> PICK f : f = AskingBody(a)
      OBVIOUS
    <3>1. Unchanged(f)
      BY AskedRead
    <3>2. Recv(Down(f)) = Down(f)
      BY <3>1, MessagesUnchanged
    <3>3. Framed(x) /\ x[3] = Request /\ x[4] = Gateway /\ Body(x) = f
      BY <2>2, <3>1, <3>2, WorkerGets
    <3>4. replyTo' = [replyTo EXCEPT ![s] = Gateway] /\ PythonProcess(s, f)
      BY <1>3, <3>3
    <3>5. f.data[2] = a.player /\ f.data[3] = a.id /\ f.data[4] = a.payload
      BY DEF AskingBody, RequestBody
    <3>6. CASE a.payload = 0
      BY <3>4, <3>5, <3>6 DEF PythonProcess
    <3>7. CASE a.payload # 0
      BY <3>4, <3>5, <3>7 DEF PythonProcess
    <3> QED
      BY <3>4, <3>6, <3>7
  <2> QED
    BY <1>0, <1>2, <2>1, <2>2, DownIs
<1>5. AsAsked'
  <2>1. CASE ran' = ran
    BY <1>1, <2>1 DEF AsAsked
  <2>2. ASSUME NEW a \in Asking(asked, s),
               ran' = ran \cup {Run(s, Handler(s, a.id), a.player, a.payload)}
        PROVE  AsAsked'
    <3>1. a.id \in Nat
      BY AskedRead
    <3>2. Handler(s, a.id) # Refused
      <4>1. Handler(s, a.id) = a.id
        BY <1>0, <3>1 DEF Handler, NameByComment
      <4> QED
        BY <3>1, <4>1 DEF Refused
    <3> QED
      BY <1>0, <1>1, <2>2, <3>2, RanAsAsked
  <2> QED
    BY <1>4, <2>1, <2>2
<1>6. PlayersOK'
  BY <1>1 DEF PlayersOK, Known
<1>7. WaysOK'
  BY <1>0, <1>1, <1>2 DEF WaysOK
<1>8. WorkersOK'
  <2>1. CASE x = WorkerBeat /\ replyTo' = replyTo /\ audience' = audience /\ fault' = fault
    BY <1>1, <2>1 DEF WorkersOK, Known
  <2>2. ASSUME NEW a \in Asking(asked, s), NEW us, us \in {{}, {a.player}, audience[s]},
               replyTo' = [replyTo EXCEPT ![s] = Gateway],
               audience' = [audience EXCEPT ![s] = us],
               fault' = fault \/ fault' = fault \cup {"unpack"}
        PROVE  WorkersOK'
    <3>1. a.player \in Players /\ Known(asked, a.player)
      BY AskedRead
    <3>2. us \subseteq Players /\ IsFiniteSet(us) /\ \A p \in us : Known(asked, p)
      <4>1. IsFiniteSet({}) /\ IsFiniteSet({a.player})
        BY FS_EmptySet, FS_Singleton
      <4> QED
        BY <1>0, <2>2, <3>1, <4>1 DEF WorkersOK
    <3>3. /\ replyTo' \in [Services -> {Nobody, Gateway}] /\ replyTo'[s] = Gateway
          /\ \A t \in Services : t # s => replyTo'[t] = replyTo[t]
      BY <1>0, <2>2 DEF WorkersOK
    <3>4. /\ audience' \in [Services -> SUBSET Players] /\ audience'[s] = us
          /\ \A t \in Services : t # s => audience'[t] = audience[t]
      BY <1>0, <2>2, <3>2 DEF WorkersOK
    <3>5. "assert" \notin fault'
      BY <2>2 DEF WorkersOK
    <3> QED
      BY <1>1, <3>2, <3>3, <3>4, <3>5 DEF WorkersOK, Known
  <2>3. audience = [audience EXCEPT ![s] = audience[s]]
    BY <1>0 DEF WorkersOK
  <2>4. ASSUME NEW a \in Asking(asked, s),
               replyTo' = [replyTo EXCEPT ![s] = Gateway],
               \/ audience' = audience /\ fault' = fault \cup {"unpack"}
               \/ /\ fault' = fault
                  /\ \/ audience' = [audience EXCEPT ![s] = {}]
                     \/ audience' = [audience EXCEPT ![s] = {a.player}]
        PROVE  WorkersOK'
    BY <2>2, <2>3, <2>4
  <2> QED
    BY <1>4, <2>1, <2>4
<1>9. DeliveryOK'
  BY <1>1, StillOnItsWay DEF OnItsWay
<1> QED
  BY <1>5, <1>6, <1>7, <1>8, <1>9

\* Every step keeps it.
LEMMA MessageInvStep == MessageInv /\ [MessageNext]_messageVars => MessageInv'
<1> SUFFICES ASSUME MessageInv, [MessageNext]_messageVars PROVE MessageInv'
  OBVIOUS
<1>1. ASSUME NEW p \in Players,
             \/ LogsIn(p) \/ Closes(p)
             \/ \E id \in RequestIds, n \in Payloads : ClientAsks(p, id, n)
      PROVE  MessageInv'
  BY <1>1, ClientSteps
<1>2. CASE GatewayBeats
  BY <1>2, GatewayBeatsStep
<1>3. CASE GatewayReads
  BY <1>3, GatewayReadsStep
<1>4. CASE BrokerReadsClient
  BY <1>4, BrokerReadsClientStep
<1>5. CASE BrokerBeats
  BY <1>5, BrokerBeatsStep
<1>6. ASSUME NEW s \in Services, BrokerReadsWorker(s) PROVE MessageInv'
  BY <1>6, BrokerReadsWorkerStep
<1>7. ASSUME NEW s \in Services, WorkerStarts(s) \/ WorkerBeats(s) PROVE MessageInv'
  BY <1>7, WorkerBeatsStep
<1>8. ASSUME NEW s \in Cpp, WorkerReads(s) PROVE MessageInv'
  BY <1>8, WorkerReadsStep
<1>9. ASSUME NEW s \in Cpp, NEW us \in SUBSET Players, NEW n \in Payloads \ {0},
             WorkerPosts(s, us, n)
      PROVE  MessageInv'
  BY <1>9, WorkerPostsStep
<1>10. ASSUME NEW s \in Services \ Cpp, PythonReads(s) PROVE MessageInv'
  BY <1>10, PythonReadsStep
<1>11. ASSUME NEW s \in Services \ Cpp, NEW n \in Payloads \ {0}, PythonAnswers(s, n)
       PROVE  MessageInv'
  BY <1>11, PythonAnswersStep
<1>12. CASE UNCHANGED messageVars
  <2>1. /\ toWorker' = toWorker /\ toGateway' = toGateway /\ loginStatus' = loginStatus
        /\ toBroker' = toBroker /\ received' = received /\ asked' = asked /\ ran' = ran
        /\ fromWorker' = fromWorker /\ replyTo' = replyTo /\ audience' = audience
        /\ posted' = posted /\ fault' = fault
    BY <1>12 DEF messageVars, channels, history
  <2>2. PlayersOK' /\ WaysOK' /\ WorkersOK' /\ AsAsked'
    BY <2>1 DEF MessageInv, PlayersOK, WaysOK, WorkersOK, AsAsked, Known
  <2>3. DeliveryOK'
    BY <2>1, StillOnItsWay DEF MessageInv, OnItsWay
  <2> QED
    BY <2>2, <2>3 DEF MessageInv
<1> QED
  BY <1>1, <1>2, <1>3, <1>4, <1>5, <1>6, <1>7, <1>8, <1>9, <1>10, <1>11, <1>12 DEF MessageNext

\* A handler runs for a request its player has made, with its payload, in the service of its
\* id and as the handler written for it, but for the two places of the world map's table:
\* for any players, requests, payloads and bounds.
THEOREM HandledAsAsked == MessageSpec => []AsAsked
<1>1. MessageInv => AsAsked
  BY DEF MessageInv
<1> QED
  BY <1>1, MessageInitially, MessageInvStep, PTL DEF MessageSpec

\* What a connection sends a player is what a worker posted for him; once nothing is under
\* way each player it was posted for has it, unless he has gone; no assertion on the frames
\* of a message fails.
THEOREM PostedIsDelivered == MessageSpec => []ToWhomPosted
<1>1. MessageInv => ToWhomPosted
  BY NothingUnderWay DEF MessageInv, WorkersOK, DeliveryOK, Received, ToWhomPosted
<1> QED
  BY <1>1, MessageInitially, MessageInvStep, PTL DEF MessageSpec
=============================================================================

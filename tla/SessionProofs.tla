---------------------------- MODULE SessionProofs ----------------------------
(***************************************************************************)
(* The two halves of a connection stay together: the ids are those of the  *)
(* id generator, a session outlives its asynchronous operations, messages  *)
(* arrive once and in order although ids are reused, and Close flushes.    *)
(* For any number of connections, I/O threads, ids, messages and calls.    *)
(***************************************************************************)
EXTENDS Session, SequenceTheorems, FiniteSetTheorems, TLAPS

IdP == INSTANCE IdGeneratorProofs WITH live <- Live

-----------------------------------------------------------------------------
(* The inductive invariant.                                                *)

Msg   == Sessions \X Nat
Lists == Seq(Msg) \ {<<>>}

MainTasks ==
    [op : {"pack_out"}, s : Sessions]
    \cup [op : {"to_handler"}, s : Sessions, msgs : Lists]
    \cup [op : {"on_close"}, id : Ids]

IoTasks ==
    [op : {"init"}, s : Sessions, id : Ids]
    \cup [op : {"to_session"}, id : Ids \cup {Invalid}, msgs : Lists]
    \cup [op : {"close"}, id : Ids]
    \cup [op : {"pack_in"}, s : Sessions]
    \cup [op : {"read"}, s : Sessions, res : {"length", "zero", "body", "error"}]
    \cup [op : {"write"}, s : Sessions, res : {"ok", "error"}]

Phase == {"no", "armed", "done"}

TaskTypes == mainQ \in Seq(MainTasks) /\ ioQ \in [Threads -> Seq(IoTasks)]

MainTypes ==
    /\ handlerMap \in [Ids -> Sessions \cup {None}]
    /\ handlerId \in [Sessions -> Ids \cup {Invalid}]
    /\ outbox \in [Sessions -> Seq(Msg)]

IoTypes ==
    /\ queue \in [Threads -> [Ids -> Sessions \cup {None}]]
    /\ id \in [Sessions -> Ids \cup {Invalid}]
    /\ closed \in [Sessions -> BOOLEAN]
    /\ handlers \in [Sessions -> Int]
    /\ reading \in [Sessions -> Phase] /\ writing \in [Sessions -> Phase]
    /\ header \in [Sessions -> {"none", "length", "zero", "body", "error"}]
    /\ received \in [Sessions -> Seq(Msg)]
    /\ toBeSent \in [Sessions -> Seq(Msg)]
    /\ sending \in [Sessions -> Seq(Msg)]
    /\ socket \in [Sessions -> {"new", "open", "closed"}]

SeenTypes ==
    /\ peer \in [Sessions -> {"up", "gone"}]
    /\ arrived \in [Sessions -> Nat] /\ owed \in [Sessions -> Nat]
    /\ sent \in [Sessions -> Seq(Msg)]
    /\ written \in [Sessions -> Seq(Msg)]
    /\ delivered \in [Sessions -> Seq(Msg)]
    /\ closeCalls \in [Sessions -> Nat] /\ onClosed \in [Sessions -> Nat]

TypeOK == TaskTypes /\ MainTypes /\ IoTypes /\ SeenTypes

\* The task queue of the I/O thread of s.
Q(s) == ioQ[ThreadOf[s]]

\* handlerMap and handlerId are each other's inverse.
MapInv ==
    /\ \A n \in Ids : handlerMap[n] # None => handlerId[handlerMap[n]] = n
    /\ \A s \in Sessions : handlerId[s] # Invalid =>
          handlerMap[handlerId[s]] = s /\ onClosed[s] = 0

\* A session in a session queue has its own id there, and a handler with that id.
QueueInv ==
    \A t \in Threads, n \in Ids : queue[t][n] # None =>
        /\ ThreadOf[queue[t][n]] = t /\ id[queue[t][n]] = n
        /\ handlerId[queue[t][n]] = n /\ socket[queue[t][n]] = "open"

Untouched(s) ==
    /\ reading[s] = "no" /\ writing[s] = "no" /\ ~closed[s]
    /\ received[s] = <<>> /\ toBeSent[s] = <<>> /\ sending[s] = <<>>
    /\ written[s] = <<>> /\ delivered[s] = <<>> /\ arrived[s] = 0

\* The life of a connection: no half before Accept, the handler before the session,
\* the handler gone only after the socket was closed.
LifeOf(s) ==
    /\ socket[s] = "new" =>
          id[s] = Invalid /\ handlerId[s] = Invalid /\ onClosed[s] = 0
    /\ id[s] = Invalid => Untouched(s)
    /\ id[s] = Invalid /\ handlerId[s] = Invalid =>
          sent[s] = <<>> /\ outbox[s] = <<>> /\ owed[s] = 0 /\ closeCalls[s] = 0
    /\ id[s] # Invalid => handlerId[s] \in {Invalid, id[s]}
    /\ id[s] # Invalid /\ handlerId[s] = Invalid => socket[s] = "closed"
    /\ id[s] # Invalid /\ socket[s] = "closed" => closed[s]
LifeInv == \A s \in Sessions : LifeOf(s)

\* A posted Init is the first the session hears of its id, and it hears it once.
InitInv ==
    \A t \in Threads : \A k \in 1 .. Len(ioQ[t]) : ioQ[t][k].op = "init" =>
        /\ ThreadOf[ioQ[t][k].s] = t /\ id[ioQ[t][k].s] = Invalid
        /\ handlerId[ioQ[t][k].s] = ioQ[t][k].id /\ socket[ioQ[t][k].s] = "open"
        /\ \A j \in 1 .. Len(ioQ[t]) :
             ioQ[t][j].op = "init" /\ ioQ[t][j].s = ioQ[t][k].s => j = k

\* One completion at most is queued for the read, and one for the write, of a session.
OpsInv ==
    \A t \in Threads : \A k \in 1 .. Len(ioQ[t]) : ioQ[t][k].op \in {"read", "write"} =>
        /\ ThreadOf[ioQ[t][k].s] = t
        /\ ioQ[t][k].res = "error" => peer[ioQ[t][k].s] = "gone"
        /\ ioQ[t][k].op = "read" => reading[ioQ[t][k].s] = "done"
        /\ ioQ[t][k].op = "write" => writing[ioQ[t][k].s] = "done"
        /\ \A j \in 1 .. Len(ioQ[t]) :
             ioQ[t][j].op = ioQ[t][k].op /\ ioQ[t][j].s = ioQ[t][k].s => j = k

InitAt(s, k) == Q(s)[k].op = "init" /\ Q(s)[k].s = s

\* An open handler's session is in its session queue, or about to be.
OpenOf(s) ==
    handlerId[s] # Invalid /\ ~closed[s] =>
        \/ \E k \in 1 .. Len(Q(s)) : InitAt(s, k)
        \/ queue[ThreadOf[s]][handlerId[s]] = s
OpenInv == \A s \in Sessions : OpenOf(s)

\* OnSessionClose is posted once, by a session that has closed its socket.
EndInv ==
    \A k \in 1 .. Len(mainQ) : mainQ[k].op = "on_close" =>
        /\ handlerMap[mainQ[k].id] # None
        /\ id[handlerMap[mainQ[k].id]] = mainQ[k].id
        /\ socket[handlerMap[mainQ[k].id]] = "closed"
        /\ \A j \in 1 .. Len(mainQ) :
             mainQ[j].op = "on_close" /\ mainQ[j].id = mainQ[k].id => j = k

One(phase) == IF phase = "no" THEN 0 ELSE 1

\* num_handlers_ counts, and the session queue holds, what is outstanding.
CountOf(s) ==
    /\ handlers[s] = One(reading[s]) + One(writing[s])
    /\ reading[s] # "no" \/ writing[s] # "no" => queue[ThreadOf[s]][id[s]] = s
CountInv == \A s \in Sessions : CountOf(s)

\* A write is outstanding while buffer_sending_ is not empty, except after an error.
WriteOf(s) ==
    /\ sending[s] = <<>> => toBeSent[s] = <<>> /\ writing[s] = "no"
    /\ sending[s] # <<>> /\ (~closed[s] \/ peer[s] = "up") => writing[s] # "no"
WriteInv == \A s \in Sessions : WriteOf(s)

\* When the k-th task of its thread runs, s has been in the session queue.
Homed(s, k) ==
    \/ queue[ThreadOf[s]][handlerId[s]] = s
    \/ \E j \in 1 .. k - 1 : InitAt(s, j)

\* What a handler posts reaches its own session, and a session gets nothing else.
DestOf(s) ==
    \A k \in 1 .. Len(Q(s)) : Q(s)[k].op = "to_session" =>
        /\ socket[s] = "new" => Q(s)[k].msgs[1][1] # s
        /\ handlerId[s] # Invalid =>
             /\ Q(s)[k].msgs[1][1] = s =>
                  /\ Q(s)[k].id = handlerId[s]
                  /\ \A j \in 1 .. Len(Q(s)) : InitAt(s, j) => j < k
             /\ Q(s)[k].id = handlerId[s] /\ Homed(s, k) => Q(s)[k].msgs[1][1] = s
DestInv == \A s \in Sessions : DestOf(s)

\* q has the messages of s after the first n.
Numbered(q, s, n) == \A i \in 1 .. Len(q) : q[i] = <<s, n + i>>

\* Taken over by the session.
Taken(s) == Len(written[s]) + Len(sending[s]) + Len(toBeSent[s])

OutOf(s) ==
    /\ Numbered(sent[s], s, 0)
    /\ Len(outbox[s]) <= Len(sent[s])
    /\ Numbered(outbox[s], s, Len(sent[s]) - Len(outbox[s]))
    /\ Numbered(written[s], s, 0)
    /\ Numbered(sending[s], s, Len(written[s]))
    /\ Numbered(toBeSent[s], s, Len(written[s]) + Len(sending[s]))
    /\ Taken(s) <= Len(sent[s])
OutInv == \A s \in Sessions : OutOf(s)

\* A posted list of messages of s.
Carries(task, s) ==
    task.op \in {"to_session", "to_handler"} /\ task.msgs[1][1] = s

Load(task, s) == IF Carries(task, s) THEN Len(task.msgs) ELSE 0

\* The lists of s in the task queue q continue each other: with the first lo messages
\* before them they come to hi; before a task in M at least m have come.
ChainBy(at, s, q, lo, hi, M, m) ==
    /\ at \in [1 .. Len(q) + 1 -> Nat]
    /\ at[1] = lo /\ at[Len(q) + 1] = hi
    /\ \A k \in 1 .. Len(q) :
         /\ at[k + 1] = at[k] + Load(q[k], s)
         /\ Carries(q[k], s) => Numbered(q[k].msgs, s, at[k])
         /\ at[k] <= hi
         /\ k \in M => at[k] >= m

Chain(s, q, lo, hi, M, m) == \E at : ChainBy(at, s, q, lo, hi, M, m)

\* The calls of Close that will reach s.
CloseMarks(s) ==
    {k \in 1 .. Len(Q(s)) :
        Q(s)[k].op = "close" /\ Q(s)[k].id = handlerId[s] /\ Homed(s, k)}

\* From the handler to the session nothing is lost while the session is open, and a
\* Close comes after what was sent before it.
FlowOutOf(s) ==
    handlerId[s] # Invalid =>
        /\ ~closed[s] =>
             Chain(s, Q(s), Taken(s), Len(sent[s]) - Len(outbox[s]),
                   CloseMarks(s), owed[s])
        /\ CloseMarks(s) # {} => closeCalls[s] > 0
FlowOut == \A s \in Sessions : FlowOutOf(s)

OwedOf(s) ==
    /\ owed[s] <= Len(sent[s])
    /\ closed[s] /\ peer[s] = "up" => closeCalls[s] > 0 /\ Taken(s) >= owed[s]
OwedInv == \A s \in Sessions : OwedOf(s)

\* Messages wait in messages_received_ only while PackMessageList is posted, which
\* runs before the next read completes.
RecvOf(s) ==
    /\ Len(received[s]) <= arrived[s]
    /\ Numbered(received[s], s, arrived[s] - Len(received[s]))
    /\ received[s] # <<>> =>
        /\ reading[s] # "no"
        /\ \E k \in 1 .. Len(Q(s)) :
             /\ Q(s)[k].op = "pack_in" /\ Q(s)[k].s = s
             /\ \A j \in 1 .. Len(Q(s)) :
                  Q(s)[j].op = "read" /\ Q(s)[j].s = s => k < j
RecvInv == \A s \in Sessions : RecvOf(s)

\* Messages for a handler come while it is registered, before OnSessionClose.
ToHandlerInv ==
    \A k \in 1 .. Len(mainQ) : mainQ[k].op = "to_handler" =>
        /\ id[mainQ[k].s] # Invalid /\ handlerMap[id[mainQ[k].s]] = mainQ[k].s
        /\ mainQ[k].msgs[1][1] = mainQ[k].s
        /\ \A j \in 1 .. Len(mainQ) :
             mainQ[j].op = "on_close" /\ mainQ[j].id = id[mainQ[k].s] => k < j

EndMarks(s) ==
    {k \in 1 .. Len(mainQ) : mainQ[k].op = "on_close" /\ mainQ[k].id = handlerId[s]}

\* From the session to the handler nothing is lost until OnSessionClose, and all has
\* come before it.
FlowInOf(s) ==
    handlerId[s] # Invalid =>
        Chain(s, mainQ, Len(delivered[s]), arrived[s] - Len(received[s]),
              EndMarks(s), arrived[s])
FlowIn == \A s \in Sessions : FlowInOf(s)

DeliveredOf(s) ==
    /\ Numbered(delivered[s], s, 0) /\ Len(delivered[s]) <= arrived[s]
    /\ onClosed[s] \in {0, 1}
    /\ onClosed[s] = 1 => Len(delivered[s]) = arrived[s]
DeliveredInv == \A s \in Sessions : DeliveredOf(s)

\* Who is whose, and in which state.
HalvesInv ==
    /\ IdP!IInv /\ MapInv /\ QueueInv /\ LifeInv /\ InitInv /\ OpsInv /\ OpenInv
    /\ EndInv /\ CountInv /\ WriteInv

\* Where the messages are.
FlowInv ==
    /\ DestInv /\ OutInv /\ FlowOut /\ OwedInv
    /\ RecvInv /\ ToHandlerInv /\ FlowIn /\ DeliveredInv

IInv == TypeOK /\ HalvesInv /\ FlowInv

-----------------------------------------------------------------------------
(* Task queues.                                                            *)

\* r is q without its first d tasks and with tasks of N at its end.
Slid(q, r, d, N) ==
    /\ \A k \in 1 .. Len(r) :
         \/ k + d \in 1 .. Len(q) /\ r[k] = q[k + d]
         \/ k + d > Len(q) /\ r[k] \in N
    /\ \A k \in 1 .. Len(q) : k > d => k - d \in 1 .. Len(r) /\ r[k - d] = q[k]

\* A task taken off a queue.
LEMMA TakeSlides ==
    ASSUME NEW S, NEW q \in Seq(S), q # <<>>
    PROVE  /\ Tail(q) \in Seq(S) /\ Len(q) \in Nat \ {0} /\ Len(Tail(q)) = Len(q) - 1
           /\ Head(q) = q[1] /\ q[1] \in S /\ 1 \in 1 .. Len(q)
           /\ \A k \in 1 .. Len(Tail(q)) : Tail(q)[k] = q[k + 1]
           /\ Slid(q, Tail(q), 1, {})
<1>1. /\ Tail(q) \in Seq(S) /\ Len(Tail(q)) = Len(q) - 1 /\ Head(q) = q[1]
      /\ \A k \in 1 .. Len(Tail(q)) : Tail(q)[k] = q[k + 1]
      /\ Head(q) \in S /\ Len(q) \in Nat
  BY HeadTailProperties
<1>2. Len(q) # 0 /\ 1 \in 1 .. Len(q)
  BY <1>1, EmptySeq
<1>3. Slid(q, Tail(q), 1, {})
  BY <1>1, <1>2 DEF Slid
<1> QED
  BY <1>1, <1>2, <1>3

\* Tasks posted to a queue.
LEMMA PostSlides ==
    ASSUME NEW S, NEW q \in Seq(S), NEW r \in Seq(S), NEW N,
           \A k \in 1 .. Len(r) : r[k] \in N
    PROVE  /\ q \o r \in Seq(S) /\ Len(q \o r) = Len(q) + Len(r)
           /\ Slid(q, q \o r, 0, N)
<1>1. q \o r \in Seq(S) /\ Len(q \o r) = Len(q) + Len(r) /\ Len(q) \in Nat /\ Len(r) \in Nat
  BY ConcatProperties, LenProperties
<1>2. /\ \A k \in 1 .. Len(q) : (q \o r)[k] = q[k]
      /\ \A k \in 1 .. Len(q) + Len(r) : k > Len(q) => (q \o r)[k] = r[k - Len(q)]
  BY ConcatProperties
<1>3. ASSUME NEW k \in 1 .. Len(q \o r)
      PROVE  \/ k + 0 \in 1 .. Len(q) /\ (q \o r)[k] = q[k + 0]
             \/ k + 0 > Len(q) /\ (q \o r)[k] \in N
  <2>1. k \in Int /\ k + 0 = k
    OBVIOUS
  <2>2. CASE k > Len(q)
    <3>1. k - Len(q) \in 1 .. Len(r) /\ (q \o r)[k] = r[k - Len(q)]
      BY <1>1, <1>2, <2>2
    <3> QED
      BY <2>1, <2>2, <3>1
  <2>3. CASE ~(k > Len(q))
    BY <1>1, <1>2, <2>1, <2>3
  <2> QED
    BY <2>2, <2>3
<1>4. ASSUME NEW k \in 1 .. Len(q), k > 0
      PROVE  k - 0 \in 1 .. Len(q \o r) /\ (q \o r)[k - 0] = q[k]
  BY <1>1, <1>2
<1> QED
  BY <1>1, <1>3, <1>4 DEF Slid

\* A task posted at the end of a queue.
LEMMA AppendSlides ==
    ASSUME NEW S, NEW q \in Seq(S), NEW e \in S
    PROVE  /\ Append(q, e) \in Seq(S) /\ Len(Append(q, e)) = Len(q) + 1
           /\ Len(q) \in Nat /\ Append(q, e)[Len(q) + 1] = e
           /\ \A k \in 1 .. Len(q) : Append(q, e)[k] = q[k]
           /\ Slid(q, Append(q, e), 0, {e})
<1>1. /\ Append(q, e) \in Seq(S) /\ Len(Append(q, e)) = Len(q) + 1
      /\ Len(q) \in Nat /\ Append(q, e)[Len(q) + 1] = e
      /\ \A k \in 1 .. Len(q) : Append(q, e)[k] = q[k]
  BY AppendProperties, LenProperties
<1>2. \A k \in 1 .. Len(Append(q, e)) :
         \/ k + 0 \in 1 .. Len(q) /\ Append(q, e)[k] = q[k + 0]
         \/ k + 0 > Len(q) /\ Append(q, e)[k] \in {e}
  BY <1>1
<1>3. \A k \in 1 .. Len(q) : k > 0 =>
         k - 0 \in 1 .. Len(Append(q, e)) /\ Append(q, e)[k - 0] = q[k]
  BY <1>1
<1> QED
  BY <1>1, <1>2, <1>3 DEF Slid

\* A queue that nothing is posted to or taken off.
LEMMA StaysSlid ==
    ASSUME NEW S, NEW q \in Seq(S), NEW N
    PROVE  Slid(q, q, 0, N)
<1>1. Len(q) \in Nat
  BY LenProperties
<1> QED
  BY <1>1 DEF Slid

\* What a task has besides its operation.
LEMMA TaskFields ==
    /\ \A e \in MainTasks :
         /\ e.op \in {"pack_out", "to_handler", "on_close"}
         /\ e.op = "pack_out" => e.s \in Sessions
         /\ e.op = "to_handler" => e.s \in Sessions /\ e.msgs \in Lists
         /\ e.op = "on_close" => e.id \in Ids
    /\ \A e \in IoTasks :
         /\ e.op \in {"init", "to_session", "close", "pack_in", "read", "write"}
         /\ e.op = "init" => e.s \in Sessions /\ e.id \in Ids
         /\ e.op = "to_session" => e.id \in Ids \cup {Invalid} /\ e.msgs \in Lists
         /\ e.op = "close" => e.id \in Ids
         /\ e.op = "pack_in" => e.s \in Sessions
         /\ e.op = "read" =>
              e.s \in Sessions /\ e.res \in {"length", "zero", "body", "error"}
         /\ e.op = "write" => e.s \in Sessions /\ e.res \in {"ok", "error"}
  BY DEF MainTasks, IoTasks

\* What the threads post has the type of a task.
LEMMA NewTasks ==
    /\ \A s \in Sessions :
         /\ PackOut(s) \in MainTasks /\ PackIn(s) \in IoTasks
         /\ \A ms \in Lists : ToHandler(s, ms) \in MainTasks
         /\ \A n \in Ids : InitSession(s, n) \in IoTasks
         /\ \A res \in {"length", "zero", "body", "error"} : ReadDone(s, res) \in IoTasks
         /\ \A res \in {"ok", "error"} : WriteDone(s, res) \in IoTasks
    /\ \A n \in Ids : OnSessionClose(n) \in MainTasks /\ CloseSession(n) \in IoTasks
    /\ \A n \in Ids \cup {Invalid}, ms \in Lists : ToSession(n, ms) \in IoTasks
  BY DEF PackOut, PackIn, ToHandler, InitSession, ReadDone, WriteDone, OnSessionClose,
         CloseSession, ToSession, MainTasks, IoTasks

\* A thread takes a task off its queue, or gets tasks.
LEMMA IoTook ==
    ASSUME TypeOK, NEW t \in Threads, ioQ[t] # <<>>, ioQ' = Took(t)
    PROVE  /\ ioQ' \in [Threads -> Seq(IoTasks)]
           /\ ioQ'[t] = Tail(ioQ[t]) /\ Head(ioQ[t]) = ioQ[t][1]
           /\ ioQ[t][1] \in IoTasks /\ 1 \in 1 .. Len(ioQ[t])
           /\ Len(ioQ[t]) \in Nat /\ Len(ioQ'[t]) = Len(ioQ[t]) - 1
           /\ Slid(ioQ[t], ioQ'[t], 1, {})
           /\ \A u \in Threads : u # t => ioQ'[u] = ioQ[u]
<1>1. ioQ \in [Threads -> Seq(IoTasks)] /\ ioQ[t] \in Seq(IoTasks)
  BY DEF TypeOK, TaskTypes
<1>2. /\ Tail(ioQ[t]) \in Seq(IoTasks) /\ Len(ioQ[t]) \in Nat
      /\ Len(Tail(ioQ[t])) = Len(ioQ[t]) - 1
      /\ Head(ioQ[t]) = ioQ[t][1] /\ ioQ[t][1] \in IoTasks /\ 1 \in 1 .. Len(ioQ[t])
      /\ Slid(ioQ[t], Tail(ioQ[t]), 1, {})
  BY <1>1, TakeSlides
<1>3. ioQ' = [ioQ EXCEPT ![t] = Tail(@)]
  BY DEF Took
<1>4. ioQ'[t] = Tail(ioQ[t]) /\ \A u \in Threads : u # t => ioQ'[u] = ioQ[u]
  BY <1>1, <1>3
<1>5. ioQ' \in [Threads -> Seq(IoTasks)]
  BY <1>1, <1>2, <1>3
<1> QED
  BY <1>2, <1>4, <1>5

\* PostTo appends tasks to the queue of one I/O thread and to no other.
LEMMA IoPosted ==
    ASSUME TypeOK, NEW t \in Threads, NEW r \in Seq(IoTasks), PostTo(t, r),
           NEW N, \A k \in 1 .. Len(r) : r[k] \in N
    PROVE  /\ ioQ' \in [Threads -> Seq(IoTasks)] /\ ioQ'[t] = ioQ[t] \o r
           /\ Len(ioQ[t]) \in Nat /\ Len(ioQ'[t]) = Len(ioQ[t]) + Len(r)
           /\ Slid(ioQ[t], ioQ'[t], 0, N)
           /\ \A u \in Threads : u # t => ioQ'[u] = ioQ[u]
<1>1. ioQ \in [Threads -> Seq(IoTasks)] /\ ioQ[t] \in Seq(IoTasks)
  BY DEF TypeOK, TaskTypes
<1>2. /\ ioQ[t] \o r \in Seq(IoTasks) /\ Len(ioQ[t] \o r) = Len(ioQ[t]) + Len(r)
      /\ Slid(ioQ[t], ioQ[t] \o r, 0, N) /\ Len(ioQ[t]) \in Nat
  BY <1>1, PostSlides, LenProperties
<1>3. ioQ' = [ioQ EXCEPT ![t] = @ \o r]
  BY DEF PostTo
<1>4. ioQ'[t] = ioQ[t] \o r /\ \A u \in Threads : u # t => ioQ'[u] = ioQ[u]
  BY <1>1, <1>3
<1>5. ioQ' \in [Threads -> Seq(IoTasks)]
  BY <1>1, <1>2, <1>3
<1> QED
  BY <1>2, <1>4, <1>5

\* Every thread's queue slides: the invariants about tasks need no more.
IoSlides(t, d, N) ==
    /\ Slid(ioQ[t], ioQ'[t], d, N)
    /\ \A u \in Threads : u # t => ioQ'[u] = ioQ[u]

\* PostTo with a single task.
LEMMA IoOneTask ==
    ASSUME TypeOK, NEW t \in Threads, NEW e \in IoTasks, PostTo(t, <<e>>)
    PROVE  /\ ioQ' \in [Threads -> Seq(IoTasks)] /\ ioQ'[t] = Append(ioQ[t], e)
           /\ Len(ioQ[t]) \in Nat /\ Len(ioQ'[t]) = Len(ioQ[t]) + 1
           /\ ioQ'[t][Len(ioQ[t]) + 1] = e
           /\ IoSlides(t, 0, {e})
<1>1. ioQ[t] \in Seq(IoTasks)
  BY DEF TypeOK, TaskTypes
<1>2. <<e>> \in Seq(IoTasks) /\ Len(<<e>>) = 1 /\ \A k \in 1 .. 1 : <<e>>[k] \in {e}
  OBVIOUS
<1>3. /\ ioQ' \in [Threads -> Seq(IoTasks)] /\ ioQ'[t] = ioQ[t] \o <<e>>
      /\ Len(ioQ[t]) \in Nat /\ Len(ioQ'[t]) = Len(ioQ[t]) + 1
      /\ Slid(ioQ[t], ioQ'[t], 0, {e})
      /\ \A u \in Threads : u # t => ioQ'[u] = ioQ[u]
  BY <1>2, IoPosted
<1>4. ioQ[t] \o <<e>> = Append(ioQ[t], e)
  BY <1>1, AppendIsConcat
<1>5. Append(ioQ[t], e)[Len(ioQ[t]) + 1] = e
  BY <1>1, AppendProperties
<1> QED
  BY <1>3, <1>4, <1>5 DEF IoSlides

-----------------------------------------------------------------------------
(* The ids.                                                                *)

\* The sizes of Session are those that the id generator needs.
LEMMA SizesOK == IdP!IdAssumption
  BY SessionAssumption DEF IdP!IdAssumption

\* Cardinality in the instance of the id generator is the usual one.
LEMMA SameCount ==
    /\ IdP!Cardinality(Live) = Cardinality(Live)
    /\ IdP!IsFiniteSet(Live) <=> IsFiniteSet(Live)
  BY DEF Cardinality, IdP!Cardinality, IsFiniteSet, IdP!IsFiniteSet

\* The id that Get is about to hand out is one, and no handler has it.
LEMMA NextIdFresh ==
    ASSUME IdP!IInv
    PROVE  NextId \in Ids /\ NextId \notin Live /\ handlerMap[NextId] = None
<1>1. /\ next \in 1 .. MaxId /\ next \notin Live
      /\ pool \in Seq(1 .. MaxId) /\ \A i \in DOMAIN pool : pool[i] \notin Live
  BY DEF IdP!IInv, IdP!TypeOK, IdP!FreshId
<1>2. CASE PoolReady
  <2>1. pool # <<>>
    BY <1>2, SessionAssumption DEF PoolReady
  <2>2. Head(pool) = pool[1] /\ 1 \in 1 .. Len(pool) /\ pool[1] \in 1 .. MaxId
    BY <1>1, <2>1, TakeSlides
  <2>3. 1 \in DOMAIN pool
    BY <1>1, <2>2, LenProperties
  <2> QED
    BY <1>1, <1>2, <2>2, <2>3 DEF NextId, Ids, Live
<1>3. CASE ~PoolReady
  BY <1>1, <1>3 DEF NextId, Ids, Live
<1> QED
  BY <1>2, <1>3

Refused(s) == s \in Blocked \/ Cardinality(Live) > MaxConnections

\* An accepted connection is a Connect of the id generator.
LEMMA AcceptConnects ==
    ASSUME TypeOK, IdP!IInv, NEW s \in Sessions, Accept(s), ~Refused(s)
    PROVE  IdP!Connect
<1>1. NextId \in Ids /\ handlerMap[NextId] = None
  BY NextIdFresh
<1>2. handlerMap' = [handlerMap EXCEPT ![NextId] = s]
  BY DEF Accept, Refused
<1>3. Live' = Live \cup {NextId}
  <2>1. s # None
    BY SessionAssumption
  <2> QED
    BY <1>1, <1>2, <2>1 DEF Live, TypeOK, MainTypes
<1>4. Cardinality(Live) <= MaxConnections
  <2>1. Cardinality(Live) \in Nat
    BY FS_CardinalityType, SameCount DEF IdP!IInv
  <2> QED
    BY <2>1, SessionAssumption DEF Refused
<1> QED
  BY <1>3, <1>4, SameCount DEF Accept, Refused, IdP!Connect, NextId, PoolReady

\* OnSessionClose of a registered id is a Close of the id generator.
LEMMA OnCloseCloses ==
    ASSUME TypeOK, RunOnSessionClose
    PROVE  [IdP!Next]_(IdP!vars)
<1> DEFINE n == Head(mainQ).id
<1>1. mainQ # <<>> /\ Head(mainQ).op = "on_close"
  BY DEF RunOnSessionClose, MainRuns
<1>2. n \in Ids
  <2>1. Head(mainQ) \in MainTasks
    BY <1>1, TakeSlides DEF TypeOK, TaskTypes
  <2> QED
    BY <1>1, <2>1, TaskFields
<1>3. CASE handlerMap[n] = None
  BY <1>3 DEF RunOnSessionClose, IdP!vars, Live
<1>4. CASE handlerMap[n] # None
  <2>1. /\ handlerMap' = [handlerMap EXCEPT ![n] = None]
        /\ pool' = Append(pool, n) /\ next' = next
    BY <1>4 DEF RunOnSessionClose
  <2>2. n \in Live /\ Live' = Live \ {n}
    BY <1>2, <1>4, <2>1 DEF Live, TypeOK, MainTypes
  <2> QED
    BY <2>1, <2>2 DEF IdP!Close, IdP!Next
<1> QED
  BY <1>3, <1>4

\* Every other task leaves the id generator alone.
LEMMA IdStep ==
    ASSUME TypeOK, IdP!IInv, [Next]_vars
    PROVE  [IdP!Next]_(IdP!vars)
<1> DEFINE same == UNCHANGED <<handlerMap, next, pool>>
<1>1. same => UNCHANGED IdP!vars
  BY DEF IdP!vars, Live
<1>2. ASSUME NEW s \in Sessions, Accept(s) PROVE same \/ IdP!Connect
  <2>1. CASE Refused(s)
    BY <1>2, <2>1 DEF Accept, Refused, mainVars
  <2> QED
    BY <1>2, <2>1, AcceptConnects
<1>3. ASSUME NEW s \in Sessions, Send(s) \/ Close(s) PROVE same
  BY <1>3 DEF Send, Close
<1>4. RunPackOut \/ RunToHandler => same
  BY DEF RunPackOut, RunToHandler, mainVars
<1>5. ASSUME NEW t \in Threads, IoTask(t) PROVE same
  BY <1>5 DEF IoTask, RunToSession, RunCloseSession, RunInit, RunPackIn, HandleReadClosed,
              HandleRead, HandleWriteError, HandleWrite, mainVars
<1>6. PeerNext \/ UNCHANGED vars => same
  BY DEF PeerNext, ReadCompletes, WriteCompletes, PeerGoes, mainVars, vars
<1> QED
  BY <1>1, <1>2, <1>3, <1>4, <1>5, <1>6, OnCloseCloses
     DEF Next, MainNext, MainTask, IdP!Next

\* At the start no id is live.
LEMMA IdInit == Init => IdP!Init /\ IdP!IInv
<1> SUFFICES ASSUME Init PROVE IdP!Init /\ IdP!IInv
  OBVIOUS
<1>1. IdP!Init
  BY DEF Init, IdP!Init, Live
<1> QED
  BY <1>1, SizesOK, IdP!InitIInv

\* Every step of the server keeps the id generator's invariant, as a step of it or a stutter.
LEMMA IdKeeps ==
    ASSUME TypeOK, IdP!IInv, [Next]_vars
    PROVE  IdP!IInv'
  BY IdStep, SizesOK, IdP!StepIInv

-----------------------------------------------------------------------------
(* What the actions do to the task queues, and types.                      *)

\* The other variables a handler's action touches.
LEMMA AcceptDoes ==
    ASSUME TypeOK, IdP!IInv, NEW s \in Sessions, Accept(s), ~Refused(s)
    PROVE  /\ TypeOK'
           /\ NextId \in Ids /\ handlerMap[NextId] = None
           /\ IoSlides(ThreadOf[s], 0, {InitSession(s, NextId)})
           /\ Len(Q(s)) \in Nat /\ Len(Q(s)') = Len(Q(s)) + 1
           /\ Q(s)' = Append(Q(s), InitSession(s, NextId))
           /\ Q(s)'[Len(Q(s)) + 1] = InitSession(s, NextId)
           /\ Slid(mainQ, mainQ', 0, {PackOut(s)})
<1> USE DEF Q
<1>1. NextId \in Ids /\ handlerMap[NextId] = None
  BY NextIdFresh
<1>2. ThreadOf[s] \in Threads /\ InitSession(s, NextId) \in IoTasks /\ PackOut(s) \in MainTasks
  BY <1>1, NewTasks, SessionAssumption
<1>3. PostTo(ThreadOf[s], <<InitSession(s, NextId)>>) /\ mainQ' = Append(mainQ, PackOut(s))
  BY DEF Accept, Refused
<1>4. /\ ioQ' \in [Threads -> Seq(IoTasks)]
      /\ Q(s)' = Append(Q(s), InitSession(s, NextId))
      /\ Len(Q(s)) \in Nat /\ Len(Q(s)') = Len(Q(s)) + 1
      /\ Q(s)'[Len(Q(s)) + 1] = InitSession(s, NextId)
      /\ IoSlides(ThreadOf[s], 0, {InitSession(s, NextId)})
  BY <1>2, <1>3, IoOneTask
<1>5. mainQ' \in Seq(MainTasks) /\ Slid(mainQ, mainQ', 0, {PackOut(s)})
  BY <1>2, <1>3, AppendSlides DEF TypeOK, TaskTypes
<1>6. << <<s, 1>> >> \in Seq(Msg)
  BY DEF Msg
<1>7. TypeOK'
  <2>1. TaskTypes'
    BY <1>4, <1>5 DEF TaskTypes
  <2>2. MainTypes'
    BY <1>1, <1>6 DEF Accept, Refused, TypeOK, MainTypes
  <2>3. IoTypes'
    BY DEF Accept, Refused, TypeOK, IoTypes
  <2>4. SeenTypes'
    <3>1. /\ sent' = [sent EXCEPT ![s] = << <<s, 1>> >>] /\ owed' = [owed EXCEPT ![s] = 1]
          /\ UNCHANGED <<peer, arrived, written, delivered, closeCalls, onClosed>>
      BY DEF Accept, Refused
    <3> QED
      BY <1>6, <3>1 DEF TypeOK, SeenTypes
  <2> QED
    BY <2>1, <2>2, <2>3, <2>4 DEF TypeOK
<1> QED
  BY <1>1, <1>4, <1>5, <1>7

\* A refused connection touches nothing but its socket.
LEMMA RefusedDoes ==
    ASSUME TypeOK, NEW s \in Sessions, Accept(s), Refused(s)
    PROVE  /\ TypeOK' /\ socket[s] = "new" /\ socket' = [socket EXCEPT ![s] = "closed"]
           /\ UNCHANGED <<mainQ, ioQ, mainVars, queue, id, closed, handlers, reading,
                          writing, header, received, toBeSent, sending, seen>>
<1>1. /\ socket[s] = "new" /\ socket' = [socket EXCEPT ![s] = "closed"]
      /\ UNCHANGED <<mainQ, ioQ, mainVars, queue, id, closed, handlers, reading,
                     writing, header, received, toBeSent, sending, seen>>
  BY DEF Accept, Refused
<1> QED
  BY <1>1 DEF mainVars, seen, TypeOK, TaskTypes, MainTypes, IoTypes, SeenTypes

\* TCPSessionHandler::Send appends to the handler's messages, and posts PackMessageList with the first one.
LEMMA SendDoes ==
    ASSUME TypeOK, NEW s \in Sessions, Send(s)
    PROVE  /\ TypeOK'
           /\ Slid(mainQ, mainQ', 0, {PackOut(s)})
           /\ mainQ' = mainQ \/ mainQ' = Append(mainQ, PackOut(s))
<1> DEFINE m == <<s, Len(sent[s]) + 1>>
<1>1. m \in Msg
  <2>1. sent[s] \in Seq(Msg)
    BY DEF TypeOK, SeenTypes
  <2>2. Len(sent[s]) + 1 \in Nat
    BY <2>1, LenProperties
  <2> QED
    BY <2>2 DEF Msg
<1>2. PackOut(s) \in MainTasks /\ mainQ \in Seq(MainTasks)
  BY NewTasks DEF TypeOK, TaskTypes
<1>3. mainQ' = mainQ \/ mainQ' = Append(mainQ, PackOut(s))
  BY DEF Send
<1>4. mainQ' \in Seq(MainTasks) /\ Slid(mainQ, mainQ', 0, {PackOut(s)})
  <2>1. CASE mainQ' = mainQ
    BY <1>2, <2>1, StaysSlid
  <2>2. CASE mainQ' = Append(mainQ, PackOut(s))
    BY <1>2, <2>2, AppendSlides
  <2> QED
    BY <1>3, <2>1, <2>2
<1>5. TaskTypes'
  BY <1>4 DEF Send, TypeOK, TaskTypes
<1>6. Append(outbox[s], m) \in Seq(Msg) /\ Append(sent[s], m) \in Seq(Msg)
  BY <1>1, AppendProperties DEF TypeOK, MainTypes, SeenTypes
<1>7. outbox' = [outbox EXCEPT ![s] = Append(@, m)] /\ sent' = [sent EXCEPT ![s] = Append(@, m)]
  BY DEF Send
<1>8. MainTypes'
  BY <1>6, <1>7 DEF Send, TypeOK, MainTypes
<1>9. SeenTypes'
  <2>1. /\ owed' = owed \/ owed' = [owed EXCEPT ![s] = @ + 1]
        /\ UNCHANGED <<peer, arrived, written, delivered, closeCalls, onClosed>>
    BY DEF Send
  <2>2. owed' \in [Sessions -> Nat]
    <3>1. owed \in [Sessions -> Nat] /\ owed[s] + 1 \in Nat
      BY DEF TypeOK, SeenTypes
    <3> QED
      BY <2>1, <3>1
  <2>3. sent' \in [Sessions -> Seq(Msg)]
    BY <1>6, <1>7 DEF TypeOK, SeenTypes
  <2> QED
    BY <2>1, <2>2, <2>3 DEF TypeOK, SeenTypes
<1>10. IoTypes'
  BY DEF Send, TypeOK, IoTypes, ioVars
<1> QED
  BY <1>3, <1>4, <1>5, <1>8, <1>9, <1>10 DEF TypeOK

\* The list a handler posts, if it has one.
PackedTasks(s) == {e \in {ToSession(handlerId[s], outbox[s])} : outbox[s] # <<>>}

\* The messages that a handler has gathered become one task for its session, or none.
LEMMA PackedIs ==
    ASSUME TypeOK, NEW s \in Sessions
    PROVE  /\ Packed(s) \in Seq(IoTasks)
           /\ \A k \in 1 .. Len(Packed(s)) : Packed(s)[k] \in PackedTasks(s)
           /\ outbox[s] = <<>> => Packed(s) = <<>>
           /\ outbox[s] # <<>> =>
                /\ ToSession(handlerId[s], outbox[s]) \in IoTasks
                /\ Packed(s) = <<ToSession(handlerId[s], outbox[s])>>
<1>1. CASE outbox[s] = <<>>
  <2>1. Packed(s) = <<>>
    BY <1>1 DEF Packed
  <2> QED
    BY <1>1, <2>1
<1>2. CASE outbox[s] # <<>>
  <2> DEFINE e == ToSession(handlerId[s], outbox[s])
  <2>1. Packed(s) = <<e>>
    BY <1>2 DEF Packed
  <2>2. outbox[s] \in Lists /\ handlerId[s] \in Ids \cup {Invalid}
    BY <1>2 DEF TypeOK, MainTypes, Lists
  <2>3. e \in IoTasks /\ e \in PackedTasks(s)
    BY <1>2, <2>2, NewTasks DEF PackedTasks
  <2> HIDE DEF e
  <2>4. <<e>> \in Seq(IoTasks) /\ \A k \in 1 .. Len(<<e>>) : <<e>>[k] = e
    BY <2>3
  <2> QED
    BY <1>2, <2>1, <2>3, <2>4 DEF e
<1> QED
  BY <1>1, <1>2

\* TCPSessionHandler::Close posts what was gathered and then CloseSession, in this order.
LEMMA CloseDoes ==
    ASSUME TypeOK, NEW s \in Sessions, Close(s)
    PROVE  /\ TypeOK'
           /\ handlerId[s] \in Ids /\ handlerId[s] # Invalid
           /\ CloseSession(handlerId[s]) \in IoTasks
           /\ outbox[s] # <<>> => ToSession(handlerId[s], outbox[s]) \in IoTasks
           /\ IoSlides(ThreadOf[s], 0, PackedTasks(s) \cup {CloseSession(handlerId[s])})
           /\ Q(s)' = IF outbox[s] = <<>> THEN Append(Q(s), CloseSession(handlerId[s]))
                      ELSE Append(Append(Q(s), ToSession(handlerId[s], outbox[s])),
                                  CloseSession(handlerId[s]))
<1> DEFINE c == CloseSession(handlerId[s])
           e == ToSession(handlerId[s], outbox[s])
           r == Append(Packed(s), c)
           N == PackedTasks(s) \cup {c}
<1>1. handlerId[s] \in Ids /\ handlerId[s] # Invalid
  BY DEF Close, TypeOK, MainTypes
<1>2. c \in IoTasks /\ ThreadOf[s] \in Threads
  BY <1>1, NewTasks, SessionAssumption
<1>3. PostTo(ThreadOf[s], r)
  BY DEF Close
<1>4. /\ Packed(s) \in Seq(IoTasks)
      /\ \A k \in 1 .. Len(Packed(s)) : Packed(s)[k] \in PackedTasks(s)
      /\ outbox[s] = <<>> => Packed(s) = <<>>
      /\ outbox[s] # <<>> => e \in IoTasks /\ Packed(s) = <<e>>
  BY PackedIs
<1> HIDE DEF c, e
<1>5. r \in Seq(IoTasks) /\ \A k \in 1 .. Len(r) : r[k] \in N
  <2>1. /\ r \in Seq(IoTasks) /\ Len(r) = Len(Packed(s)) + 1
        /\ Len(Packed(s)) \in Nat
        /\ r[Len(Packed(s)) + 1] = c
        /\ \A k \in 1 .. Len(Packed(s)) : r[k] = Packed(s)[k]
    BY <1>2, <1>4, AppendSlides
  <2> QED
    BY <1>4, <2>1
<1> HIDE DEF r, N
<1>6. /\ ioQ' \in [Threads -> Seq(IoTasks)] /\ ioQ'[ThreadOf[s]] = ioQ[ThreadOf[s]] \o r
      /\ IoSlides(ThreadOf[s], 0, N)
  BY <1>2, <1>3, <1>5, IoPosted DEF IoSlides
<1>7. ioQ[ThreadOf[s]] \in Seq(IoTasks)
  BY <1>2 DEF TypeOK, TaskTypes
<1>8. Q(s)' = IF outbox[s] = <<>> THEN Append(Q(s), c) ELSE Append(Append(Q(s), e), c)
  <2>1. CASE outbox[s] = <<>>
    <3>1. r = <<c>>
      BY <1>4, <2>1 DEF r
    <3> QED
      BY <1>2, <1>6, <1>7, <2>1, <3>1, AppendIsConcat DEF Q
  <2>2. CASE outbox[s] # <<>>
    <3>1. r = Append(<<e>>, c)
      BY <1>4, <2>2 DEF r
    <3>2. ioQ[ThreadOf[s]] \o Append(<<e>>, c) = Append(Append(ioQ[ThreadOf[s]], e), c)
      <4>1. e \in IoTasks
        BY <1>4, <2>2
      <4> QED
        BY <1>2, <1>7, <4>1
    <3> QED
      BY <1>6, <2>2, <3>1, <3>2 DEF Q
  <2> QED
    BY <2>1, <2>2
<1>9. TypeOK'
  <2>1. TaskTypes'
    BY <1>6 DEF Close, TypeOK, TaskTypes
  <2>2. MainTypes'
    BY DEF Close, TypeOK, MainTypes
  <2>3. IoTypes'
    BY DEF Close, TypeOK, IoTypes, ioVars
  <2>4. SeenTypes'
    BY DEF Close, TypeOK, SeenTypes
  <2> QED
    BY <2>1, <2>2, <2>3, <2>4 DEF TypeOK
<1> QED
  BY <1>1, <1>2, <1>4, <1>6, <1>8, <1>9 DEF c, e, N

\* The handler's PackMessageList posts what was gathered to the session's thread.
LEMMA PackOutDoes ==
    ASSUME TypeOK, RunPackOut, NEW s, s = Head(mainQ).s
    PROVE  /\ TypeOK'
           /\ s \in Sessions /\ mainQ[1].op = "pack_out"
           /\ Len(mainQ) \in Nat \ {0}
           /\ Slid(mainQ, mainQ', 1, {})
           /\ IoSlides(ThreadOf[s], 0, PackedTasks(s))
           /\ outbox' = [outbox EXCEPT ![s] = <<>>]
           /\ Q(s)' = IF outbox[s] = <<>> THEN Q(s)
                      ELSE Append(Q(s), ToSession(handlerId[s], outbox[s]))
           /\ outbox[s] # <<>> => ToSession(handlerId[s], outbox[s]) \in IoTasks
<1> DEFINE e == ToSession(handlerId[s], outbox[s])
<1>1. mainQ # <<>> /\ Head(mainQ).op = "pack_out" /\ mainQ' = Tail(mainQ)
  BY DEF RunPackOut, MainRuns
<1>2. /\ Tail(mainQ) \in Seq(MainTasks) /\ Slid(mainQ, Tail(mainQ), 1, {})
      /\ Head(mainQ) = mainQ[1] /\ mainQ[1] \in MainTasks /\ Len(mainQ) \in Nat \ {0}
  BY <1>1, TakeSlides DEF TypeOK, TaskTypes
<1>3. s \in Sessions /\ mainQ[1].op = "pack_out"
  BY <1>1, <1>2, TaskFields
<1>4. ThreadOf[s] \in Threads /\ PostTo(ThreadOf[s], Packed(s))
  BY <1>3, SessionAssumption DEF RunPackOut
<1>5. /\ Packed(s) \in Seq(IoTasks)
      /\ \A k \in 1 .. Len(Packed(s)) : Packed(s)[k] \in PackedTasks(s)
      /\ outbox[s] = <<>> => Packed(s) = <<>>
      /\ outbox[s] # <<>> => e \in IoTasks /\ Packed(s) = <<e>>
  BY <1>3, PackedIs
<1> HIDE DEF e
<1>6. /\ ioQ' \in [Threads -> Seq(IoTasks)]
      /\ ioQ'[ThreadOf[s]] = ioQ[ThreadOf[s]] \o Packed(s)
      /\ IoSlides(ThreadOf[s], 0, PackedTasks(s))
  BY <1>4, <1>5, IoPosted DEF IoSlides
<1>7. ioQ[ThreadOf[s]] \in Seq(IoTasks)
  BY <1>4 DEF TypeOK, TaskTypes
<1>8. Q(s)' = IF outbox[s] = <<>> THEN Q(s) ELSE Append(Q(s), e)
  <2>1. CASE outbox[s] = <<>>
    BY <1>5, <1>6, <1>7, <2>1, ConcatEmptySeq DEF Q
  <2>2. CASE outbox[s] # <<>>
    BY <1>5, <1>6, <1>7, <2>2, AppendIsConcat DEF Q
  <2> QED
    BY <2>1, <2>2
<1>9. TypeOK'
  <2>1. TaskTypes'
    BY <1>1, <1>2, <1>6 DEF TaskTypes
  <2>2. MainTypes'
    BY <1>3 DEF RunPackOut, TypeOK, MainTypes
  <2>3. IoTypes'
    BY DEF RunPackOut, TypeOK, IoTypes, ioVars
  <2>4. SeenTypes'
    BY DEF RunPackOut, TypeOK, SeenTypes, seen
  <2> QED
    BY <2>1, <2>2, <2>3, <2>4 DEF TypeOK
<1> QED
  BY <1>1, <1>2, <1>3, <1>5, <1>6, <1>8, <1>9 DEF e, RunPackOut

\* SendToHandler hands the messages to the handler that has the id, if there is one.
LEMMA ToHandlerDoes ==
    ASSUME TypeOK, RunToHandler, NEW e, e = mainQ[1]
    PROVE  /\ TypeOK'
           /\ e.op = "to_handler" /\ e.s \in Sessions /\ e.msgs \in Lists
           /\ Len(mainQ) \in Nat \ {0} /\ mainQ' = Tail(mainQ)
           /\ Slid(mainQ, mainQ', 1, {})
           /\ delivered' = IF handlerMap[id[e.s]] = None THEN delivered
                           ELSE [delivered EXCEPT ![handlerMap[id[e.s]]] = @ \o e.msgs]
<1>1. mainQ # <<>> /\ Head(mainQ).op = "to_handler" /\ mainQ' = Tail(mainQ)
  BY DEF RunToHandler, MainRuns
<1>2. /\ Tail(mainQ) \in Seq(MainTasks) /\ Slid(mainQ, Tail(mainQ), 1, {})
      /\ Head(mainQ) = e /\ e \in MainTasks /\ Len(mainQ) \in Nat \ {0}
  BY <1>1, TakeSlides DEF TypeOK, TaskTypes
<1>3. e.op = "to_handler" /\ e.s \in Sessions /\ e.msgs \in Lists
  BY <1>1, <1>2, TaskFields
<1> DEFINE h == handlerMap[id[e.s]]
<1>4. delivered' = IF h = None THEN delivered ELSE [delivered EXCEPT ![h] = @ \o e.msgs]
  BY <1>2 DEF RunToHandler
<1>5. delivered' \in [Sessions -> Seq(Msg)]
  <2>1. delivered \in [Sessions -> Seq(Msg)]
    BY DEF TypeOK, SeenTypes
  <2>2. \A q \in Seq(Msg) : q \o e.msgs \in Seq(Msg)
    BY <1>3, ConcatProperties DEF Lists
  <2> HIDE DEF h
  <2>3. [delivered EXCEPT ![h] = @ \o e.msgs] \in [Sessions -> Seq(Msg)]
    BY <2>1, <2>2
  <2> QED
    BY <1>4, <2>1, <2>3
<1>6. TypeOK'
  <2>1. TaskTypes'
    BY <1>1, <1>2 DEF RunToHandler, TypeOK, TaskTypes
  <2>2. MainTypes' /\ IoTypes'
    BY DEF RunToHandler, mainVars, ioVars, TypeOK, MainTypes, IoTypes
  <2>3. SeenTypes'
    BY <1>5 DEF RunToHandler, TypeOK, SeenTypes
  <2> QED
    BY <2>1, <2>2, <2>3 DEF TypeOK
<1> QED
  BY <1>1, <1>2, <1>3, <1>4, <1>6

\* OnSessionClose of a registered id: the handler is disposed.
Disposes(h, n) ==
    /\ h \in Sessions /\ handlerMap[n] = h
    /\ onClosed' = [onClosed EXCEPT ![h] = @ + 1]
    /\ handlerId' = [handlerId EXCEPT ![h] = Invalid]
    /\ handlerMap' = [handlerMap EXCEPT ![n] = None]

\* OnSessionClose ends the handler and gives its id back.
LEMMA OnCloseDoes ==
    ASSUME TypeOK, EndInv, RunOnSessionClose, NEW n, n = mainQ[1].id
    PROVE  /\ TypeOK'
           /\ mainQ[1].op = "on_close" /\ n \in Ids
           /\ Len(mainQ) \in Nat \ {0} /\ mainQ' = Tail(mainQ)
           /\ Slid(mainQ, mainQ', 1, {})
           /\ Disposes(handlerMap[n], n)
<1>1. mainQ # <<>> /\ Head(mainQ).op = "on_close" /\ mainQ' = Tail(mainQ)
  BY DEF RunOnSessionClose, MainRuns
<1>2. /\ Tail(mainQ) \in Seq(MainTasks) /\ Slid(mainQ, Tail(mainQ), 1, {})
      /\ Head(mainQ) = mainQ[1] /\ mainQ[1] \in MainTasks /\ Len(mainQ) \in Nat \ {0}
      /\ 1 \in 1 .. Len(mainQ)
  BY <1>1, TakeSlides DEF TypeOK, TaskTypes
<1>3. mainQ[1].op = "on_close" /\ n \in Ids
  BY <1>1, <1>2, TaskFields
<1>4. handlerMap[n] # None /\ handlerMap[n] \in Sessions
  BY <1>2, <1>3 DEF EndInv, TypeOK, MainTypes
<1>5. Disposes(handlerMap[n], n)
  BY <1>2, <1>4 DEF RunOnSessionClose, Disposes
<1>6. TypeOK'
  <2>1. TaskTypes'
    BY <1>1, <1>2 DEF RunOnSessionClose, TypeOK, TaskTypes
  <2>2. MainTypes'
    BY <1>3, <1>4, <1>5 DEF RunOnSessionClose, Disposes, TypeOK, MainTypes
  <2>3. IoTypes'
    BY DEF RunOnSessionClose, ioVars, TypeOK, IoTypes
  <2>4. SeenTypes'
    <3>1. /\ onClosed' = [onClosed EXCEPT ![handlerMap[n]] = @ + 1]
          /\ UNCHANGED <<peer, arrived, sent, written, delivered, closeCalls, owed>>
      BY <1>5 DEF RunOnSessionClose, Disposes
    <3> QED
      BY <1>4, <3>1 DEF TypeOK, SeenTypes
  <2> QED
    BY <2>1, <2>2, <2>3, <2>4 DEF TypeOK
<1> QED
  BY <1>1, <1>2, <1>3, <1>5, <1>6

\* HandleClose with nothing outstanding: the socket is closed and the session leaves
\* the session queue; nothing was left in messages_received_.
Ends(s) ==
    /\ queue[ThreadOf[s]][id[s]] = s /\ id[s] \in Ids
    /\ received[s] = <<>> /\ received' = received
    /\ reading'[s] = "no" /\ writing'[s] = "no" /\ closed'[s]
    /\ mainQ' = Append(mainQ, OnSessionClose(id[s]))
    /\ socket' = [socket EXCEPT ![s] = "closed"]
    /\ queue' = [queue EXCEPT ![ThreadOf[s]][id[s]] = None]

MayEnd(s) == Ends(s) \/ UNCHANGED <<mainQ, received, socket, queue>>

\* HandleClose closes the socket and posts OnSessionClose once no operation is left.
LEMMA HandleCloseEnds ==
    ASSUME TypeOK, NEW s \in Sessions, NEW n \in Int, HandleClose(s, n),
           n <= 0 => /\ queue[ThreadOf[s]][id[s]] = s /\ id[s] # Invalid
                     /\ received[s] = <<>>
                     /\ reading'[s] = "no" /\ writing'[s] = "no" /\ closed'[s]
    PROVE  MayEnd(s) /\ mainQ' \in Seq(MainTasks)
                /\ (mainQ' = mainQ \/ mainQ' = Append(mainQ, OnSessionClose(id[s])))
                /\ received' = received
                /\ socket' \in [Sessions -> {"new", "open", "closed"}]
                /\ queue' \in [Threads -> [Ids -> Sessions \cup {None}]]
<1>1. CASE n > 0
  <2>1. UNCHANGED <<mainQ, received, socket, queue>>
    BY <1>1 DEF HandleClose
  <2> QED
    BY <2>1 DEF MayEnd, TypeOK, TaskTypes, IoTypes
<1>2. CASE ~(n > 0)
  <2>1. id[s] \in Ids /\ OnSessionClose(id[s]) \in MainTasks /\ mainQ \in Seq(MainTasks)
    BY <1>2, NewTasks DEF TypeOK, IoTypes, TaskTypes
  <2>2. mainQ \o <<OnSessionClose(id[s])>> \o <<>> = Append(mainQ, OnSessionClose(id[s]))
    BY <2>1, AppendIsConcat
  <2>3. /\ mainQ' = Append(mainQ, OnSessionClose(id[s]))
        /\ received' = [received EXCEPT ![s] = <<>>]
        /\ socket' = [socket EXCEPT ![s] = "closed"]
        /\ queue' = [queue EXCEPT ![ThreadOf[s]][id[s]] = None]
    BY <1>2, <2>2 DEF HandleClose
  <2>4. received' = received
    BY <1>2, <2>3 DEF TypeOK, IoTypes
  <2>5. mainQ' \in Seq(MainTasks)
    BY <2>1, <2>3, AppendProperties
  <2>6. socket' \in [Sessions -> {"new", "open", "closed"}]
    BY <2>3 DEF TypeOK, IoTypes
  <2>7. queue' \in [Threads -> [Ids -> Sessions \cup {None}]]
    BY <2>3, <2>1 DEF TypeOK, IoTypes
  <2> QED
    BY <1>2, <2>1, <2>3, <2>4, <2>5, <2>6, <2>7 DEF MayEnd, Ends
<1> QED
  BY <1>1, <1>2

\* The thread of s runs a task for s.
LEMMA RunsIs ==
    ASSUME TypeOK, NEW s \in Sessions, NEW op, Runs(s, op), NEW t, t = ThreadOf[s]
    PROVE  /\ t \in Threads /\ ioQ[t] # <<>> /\ Head(ioQ[t]) = ioQ[t][1]
           /\ ioQ[t][1] \in IoTasks /\ ioQ[t][1].op = op /\ ioQ[t][1].s = s
           /\ 1 \in 1 .. Len(ioQ[t]) /\ Len(ioQ[t]) \in Nat
<1>1. t \in Threads /\ ioQ[t] # <<>> /\ Head(ioQ[t]).op = op /\ Head(ioQ[t]).s = s
  BY SessionAssumption DEF Runs
<1>2. ioQ[t] \in Seq(IoTasks)
  BY <1>1 DEF TypeOK, TaskTypes
<1> QED
  BY <1>1, <1>2, TakeSlides

\* A task that was taken off, and nothing posted.
LEMMA TookSlides ==
    ASSUME TypeOK, NEW t \in Threads, ioQ[t] # <<>>, ioQ' = Took(t)
    PROVE  /\ ioQ' \in [Threads -> Seq(IoTasks)] /\ IoSlides(t, 1, {})
           /\ ioQ'[t] = Tail(ioQ[t])
  BY IoTook DEF IoSlides

\* TCPSession::Init enters the session in the session queue under its id.
LEMMA InitDoes ==
    ASSUME TypeOK, NEW s \in Sessions, RunInit(s), NEW n, n = Q(s)[1].id
    PROVE  /\ TypeOK'
           /\ Q(s)[1].op = "init" /\ Q(s)[1].s = s /\ n \in Ids /\ 1 \in 1 .. Len(Q(s))
           /\ IoSlides(ThreadOf[s], 1, {}) /\ Q(s)' = Tail(Q(s)) /\ Q(s) # <<>>
           /\ id' = [id EXCEPT ![s] = n]
           /\ queue' = [queue EXCEPT ![ThreadOf[s]][n] = s]
<1> DEFINE t == ThreadOf[s]
<1>1. /\ t \in Threads /\ ioQ[t] # <<>> /\ Head(ioQ[t]) = ioQ[t][1]
      /\ ioQ[t][1] \in IoTasks /\ ioQ[t][1].op = "init" /\ ioQ[t][1].s = s
      /\ 1 \in 1 .. Len(ioQ[t])
  BY RunsIs DEF RunInit
<1>2. n \in Ids
  BY <1>1, TaskFields DEF Q
<1>3. ioQ' \in [Threads -> Seq(IoTasks)] /\ IoSlides(t, 1, {}) /\ ioQ'[t] = Tail(ioQ[t])
  BY <1>1, TookSlides DEF RunInit
<1>4. id' = [id EXCEPT ![s] = n] /\ queue' = [queue EXCEPT ![t][n] = s]
  BY <1>1 DEF RunInit, Q
<1>5. TypeOK'
  <2>1. TaskTypes'
    BY <1>3 DEF RunInit, TypeOK, TaskTypes
  <2>2. MainTypes' /\ SeenTypes'
    BY DEF RunInit, mainVars, seen, TypeOK, MainTypes, SeenTypes
  <2>3. queue' \in [Threads -> [Ids -> Sessions \cup {None}]]
    BY <1>1, <1>2, <1>4 DEF TypeOK, IoTypes
  <2>4. IoTypes'
    BY <1>2, <1>4, <2>3 DEF RunInit, TypeOK, IoTypes, Phase
  <2> QED
    BY <2>1, <2>2, <2>4 DEF TypeOK
<1> QED
  BY <1>1, <1>2, <1>3, <1>4, <1>5 DEF Q

\* A task of a thread that names an id.
LEMMA RunsForIs ==
    ASSUME TypeOK, NEW t \in Threads, NEW op \in {"to_session", "close"}, RunsFor(t, op)
    PROVE  /\ ioQ[t] # <<>> /\ Head(ioQ[t]) = ioQ[t][1] /\ ioQ[t][1] \in IoTasks
           /\ ioQ[t][1].op = op /\ ioQ[t][1].id \in Ids \cup {Invalid}
           /\ 1 \in 1 .. Len(ioQ[t]) /\ Len(ioQ[t]) \in Nat
           /\ SessionAt(t, ioQ[t][1].id) \in Sessions \cup {None}
           /\ SessionAt(t, ioQ[t][1].id) # None =>
                /\ ioQ[t][1].id \in Ids
                /\ queue[t][ioQ[t][1].id] = SessionAt(t, ioQ[t][1].id)
<1>1. ioQ[t] # <<>> /\ Head(ioQ[t]).op = op
  BY DEF RunsFor
<1>2. ioQ[t] \in Seq(IoTasks)
  BY DEF TypeOK, TaskTypes
<1>3. /\ Head(ioQ[t]) = ioQ[t][1] /\ ioQ[t][1] \in IoTasks /\ 1 \in 1 .. Len(ioQ[t])
      /\ Len(ioQ[t]) \in Nat
  BY <1>1, <1>2, TakeSlides
<1>4. ioQ[t][1].id \in Ids \cup {Invalid}
  BY <1>1, <1>3, TaskFields
<1>5. SessionAt(t, ioQ[t][1].id) \in Sessions \cup {None}
  BY <1>4 DEF SessionAt, TypeOK, IoTypes
<1> QED
  BY <1>1, <1>3, <1>4, <1>5 DEF SessionAt

\* SendToSession hands the messages to the session that has the id, or to nobody.
LEMMA ToSessionDoes ==
    ASSUME TypeOK, NEW t \in Threads, RunToSession(t), NEW s,
           s = SessionAt(t, ioQ[t][1].id)
    PROVE  /\ TypeOK'
           /\ ioQ[t] # <<>> /\ 1 \in 1 .. Len(ioQ[t]) /\ ioQ[t][1].op = "to_session"
           /\ ioQ[t][1].msgs \in Lists
           /\ IoSlides(t, 1, {}) /\ ioQ'[t] = Tail(ioQ[t])
           /\ s \in Sessions \cup {None}
           /\ s # None => ioQ[t][1].id \in Ids /\ queue[t][ioQ[t][1].id] = s
           /\ IF s = None \/ closed[s] THEN UNCHANGED <<writing, handlers, sending, toBeSent>>
              ELSE IF sending[s] = <<>>
              THEN /\ sending' = [sending EXCEPT ![s] = toBeSent[s] \o ioQ[t][1].msgs]
                   /\ toBeSent' = [toBeSent EXCEPT ![s] = <<>>]
                   /\ writing' = [writing EXCEPT ![s] = "armed"]
                   /\ handlers' = [handlers EXCEPT ![s] = @ + 1]
              ELSE /\ toBeSent' = [toBeSent EXCEPT ![s] = @ \o ioQ[t][1].msgs]
                   /\ UNCHANGED <<writing, handlers, sending>>
<1>1. /\ ioQ[t] # <<>> /\ Head(ioQ[t]) = ioQ[t][1] /\ ioQ[t][1] \in IoTasks
      /\ ioQ[t][1].op = "to_session" /\ 1 \in 1 .. Len(ioQ[t])
      /\ s \in Sessions \cup {None}
      /\ s # None => ioQ[t][1].id \in Ids /\ queue[t][ioQ[t][1].id] = s
  <2>1. RunsFor(t, "to_session")
    BY DEF RunToSession
  <2> QED
    BY <2>1, RunsForIs
<1>2. ioQ[t][1].msgs \in Lists /\ ioQ[t][1].msgs \in Seq(Msg)
  BY <1>1, TaskFields DEF Lists
<1>3. ioQ' \in [Threads -> Seq(IoTasks)] /\ IoSlides(t, 1, {}) /\ ioQ'[t] = Tail(ioQ[t])
  BY <1>1, TookSlides DEF RunToSession
<1> DEFINE ms == ioQ[t][1].msgs
<1>4. IF s = None \/ closed[s] THEN UNCHANGED <<writing, handlers, sending, toBeSent>>
      ELSE IF sending[s] = <<>>
      THEN /\ sending' = [sending EXCEPT ![s] = toBeSent[s] \o ms]
           /\ toBeSent' = [toBeSent EXCEPT ![s] = <<>>]
           /\ writing' = [writing EXCEPT ![s] = "armed"]
           /\ handlers' = [handlers EXCEPT ![s] = @ + 1]
      ELSE /\ toBeSent' = [toBeSent EXCEPT ![s] = @ \o ms]
           /\ UNCHANGED <<writing, handlers, sending>>
  BY <1>1 DEF RunToSession
<1> HIDE DEF ms
<1>5. TypeOK'
  <2>1. TaskTypes'
    BY <1>3 DEF RunToSession, TypeOK, TaskTypes
  <2>2. MainTypes' /\ SeenTypes'
    BY DEF RunToSession, mainVars, seen, TypeOK, MainTypes, SeenTypes
  <2>3. \A q \in Seq(Msg) : q \o ms \in Seq(Msg)
    BY <1>2, ConcatProperties DEF ms
  <2>4. /\ sending \in [Sessions -> Seq(Msg)] /\ toBeSent \in [Sessions -> Seq(Msg)]
        /\ writing \in [Sessions -> Phase] /\ handlers \in [Sessions -> Int]
    BY DEF TypeOK, IoTypes
  <2>5. /\ sending' \in [Sessions -> Seq(Msg)] /\ toBeSent' \in [Sessions -> Seq(Msg)]
        /\ writing' \in [Sessions -> Phase] /\ handlers' \in [Sessions -> Int]
    <3>1. CASE s = None \/ closed[s]
      BY <1>4, <2>4, <3>1
    <3>2. CASE ~(s = None \/ closed[s]) /\ sending[s] = <<>>
      <4>1. toBeSent[s] \o ms \in Seq(Msg) /\ handlers[s] + 1 \in Int /\ "armed" \in Phase
            /\ <<>> \in Seq(Msg) /\ s \in Sessions
        BY <1>1, <2>3, <2>4, <3>2 DEF Phase
      <4>2. /\ sending' = [sending EXCEPT ![s] = toBeSent[s] \o ms]
            /\ toBeSent' = [toBeSent EXCEPT ![s] = <<>>]
            /\ writing' = [writing EXCEPT ![s] = "armed"]
            /\ handlers' = [handlers EXCEPT ![s] = @ + 1]
        BY <1>4, <3>2
      <4> QED
        BY <2>4, <4>1, <4>2
    <3>3. CASE ~(s = None \/ closed[s]) /\ sending[s] # <<>>
      <4>1. toBeSent[s] \o ms \in Seq(Msg)
        BY <1>1, <2>3, <2>4, <3>3
      <4>2. /\ toBeSent' = [toBeSent EXCEPT ![s] = @ \o ms]
            /\ UNCHANGED <<writing, handlers, sending>>
        BY <1>4, <3>3
      <4> QED
        BY <2>4, <4>1, <4>2
    <3> QED
      BY <3>1, <3>2, <3>3
  <2>7. IoTypes'
    BY <2>5 DEF RunToSession, TypeOK, IoTypes
  <2> QED
    BY <2>1, <2>2, <2>7 DEF TypeOK
<1> QED
  BY <1>1, <1>2, <1>3, <1>4, <1>5 DEF ms

\* What is known of the session whose read or write completes.
LEMMA Completing ==
    ASSUME TypeOK, OpsInv, LifeInv, CountInv, RecvInv, NEW s \in Sessions,
           Q(s)[1].op \in {"read", "write"}, Q(s)[1].s = s, 1 \in 1 .. Len(Q(s))
    PROVE  /\ queue[ThreadOf[s]][id[s]] = s /\ id[s] \in Ids /\ id[s] # Invalid
           /\ Q(s)[1].op = "read" =>
                /\ reading[s] = "done" /\ received[s] = <<>>
                /\ handlers[s] - 1 = One(writing[s])
           /\ Q(s)[1].op = "write" =>
                writing[s] = "done" /\ handlers[s] - 1 = One(reading[s])
           /\ Q(s)[1].res = "error" => peer[s] = "gone"
<1>0. ThreadOf[s] \in Threads
  BY SessionAssumption
<1>1. /\ Q(s)[1].op = "read" => reading[s] = "done"
      /\ Q(s)[1].op = "write" => writing[s] = "done"
      /\ Q(s)[1].res = "error" => peer[s] = "gone"
  BY <1>0 DEF OpsInv, Q
<1>2. queue[ThreadOf[s]][id[s]] = s /\ handlers[s] = One(reading[s]) + One(writing[s])
  BY <1>1 DEF CountInv, CountOf
<1>3. id[s] # Invalid /\ id[s] \in Ids
  BY <1>1 DEF LifeInv, LifeOf, Untouched, TypeOK, IoTypes
<1>4. Q(s)[1].op = "read" => received[s] = <<>>
  <2> SUFFICES ASSUME Q(s)[1].op = "read", received[s] # <<>> PROVE FALSE
    OBVIOUS
  <2>1. PICK k \in 1 .. Len(Q(s)) :
          \A j \in 1 .. Len(Q(s)) : Q(s)[j].op = "read" /\ Q(s)[j].s = s => k < j
    BY DEF RecvInv, RecvOf
  <2>2. k < 1
    BY <2>1
  <2> QED
    BY <2>2
<1>5. One(reading[s]) \in Nat /\ One(writing[s]) \in Nat
  BY DEF One
<1>6. /\ Q(s)[1].op = "read" => One(reading[s]) = 1
      /\ Q(s)[1].op = "write" => One(writing[s]) = 1
  BY <1>1 DEF One
<1> QED
  BY <1>1, <1>2, <1>3, <1>4, <1>5, <1>6

\* CloseSession closes the session that has the id, at once if nothing is outstanding.
LEMMA CloseSessionDoes ==
    ASSUME TypeOK, QueueInv, LifeInv, CountInv, RecvInv, NEW t \in Threads,
           RunCloseSession(t), NEW s, s = SessionAt(t, ioQ[t][1].id)
    PROVE  /\ TypeOK'
           /\ ioQ[t] # <<>> /\ 1 \in 1 .. Len(ioQ[t]) /\ ioQ[t][1].op = "close"
           /\ IoSlides(t, 1, {}) /\ ioQ'[t] = Tail(ioQ[t])
           /\ s \in Sessions \cup {None}
           /\ s # None => ioQ[t][1].id \in Ids /\ queue[t][ioQ[t][1].id] = s
           /\ \/ UNCHANGED <<mainQ, closed, received, socket, queue>> /\ (s = None \/ closed[s])
              \/ /\ s # None /\ ~closed[s] /\ ThreadOf[s] = t /\ id[s] = ioQ[t][1].id
                 /\ closed' = [closed EXCEPT ![s] = TRUE] /\ MayEnd(s)
<1>1. /\ ioQ[t] # <<>> /\ Head(ioQ[t]) = ioQ[t][1] /\ ioQ[t][1] \in IoTasks
      /\ ioQ[t][1].op = "close" /\ 1 \in 1 .. Len(ioQ[t])
      /\ s \in Sessions \cup {None}
      /\ s # None => ioQ[t][1].id \in Ids /\ queue[t][ioQ[t][1].id] = s
  <2>1. RunsFor(t, "close")
    BY DEF RunCloseSession
  <2> QED
    BY <2>1, RunsForIs
<1>2. ioQ' \in [Threads -> Seq(IoTasks)] /\ IoSlides(t, 1, {}) /\ ioQ'[t] = Tail(ioQ[t])
  BY <1>1, TookSlides DEF RunCloseSession
<1>3. MainTypes' /\ SeenTypes'
  BY DEF RunCloseSession, mainVars, seen, TypeOK, MainTypes, SeenTypes
<1>4. CASE s = None \/ closed[s]
  <2>1. UNCHANGED <<mainQ, closed, received, socket, queue>>
    BY <1>1, <1>4 DEF RunCloseSession
  <2>2. TaskTypes' /\ IoTypes'
    BY <1>2, <2>1 DEF RunCloseSession, TypeOK, TaskTypes, IoTypes
  <2> QED
    BY <1>1, <1>2, <1>3, <1>4, <2>1, <2>2 DEF TypeOK
<1>5. CASE ~(s = None \/ closed[s])
  <2>1. /\ s \in Sessions /\ ThreadOf[s] = t /\ id[s] = ioQ[t][1].id /\ id[s] \in Ids
        /\ queue[ThreadOf[s]][id[s]] = s /\ id[s] # Invalid
    BY <1>1, <1>5 DEF QueueInv, Ids, Invalid
  <2>2. closed' = [closed EXCEPT ![s] = TRUE] /\ HandleClose(s, handlers[s])
    BY <1>1, <1>5 DEF RunCloseSession
  <2>3. handlers[s] \in Int /\ reading' = reading /\ writing' = writing /\ closed'[s]
    BY <2>1, <2>2 DEF RunCloseSession, TypeOK, IoTypes
  <2>4. handlers[s] <= 0 => reading[s] = "no" /\ writing[s] = "no" /\ received[s] = <<>>
    BY <2>1, <2>3 DEF CountInv, CountOf, RecvInv, RecvOf, One
  <2>5. /\ MayEnd(s) /\ mainQ' \in Seq(MainTasks) /\ received' = received
        /\ socket' \in [Sessions -> {"new", "open", "closed"}]
        /\ queue' \in [Threads -> [Ids -> Sessions \cup {None}]]
    BY <2>1, <2>2, <2>3, <2>4, HandleCloseEnds
  <2>6. closed' \in [Sessions -> BOOLEAN]
    BY <2>2 DEF TypeOK, IoTypes
  <2>7. TaskTypes' /\ IoTypes'
    BY <1>2, <2>5, <2>6 DEF RunCloseSession, TypeOK, TaskTypes, IoTypes
  <2> QED
    BY <1>1, <1>2, <1>3, <1>5, <2>1, <2>2, <2>5, <2>7 DEF TypeOK
<1> QED
  BY <1>4, <1>5

\* The session's PackMessageList posts what was received to the handler.
LEMMA PackInDoes ==
    ASSUME TypeOK, NEW s \in Sessions, RunPackIn(s)
    PROVE  /\ TypeOK'
           /\ Q(s)[1].op = "pack_in" /\ Q(s)[1].s = s /\ Q(s) # <<>> /\ 1 \in 1 .. Len(Q(s))
           /\ IoSlides(ThreadOf[s], 1, {}) /\ Q(s)' = Tail(Q(s))
           /\ mainQ' = IF received[s] = <<>> THEN mainQ
                       ELSE Append(mainQ, ToHandler(s, received[s]))
           /\ received[s] # <<>> => ToHandler(s, received[s]) \in MainTasks
           /\ received' = [received EXCEPT ![s] = <<>>]
<1> DEFINE t == ThreadOf[s]
<1>1. /\ t \in Threads /\ ioQ[t] # <<>> /\ Head(ioQ[t]) = ioQ[t][1]
      /\ ioQ[t][1].op = "pack_in" /\ ioQ[t][1].s = s /\ 1 \in 1 .. Len(ioQ[t])
  BY RunsIs DEF RunPackIn
<1>2. ioQ' \in [Threads -> Seq(IoTasks)] /\ IoSlides(t, 1, {}) /\ ioQ'[t] = Tail(ioQ[t])
  BY <1>1, TookSlides DEF RunPackIn
<1>3. /\ mainQ' = IF received[s] = <<>> THEN mainQ
                  ELSE Append(mainQ, ToHandler(s, received[s]))
      /\ received' = [received EXCEPT ![s] = <<>>]
  BY DEF RunPackIn
<1>4. received[s] # <<>> => ToHandler(s, received[s]) \in MainTasks
  BY NewTasks DEF TypeOK, IoTypes, Lists
<1>5. mainQ' \in Seq(MainTasks)
  BY <1>3, <1>4, AppendProperties DEF TypeOK, TaskTypes
<1>6. TypeOK'
  <2>1. TaskTypes'
    BY <1>2, <1>5 DEF TaskTypes
  <2>2. MainTypes' /\ SeenTypes'
    BY DEF RunPackIn, mainVars, seen, TypeOK, MainTypes, SeenTypes
  <2>3. received' \in [Sessions -> Seq(Msg)]
    <3>1. received \in [Sessions -> Seq(Msg)] /\ <<>> \in Seq(Msg)
      BY DEF TypeOK, IoTypes
    <3> QED
      BY <1>3, <3>1
  <2>4. IoTypes'
    BY <2>3 DEF RunPackIn, TypeOK, IoTypes
  <2> QED
    BY <2>1, <2>2, <2>4 DEF TypeOK
<1> QED
  BY <1>1, <1>2, <1>3, <1>4, <1>6 DEF Q

\* A read that fails, or that completes on a closing session, ends it when it was the last operation.
LEMMA ReadClosedDoes ==
    ASSUME TypeOK, OpsInv, LifeInv, CountInv, RecvInv, NEW s \in Sessions,
           HandleReadClosed(s)
    PROVE  /\ TypeOK'
           /\ Q(s)[1].op = "read" /\ Q(s)[1].s = s /\ Q(s) # <<>> /\ 1 \in 1 .. Len(Q(s))
           /\ IoSlides(ThreadOf[s], 1, {}) /\ Q(s)' = Tail(Q(s))
           /\ queue[ThreadOf[s]][id[s]] = s /\ id[s] \in Ids /\ id[s] # Invalid
           /\ reading[s] = "done" /\ received[s] = <<>>
           /\ handlers[s] - 1 = One(writing[s])
           /\ closed[s] \/ peer[s] = "gone"
           /\ reading' = [reading EXCEPT ![s] = "no"]
           /\ handlers' = [handlers EXCEPT ![s] = @ - 1]
           /\ closed' = [closed EXCEPT ![s] = TRUE]
           /\ MayEnd(s)
           /\ UNCHANGED <<mainVars, id, writing, header, toBeSent, sending, seen>>
<1> DEFINE t == ThreadOf[s]
<1>1. /\ t \in Threads /\ ioQ[t] # <<>> /\ Head(ioQ[t]) = ioQ[t][1]
      /\ ioQ[t][1].op = "read" /\ ioQ[t][1].s = s /\ 1 \in 1 .. Len(ioQ[t])
  BY RunsIs DEF HandleReadClosed
<1>2. ioQ' \in [Threads -> Seq(IoTasks)] /\ IoSlides(t, 1, {}) /\ ioQ'[t] = Tail(ioQ[t])
  BY <1>1, TookSlides DEF HandleReadClosed
<1>3. /\ queue[t][id[s]] = s /\ id[s] \in Ids /\ id[s] # Invalid
      /\ reading[s] = "done" /\ received[s] = <<>> /\ handlers[s] - 1 = One(writing[s])
      /\ closed[s] \/ peer[s] = "gone"
  BY <1>1, Completing DEF Q, HandleReadClosed
<1>4. /\ reading' = [reading EXCEPT ![s] = "no"]
      /\ handlers' = [handlers EXCEPT ![s] = @ - 1]
      /\ closed' = [closed EXCEPT ![s] = TRUE]
      /\ HandleClose(s, handlers[s] - 1)
      /\ UNCHANGED <<mainVars, id, writing, header, toBeSent, sending, seen>>
  BY DEF HandleReadClosed
<1>5. /\ reading' \in [Sessions -> Phase] /\ handlers' \in [Sessions -> Int]
      /\ closed' \in [Sessions -> BOOLEAN] /\ reading'[s] = "no" /\ closed'[s]
      /\ handlers[s] - 1 \in Int
  BY <1>4 DEF TypeOK, IoTypes, Phase
<1>6. handlers[s] - 1 <= 0 => writing'[s] = "no"
  BY <1>3, <1>4 DEF One
<1>7. /\ MayEnd(s) /\ mainQ' \in Seq(MainTasks) /\ received' = received
      /\ socket' \in [Sessions -> {"new", "open", "closed"}]
      /\ queue' \in [Threads -> [Ids -> Sessions \cup {None}]]
  BY <1>3, <1>4, <1>5, <1>6, HandleCloseEnds
<1>8. TypeOK'
  <2>1. TaskTypes'
    BY <1>2, <1>7 DEF TaskTypes
  <2>2. MainTypes' /\ SeenTypes'
    BY <1>4 DEF mainVars, seen, TypeOK, MainTypes, SeenTypes
  <2>3. IoTypes'
    BY <1>4, <1>5, <1>7 DEF TypeOK, IoTypes
  <2> QED
    BY <2>1, <2>2, <2>3 DEF TypeOK
<1> QED
  BY <1>1, <1>2, <1>3, <1>4, <1>7, <1>8 DEF Q

\* A write that fails closes its session.
LEMMA WriteErrorDoes ==
    ASSUME TypeOK, OpsInv, LifeInv, CountInv, RecvInv, NEW s \in Sessions,
           HandleWriteError(s)
    PROVE  /\ TypeOK'
           /\ Q(s)[1].op = "write" /\ Q(s)[1].s = s /\ Q(s) # <<>> /\ 1 \in 1 .. Len(Q(s))
           /\ IoSlides(ThreadOf[s], 1, {}) /\ Q(s)' = Tail(Q(s))
           /\ queue[ThreadOf[s]][id[s]] = s /\ id[s] \in Ids /\ id[s] # Invalid
           /\ writing[s] = "done" /\ handlers[s] - 1 = One(reading[s])
           /\ peer[s] = "gone"
           /\ writing' = [writing EXCEPT ![s] = "no"]
           /\ handlers' = [handlers EXCEPT ![s] = @ - 1]
           /\ closed' = [closed EXCEPT ![s] = TRUE]
           /\ MayEnd(s)
           /\ UNCHANGED <<mainVars, id, reading, header, toBeSent, sending, seen>>
<1> DEFINE t == ThreadOf[s]
<1>1. /\ t \in Threads /\ ioQ[t] # <<>> /\ Head(ioQ[t]) = ioQ[t][1]
      /\ ioQ[t][1].op = "write" /\ ioQ[t][1].s = s /\ 1 \in 1 .. Len(ioQ[t])
  BY RunsIs DEF HandleWriteError
<1>2. ioQ' \in [Threads -> Seq(IoTasks)] /\ IoSlides(t, 1, {}) /\ ioQ'[t] = Tail(ioQ[t])
  BY <1>1, TookSlides DEF HandleWriteError
<1>3. /\ queue[t][id[s]] = s /\ id[s] \in Ids /\ id[s] # Invalid
      /\ writing[s] = "done" /\ handlers[s] - 1 = One(reading[s]) /\ peer[s] = "gone"
  BY <1>1, Completing DEF Q, HandleWriteError
<1>4. /\ writing' = [writing EXCEPT ![s] = "no"]
      /\ handlers' = [handlers EXCEPT ![s] = @ - 1]
      /\ closed' = [closed EXCEPT ![s] = TRUE]
      /\ HandleClose(s, handlers[s] - 1)
      /\ UNCHANGED <<mainVars, id, reading, header, toBeSent, sending, seen>>
  BY DEF HandleWriteError
<1>5. /\ writing' \in [Sessions -> Phase] /\ handlers' \in [Sessions -> Int]
      /\ closed' \in [Sessions -> BOOLEAN] /\ writing'[s] = "no" /\ closed'[s]
      /\ handlers[s] - 1 \in Int
  BY <1>4 DEF TypeOK, IoTypes, Phase
<1>6. handlers[s] - 1 <= 0 => reading'[s] = "no" /\ received[s] = <<>>
  BY <1>3, <1>4 DEF One, RecvInv, RecvOf
<1>7. /\ MayEnd(s) /\ mainQ' \in Seq(MainTasks) /\ received' = received
      /\ socket' \in [Sessions -> {"new", "open", "closed"}]
      /\ queue' \in [Threads -> [Ids -> Sessions \cup {None}]]
  BY <1>3, <1>4, <1>5, <1>6, HandleCloseEnds
<1>8. TypeOK'
  <2>1. TaskTypes'
    BY <1>2, <1>7 DEF TaskTypes
  <2>2. MainTypes' /\ SeenTypes'
    BY <1>4 DEF mainVars, seen, TypeOK, MainTypes, SeenTypes
  <2>3. IoTypes'
    BY <1>4, <1>5, <1>7 DEF TypeOK, IoTypes
  <2> QED
    BY <2>1, <2>2, <2>3 DEF TypeOK
<1> QED
  BY <1>1, <1>2, <1>3, <1>4, <1>7, <1>8 DEF Q

\* One task taken off a queue and one posted to it.
LEMMA TakeAppendSlides ==
    ASSUME NEW S, NEW q \in Seq(S), q # <<>>, NEW e \in S
    PROVE  /\ Append(Tail(q), e) \in Seq(S) /\ Len(Append(Tail(q), e)) = Len(q)
           /\ Append(Tail(q), e)[Len(q)] = e
           /\ Slid(q, Append(Tail(q), e), 1, {e})
<1>1. /\ Tail(q) \in Seq(S) /\ Len(q) \in Nat \ {0} /\ Len(Tail(q)) = Len(q) - 1
      /\ \A k \in 1 .. Len(Tail(q)) : Tail(q)[k] = q[k + 1]
  BY TakeSlides
<1> DEFINE r == Append(Tail(q), e)
<1>2. /\ r \in Seq(S) /\ Len(r) = Len(q) /\ r[Len(q)] = e
      /\ \A k \in 1 .. Len(q) - 1 : r[k] = Tail(q)[k]
  BY <1>1, AppendSlides
<1> HIDE DEF r
<1>3. \A k \in 1 .. Len(q) - 1 : k + 1 \in 1 .. Len(q) /\ r[k] = q[k + 1]
  BY <1>1, <1>2
<1>4. ASSUME NEW k \in 1 .. Len(r)
      PROVE  \/ k + 1 \in 1 .. Len(q) /\ r[k] = q[k + 1]
             \/ k + 1 > Len(q) /\ r[k] \in {e}
  <2>0. k \in 1 .. Len(q) /\ Len(q) \in Nat
    BY <1>1, <1>2
  <2>1. CASE k = Len(q)
    BY <1>2, <2>0, <2>1
  <2>2. CASE k # Len(q)
    <3>1. k \in 1 .. Len(q) - 1
      BY <2>0, <2>2
    <3> QED
      BY <1>3, <3>1
  <2> QED
    BY <2>1, <2>2
<1>5. ASSUME NEW k \in 1 .. Len(q), k > 1
      PROVE  k - 1 \in 1 .. Len(r) /\ r[k - 1] = q[k]
  <2>1. k - 1 \in 1 .. Len(q) - 1 /\ (k - 1) + 1 = k
    BY <1>1, <1>5
  <2> QED
    BY <1>2, <1>3, <2>1
<1>6. Slid(q, r, 1, {e})
  BY <1>4, <1>5 DEF Slid
<1> QED
  BY <1>2, <1>6 DEF r

\* A read that completes: a header, a message that is kept for the handler, or an error.
LEMMA ReadDoes ==
    ASSUME TypeOK, OpsInv, LifeInv, CountInv, RecvInv, NEW s \in Sessions,
           HandleRead(s)
    PROVE  /\ TypeOK'
           /\ Q(s)[1].op = "read" /\ Q(s)[1].s = s /\ Q(s) # <<>> /\ 1 \in 1 .. Len(Q(s))
           /\ queue[ThreadOf[s]][id[s]] = s /\ id[s] \in Ids /\ id[s] # Invalid
           /\ reading[s] = "done" /\ received[s] = <<>> /\ ~closed[s]
           /\ IoSlides(ThreadOf[s], 1, {PackIn(s)}) /\ PackIn(s) \in IoTasks
           /\ \/ UNCHANGED <<received, arrived>> /\ Q(s)' = Tail(Q(s))
              \/ /\ received' = [received EXCEPT ![s] = <<<<s, arrived[s] + 1>>>>]
                 /\ arrived' = [arrived EXCEPT ![s] = @ + 1]
                 /\ reading'[s] = "armed"
                 /\ Q(s)' = Append(Tail(Q(s)), PackIn(s))
           /\ \/ /\ reading' = [reading EXCEPT ![s] = "no"]
                 /\ handlers' = [handlers EXCEPT ![s] = @ - 1]
              \/ reading' = [reading EXCEPT ![s] = "armed"] /\ UNCHANGED handlers
<1> DEFINE t == ThreadOf[s]
           res == Head(ioQ[t]).res
           m == <<s, arrived[s] + 1>>
<1>1. /\ t \in Threads /\ ioQ[t] # <<>> /\ Head(ioQ[t]) = ioQ[t][1]
      /\ ioQ[t][1].op = "read" /\ ioQ[t][1].s = s /\ 1 \in 1 .. Len(ioQ[t])
      /\ ioQ[t][1] \in IoTasks
  BY RunsIs DEF HandleRead
<1>2. /\ queue[t][id[s]] = s /\ id[s] \in Ids /\ id[s] # Invalid
      /\ reading[s] = "done" /\ received[s] = <<>> /\ ~closed[s]
  BY <1>1, Completing DEF Q, HandleRead
<1>3. PackIn(s) \in IoTasks /\ ioQ[t] \in Seq(IoTasks) /\ ioQ \in [Threads -> Seq(IoTasks)]
  BY <1>1, NewTasks DEF TypeOK, TaskTypes
<1>4. res \in {"length", "zero", "body", "error"} /\ m \in Msg /\ <<m>> \in Seq(Msg)
  <2>1. res \in {"length", "zero", "body", "error"}
    BY <1>1, TaskFields
  <2>2. arrived[s] + 1 \in Nat
    BY DEF TypeOK, SeenTypes
  <2>3. m \in Msg
    BY <2>2 DEF Msg
  <2> HIDE DEF m
  <2> QED
    BY <2>1, <2>3
<1>5. /\ IF header[s] = "none"
         THEN /\ header' = [header EXCEPT ![s] = res]
              /\ ioQ' = Took(t)
              /\ UNCHANGED <<received, arrived>>
         ELSE /\ header' = [header EXCEPT ![s] = "none"]
              /\ received' = [received EXCEPT ![s] = Append(@, m)]
              /\ arrived' = [arrived EXCEPT ![s] = @ + 1]
              /\ ioQ' = [ioQ EXCEPT ![t] = Append(Tail(@), PackIn(s))]
      /\ IF header'[s] = "zero"
         THEN /\ reading' = [reading EXCEPT ![s] = "no"]
              /\ handlers' = [handlers EXCEPT ![s] = @ - 1]
         ELSE /\ reading' = [reading EXCEPT ![s] = "armed"]
              /\ UNCHANGED handlers
  BY <1>2 DEF HandleRead
<1> HIDE DEF t, res, m
<1>6. reading' \in [Sessions -> Phase] /\ handlers' \in [Sessions -> Int]
  <2>1. reading \in [Sessions -> Phase] /\ handlers \in [Sessions -> Int]
    BY DEF TypeOK, IoTypes
  <2>2. \/ /\ reading' = [reading EXCEPT ![s] = "no"]
           /\ handlers' = [handlers EXCEPT ![s] = @ - 1]
        \/ reading' = [reading EXCEPT ![s] = "armed"] /\ handlers' = handlers
    BY <1>5
  <2> QED
    BY <2>1, <2>2 DEF Phase
<1>7. MainTypes'
  BY DEF HandleRead, mainVars, TypeOK, MainTypes
<1>8. CASE header[s] = "none"
  <2>1. ioQ' = Took(t) /\ UNCHANGED <<received, arrived>> /\ header' = [header EXCEPT ![s] = res]
    BY <1>5, <1>8
  <2>2. /\ ioQ' \in [Threads -> Seq(IoTasks)] /\ Slid(ioQ[t], ioQ'[t], 1, {})
        /\ ioQ'[t] = Tail(ioQ[t]) /\ \A u \in Threads : u # t => ioQ'[u] = ioQ[u]
    BY <1>1, <2>1, IoTook
  <2>3. IoSlides(t, 1, {PackIn(s)})
    BY <2>2 DEF IoSlides, Slid
  <2>4. TaskTypes' /\ SeenTypes'
    BY <2>1, <2>2 DEF HandleRead, TypeOK, TaskTypes, SeenTypes
  <2>5. header' \in [Sessions -> {"none", "length", "zero", "body", "error"}]
    BY <1>4, <2>1 DEF TypeOK, IoTypes
  <2>6. IoTypes'
    BY <1>6, <2>1, <2>5 DEF HandleRead, TypeOK, IoTypes
  <2> QED
    BY <1>1, <1>2, <1>3, <1>5, <1>7, <2>1, <2>2, <2>3, <2>4, <2>6 DEF TypeOK, Q, t
<1>9. CASE header[s] # "none"
  <2>1. /\ header' = [header EXCEPT ![s] = "none"]
        /\ received' = [received EXCEPT ![s] = Append(@, m)]
        /\ arrived' = [arrived EXCEPT ![s] = @ + 1]
        /\ ioQ' = [ioQ EXCEPT ![t] = Append(Tail(@), PackIn(s))]
    BY <1>5, <1>9
  <2>2. Append(received[s], m) = <<m>>
    BY <1>2
  <2>3. received' = [received EXCEPT ![s] = <<m>>]
    BY <2>1, <2>2
  <2>4. /\ Append(Tail(ioQ[t]), PackIn(s)) \in Seq(IoTasks)
        /\ Slid(ioQ[t], Append(Tail(ioQ[t]), PackIn(s)), 1, {PackIn(s)})
    BY <1>1, <1>3, TakeAppendSlides
  <2>5. /\ ioQ'[t] = Append(Tail(ioQ[t]), PackIn(s))
        /\ ioQ' \in [Threads -> Seq(IoTasks)]
        /\ \A u \in Threads : u # t => ioQ'[u] = ioQ[u]
    BY <1>1, <1>3, <2>1, <2>4
  <2>6. IoSlides(t, 1, {PackIn(s)})
    BY <2>4, <2>5 DEF IoSlides
  <2>7. header' \in [Sessions -> {"none", "length", "zero", "body", "error"}] /\ header'[s] = "none"
    BY <2>1 DEF TypeOK, IoTypes
  <2>8. reading' = [reading EXCEPT ![s] = "armed"] /\ reading'[s] = "armed"
    BY <1>5, <2>7 DEF TypeOK, IoTypes
  <2>9. arrived' \in [Sessions -> Nat] /\ received' \in [Sessions -> Seq(Msg)]
    BY <1>4, <2>1, <2>3 DEF TypeOK, SeenTypes, IoTypes
  <2>10. TaskTypes' /\ SeenTypes'
    BY <2>5, <2>9 DEF HandleRead, TypeOK, TaskTypes, SeenTypes
  <2>11. IoTypes'
    BY <1>6, <2>7, <2>9 DEF HandleRead, TypeOK, IoTypes
  <2> QED
    BY <1>1, <1>2, <1>3, <1>5, <1>7, <2>1, <2>3, <2>5, <2>6, <2>8, <2>10, <2>11
       DEF TypeOK, Q, t, m
<1> QED
  BY <1>8, <1>9

\* A write that completes: what was sent is written, what was waiting is sent.
LEMMA WriteDoes ==
    ASSUME TypeOK, OpsInv, LifeInv, CountInv, RecvInv, NEW s \in Sessions,
           HandleWrite(s)
    PROVE  /\ TypeOK'
           /\ Q(s)[1].op = "write" /\ Q(s)[1].s = s /\ Q(s) # <<>> /\ 1 \in 1 .. Len(Q(s))
           /\ IoSlides(ThreadOf[s], 1, {}) /\ Q(s)' = Tail(Q(s))
           /\ queue[ThreadOf[s]][id[s]] = s /\ id[s] \in Ids /\ id[s] # Invalid
           /\ writing[s] = "done" /\ handlers[s] - 1 = One(reading[s])
           /\ written' = [written EXCEPT ![s] = @ \o sending[s]]
           /\ sending' = [sending EXCEPT ![s] = toBeSent[s]]
           /\ toBeSent' = [toBeSent EXCEPT ![s] = <<>>]
           /\ UNCHANGED <<mainVars, id, closed, reading, header, peer, arrived, sent,
                          delivered, closeCalls, owed, onClosed>>
           /\ MayEnd(s)
           /\ IF toBeSent[s] # <<>>
              THEN /\ writing' = [writing EXCEPT ![s] = "armed"] /\ UNCHANGED handlers
                   /\ UNCHANGED <<mainQ, received, socket, queue>>
              ELSE /\ writing' = [writing EXCEPT ![s] = "no"]
                   /\ handlers' = [handlers EXCEPT ![s] = @ - 1]
<1> DEFINE t == ThreadOf[s]
<1>1. /\ t \in Threads /\ ioQ[t] # <<>> /\ Head(ioQ[t]) = ioQ[t][1]
      /\ ioQ[t][1].op = "write" /\ ioQ[t][1].s = s /\ 1 \in 1 .. Len(ioQ[t])
  BY RunsIs DEF HandleWrite
<1>2. ioQ' \in [Threads -> Seq(IoTasks)] /\ IoSlides(t, 1, {}) /\ ioQ'[t] = Tail(ioQ[t])
  BY <1>1, TookSlides DEF HandleWrite
<1>3. /\ queue[t][id[s]] = s /\ id[s] \in Ids /\ id[s] # Invalid
      /\ writing[s] = "done" /\ handlers[s] - 1 = One(reading[s])
  BY <1>1, Completing DEF Q
<1>4. /\ written' = [written EXCEPT ![s] = @ \o sending[s]]
      /\ sending' = [sending EXCEPT ![s] = toBeSent[s]]
      /\ toBeSent' = [toBeSent EXCEPT ![s] = <<>>]
      /\ UNCHANGED <<mainVars, id, closed, reading, header, peer, arrived, sent,
                     delivered, closeCalls, owed, onClosed>>
  BY DEF HandleWrite
<1>5. /\ MayEnd(s) /\ mainQ' \in Seq(MainTasks) /\ received' = received
      /\ socket' \in [Sessions -> {"new", "open", "closed"}]
      /\ queue' \in [Threads -> [Ids -> Sessions \cup {None}]]
      /\ writing' \in [Sessions -> Phase] /\ handlers' \in [Sessions -> Int]
      /\ IF toBeSent[s] # <<>>
         THEN /\ writing' = [writing EXCEPT ![s] = "armed"] /\ UNCHANGED handlers
              /\ UNCHANGED <<mainQ, received, socket, queue>>
         ELSE /\ writing' = [writing EXCEPT ![s] = "no"]
              /\ handlers' = [handlers EXCEPT ![s] = @ - 1]
  <2>1. CASE toBeSent[s] # <<>>
    <3>1. /\ writing' = [writing EXCEPT ![s] = "armed"]
          /\ UNCHANGED <<handlers, mainQ, received, socket, queue>>
      BY <2>1 DEF HandleWrite
    <3> QED
      BY <2>1, <3>1 DEF MayEnd, TypeOK, TaskTypes, IoTypes, Phase
  <2>2. CASE toBeSent[s] = <<>>
    <3>1. /\ writing' = [writing EXCEPT ![s] = "no"]
          /\ handlers' = [handlers EXCEPT ![s] = @ - 1]
          /\ IF closed[s] THEN HandleClose(s, handlers[s] - 1)
             ELSE UNCHANGED <<mainQ, received, socket, queue>>
      BY <2>2 DEF HandleWrite
    <3>2. /\ writing' \in [Sessions -> Phase] /\ handlers' \in [Sessions -> Int]
          /\ writing'[s] = "no" /\ handlers[s] - 1 \in Int /\ reading' = reading
      BY <1>4, <3>1 DEF TypeOK, IoTypes, Phase
    <3>3. CASE closed[s]
      <4>1. HandleClose(s, handlers[s] - 1) /\ closed'[s]
        BY <1>4, <3>1, <3>3
      <4>2. handlers[s] - 1 <= 0 => reading'[s] = "no" /\ received[s] = <<>>
        BY <1>3, <3>2 DEF One, RecvInv, RecvOf
      <4>3. /\ MayEnd(s) /\ mainQ' \in Seq(MainTasks) /\ received' = received
            /\ socket' \in [Sessions -> {"new", "open", "closed"}]
            /\ queue' \in [Threads -> [Ids -> Sessions \cup {None}]]
        BY <1>3, <3>2, <4>1, <4>2, HandleCloseEnds
      <4> QED
        BY <2>2, <3>1, <3>2, <4>3
    <3>4. CASE ~closed[s]
      BY <2>2, <3>1, <3>2, <3>4 DEF MayEnd, TypeOK, TaskTypes, IoTypes
    <3> QED
      BY <3>3, <3>4
  <2> QED
    BY <2>1, <2>2
<1>6. /\ sending' \in [Sessions -> Seq(Msg)] /\ toBeSent' \in [Sessions -> Seq(Msg)]
      /\ written' \in [Sessions -> Seq(Msg)]
  <2>1. /\ sending \in [Sessions -> Seq(Msg)] /\ toBeSent \in [Sessions -> Seq(Msg)]
        /\ written \in [Sessions -> Seq(Msg)] /\ <<>> \in Seq(Msg)
    BY DEF TypeOK, IoTypes, SeenTypes
  <2>2. written[s] \o sending[s] \in Seq(Msg)
    BY <2>1, ConcatProperties
  <2> QED
    BY <1>4, <2>1, <2>2
<1>7. TypeOK'
  <2>1. TaskTypes'
    BY <1>2, <1>5 DEF TaskTypes
  <2>2. MainTypes'
    BY <1>4 DEF mainVars, TypeOK, MainTypes
  <2>3. IoTypes'
    BY <1>4, <1>5, <1>6 DEF TypeOK, IoTypes
  <2>4. SeenTypes'
    BY <1>4, <1>6 DEF TypeOK, SeenTypes
  <2> QED
    BY <2>1, <2>2, <2>3, <2>4 DEF TypeOK
<1> QED
  BY <1>1, <1>2, <1>3, <1>4, <1>5, <1>7 DEF Q

\* An armed read or write completes: the completion is queued.
Completion(s, res, e) ==
    \/ /\ ReadCompletes(s, res) /\ res \in {"length", "zero", "body", "error"}
       /\ e = ReadDone(s, res)
    \/ /\ WriteCompletes(s, res) /\ res \in {"ok", "error"}
       /\ e = WriteDone(s, res)

\* The operating system completes an operation that was outstanding, and posts its handler.
LEMMA CompletesDoes ==
    ASSUME TypeOK, NEW s \in Sessions, NEW res, NEW e, Completion(s, res, e)
    PROVE  /\ TypeOK'
           /\ IoSlides(ThreadOf[s], 0, {e}) /\ Q(s)' = Append(Q(s), e) /\ e \in IoTasks
           /\ e.op \in {"read", "write"} /\ e.s = s /\ e.res = res
           /\ e.op = "read" => /\ reading[s] = "armed"
                               /\ reading' = [reading EXCEPT ![s] = "done"]
                               /\ writing' = writing
           /\ e.op = "write" => /\ writing[s] = "armed"
                                /\ writing' = [writing EXCEPT ![s] = "done"]
                                /\ reading' = reading
           /\ e.res = "error" => peer[s] = "gone"
           /\ UNCHANGED <<mainQ, mainVars, queue, id, closed, handlers, header, received,
                          toBeSent, sending, socket, seen>>
<1> DEFINE t == ThreadOf[s]
<1>1. t \in Threads
  BY SessionAssumption
<1>2. CASE /\ ReadCompletes(s, res) /\ res \in {"length", "zero", "body", "error"}
           /\ e = ReadDone(s, res)
  <2>1. e = ReadDone(s, res) /\ e \in IoTasks /\ e.op = "read" /\ e.s = s /\ e.res = res
    BY <1>2, NewTasks DEF ReadDone
  <2>2. /\ PostTo(t, <<e>>) /\ reading[s] = "armed"
        /\ reading' = [reading EXCEPT ![s] = "done"] /\ writing' = writing
        /\ res = "error" => peer[s] = "gone"
        /\ UNCHANGED <<mainQ, mainVars, queue, id, closed, handlers, header, received,
                       toBeSent, sending, socket, seen>>
    BY <1>2, <2>1 DEF ReadCompletes
  <2>3. /\ ioQ' \in [Threads -> Seq(IoTasks)] /\ ioQ'[t] = Append(ioQ[t], e)
        /\ IoSlides(t, 0, {e})
    BY <1>1, <2>1, <2>2, IoOneTask
  <2>4. TypeOK'
    BY <2>2, <2>3 DEF TypeOK, TaskTypes, MainTypes, IoTypes, SeenTypes, mainVars, seen, Phase
  <2> QED
    BY <2>1, <2>2, <2>3, <2>4 DEF Q
<1>3. CASE /\ WriteCompletes(s, res) /\ res \in {"ok", "error"}
           /\ e = WriteDone(s, res)
  <2>1. e = WriteDone(s, res) /\ e \in IoTasks /\ e.op = "write" /\ e.s = s /\ e.res = res
    BY <1>3, NewTasks DEF WriteDone
  <2>2. /\ PostTo(t, <<e>>) /\ writing[s] = "armed"
        /\ writing' = [writing EXCEPT ![s] = "done"] /\ reading' = reading
        /\ res = "error" => peer[s] = "gone"
        /\ UNCHANGED <<mainQ, mainVars, queue, id, closed, handlers, header, received,
                       toBeSent, sending, socket, seen>>
    BY <1>3, <2>1 DEF WriteCompletes
  <2>3. /\ ioQ' \in [Threads -> Seq(IoTasks)] /\ ioQ'[t] = Append(ioQ[t], e)
        /\ IoSlides(t, 0, {e})
    BY <1>1, <2>1, <2>2, IoOneTask
  <2>4. TypeOK'
    BY <2>2, <2>3 DEF TypeOK, TaskTypes, MainTypes, IoTypes, SeenTypes, mainVars, seen, Phase
  <2> QED
    BY <2>1, <2>2, <2>3, <2>4 DEF Q
<1> QED
  BY <1>2, <1>3 DEF Completion

\* The peer of an open connection goes.
LEMMA PeerGoesDoes ==
    ASSUME TypeOK, NEW s \in Sessions, PeerGoes(s)
    PROVE  /\ TypeOK' /\ socket[s] = "open" /\ peer' = [peer EXCEPT ![s] = "gone"]
           /\ UNCHANGED <<mainQ, ioQ, mainVars, ioVars, arrived, sent, written,
                          delivered, closeCalls, owed, onClosed>>
  BY DEF PeerGoes, TypeOK, TaskTypes, MainTypes, IoTypes, SeenTypes, mainVars, ioVars

\* A stuttering step keeps the types.
LEMMA SameTypes == TypeOK /\ UNCHANGED vars => TypeOK'
  BY DEF vars, mainVars, ioVars, seen, TypeOK, TaskTypes, MainTypes, IoTypes, SeenTypes

\* Every step keeps the types.
LEMMA TypeStep == TypeOK /\ HalvesInv /\ FlowInv /\ [Next]_vars => TypeOK'
<1> SUFFICES ASSUME TypeOK, HalvesInv, FlowInv, [Next]_vars PROVE TypeOK'
  OBVIOUS
<1> USE DEF HalvesInv, FlowInv
<1>1. ASSUME NEW s \in Sessions, Accept(s) PROVE TypeOK'
  <2>1. CASE Refused(s)
    BY <1>1, <2>1, RefusedDoes
  <2> QED
    BY <1>1, <2>1, AcceptDoes
<1>2. ASSUME NEW s \in Sessions, Send(s) \/ Close(s) PROVE TypeOK'
  BY <1>2, SendDoes, CloseDoes
<1>3. CASE RunPackOut
  BY <1>3, PackOutDoes
<1>4. CASE RunToHandler
  BY <1>4, ToHandlerDoes
<1>5. CASE RunOnSessionClose
  BY <1>5, OnCloseDoes
<1>6. ASSUME NEW t \in Threads, RunToSession(t) \/ RunCloseSession(t) PROVE TypeOK'
  BY <1>6, ToSessionDoes, CloseSessionDoes
<1>7. ASSUME NEW s \in Sessions, RunInit(s) \/ RunPackIn(s) PROVE TypeOK'
  BY <1>7, InitDoes, PackInDoes
<1>8. ASSUME NEW s \in Sessions, HandleReadClosed(s) \/ HandleRead(s) PROVE TypeOK'
  BY <1>8, ReadClosedDoes, ReadDoes
<1>9. ASSUME NEW s \in Sessions, HandleWriteError(s) \/ HandleWrite(s) PROVE TypeOK'
  BY <1>9, WriteErrorDoes, WriteDoes
<1>10. CASE PeerNext
  BY <1>10, CompletesDoes, PeerGoesDoes DEF PeerNext, Completion
<1> QED
  BY <1>1, <1>2, <1>3, <1>4, <1>5, <1>6, <1>7, <1>8, <1>9, <1>10, SameTypes
     DEF Next, MainNext, MainTask, IoTask

-----------------------------------------------------------------------------
(* The halves of a connection.                                             *)

\* Steps that change who is registered where, and all the others.
LEMMA CoreStep ==
    ASSUME TypeOK, HalvesInv, FlowInv, [Next]_vars
    PROVE  \/ \E s \in Sessions : Accept(s) /\ ~Refused(s)
           \/ \E s \in Sessions : Accept(s) /\ Refused(s)
           \/ RunOnSessionClose
           \/ \E s \in Sessions : RunInit(s)
           \/ \E s \in Sessions : /\ Ends(s) /\ closed' = [closed EXCEPT ![s] = TRUE]
                                  /\ UNCHANGED <<handlerMap, handlerId, id, onClosed>>
           \/ UNCHANGED <<handlerMap, handlerId, queue, id, socket, onClosed>>
<1> USE DEF HalvesInv, FlowInv
<1> DEFINE same == UNCHANGED <<handlerMap, handlerId, queue, id, socket, onClosed>>
           ends(s) == /\ Ends(s) /\ closed' = [closed EXCEPT ![s] = TRUE]
                      /\ UNCHANGED <<handlerMap, handlerId, id, onClosed>>
<1>1. ASSUME NEW s \in Sessions, Send(s) \/ Close(s) PROVE same
  BY <1>1 DEF Send, Close, ioVars
<1>2. RunPackOut \/ RunToHandler \/ UNCHANGED vars => same
  BY DEF RunPackOut, RunToHandler, vars, mainVars, ioVars, seen
<1>3. ASSUME NEW t \in Threads, RunToSession(t) PROVE same
  BY <1>3 DEF RunToSession, mainVars, seen
<1>4. ASSUME NEW t \in Threads, RunCloseSession(t) PROVE same \/ \E s \in Sessions : ends(s)
  <2> DEFINE s == SessionAt(t, ioQ[t][1].id)
  <2>1. UNCHANGED <<handlerMap, handlerId, id, onClosed>>
    BY <1>4 DEF RunCloseSession, mainVars, seen
  <2>2. /\ s \in Sessions \cup {None}
        /\ \/ UNCHANGED <<mainQ, closed, received, socket, queue>> /\ (s = None \/ closed[s])
           \/ s # None /\ closed' = [closed EXCEPT ![s] = TRUE] /\ MayEnd(s)
    BY <1>4, CloseSessionDoes
  <2> HIDE DEF s
  <2> QED
    BY <2>1, <2>2 DEF MayEnd
<1>5. ASSUME NEW s \in Sessions, RunPackIn(s) \/ HandleRead(s) PROVE same
  BY <1>5 DEF RunPackIn, HandleRead, mainVars, seen
<1>6. ASSUME NEW s \in Sessions, HandleReadClosed(s) \/ HandleWriteError(s)
      PROVE  same \/ ends(s)
  <2>1. /\ MayEnd(s) /\ closed' = [closed EXCEPT ![s] = TRUE]
        /\ UNCHANGED <<handlerMap, handlerId, id, onClosed>>
    BY <1>6, ReadClosedDoes, WriteErrorDoes DEF mainVars, seen
  <2> QED
    BY <2>1 DEF MayEnd
<1>7. ASSUME NEW s \in Sessions, HandleWrite(s) PROVE same \/ ends(s)
  <2>1. /\ MayEnd(s) /\ closed' = closed
        /\ UNCHANGED <<handlerMap, handlerId, id, onClosed>>
    BY <1>7, WriteDoes DEF mainVars
  <2>2. Ends(s) => closed' = [closed EXCEPT ![s] = TRUE]
    BY <2>1 DEF Ends, TypeOK, IoTypes
  <2> QED
    BY <2>1, <2>2 DEF MayEnd
<1>8. PeerNext => same
  BY DEF PeerNext, ReadCompletes, WriteCompletes, PeerGoes, mainVars, ioVars, seen
<1> HIDE DEF same, ends
<1>9. \/ \E s \in Sessions : Accept(s) \/ RunInit(s)
      \/ RunOnSessionClose
      \/ \E s \in Sessions : ends(s)
      \/ same
  BY <1>1, <1>2, <1>3, <1>4, <1>5, <1>6, <1>7, <1>8
     DEF Next, MainNext, MainTask, IoTask
<1> QED
  BY <1>9 DEF same, ends

\* A session that is still new is in no map and no queue.
LEMMA NewIsNowhere ==
    ASSUME TypeOK, HalvesInv, NEW s \in Sessions, socket[s] = "new"
    PROVE  /\ id[s] = Invalid /\ handlerId[s] = Invalid
           /\ \A t \in Threads, n \in Ids : queue[t][n] # s
           /\ \A n \in Ids : handlerMap[n] # s
<1>1. id[s] = Invalid /\ handlerId[s] = Invalid
  BY DEF HalvesInv, LifeInv, LifeOf
<1>2. s # None /\ Invalid \notin Ids
  BY SessionAssumption DEF Ids, Invalid
<1> QED
  BY <1>1, <1>2 DEF HalvesInv, QueueInv, MapInv

\* Every step keeps handlerMap and handlerId inverse to each other.
LEMMA MapKeeps ==
    ASSUME TypeOK, HalvesInv, FlowInv, [Next]_vars PROVE MapInv'
<1> USE DEF HalvesInv, FlowInv
<1>0. /\ handlerMap \in [Ids -> Sessions \cup {None}]
      /\ handlerId \in [Sessions -> Ids \cup {Invalid}]
      /\ onClosed \in [Sessions -> Nat] /\ None \notin Sessions /\ Invalid \notin Ids
  BY SessionAssumption DEF TypeOK, MainTypes, SeenTypes, Ids, Invalid
<1>1. ASSUME NEW s \in Sessions, Accept(s), ~Refused(s) PROVE MapInv'
  <2>1. NextId \in Ids /\ handlerMap[NextId] = None /\ handlerId[s] = Invalid
    BY <1>1, NextIdFresh, NewIsNowhere DEF Accept
  <2>2. /\ handlerId' = [handlerId EXCEPT ![s] = NextId]
        /\ handlerMap' = [handlerMap EXCEPT ![NextId] = s] /\ onClosed' = onClosed
    BY <1>1 DEF Accept, Refused
  <2>3. \A n \in Ids : handlerMap[n] # s
    BY <1>1, NewIsNowhere DEF Accept
  <2>4. onClosed[s] = 0
    BY <1>1 DEF Accept, LifeInv, LifeOf
  <2>5. ASSUME NEW n \in Ids, handlerMap'[n] # None PROVE handlerId'[handlerMap'[n]] = n
    <3>1. CASE n = NextId
      BY <1>0, <2>1, <2>2, <3>1
    <3>2. CASE n # NextId
      BY <1>0, <2>1, <2>2, <2>3, <2>5, <3>2 DEF MapInv
    <3> QED
      BY <3>1, <3>2
  <2>6. ASSUME NEW r \in Sessions, handlerId'[r] # Invalid
        PROVE  handlerMap'[handlerId'[r]] = r /\ onClosed'[r] = 0
    <3>1. CASE r = s
      BY <1>0, <2>1, <2>2, <2>4, <3>1
    <3>2. CASE r # s
      <4>1. handlerId'[r] = handlerId[r] /\ handlerMap[handlerId[r]] = r /\ onClosed[r] = 0
        BY <1>0, <2>2, <2>6, <3>2 DEF MapInv
      <4>2. handlerId[r] # NextId /\ handlerId[r] \in Ids
        BY <1>0, <2>1, <2>6, <4>1
      <4> QED
        BY <1>0, <2>1, <2>2, <4>1, <4>2
    <3> QED
      BY <3>1, <3>2
  <2> QED
    BY <2>5, <2>6 DEF MapInv
<1>2. CASE RunOnSessionClose
  <2> DEFINE n == mainQ[1].id
  <2>1. n \in Ids /\ Disposes(handlerMap[n], n)
    BY <1>2, OnCloseDoes
  <2> QED
    BY <1>0, <2>1 DEF MapInv, Disposes
<1>3. CASE UNCHANGED <<handlerMap, handlerId, onClosed>>
  BY <1>3 DEF MapInv
<1> QED
  BY <1>1, <1>2, <1>3, CoreStep, RefusedDoes DEF RunInit, mainVars, seen

\* Every step keeps the sessions of the session queues under their ids.
LEMMA QueueKeeps ==
    ASSUME TypeOK, HalvesInv, FlowInv, [Next]_vars PROVE QueueInv'
<1> USE DEF HalvesInv, FlowInv
<1>0. /\ queue \in [Threads -> [Ids -> Sessions \cup {None}]]
      /\ id \in [Sessions -> Ids \cup {Invalid}] /\ ThreadOf \in [Sessions -> Threads]
      /\ handlerId \in [Sessions -> Ids \cup {Invalid}]
      /\ socket \in [Sessions -> {"new", "open", "closed"}]
      /\ None \notin Sessions /\ Invalid \notin Ids
  BY SessionAssumption DEF TypeOK, MainTypes, IoTypes, Ids, Invalid
<1>1. ASSUME NEW s \in Sessions, Accept(s) PROVE QueueInv'
  <2>1. \A t \in Threads, n \in Ids : queue[t][n] # s
    BY <1>1, NewIsNowhere DEF Accept
  <2>2. /\ UNCHANGED <<queue, id>>
        /\ \A r \in Sessions : r # s => handlerId'[r] = handlerId[r] /\ socket'[r] = socket[r]
    BY <1>0, <1>1 DEF Accept, mainVars
  <2> QED
    BY <1>0, <2>1, <2>2 DEF QueueInv
<1>2. CASE RunOnSessionClose
  <2> DEFINE n == mainQ[1].id
             h == handlerMap[n]
  <2>1. n \in Ids /\ Disposes(h, n) /\ mainQ[1].op = "on_close" /\ Len(mainQ) \in Nat \ {0}
    BY <1>2, OnCloseDoes
  <2>2. socket[h] = "closed"
    <3>1. 1 \in 1 .. Len(mainQ)
      BY <2>1
    <3> QED
      BY <2>1, <3>1 DEF EndInv
  <2>3. /\ UNCHANGED <<queue, id, socket>> /\ h \in Sessions
        /\ \A r \in Sessions : r # h => handlerId'[r] = handlerId[r]
    BY <1>0, <1>2, <2>1 DEF RunOnSessionClose, Disposes, ioVars
  <2> HIDE DEF h, n
  <2> QED
    BY <1>0, <2>2, <2>3 DEF QueueInv
<1>3. ASSUME NEW s \in Sessions, RunInit(s) PROVE QueueInv'
  <2> DEFINE n == Q(s)[1].id
  <2>1. /\ Q(s)[1].op = "init" /\ Q(s)[1].s = s /\ n \in Ids /\ 1 \in 1 .. Len(Q(s))
        /\ id' = [id EXCEPT ![s] = n] /\ queue' = [queue EXCEPT ![ThreadOf[s]][n] = s]
    BY <1>3, InitDoes
  <2>2. id[s] = Invalid /\ handlerId[s] = n /\ socket[s] = "open"
    BY <1>0, <2>1 DEF InitInv, Q
  <2>3. UNCHANGED <<handlerId, socket>>
    BY <1>3 DEF RunInit, mainVars
  <2>4. \A t \in Threads, m \in Ids : queue[t][m] # s
    BY <1>0, <2>2 DEF QueueInv
  <2> HIDE DEF n
  <2>5. ASSUME NEW t \in Threads, NEW m \in Ids, queue'[t][m] # None
        PROVE  \/ t = ThreadOf[s] /\ m = n /\ queue'[t][m] = s
               \/ queue'[t][m] = queue[t][m] /\ queue[t][m] # s
    BY <1>0, <2>1, <2>4
  <2> QED
    BY <1>0, <2>1, <2>2, <2>3, <2>5 DEF QueueInv
<1>4. ASSUME NEW s \in Sessions, Ends(s), UNCHANGED <<handlerId, id>> PROVE QueueInv'
  <2>1. /\ queue' = [queue EXCEPT ![ThreadOf[s]][id[s]] = None] /\ id[s] \in Ids
        /\ socket' = [socket EXCEPT ![s] = "closed"]
    BY <1>4 DEF Ends
  <2>2. ASSUME NEW t \in Threads, NEW m \in Ids, queue'[t][m] # None
        PROVE  queue'[t][m] = queue[t][m] /\ queue[t][m] # s
    BY <1>0, <2>1, <2>2 DEF QueueInv
  <2> QED
    BY <1>0, <1>4, <2>1, <2>2 DEF QueueInv
<1>5. CASE UNCHANGED <<handlerId, queue, id, socket>>
  BY <1>5 DEF QueueInv
<1> QED
  BY <1>1, <1>2, <1>3, <1>4, <1>5, CoreStep

ReadResults  == {"length", "zero", "body", "error"}
WriteResults == {"ok", "error"}

\* The first task of thread u is run by the action for it.
TakenOff(u, e) ==
    /\ e.op = "init" => e.s \in Sessions /\ RunInit(e.s)
    /\ e.op = "to_session" => RunToSession(u)
    /\ e.op = "close" => RunCloseSession(u)
    /\ e.op = "pack_in" => e.s \in Sessions /\ RunPackIn(e.s)
    /\ e.op = "read" => e.s \in Sessions /\ (HandleReadClosed(e.s) \/ HandleRead(e.s))
    /\ e.op = "write" => e.s \in Sessions /\ (HandleWriteError(e.s) \/ HandleWrite(e.s))

\* Who posts what to thread u.
PostedTo(u, e) ==
    \E s \in Sessions :
        /\ ThreadOf[s] = u
        /\ \/ Accept(s) /\ ~Refused(s) /\ e = InitSession(s, NextId)
           \/ /\ Close(s) \/ (RunPackOut /\ s = Head(mainQ).s)
              /\ e \in PackedTasks(s)
           \/ Close(s) /\ e = CloseSession(handlerId[s])
           \/ HandleRead(s) /\ e = PackIn(s)
           \/ \E res \in ReadResults : ReadCompletes(s, res) /\ e = ReadDone(s, res)
           \/ \E res \in WriteResults : WriteCompletes(s, res) /\ e = WriteDone(s, res)

\* What a step does to the task queue of thread u.
IoStepOf(u, d, N) ==
    /\ Slid(ioQ[u], ioQ'[u], d, N) /\ d \in {0, 1}
    /\ d = 1 => 1 \in 1 .. Len(ioQ[u]) /\ TakenOff(u, ioQ[u][1])
    /\ \A e \in N : PostedTo(u, e)

\* A step that posts to one thread, seen from each of the threads.
LEMMA IoPosts ==
    ASSUME TypeOK, NEW u \in Threads, NEW s \in Sessions, NEW N,
           IoSlides(ThreadOf[s], 0, N),
           ThreadOf[s] = u => \A e \in N : PostedTo(u, e)
    PROVE  \E d, M : IoStepOf(u, d, M)
<1>1. CASE ThreadOf[s] = u
  BY <1>1 DEF IoSlides, IoStepOf
<1>2. CASE ThreadOf[s] # u
  <2>1. ioQ'[u] = ioQ[u] /\ Slid(ioQ[u], ioQ'[u], 0, {})
    BY <1>2, StaysSlid DEF IoSlides, TypeOK, TaskTypes
  <2> QED
    BY <2>1 DEF IoStepOf
<1> QED
  BY <1>1, <1>2

\* A step that takes a task off one thread's queue, seen from each of the threads.
LEMMA IoTakes ==
    ASSUME TypeOK, NEW u \in Threads, NEW t \in Threads, NEW N, IoSlides(t, 1, N),
           t = u => /\ 1 \in 1 .. Len(ioQ[u]) /\ TakenOff(u, ioQ[u][1])
                    /\ \A e \in N : PostedTo(u, e)
    PROVE  \E d, M : IoStepOf(u, d, M)
<1>1. CASE t = u
  BY <1>1 DEF IoSlides, IoStepOf
<1>2. CASE t # u
  <2>1. ioQ'[u] = ioQ[u] /\ Slid(ioQ[u], ioQ'[u], 0, {})
    BY <1>2, StaysSlid DEF IoSlides, TypeOK, TaskTypes
  <2> QED
    BY <2>1 DEF IoStepOf
<1> QED
  BY <1>1, <1>2

\* Every step takes at most one task off an I/O thread's queue and posts at its end.
LEMMA IoStep ==
    ASSUME TypeOK, HalvesInv, FlowInv, [Next]_vars, NEW u \in Threads
    PROVE  \E d, N : IoStepOf(u, d, N)
<1> USE DEF HalvesInv, FlowInv
<1> DEFINE goal == \E d, N : IoStepOf(u, d, N)
<1>1. CASE ioQ' = ioQ
  <2>1. Slid(ioQ[u], ioQ'[u], 0, {})
    BY <1>1, StaysSlid DEF TypeOK, TaskTypes
  <2> QED
    BY <2>1 DEF IoStepOf
<1>2. ASSUME NEW s \in Sessions, Accept(s) PROVE goal
  <2>1. CASE Refused(s)
    BY <1>1, <1>2, <2>1, RefusedDoes
  <2>2. CASE ~Refused(s)
    <3>1. IoSlides(ThreadOf[s], 0, {InitSession(s, NextId)})
      BY <1>2, <2>2, AcceptDoes
    <3> HIDE DEF goal
    <3>2. ThreadOf[s] = u => \A e \in {InitSession(s, NextId)} : PostedTo(u, e)
      BY <1>2, <2>2 DEF PostedTo
    <3> QED
      BY <3>1, <3>2, IoPosts DEF goal
  <2> QED
    BY <2>1, <2>2
<1>3. ASSUME NEW s \in Sessions, Close(s) PROVE goal
  <2>1. IoSlides(ThreadOf[s], 0, PackedTasks(s) \cup {CloseSession(handlerId[s])})
    BY <1>3, CloseDoes
  <2>2. ThreadOf[s] = u =>
          \A e \in PackedTasks(s) \cup {CloseSession(handlerId[s])} : PostedTo(u, e)
    BY <1>3 DEF PostedTo
  <2> QED
    BY <2>1, <2>2, IoPosts
<1>4. CASE RunPackOut
  <2> DEFINE s == Head(mainQ).s
  <2>1. s \in Sessions /\ IoSlides(ThreadOf[s], 0, PackedTasks(s))
    BY <1>4, PackOutDoes
  <2>2. ThreadOf[s] = u => \A e \in PackedTasks(s) : PostedTo(u, e)
    BY <1>4, <2>1 DEF PostedTo
  <2> HIDE DEF s
  <2> QED
    BY <2>1, <2>2, IoPosts
<1>5. ASSUME NEW s \in Sessions, RunInit(s) PROVE goal
  <2>1. /\ Q(s)[1].op = "init" /\ Q(s)[1].s = s /\ 1 \in 1 .. Len(Q(s))
        /\ IoSlides(ThreadOf[s], 1, {}) /\ ThreadOf[s] \in Threads
    BY <1>5, InitDoes, SessionAssumption
  <2>2. ThreadOf[s] = u => TakenOff(u, ioQ[u][1])
    BY <1>5, <2>1 DEF TakenOff, Q
  <2> QED
    BY <2>1, <2>2, IoTakes DEF Q
<1>6. ASSUME NEW t \in Threads, RunToSession(t) \/ RunCloseSession(t) PROVE goal
  <2>1. /\ 1 \in 1 .. Len(ioQ[t]) /\ IoSlides(t, 1, {})
        /\ \/ RunToSession(t) /\ ioQ[t][1].op = "to_session"
           \/ RunCloseSession(t) /\ ioQ[t][1].op = "close"
    BY <1>6, ToSessionDoes, CloseSessionDoes
  <2>2. t = u => TakenOff(u, ioQ[u][1])
    BY <2>1 DEF TakenOff
  <2> QED
    BY <2>1, <2>2, IoTakes
<1>7. ASSUME NEW s \in Sessions, RunPackIn(s) PROVE goal
  <2>1. /\ Q(s)[1].op = "pack_in" /\ Q(s)[1].s = s /\ 1 \in 1 .. Len(Q(s))
        /\ IoSlides(ThreadOf[s], 1, {}) /\ ThreadOf[s] \in Threads
    BY <1>7, PackInDoes, SessionAssumption
  <2>2. ThreadOf[s] = u => TakenOff(u, ioQ[u][1])
    BY <1>7, <2>1 DEF TakenOff, Q
  <2> QED
    BY <2>1, <2>2, IoTakes DEF Q
<1>8. ASSUME NEW s \in Sessions, HandleReadClosed(s) \/ HandleWriteError(s) \/ HandleWrite(s)
      PROVE  goal
  <2>1. /\ Q(s)[1].s = s /\ 1 \in 1 .. Len(Q(s))
        /\ \/ Q(s)[1].op = "read" /\ HandleReadClosed(s)
           \/ Q(s)[1].op = "write" /\ (HandleWriteError(s) \/ HandleWrite(s))
        /\ IoSlides(ThreadOf[s], 1, {}) /\ ThreadOf[s] \in Threads
    BY <1>8, ReadClosedDoes, WriteErrorDoes, WriteDoes, SessionAssumption
  <2>2. ThreadOf[s] = u => TakenOff(u, ioQ[u][1])
    BY <2>1 DEF TakenOff, Q
  <2> QED
    BY <2>1, <2>2, IoTakes DEF Q
<1>9. ASSUME NEW s \in Sessions, HandleRead(s) PROVE goal
  <2>1. /\ Q(s)[1].op = "read" /\ Q(s)[1].s = s /\ 1 \in 1 .. Len(Q(s))
        /\ IoSlides(ThreadOf[s], 1, {PackIn(s)}) /\ ThreadOf[s] \in Threads
    BY <1>9, ReadDoes, SessionAssumption
  <2>2. ThreadOf[s] = u => TakenOff(u, ioQ[u][1]) /\ \A e \in {PackIn(s)} : PostedTo(u, e)
    BY <1>9, <2>1 DEF TakenOff, PostedTo, Q
  <2> QED
    BY <2>1, <2>2, IoTakes DEF Q
<1>10. ASSUME NEW s \in Sessions, NEW res \in ReadResults, ReadCompletes(s, res) PROVE goal
  <2>1. IoSlides(ThreadOf[s], 0, {ReadDone(s, res)})
    BY <1>10, CompletesDoes DEF ReadResults, Completion
  <2>2. ThreadOf[s] = u => \A e \in {ReadDone(s, res)} : PostedTo(u, e)
    BY <1>10 DEF PostedTo
  <2> QED
    BY <2>1, <2>2, IoPosts
<1>11. ASSUME NEW s \in Sessions, NEW res \in WriteResults, WriteCompletes(s, res) PROVE goal
  <2>1. IoSlides(ThreadOf[s], 0, {WriteDone(s, res)})
    BY <1>11, CompletesDoes DEF WriteResults, Completion
  <2>2. ThreadOf[s] = u => \A e \in {WriteDone(s, res)} : PostedTo(u, e)
    BY <1>11 DEF PostedTo
  <2> QED
    BY <2>1, <2>2, IoPosts
<1>12. ASSUME NEW s \in Sessions, Send(s) \/ PeerGoes(s) PROVE ioQ' = ioQ
  BY <1>12 DEF Send, PeerGoes
<1>13. RunToHandler \/ RunOnSessionClose \/ UNCHANGED vars => ioQ' = ioQ
  BY DEF RunToHandler, RunOnSessionClose, vars
<1> HIDE DEF HalvesInv, FlowInv
<1>14. ASSUME NEW t \in Threads, IoTask(t) PROVE goal
  BY <1>5, <1>6, <1>7, <1>8, <1>9, <1>14 DEF IoTask
<1>15. ASSUME PeerNext PROVE goal
  BY <1>1, <1>10, <1>11, <1>12, <1>15 DEF PeerNext, ReadResults, WriteResults
<1>16. ASSUME MainNext PROVE goal
  BY <1>1, <1>2, <1>3, <1>4, <1>12, <1>13, <1>16 DEF MainNext, MainTask
<1>17. goal
  BY <1>1, <1>13, <1>14, <1>15, <1>16 DEF Next
<1> QED
  BY <1>17 DEF goal

\* Who posts what to the main thread, and what a step does to its task queue.
PostedToMain(e) ==
    \E s \in Sessions :
        \/ e = PackOut(s)
        \/ RunPackIn(s) /\ received[s] # <<>> /\ e = ToHandler(s, received[s])
        \/ Ends(s) /\ e = OnSessionClose(id[s])

MainStepOf(d, N) ==
    /\ Slid(mainQ, mainQ', d, N) /\ d \in {0, 1}
    /\ d = 1 => /\ 1 \in 1 .. Len(mainQ)
                /\ mainQ[1].op = "to_handler" => RunToHandler
                /\ mainQ[1].op = "on_close" => RunOnSessionClose
    /\ \A e \in N : PostedToMain(e)

\* The end of a session posts at most one task to the main thread.
LEMMA MainEnds ==
    ASSUME TypeOK, NEW s \in Sessions, MayEnd(s)
    PROVE  \E d, N : MainStepOf(d, N)
<1>1. mainQ \in Seq(MainTasks)
  BY DEF TypeOK, TaskTypes
<1>2. CASE Ends(s)
  <2>1. mainQ' = Append(mainQ, OnSessionClose(id[s])) /\ OnSessionClose(id[s]) \in MainTasks
    BY <1>2, NewTasks DEF Ends
  <2>2. Slid(mainQ, mainQ', 0, {OnSessionClose(id[s])})
    BY <1>1, <2>1, AppendSlides
  <2>3. \A e \in {OnSessionClose(id[s])} : PostedToMain(e)
    BY <1>2 DEF PostedToMain
  <2> QED
    BY <2>2, <2>3 DEF MainStepOf
<1>3. CASE mainQ' = mainQ
  <2>1. Slid(mainQ, mainQ', 0, {})
    BY <1>1, <1>3, StaysSlid
  <2> QED
    BY <2>1 DEF MainStepOf
<1> QED
  BY <1>2, <1>3 DEF MayEnd

\* Every step takes at most one task off the main thread's queue and posts at its end.
LEMMA MainStep ==
    ASSUME TypeOK, HalvesInv, FlowInv, [Next]_vars
    PROVE  \E d, N : MainStepOf(d, N)
<1> USE DEF HalvesInv, FlowInv
<1> DEFINE goal == \E d, N : MainStepOf(d, N)
<1>0. mainQ \in Seq(MainTasks)
  BY DEF TypeOK, TaskTypes
<1>1. CASE mainQ' = mainQ
  <2>1. Slid(mainQ, mainQ', 0, {})
    BY <1>0, <1>1, StaysSlid
  <2> QED
    BY <2>1 DEF MainStepOf
<1>2. ASSUME NEW s \in Sessions, Accept(s) \/ Send(s) PROVE goal
  <2>1. mainQ' = mainQ \/ Slid(mainQ, mainQ', 0, {PackOut(s)})
    BY <1>2, AcceptDoes, RefusedDoes, SendDoes
  <2>2. \A e \in {PackOut(s)} : PostedToMain(e)
    BY DEF PostedToMain
  <2>3. Slid(mainQ, mainQ', 0, {PackOut(s)}) => MainStepOf(0, {PackOut(s)})
    BY <2>2 DEF MainStepOf
  <2> QED
    BY <1>1, <2>1, <2>3
<1>3. CASE RunPackOut \/ RunToHandler \/ RunOnSessionClose
  <2>1. /\ Slid(mainQ, mainQ', 1, {}) /\ Len(mainQ) \in Nat \ {0}
        /\ \/ mainQ[1].op = "pack_out"
           \/ mainQ[1].op = "to_handler" /\ RunToHandler
           \/ mainQ[1].op = "on_close" /\ RunOnSessionClose
    BY <1>3, PackOutDoes, ToHandlerDoes, OnCloseDoes
  <2> QED
    BY <2>1 DEF MainStepOf
<1>4. ASSUME NEW s \in Sessions, RunPackIn(s) PROVE goal
  <2>1. CASE received[s] = <<>>
    BY <1>1, <1>4, <2>1, PackInDoes
  <2>2. CASE received[s] # <<>>
    <3>1. mainQ' = Append(mainQ, ToHandler(s, received[s]))
          /\ ToHandler(s, received[s]) \in MainTasks
      BY <1>4, <2>2, PackInDoes
    <3>2. Slid(mainQ, mainQ', 0, {ToHandler(s, received[s])})
      BY <1>0, <3>1, AppendSlides
    <3>3. \A e \in {ToHandler(s, received[s])} : PostedToMain(e)
      BY <1>4, <2>2 DEF PostedToMain
    <3> QED
      BY <3>2, <3>3 DEF MainStepOf
  <2> QED
    BY <2>1, <2>2
<1>5. ASSUME NEW s \in Sessions, HandleReadClosed(s) \/ HandleWriteError(s) \/ HandleWrite(s)
      PROVE  goal
  BY <1>5, ReadClosedDoes, WriteErrorDoes, WriteDoes, MainEnds
<1>6. ASSUME NEW t \in Threads, RunCloseSession(t) PROVE goal
  <2> DEFINE s == SessionAt(t, ioQ[t][1].id)
  <2>1. /\ s \in Sessions \cup {None}
        /\ \/ UNCHANGED <<mainQ, closed, received, socket, queue>> /\ (s = None \/ closed[s])
           \/ s # None /\ closed' = [closed EXCEPT ![s] = TRUE] /\ MayEnd(s)
    BY <1>6, CloseSessionDoes
  <2> QED
    BY <1>1, <2>1, MainEnds
<1>7. ASSUME NEW s \in Sessions, Close(s) \/ RunInit(s) \/ HandleRead(s) PROVE mainQ' = mainQ
  BY <1>7 DEF Close, RunInit, HandleRead
<1>8. ASSUME NEW t \in Threads, RunToSession(t) PROVE mainQ' = mainQ
  BY <1>8 DEF RunToSession
<1>9. PeerNext \/ UNCHANGED vars => mainQ' = mainQ
  BY DEF PeerNext, ReadCompletes, WriteCompletes, PeerGoes, vars
<1> HIDE DEF HalvesInv, FlowInv
<1>10. ASSUME NEW t \in Threads, IoTask(t) PROVE goal
  BY <1>1, <1>4, <1>5, <1>6, <1>7, <1>8, <1>10 DEF IoTask
<1>11. ASSUME MainNext PROVE goal
  BY <1>1, <1>2, <1>3, <1>7, <1>11 DEF MainNext, MainTask
<1> QED
  BY <1>1, <1>9, <1>10, <1>11 DEF Next

-----------------------------------------------------------------------------
(* What a step does to one connection.                                     *)

SameHandler(s) ==
    UNCHANGED <<handlerId[s], outbox[s], sent[s], owed[s], closeCalls[s], onClosed[s]>>
SameSession(s) ==
    UNCHANGED <<id[s], closed[s], handlers[s], reading[s], writing[s], socket[s]>>
SameOut(s) == UNCHANGED <<sending[s], toBeSent[s], written[s]>>
SameIn(s)  == UNCHANGED <<received[s], arrived[s], delivered[s]>>

Idles(s) ==
    SameHandler(s) /\ SameSession(s) /\ SameOut(s) /\ SameIn(s) /\ UNCHANGED peer[s]

Accepts(s) ==
    /\ Accept(s) /\ ~Refused(s)
    /\ socket[s] = "new" /\ id[s] = Invalid /\ handlerId[s] = Invalid /\ onClosed[s] = 0
    /\ socket'[s] = "open" /\ handlerId'[s] = NextId /\ NextId \in Ids
    /\ outbox'[s] = << <<s, 1>> >> /\ sent'[s] = << <<s, 1>> >> /\ owed'[s] = 1
    /\ UNCHANGED <<closeCalls[s], onClosed[s], id[s], closed[s], handlers[s], reading[s],
                   writing[s], peer[s]>>
    /\ SameOut(s) /\ SameIn(s)

Refuses(s) ==
    /\ socket[s] = "new" /\ socket'[s] = "closed"
    /\ UNCHANGED <<id[s], closed[s], handlers[s], reading[s], writing[s], peer[s]>>
    /\ SameHandler(s) /\ SameOut(s) /\ SameIn(s)

Sends(s) ==
    /\ Send(s) /\ handlerId[s] # Invalid
    /\ outbox'[s] = Append(outbox[s], <<s, Len(sent[s]) + 1>>)
    /\ sent'[s] = Append(sent[s], <<s, Len(sent[s]) + 1>>)
    /\ closeCalls[s] > 0 => UNCHANGED owed[s]
    /\ closeCalls[s] = 0 => owed'[s] = owed[s] + 1
    /\ UNCHANGED <<handlerId[s], closeCalls[s], onClosed[s], peer[s]>>
    /\ SameSession(s) /\ SameOut(s) /\ SameIn(s)

Closes(s) ==
    /\ Close(s) /\ handlerId[s] # Invalid
    /\ outbox'[s] = <<>> /\ closeCalls'[s] = closeCalls[s] + 1
    /\ UNCHANGED <<handlerId[s], sent[s], owed[s], onClosed[s], peer[s]>>
    /\ SameSession(s) /\ SameOut(s) /\ SameIn(s)

Packs(s) ==
    /\ RunPackOut /\ s = Head(mainQ).s
    /\ outbox'[s] = <<>>
    /\ UNCHANGED <<handlerId[s], sent[s], owed[s], closeCalls[s], onClosed[s], peer[s]>>
    /\ SameSession(s) /\ SameOut(s) /\ SameIn(s)

Hears(s) ==
    /\ RunToHandler /\ 1 \in 1 .. Len(mainQ)
    /\ mainQ[1].op = "to_handler" /\ mainQ[1].s = s
    /\ mainQ[1].msgs \in Lists /\ mainQ[1].msgs[1][1] = s
    /\ handlerId[s] # Invalid
    /\ delivered'[s] = delivered[s] \o mainQ[1].msgs
    /\ UNCHANGED <<received[s], arrived[s], peer[s]>>
    /\ SameHandler(s) /\ SameSession(s) /\ SameOut(s)

Leaves(s) ==
    /\ RunOnSessionClose /\ 1 \in 1 .. Len(mainQ)
    /\ mainQ[1].op = "on_close" /\ mainQ[1].id = handlerId[s]
    /\ handlerId[s] # Invalid /\ id[s] = handlerId[s] /\ socket[s] = "closed"
    /\ onClosed[s] = 0 /\ onClosed'[s] = 1 /\ handlerId'[s] = Invalid
    /\ UNCHANGED <<outbox[s], sent[s], owed[s], closeCalls[s], peer[s]>>
    /\ SameSession(s) /\ SameOut(s) /\ SameIn(s)

Starts(s) ==
    /\ RunInit(s) /\ id[s] = Invalid /\ socket[s] = "open"
    /\ handlerId[s] # Invalid /\ id'[s] = handlerId[s]
    /\ reading'[s] = "armed" /\ handlers'[s] = handlers[s] + 1
    /\ UNCHANGED <<closed[s], writing[s], socket[s], peer[s]>>
    /\ SameHandler(s) /\ SameOut(s) /\ SameIn(s)

\* The first task of its thread gives the session messages to write.
Gets(s) ==
    /\ RunToSession(ThreadOf[s]) /\ Q(s)[1].op = "to_session"
    /\ Q(s)[1].id = id[s] /\ id[s] # Invalid /\ handlerId[s] = id[s]
    /\ queue[ThreadOf[s]][id[s]] = s /\ Q(s)[1].msgs \in Lists /\ ~closed[s]
    /\ \/ /\ sending[s] = <<>> /\ sending'[s] = toBeSent[s] \o Q(s)[1].msgs
          /\ toBeSent'[s] = <<>> /\ writing'[s] = "armed"
          /\ handlers'[s] = handlers[s] + 1
       \/ /\ sending[s] # <<>> /\ toBeSent'[s] = toBeSent[s] \o Q(s)[1].msgs
          /\ UNCHANGED <<writing[s], handlers[s], sending[s]>>
    /\ UNCHANGED <<id[s], closed[s], reading[s], socket[s], written[s], peer[s]>>
    /\ SameHandler(s) /\ SameIn(s)

\* The socket of s may be closed by the step.
MayShut(s) == UNCHANGED socket[s] \/ (Ends(s) /\ socket'[s] = "closed")

Shuts(s) ==
    /\ RunCloseSession(ThreadOf[s]) /\ Q(s)[1].op = "close" /\ 1 \in 1 .. Len(Q(s))
    /\ Q(s)[1].id = id[s] /\ id[s] # Invalid /\ handlerId[s] = id[s]
    /\ queue[ThreadOf[s]][id[s]] = s /\ ~closed[s] /\ closed'[s] /\ MayShut(s)
    /\ UNCHANGED <<id[s], handlers[s], reading[s], writing[s], peer[s]>>
    /\ SameHandler(s) /\ SameOut(s) /\ SameIn(s)

HandsOver(s) ==
    /\ RunPackIn(s) /\ received'[s] = <<>>
    /\ UNCHANGED <<arrived[s], delivered[s], peer[s]>>
    /\ SameHandler(s) /\ SameSession(s) /\ SameOut(s)

ReadsNoMore(s) ==
    /\ HandleReadClosed(s) /\ id[s] # Invalid /\ queue[ThreadOf[s]][id[s]] = s
    /\ closed[s] \/ peer[s] = "gone"
    /\ reading[s] = "done" /\ received[s] = <<>> /\ reading'[s] = "no"
    /\ handlers'[s] = handlers[s] - 1 /\ closed'[s] /\ MayShut(s)
    /\ UNCHANGED <<id[s], writing[s], peer[s]>>
    /\ SameHandler(s) /\ SameOut(s) /\ SameIn(s)

Reads(s) ==
    /\ HandleRead(s) /\ id[s] # Invalid /\ queue[ThreadOf[s]][id[s]] = s
    /\ reading[s] = "done" /\ received[s] = <<>> /\ ~closed[s]
    /\ \/ /\ UNCHANGED <<received[s], arrived[s]>>
          /\ \/ reading'[s] = "no" /\ handlers'[s] = handlers[s] - 1
             \/ reading'[s] = "armed" /\ UNCHANGED handlers[s]
       \/ /\ received'[s] = << <<s, arrived[s] + 1>> >> /\ arrived'[s] = arrived[s] + 1
          /\ reading'[s] = "armed" /\ UNCHANGED handlers[s]
          /\ Q(s)' = Append(Tail(Q(s)), PackIn(s))
    /\ UNCHANGED <<id[s], closed[s], writing[s], socket[s], delivered[s], peer[s]>>
    /\ SameHandler(s) /\ SameOut(s)

WritesNoMore(s) ==
    /\ HandleWriteError(s) /\ id[s] # Invalid /\ queue[ThreadOf[s]][id[s]] = s
    /\ peer[s] = "gone" /\ writing[s] = "done" /\ writing'[s] = "no"
    /\ handlers'[s] = handlers[s] - 1 /\ closed'[s] /\ MayShut(s)
    /\ UNCHANGED <<id[s], reading[s], peer[s]>>
    /\ SameHandler(s) /\ SameOut(s) /\ SameIn(s)

Writes(s) ==
    /\ HandleWrite(s) /\ id[s] # Invalid /\ queue[ThreadOf[s]][id[s]] = s
    /\ writing[s] = "done" /\ written'[s] = written[s] \o sending[s]
    /\ sending'[s] = toBeSent[s] /\ toBeSent'[s] = <<>> /\ MayShut(s)
    /\ \/ /\ toBeSent[s] # <<>> /\ writing'[s] = "armed" /\ UNCHANGED handlers[s]
       \/ /\ toBeSent[s] = <<>> /\ writing'[s] = "no" /\ handlers'[s] = handlers[s] - 1
    /\ UNCHANGED <<id[s], closed[s], reading[s], peer[s]>>
    /\ SameHandler(s) /\ SameIn(s)

Completes(s) ==
    /\ \/ reading[s] = "armed" /\ reading'[s] = "done" /\ UNCHANGED writing[s]
       \/ writing[s] = "armed" /\ writing'[s] = "done" /\ UNCHANGED reading[s]
    /\ UNCHANGED <<id[s], closed[s], handlers[s], socket[s], peer[s]>>
    /\ SameHandler(s) /\ SameOut(s) /\ SameIn(s)

LosesPeer(s) ==
    /\ socket[s] = "open" /\ peer'[s] = "gone"
    /\ SameHandler(s) /\ SameSession(s) /\ SameOut(s) /\ SameIn(s)

\* The actions of the handler's half.
LEMMA HandlerLocal ==
    ASSUME TypeOK, HalvesInv, NEW s \in Sessions, NEW r \in Sessions,
           Accept(r) \/ Send(r) \/ Close(r)
    PROVE  IF r # s THEN Idles(s) ELSE Accepts(s) \/ Refuses(s) \/ Sends(s) \/ Closes(s)
<1> USE DEF HalvesInv, SameHandler, SameSession, SameOut, SameIn
<1>0. TypeOK
  OBVIOUS
<1> USE DEF TypeOK, MainTypes, IoTypes, SeenTypes
<1>1. CASE Accept(r) /\ Refused(r)
  <2>1. /\ socket[r] = "new" /\ socket' = [socket EXCEPT ![r] = "closed"]
        /\ UNCHANGED <<mainQ, ioQ, mainVars, queue, id, closed, handlers, reading,
                       writing, header, received, toBeSent, sending, seen>>
    BY <1>1, RefusedDoes
  <2> QED
    BY <2>1 DEF Idles, Refuses, mainVars, seen
<1>2. CASE Accept(r) /\ ~Refused(r)
  <2>1. NextId \in Ids
    BY <1>2, AcceptDoes
  <2>2. id[r] = Invalid /\ handlerId[r] = Invalid /\ onClosed[r] = 0
    BY <1>2 DEF Accept, LifeInv, LifeOf
  <2>3. /\ socket[r] = "new" /\ socket' = [socket EXCEPT ![r] = "open"]
        /\ handlerId' = [handlerId EXCEPT ![r] = NextId]
        /\ outbox' = [outbox EXCEPT ![r] = << <<r, 1>> >>]
        /\ sent' = [sent EXCEPT ![r] = << <<r, 1>> >>]
        /\ owed' = [owed EXCEPT ![r] = 1]
        /\ UNCHANGED <<queue, id, closed, handlers, reading, writing,
                       header, received, toBeSent, sending, peer, arrived,
                       written, delivered, closeCalls, onClosed>>
    BY <1>2 DEF Accept, Refused
  <2>4. CASE r = s
    BY <1>2, <2>1, <2>2, <2>3, <2>4 DEF Accepts
  <2>5. CASE r # s
    BY <2>3, <2>5 DEF Idles
  <2> QED
    BY <2>4, <2>5
<1>3. CASE Send(r)
  <2> DEFINE m == <<r, Len(sent[r]) + 1>>
  <2>1. /\ handlerId[r] # Invalid
        /\ outbox' = [outbox EXCEPT ![r] = Append(@, m)]
        /\ sent' = [sent EXCEPT ![r] = Append(@, m)]
        /\ closeCalls[r] > 0 => owed' = owed
        /\ ~(closeCalls[r] > 0) => owed' = [owed EXCEPT ![r] = @ + 1]
        /\ UNCHANGED <<handlerId, ioVars, peer, arrived, written, delivered, closeCalls,
                       onClosed>>
    BY <1>3 DEF Send
  <2> HIDE DEF m
  <2>2. outbox'[r] = Append(outbox[r], m) /\ sent'[r] = Append(sent[r], m)
    BY <2>1
  <2>3. closeCalls[r] \in Nat
    OBVIOUS
  <2>4. CASE r = s
    BY <1>3, <2>1, <2>2, <2>3, <2>4 DEF Sends, m, ioVars
  <2>5. CASE r # s
    BY <2>1, <2>5 DEF Idles, ioVars
  <2> QED
    BY <2>4, <2>5
<1>4. CASE Close(r)
  <2>1. /\ handlerId[r] # Invalid
        /\ outbox' = [outbox EXCEPT ![r] = <<>>]
        /\ closeCalls' = [closeCalls EXCEPT ![r] = @ + 1]
        /\ UNCHANGED <<handlerId, ioVars, peer, arrived, sent, written, delivered, owed,
                       onClosed>>
    BY <1>4 DEF Close
  <2>2. CASE r = s
    BY <1>4, <2>1, <2>2 DEF Closes, ioVars
  <2>3. CASE r # s
    BY <2>1, <2>3 DEF Idles, ioVars
  <2> QED
    BY <2>2, <2>3
<1> QED
  BY <1>1, <1>2, <1>3, <1>4

\* What a task of the main thread does to one connection.
LEMMA MainLocal ==
    ASSUME TypeOK, HalvesInv, FlowInv, NEW s \in Sessions,
           RunPackOut \/ RunToHandler \/ RunOnSessionClose
    PROVE  Idles(s) \/ Packs(s) \/ Hears(s) \/ Leaves(s)
<1> USE DEF HalvesInv, FlowInv, SameHandler, SameSession, SameOut, SameIn
<1>1. CASE RunPackOut
  <2> DEFINE h == Head(mainQ).s
  <2>1. h \in Sessions /\ outbox' = [outbox EXCEPT ![h] = <<>>]
    BY <1>1, PackOutDoes
  <2>2. UNCHANGED <<handlerMap, next, pool, handlerId, ioVars, seen>>
    BY <1>1 DEF RunPackOut
  <2>3. CASE h = s
    BY <1>1, <2>1, <2>2, <2>3 DEF Packs, TypeOK, MainTypes, ioVars, seen
  <2>4. CASE h # s
    BY <2>1, <2>2, <2>4 DEF Idles, TypeOK, MainTypes, ioVars, seen
  <2> QED
    BY <2>3, <2>4
<1>2. CASE RunToHandler
  <2> PICK e : e = mainQ[1]
    OBVIOUS
  <2>0. /\ e.op = "to_handler" /\ e.s \in Sessions /\ e.msgs \in Lists
        /\ Len(mainQ) \in Nat \ {0}
        /\ delivered' = IF handlerMap[id[e.s]] = None THEN delivered
                        ELSE [delivered EXCEPT ![handlerMap[id[e.s]]] = @ \o e.msgs]
    BY <1>2, ToHandlerDoes
  <2>1. 1 \in 1 .. Len(mainQ)
    BY <2>0
  <2>2. /\ id[e.s] # Invalid /\ handlerMap[id[e.s]] = e.s /\ e.msgs[1][1] = e.s
    BY <2>0, <2>1 DEF ToHandlerInv
  <2>3. e.s # None /\ id[e.s] \in Ids /\ handlerId[e.s] # Invalid
    <3> HIDE DEF HalvesInv, FlowInv
    <3>1. e.s # None /\ id[e.s] \in Ids
      BY <2>0, <2>2, SessionAssumption DEF TypeOK, IoTypes
    <3>2. handlerId[e.s] = id[e.s]
      BY <2>2, <3>1 DEF HalvesInv, MapInv
    <3> QED
      BY <2>2, <3>1, <3>2
  <2>4. delivered' = [delivered EXCEPT ![e.s] = @ \o e.msgs]
    BY <2>0, <2>2, <2>3
  <2>5. UNCHANGED <<mainVars, ioVars, peer, arrived, sent, written, closeCalls, owed, onClosed>>
    BY <1>2 DEF RunToHandler
  <2>6. CASE e.s = s
    <3>1. delivered'[s] = delivered[s] \o e.msgs
      BY <2>0, <2>4, <2>6 DEF TypeOK, SeenTypes
    <3> QED
      BY <1>2, <2>0, <2>1, <2>2, <2>3, <2>5, <2>6, <3>1 DEF Hears, mainVars, ioVars
  <2>7. CASE e.s # s
    <3>1. delivered \in [Sessions -> Seq(Msg)]
      BY DEF TypeOK, SeenTypes
    <3>2. delivered'[s] = delivered[s]
      BY <2>4, <2>7, <3>1
    <3> QED
      BY <2>5, <3>2 DEF Idles, mainVars, ioVars
  <2> QED
    BY <2>6, <2>7
<1>3. CASE RunOnSessionClose
  <2> DEFINE n == mainQ[1].id
             h == handlerMap[n]
  <2>1. n \in Ids /\ Disposes(h, n) /\ mainQ[1].op = "on_close" /\ 1 \in 1 .. Len(mainQ)
    BY <1>3, OnCloseDoes
  <2>2. h \in Sessions /\ socket[h] = "closed" /\ id[h] = n
    BY <2>1, SessionAssumption DEF EndInv, Disposes
  <2>3. handlerId[h] = n /\ n # Invalid /\ onClosed[h] = 0
    BY <2>1, <2>2, SessionAssumption DEF MapInv, Ids, Invalid
  <2>4. UNCHANGED <<ioVars, outbox, peer, arrived, sent, written, delivered, closeCalls, owed>>
    BY <1>3 DEF RunOnSessionClose
  <2>5. /\ onClosed' = [onClosed EXCEPT ![h] = @ + 1]
        /\ handlerId' = [handlerId EXCEPT ![h] = Invalid]
    BY <2>1 DEF Disposes
  <2> HIDE DEF h
  <2>6. CASE h = s
    BY <1>3, <2>1, <2>2, <2>3, <2>4, <2>5, <2>6 DEF Leaves, ioVars, TypeOK, MainTypes, SeenTypes
  <2>7. CASE h # s
    BY <2>4, <2>5, <2>7 DEF Idles, ioVars, TypeOK, MainTypes, SeenTypes
  <2> QED
    BY <2>6, <2>7
<1> QED
  BY <1>1, <1>2, <1>3

\* The actions of the session's half.
LEMMA IoLocal ==
    ASSUME TypeOK, HalvesInv, FlowInv, NEW s \in Sessions, NEW r \in Sessions,
           \/ RunInit(r) \/ RunPackIn(r) \/ HandleReadClosed(r)
           \/ HandleRead(r) \/ HandleWriteError(r) \/ HandleWrite(r)
    PROVE  IF r # s THEN Idles(s)
           ELSE \/ Starts(s) \/ HandsOver(s) \/ ReadsNoMore(s)
                \/ Reads(s) \/ WritesNoMore(s) \/ Writes(s)
<1> DEFINE goal == IF r # s THEN Idles(s)
                   ELSE \/ Starts(s) \/ HandsOver(s) \/ ReadsNoMore(s)
                        \/ Reads(s) \/ WritesNoMore(s) \/ Writes(s)
<1>a. OpsInv /\ LifeInv /\ CountInv /\ RecvInv /\ InitInv /\ Invalid \notin Ids
  BY DEF HalvesInv, FlowInv, Ids, Invalid
<1>0. /\ OpsInv /\ LifeInv /\ CountInv /\ RecvInv /\ InitInv /\ Invalid \notin Ids
      /\ id \in [Sessions -> Ids \cup {Invalid}] /\ closed \in [Sessions -> BOOLEAN]
      /\ handlers \in [Sessions -> Int] /\ reading \in [Sessions -> Phase]
      /\ writing \in [Sessions -> Phase] /\ received \in [Sessions -> Seq(Msg)]
      /\ toBeSent \in [Sessions -> Seq(Msg)] /\ sending \in [Sessions -> Seq(Msg)]
      /\ socket \in [Sessions -> {"new", "open", "closed"}]
      /\ arrived \in [Sessions -> Nat] /\ written \in [Sessions -> Seq(Msg)]
  BY <1>a DEF TypeOK, IoTypes, SeenTypes
<1> USE DEF SameHandler, SameSession, SameOut, SameIn
<1>1. MayEnd(r) => received' = received /\ IF r # s THEN UNCHANGED socket[s] ELSE MayShut(s)
  BY <1>0 DEF MayEnd, Ends, MayShut
<1>2. CASE RunInit(r)
  <2> PICK n : n = Q(r)[1].id
    OBVIOUS
  <2>1. /\ Q(r)[1].op = "init" /\ Q(r)[1].s = r /\ 1 \in 1 .. Len(Q(r))
        /\ id' = [id EXCEPT ![r] = n] /\ n \in Ids
    BY <1>2, InitDoes
  <2>2. id[r] = Invalid /\ handlerId[r] = n /\ socket[r] = "open"
    <3>1. ThreadOf[r] \in Threads
      BY SessionAssumption
    <3> QED
      BY <1>a, <2>1, <3>1 DEF InitInv, Q
  <2>3. /\ reading' = [reading EXCEPT ![r] = "armed"]
        /\ handlers' = [handlers EXCEPT ![r] = @ + 1]
        /\ UNCHANGED <<mainVars, closed, writing, received, toBeSent, sending, socket, seen>>
    BY <1>2 DEF RunInit
  <2>4. CASE r = s
    BY <1>0, <1>2, <2>1, <2>2, <2>3, <2>4 DEF Starts, mainVars, seen
  <2>5. CASE r # s
    BY <1>0, <2>1, <2>3, <2>5 DEF Idles, mainVars, seen
  <2> QED
    BY <2>4, <2>5
<1>3. CASE RunPackIn(r)
  <2>1. /\ received' = [received EXCEPT ![r] = <<>>]
        /\ UNCHANGED <<mainVars, id, closed, handlers, reading, writing, toBeSent, sending,
                       socket, seen>>
    BY <1>3 DEF RunPackIn
  <2>2. CASE r = s
    BY <1>0, <1>3, <2>1, <2>2 DEF HandsOver, mainVars, seen
  <2>3. CASE r # s
    BY <1>0, <2>1, <2>3 DEF Idles, mainVars, seen
  <2> QED
    BY <2>2, <2>3
<1>4. CASE HandleReadClosed(r)
  <2>1. /\ queue[ThreadOf[r]][id[r]] = r /\ id[r] # Invalid
        /\ reading[r] = "done" /\ received[r] = <<>>
        /\ closed[r] \/ peer[r] = "gone"
        /\ reading' = [reading EXCEPT ![r] = "no"]
        /\ handlers' = [handlers EXCEPT ![r] = @ - 1]
        /\ closed' = [closed EXCEPT ![r] = TRUE]
        /\ UNCHANGED <<mainVars, id, writing, header, toBeSent, sending, seen>>
    BY <1>0, <1>4, ReadClosedDoes
  <2>2. MayEnd(r)
    BY <1>0, <1>4, ReadClosedDoes
  <2>3. CASE r = s
    BY <1>0, <1>1, <1>4, <2>1, <2>2, <2>3 DEF ReadsNoMore, mainVars, seen
  <2>4. CASE r # s
    BY <1>0, <1>1, <2>1, <2>2, <2>4 DEF Idles, mainVars, seen
  <2> QED
    BY <2>3, <2>4
<1>5. CASE HandleRead(r)
  <2>1. /\ queue[ThreadOf[r]][id[r]] = r /\ id[r] # Invalid
        /\ reading[r] = "done" /\ received[r] = <<>> /\ ~closed[r]
        /\ \/ UNCHANGED <<received, arrived>> /\ Q(r)' = Tail(Q(r))
           \/ /\ received' = [received EXCEPT ![r] = <<<<r, arrived[r] + 1>>>>]
              /\ arrived' = [arrived EXCEPT ![r] = @ + 1]
              /\ reading'[r] = "armed"
              /\ Q(r)' = Append(Tail(Q(r)), PackIn(r))
        /\ \/ /\ reading' = [reading EXCEPT ![r] = "no"]
              /\ handlers' = [handlers EXCEPT ![r] = @ - 1]
           \/ reading' = [reading EXCEPT ![r] = "armed"] /\ UNCHANGED handlers
    BY <1>0, <1>5, ReadDoes
  <2>2. UNCHANGED <<mainVars, id, closed, writing, toBeSent, sending, socket, peer, sent,
                    written, delivered, closeCalls, owed, onClosed>>
    BY <1>5 DEF HandleRead
  <2>3. CASE r = s
    <3>1. \/ UNCHANGED <<received[s], arrived[s]>>
          \/ /\ received'[s] = << <<s, arrived[s] + 1>> >> /\ arrived'[s] = arrived[s] + 1
             /\ reading'[s] = "armed" /\ Q(s)' = Append(Tail(Q(s)), PackIn(s))
      BY <1>0, <2>1, <2>3
    <3>2. \/ reading'[s] = "no" /\ handlers'[s] = handlers[s] - 1
          \/ reading'[s] = "armed" /\ UNCHANGED handlers[s]
      BY <1>0, <2>1, <2>3
    <3>3. queue[ThreadOf[s]][id[s]] = s /\ id[s] # Invalid
          /\ reading[s] = "done" /\ received[s] = <<>> /\ ~closed[s]
      BY <2>1, <2>3
    <3> QED
      BY <1>5, <2>2, <2>3, <3>1, <3>2, <3>3 DEF Reads, mainVars
  <2>4. CASE r # s
    BY <1>0, <2>1, <2>2, <2>4 DEF Idles, mainVars
  <2> QED
    BY <2>3, <2>4
<1>6. CASE HandleWriteError(r)
  <2>1. /\ queue[ThreadOf[r]][id[r]] = r /\ id[r] # Invalid
        /\ writing[r] = "done" /\ peer[r] = "gone"
        /\ writing' = [writing EXCEPT ![r] = "no"]
        /\ handlers' = [handlers EXCEPT ![r] = @ - 1]
        /\ closed' = [closed EXCEPT ![r] = TRUE]
        /\ UNCHANGED <<mainVars, id, reading, header, toBeSent, sending, seen>>
    BY <1>0, <1>6, WriteErrorDoes
  <2>2. MayEnd(r)
    BY <1>0, <1>6, WriteErrorDoes
  <2>3. CASE r = s
    BY <1>0, <1>1, <1>6, <2>1, <2>2, <2>3 DEF WritesNoMore, mainVars, seen
  <2>4. CASE r # s
    BY <1>0, <1>1, <2>1, <2>2, <2>4 DEF Idles, mainVars, seen
  <2> QED
    BY <2>3, <2>4
<1>7. CASE HandleWrite(r)
  <2>1. /\ queue[ThreadOf[r]][id[r]] = r /\ id[r] # Invalid /\ writing[r] = "done"
        /\ written' = [written EXCEPT ![r] = @ \o sending[r]]
        /\ sending' = [sending EXCEPT ![r] = toBeSent[r]]
        /\ toBeSent' = [toBeSent EXCEPT ![r] = <<>>]
        /\ UNCHANGED <<mainVars, id, closed, reading, header, peer, arrived, sent,
                       delivered, closeCalls, owed, onClosed>>
    BY <1>0, <1>7, WriteDoes
  <2>2. /\ MayEnd(r)
        /\ \/ /\ toBeSent[r] # <<>> /\ writing' = [writing EXCEPT ![r] = "armed"]
              /\ UNCHANGED handlers
           \/ /\ toBeSent[r] = <<>> /\ writing' = [writing EXCEPT ![r] = "no"]
              /\ handlers' = [handlers EXCEPT ![r] = @ - 1]
    BY <1>0, <1>7, WriteDoes
  <2>3. CASE r = s
    <3>1. /\ written'[s] = written[s] \o sending[s] /\ sending'[s] = toBeSent[s]
          /\ toBeSent'[s] = <<>>
      BY <1>0, <2>1, <2>3
    <3>2. \/ toBeSent[s] # <<>> /\ writing'[s] = "armed" /\ UNCHANGED handlers[s]
          \/ toBeSent[s] = <<>> /\ writing'[s] = "no" /\ handlers'[s] = handlers[s] - 1
      BY <1>0, <2>2, <2>3
    <3> QED
      BY <1>1, <1>7, <2>1, <2>2, <2>3, <3>1, <3>2 DEF Writes, mainVars
  <2>4. CASE r # s
    BY <1>0, <1>1, <2>1, <2>2, <2>4 DEF Idles, mainVars
  <2> QED
    BY <2>3, <2>4
<1> QED
  BY <1>2, <1>3, <1>4, <1>5, <1>6, <1>7

\* A session that a task names by its id.
LEMMA NamedIs ==
    ASSUME TypeOK, HalvesInv, NEW t \in Threads, NEW n \in Ids, NEW r \in Sessions,
           queue[t][n] = r
    PROVE  ThreadOf[r] = t /\ id[r] = n /\ handlerId[r] = n /\ id[r] # Invalid
<1>1. r # None /\ n # Invalid
  BY SessionAssumption DEF Ids, Invalid
<1> QED
  BY <1>1 DEF HalvesInv, QueueInv

\* A session that is found is given the list.
LEMMA GivenGets ==
    ASSUME TypeOK, HalvesInv, FlowInv, NEW s \in Sessions, NEW t, t = ThreadOf[s],
           RunToSession(t), SessionAt(t, ioQ[t][1].id) = s, ~closed[s]
    PROVE  Gets(s)
<1>0. /\ t \in Threads /\ s # None /\ Q(s) = ioQ[t]
      /\ handlers \in [Sessions -> Int]
      /\ writing \in [Sessions -> Phase] /\ toBeSent \in [Sessions -> Seq(Msg)]
      /\ sending \in [Sessions -> Seq(Msg)]
  BY SessionAssumption DEF TypeOK, IoTypes, Q
<1>1. /\ ioQ[t][1].op = "to_session" /\ ioQ[t][1].msgs \in Lists
      /\ ioQ[t][1].id \in Ids /\ queue[t][ioQ[t][1].id] = s
  BY <1>0, ToSessionDoes
<1>n. PICK n \in Ids : n = ioQ[t][1].id
  BY <1>1
<1>a. t \in Threads /\ queue[t][n] = s
  BY <1>0, <1>1, <1>n
<1>b. id[s] = n /\ handlerId[s] = n /\ id[s] # Invalid
  BY <1>a, NamedIs
<1>2. /\ id[s] = ioQ[t][1].id /\ handlerId[s] = id[s] /\ id[s] # Invalid
      /\ queue[t][id[s]] = s
  BY <1>a, <1>b, <1>n
<1>3. ~(s = None \/ closed[s])
  BY <1>0
<1>4. \/ /\ sending[s] = <<>>
         /\ sending' = [sending EXCEPT ![s] = toBeSent[s] \o ioQ[t][1].msgs]
         /\ toBeSent' = [toBeSent EXCEPT ![s] = <<>>]
         /\ writing' = [writing EXCEPT ![s] = "armed"]
         /\ handlers' = [handlers EXCEPT ![s] = @ + 1]
      \/ /\ sending[s] # <<>>
         /\ toBeSent' = [toBeSent EXCEPT ![s] = @ \o ioQ[t][1].msgs]
         /\ UNCHANGED <<writing, handlers, sending>>
  BY <1>0, <1>3, ToSessionDoes
<1>5. \/ /\ sending[s] = <<>> /\ sending'[s] = toBeSent[s] \o ioQ[t][1].msgs
         /\ toBeSent'[s] = <<>> /\ writing'[s] = "armed"
         /\ handlers'[s] = handlers[s] + 1
      \/ /\ sending[s] # <<>> /\ toBeSent'[s] = toBeSent[s] \o ioQ[t][1].msgs
         /\ UNCHANGED <<writing[s], handlers[s], sending[s]>>
  BY <1>0, <1>4
<1>6. UNCHANGED <<mainVars, id, closed, reading, received, socket, seen>>
  BY DEF RunToSession
<1> QED
  BY <1>0, <1>1, <1>2, <1>5, <1>6 DEF Gets, SameHandler, SameIn, mainVars, seen

\* What a task of an I/O thread that names an id does to one connection.
LEMMA ThreadLocal ==
    ASSUME TypeOK, HalvesInv, FlowInv, NEW s \in Sessions, NEW t \in Threads,
           RunToSession(t) \/ RunCloseSession(t)
    PROVE  Idles(s) \/ (ThreadOf[s] = t /\ (Gets(s) \/ Shuts(s)))
<1>0. /\ QueueInv /\ LifeInv /\ CountInv /\ RecvInv
      /\ closed \in [Sessions -> BOOLEAN] /\ handlers \in [Sessions -> Int]
      /\ writing \in [Sessions -> Phase] /\ toBeSent \in [Sessions -> Seq(Msg)]
      /\ sending \in [Sessions -> Seq(Msg)]
      /\ socket \in [Sessions -> {"new", "open", "closed"}]
  BY DEF HalvesInv, FlowInv, TypeOK, IoTypes
<1> USE DEF SameHandler, SameSession, SameOut, SameIn
<1> PICK r : r = SessionAt(t, ioQ[t][1].id)
  OBVIOUS
<1>1. CASE RunToSession(t)
  <2>1. /\ ioQ[t][1].op = "to_session" /\ ioQ[t][1].msgs \in Lists
        /\ r \in Sessions \cup {None}
        /\ r # None => ioQ[t][1].id \in Ids /\ queue[t][ioQ[t][1].id] = r
    <3>1. RunsFor(t, "to_session")
      BY <1>1 DEF RunToSession
    <3>2. /\ ioQ[t][1] \in IoTasks /\ ioQ[t][1].op = "to_session"
          /\ r \in Sessions \cup {None}
          /\ r # None => ioQ[t][1].id \in Ids /\ queue[t][ioQ[t][1].id] = r
      BY <3>1, RunsForIs
    <3> QED
      BY <3>2, TaskFields
  <2>2. UNCHANGED <<mainVars, id, closed, reading, received, socket, seen>>
    BY <1>1 DEF RunToSession
  <2>3. CASE r = None \/ closed[r]
    <3>1. UNCHANGED <<writing, handlers, sending, toBeSent>>
      BY <1>1, <2>3, ToSessionDoes
    <3> QED
      BY <2>2, <3>1 DEF Idles, mainVars, seen
  <2>4. CASE r # None /\ ~closed[r]
    <3>1. /\ r \in Sessions /\ ThreadOf[r] = t /\ id[r] = ioQ[t][1].id
          /\ handlerId[r] = id[r] /\ id[r] # Invalid /\ queue[t][id[r]] = r
      BY <2>1, <2>4, NamedIs
    <3>2. \/ /\ sending[r] = <<>>
             /\ sending' = [sending EXCEPT ![r] = toBeSent[r] \o ioQ[t][1].msgs]
             /\ toBeSent' = [toBeSent EXCEPT ![r] = <<>>]
             /\ writing' = [writing EXCEPT ![r] = "armed"]
             /\ handlers' = [handlers EXCEPT ![r] = @ + 1]
          \/ /\ sending[r] # <<>>
             /\ toBeSent' = [toBeSent EXCEPT ![r] = @ \o ioQ[t][1].msgs]
             /\ UNCHANGED <<writing, handlers, sending>>
      <4>1. Head(ioQ[t]) = ioQ[t][1]
        BY <1>1, RunsForIs DEF RunToSession
      <4> QED
        BY <1>1, <2>4, <4>1 DEF RunToSession
    <3>3. CASE r = s
      BY <1>1, <2>4, <3>1, <3>3, GivenGets
    <3>4. CASE r # s
      <4>1. UNCHANGED <<writing[s], handlers[s], sending[s], toBeSent[s]>>
        BY <1>0, <3>1, <3>2, <3>4
      <4> QED
        BY <2>2, <4>1 DEF Idles, mainVars, seen
    <3> QED
      BY <3>3, <3>4
  <2> QED
    BY <2>3, <2>4
<1>2. CASE RunCloseSession(t)
  <2>1. /\ ioQ[t][1].op = "close" /\ 1 \in 1 .. Len(ioQ[t])
        /\ r \in Sessions \cup {None}
        /\ r # None => ioQ[t][1].id \in Ids /\ queue[t][ioQ[t][1].id] = r
    BY <1>0, <1>2, CloseSessionDoes
  <2>2. UNCHANGED <<mainVars, id, handlers, reading, writing, toBeSent, sending, seen>>
    BY <1>2 DEF RunCloseSession
  <2>3. \/ UNCHANGED <<mainQ, closed, received, socket, queue>> /\ (r = None \/ closed[r])
        \/ /\ r # None /\ ~closed[r] /\ ThreadOf[r] = t /\ id[r] = ioQ[t][1].id
           /\ closed' = [closed EXCEPT ![r] = TRUE] /\ MayEnd(r)
    BY <1>0, <1>2, CloseSessionDoes
  <2>4. CASE UNCHANGED <<mainQ, closed, received, socket, queue>>
    BY <2>2, <2>4 DEF Idles, mainVars, seen
  <2>5. CASE /\ r # None /\ ~closed[r]
             /\ closed' = [closed EXCEPT ![r] = TRUE] /\ MayEnd(r)
    <3>1. /\ r \in Sessions /\ ThreadOf[r] = t /\ id[r] = ioQ[t][1].id
          /\ handlerId[r] = id[r] /\ id[r] # Invalid /\ queue[t][id[r]] = r
      BY <2>1, <2>5, NamedIs
    <3>2. /\ received' = received
          /\ IF r # s THEN UNCHANGED socket[s] ELSE MayShut(s)
      BY <1>0, <2>5, <3>1 DEF MayEnd, Ends, MayShut
    <3>3. CASE r = s
      BY <1>0, <1>2, <2>1, <2>2, <2>5, <3>1, <3>2, <3>3 DEF Shuts, Q, mainVars, seen
    <3>4. CASE r # s
      BY <1>0, <2>2, <2>5, <3>1, <3>2, <3>4 DEF Idles, mainVars, seen
    <3> QED
      BY <3>3, <3>4
  <2> QED
    BY <2>3, <2>4, <2>5
<1> QED
  BY <1>1, <1>2

\* What a peer or the operating system does to one connection.
LEMMA PeerLocal ==
    ASSUME TypeOK, NEW s \in Sessions, PeerNext
    PROVE  Idles(s) \/ Completes(s) \/ LosesPeer(s)
<1> USE DEF SameHandler, SameSession, SameOut, SameIn
<1>1. ASSUME NEW r \in Sessions, NEW res \in ReadResults, ReadCompletes(r, res)
      PROVE  Idles(s) \/ Completes(s)
  BY <1>1 DEF ReadCompletes, Idles, Completes, mainVars, seen, TypeOK, IoTypes
<1>2. ASSUME NEW r \in Sessions, NEW res \in WriteResults, WriteCompletes(r, res)
      PROVE  Idles(s) \/ Completes(s)
  BY <1>2 DEF WriteCompletes, Idles, Completes, mainVars, seen, TypeOK, IoTypes
<1>3. ASSUME NEW r \in Sessions, PeerGoes(r) PROVE Idles(s) \/ LosesPeer(s)
  BY <1>3 DEF PeerGoes, Idles, LosesPeer, mainVars, ioVars, TypeOK, SeenTypes
<1> QED
  BY <1>1, <1>2, <1>3 DEF PeerNext, ReadResults, WriteResults

\* Every step, seen from one connection.
LEMMA LocalStep ==
    ASSUME TypeOK, HalvesInv, FlowInv, [Next]_vars, NEW s \in Sessions
    PROVE  \/ Idles(s)
           \/ Accepts(s) \/ Refuses(s) \/ Sends(s) \/ Closes(s)
           \/ Packs(s) \/ Hears(s) \/ Leaves(s)
           \/ Starts(s) \/ HandsOver(s) \/ ReadsNoMore(s)
           \/ Reads(s) \/ WritesNoMore(s) \/ Writes(s)
           \/ Gets(s) \/ Shuts(s) \/ Completes(s) \/ LosesPeer(s)
<1>1. UNCHANGED vars => Idles(s)
  BY DEF vars, mainVars, ioVars, seen, Idles, SameHandler, SameSession, SameOut, SameIn
<1> QED
  BY <1>1, HandlerLocal, MainLocal, IoLocal, ThreadLocal, PeerLocal
     DEF Next, MainNext, MainTask, IoTask

\* Every step keeps the two halves of a connection in step.
LEMMA LifeKeeps ==
    ASSUME TypeOK, HalvesInv, FlowInv, [Next]_vars PROVE LifeInv'
<1> SUFFICES ASSUME NEW s \in Sessions PROVE LifeOf(s)'
  BY DEF LifeInv
<1>0. /\ LifeOf(s) /\ onClosed[s] \in Nat /\ handlerId[s] \in Ids \cup {Invalid}
      /\ id[s] \in Ids \cup {Invalid} /\ Invalid \notin Ids
      /\ socket[s] \in {"new", "open", "closed"}
  BY DEF HalvesInv, LifeInv, TypeOK, MainTypes, IoTypes, SeenTypes, Ids, Invalid
<1> USE DEF SameHandler, SameSession, SameOut, SameIn, LifeOf, Untouched
<1>1. CASE Idles(s)
  BY <1>0, <1>1 DEF Idles
<1>2. CASE Accepts(s)
  BY <1>0, <1>2 DEF Accepts
<1>3. CASE Refuses(s) \/ Sends(s) \/ Closes(s) \/ Packs(s)
  BY <1>0, <1>3 DEF Refuses, Sends, Closes, Packs
<1>4. CASE Hears(s)
  <2>1. id[s] # Invalid
    BY <1>4 DEF Hears, FlowInv, ToHandlerInv
  <2> QED
    BY <1>0, <1>4, <2>1 DEF Hears
<1>5. CASE Leaves(s)
  BY <1>0, <1>5 DEF Leaves
<1>6. CASE Starts(s)
  BY <1>0, <1>6 DEF Starts
<1>7. CASE HandsOver(s)
  BY <1>0, <1>7 DEF HandsOver
<1>8. MayShut(s) => socket'[s] = socket[s] \/ (socket'[s] = "closed" /\ closed'[s])
  BY DEF MayShut, Ends
<1>9. CASE ReadsNoMore(s) \/ WritesNoMore(s)
  BY <1>0, <1>8, <1>9 DEF ReadsNoMore, WritesNoMore
<1>10. CASE Reads(s)
  BY <1>0, <1>10 DEF Reads
<1>11. CASE Writes(s)
  BY <1>0, <1>8, <1>11 DEF Writes
<1>12. CASE Gets(s) \/ Shuts(s)
  BY <1>0, <1>8, <1>12 DEF Gets, Shuts
<1>13. CASE Completes(s) \/ LosesPeer(s)
  BY <1>0, <1>13 DEF Completes, LosesPeer
<1> QED
  BY <1>1, <1>2, <1>3, <1>4, <1>5, <1>6, <1>7, <1>9, <1>10, <1>11, <1>12, <1>13, LocalStep

\* Every step keeps a write outstanding while there is something to send.
LEMMA WriteKeeps ==
    ASSUME TypeOK, HalvesInv, FlowInv, [Next]_vars PROVE WriteInv'
<1> SUFFICES ASSUME NEW s \in Sessions PROVE WriteOf(s)'
  BY DEF WriteInv
<1>0. /\ WriteOf(s) /\ toBeSent[s] \in Seq(Msg) /\ sending[s] \in Seq(Msg)
      /\ (peer[s] = "up" => peer[s] # "gone")
  BY DEF HalvesInv, WriteInv, TypeOK, IoTypes
<1>a. LifeOf(s)
  BY DEF HalvesInv, LifeInv
<1> USE DEF SameHandler, SameSession, SameOut, SameIn, WriteOf
<1>1. CASE Idles(s) \/ Accepts(s) \/ Refuses(s) \/ Sends(s) \/ Closes(s) \/ Packs(s) \/ Hears(s)
  BY <1>0, <1>1 DEF Idles, Accepts, Refuses, Sends, Closes, Packs, Hears
<1>2. CASE Leaves(s) \/ Starts(s) \/ HandsOver(s) \/ ReadsNoMore(s) \/ Reads(s) \/ Shuts(s)
  BY <1>0, <1>2 DEF Leaves, Starts, HandsOver, ReadsNoMore, Reads, Shuts
<1>3. CASE WritesNoMore(s)
  BY <1>0, <1>3 DEF WritesNoMore
<1>4. CASE Writes(s)
  BY <1>0, <1>4 DEF Writes
<1>5. CASE Gets(s)
  <2> DEFINE ms == Q(s)[1].msgs
  <2>1. ms \in Seq(Msg) /\ ms # <<>>
    BY <1>5 DEF Gets, Lists
  <2>2. toBeSent[s] \o ms # <<>>
    <3>1. Len(toBeSent[s] \o ms) = Len(toBeSent[s]) + Len(ms) /\ Len(toBeSent[s]) \in Nat
          /\ Len(ms) \in Nat /\ Len(ms) # 0
      BY <1>0, <2>1, ConcatProperties, LenProperties, EmptySeq
    <3> QED
      BY <3>1, EmptySeq
  <2> HIDE DEF ms
  <2>3. \/ /\ sending[s] = <<>> /\ sending'[s] = toBeSent[s] \o ms
           /\ toBeSent'[s] = <<>> /\ writing'[s] = "armed"
        \/ /\ sending[s] # <<>> /\ UNCHANGED <<writing[s], sending[s]>>
    BY <1>5 DEF Gets, ms
  <2>4. UNCHANGED <<closed[s], peer[s]>>
    BY <1>5 DEF Gets
  <2> QED
    BY <1>0, <2>2, <2>3, <2>4
<1>6. CASE Completes(s)
  BY <1>0, <1>6 DEF Completes
<1>7. CASE LosesPeer(s)
  BY <1>0, <1>7 DEF LosesPeer
<1> QED
  BY <1>1, <1>2, <1>3, <1>4, <1>5, <1>6, <1>7, LocalStep

\* A session that is in its session queue stays there until it ends.
LEMMA StaysIn ==
    ASSUME TypeOK, HalvesInv, FlowInv, [Next]_vars, NEW s \in Sessions, NEW n \in Ids,
           queue[ThreadOf[s]][n] = s
    PROVE  queue'[ThreadOf[s]][n] = s \/ (Ends(s) /\ id[s] = n)
<1>a. /\ s # None /\ ThreadOf \in [Sessions -> Threads] /\ ThreadOf[s] \in Threads
      /\ queue \in [Threads -> [Ids -> Sessions \cup {None}]]
  BY SessionAssumption DEF TypeOK, IoTypes
<1>b. id[s] = n /\ handlerId[s] = n /\ n # Invalid
  BY <1>a, NamedIs DEF Ids, Invalid
<1>1. /\ id[s] = n /\ handlerId[s] = n /\ n # Invalid /\ s # None
      /\ ThreadOf \in [Sessions -> Threads] /\ ThreadOf[s] \in Threads
      /\ queue \in [Threads -> [Ids -> Sessions \cup {None}]]
  BY <1>a, <1>b
<1>2. ASSUME NEW r \in Sessions, RunInit(r) PROVE queue'[ThreadOf[s]][n] = s
  <2> PICK m : m = Q(r)[1].id
    OBVIOUS
  <2>1. /\ Q(r)[1].op = "init" /\ Q(r)[1].s = r /\ m \in Ids /\ 1 \in 1 .. Len(Q(r))
        /\ queue' = [queue EXCEPT ![ThreadOf[r]][m] = r]
    BY <1>2, InitDoes
  <2>2. id[r] = Invalid /\ handlerId[r] = m
    BY <1>1, <2>1 DEF HalvesInv, InitInv, Q
  <2>3. r = s \/ m # n
    BY <1>1, <2>1, <2>2 DEF HalvesInv, MapInv, Ids, Invalid
  <2> QED
    BY <1>1, <2>1, <2>3
<1>3. ASSUME NEW r \in Sessions, Ends(r), r # s PROVE queue'[ThreadOf[s]][n] = s
  BY <1>1, <1>3 DEF Ends
<1>4. RunOnSessionClose => queue' = queue
  BY DEF RunOnSessionClose, ioVars
<1>5. ASSUME NEW r \in Sessions, Accept(r) PROVE queue' = queue
  BY <1>5 DEF Accept
<1> QED
  BY <1>1, <1>2, <1>3, <1>4, <1>5, CoreStep

\* Every step keeps num_handlers_ the number of outstanding operations, and their session alive.
LEMMA CountKeeps ==
    ASSUME TypeOK, HalvesInv, FlowInv, [Next]_vars PROVE CountInv'
<1> SUFFICES ASSUME NEW s \in Sessions PROVE CountOf(s)'
  BY DEF CountInv
<1> DEFINE pending == reading[s] # "no" \/ writing[s] # "no"
<1>0. /\ CountOf(s) /\ handlers[s] \in Int /\ reading[s] \in Phase /\ writing[s] \in Phase
      /\ id[s] \in Ids \cup {Invalid} /\ LifeOf(s) /\ Invalid \notin Ids
  BY DEF HalvesInv, CountInv, LifeInv, TypeOK, IoTypes, Ids, Invalid
<1> USE DEF SameHandler, SameSession, SameOut, SameIn, One
<1>1. handlers'[s] = One(reading'[s]) + One(writing'[s])
  <2>1. CASE Idles(s) \/ Accepts(s) \/ Refuses(s) \/ Sends(s) \/ Closes(s) \/ Packs(s)
    BY <1>0, <2>1 DEF CountOf, Idles, Accepts, Refuses, Sends, Closes, Packs
  <2>2. CASE Hears(s) \/ Leaves(s) \/ HandsOver(s) \/ Shuts(s) \/ LosesPeer(s) \/ Completes(s)
    BY <1>0, <2>2 DEF CountOf, Hears, Leaves, HandsOver, Shuts, LosesPeer, Completes
  <2>3. CASE Starts(s)
    BY <1>0, <2>3 DEF CountOf, Starts, LifeOf, Untouched
  <2>4. CASE ReadsNoMore(s) \/ Reads(s)
    BY <1>0, <2>4 DEF CountOf, ReadsNoMore, Reads
  <2>5. CASE WritesNoMore(s) \/ Writes(s)
    <3>1. /\ writing[s] = "done" /\ reading'[s] = reading[s]
          /\ \/ writing'[s] = "no" /\ handlers'[s] = handlers[s] - 1
             \/ writing'[s] = "armed" /\ handlers'[s] = handlers[s]
      BY <2>5 DEF WritesNoMore, Writes
    <3> QED
      BY <1>0, <3>1 DEF CountOf
  <2>6. CASE Gets(s)
    <3>1. sending[s] = <<>> => writing[s] = "no"
      BY DEF HalvesInv, WriteInv, WriteOf
    <3>2. /\ reading'[s] = reading[s]
          /\ \/ writing[s] = "no" /\ writing'[s] = "armed" /\ handlers'[s] = handlers[s] + 1
             \/ writing'[s] = writing[s] /\ handlers'[s] = handlers[s]
      BY <2>6, <3>1 DEF Gets
    <3> QED
      BY <1>0, <3>2 DEF CountOf
  <2> QED
    BY <2>1, <2>2, <2>3, <2>4, <2>5, <2>6, LocalStep
<1>2. ASSUME pending' PROVE queue'[ThreadOf[s]][id'[s]] = s
  <2>1. CASE Starts(s)
    <3> PICK n : n = Q(s)[1].id
      OBVIOUS
    <3>1. /\ n \in Ids /\ id' = [id EXCEPT ![s] = n]
          /\ queue' = [queue EXCEPT ![ThreadOf[s]][n] = s]
      BY <2>1, InitDoes DEF Starts
    <3> QED
      BY <3>1, SessionAssumption DEF TypeOK, IoTypes
  <2>2. CASE ~Starts(s)
    <3>1. id'[s] = id[s] /\ queue[ThreadOf[s]][id[s]] = s /\ id[s] # Invalid
      <4>1. CASE Idles(s) \/ Accepts(s) \/ Refuses(s) \/ Sends(s) \/ Closes(s) \/ Packs(s)
        BY <1>0, <1>2, <4>1 DEF CountOf, Idles, Accepts, Refuses, Sends, Closes, Packs, LifeOf, Untouched
      <4>2. CASE Hears(s) \/ Leaves(s) \/ HandsOver(s) \/ Shuts(s) \/ LosesPeer(s) \/ Completes(s)
        BY <1>0, <1>2, <4>2
           DEF CountOf, Hears, Leaves, HandsOver, Shuts, LosesPeer, Completes, LifeOf, Untouched
      <4>3. CASE ReadsNoMore(s) \/ Reads(s) \/ WritesNoMore(s) \/ Writes(s) \/ Gets(s)
        BY <4>3 DEF ReadsNoMore, Reads, WritesNoMore, Writes, Gets
      <4> QED
        BY <2>2, <4>1, <4>2, <4>3, LocalStep
    <3>2. id[s] \in Ids
      BY <1>0, <3>1
    <3>3. Ends(s) => ~pending'
      BY DEF Ends
    <3> QED
      BY <1>2, <3>1, <3>2, <3>3, StaysIn
  <2> QED
    BY <2>1, <2>2
<1> QED
  BY <1>1, <1>2 DEF CountOf

\* Who changes the ids and the socket of a connection, and its peer.
LEMMA CoreLocal ==
    ASSUME TypeOK, HalvesInv, FlowInv, [Next]_vars, NEW s \in Sessions
    PROVE  /\ \/ UNCHANGED <<handlerId[s], id[s], socket[s]>>
              \/ Accepts(s) \/ Refuses(s) \/ Leaves(s) \/ Starts(s)
              \/ Ends(s) /\ socket'[s] = "closed" /\ UNCHANGED <<handlerId[s], id[s]>>
           /\ closed[s] => closed'[s]
           /\ peer[s] = "gone" => peer'[s] = "gone"
<1> USE DEF SameHandler, SameSession, SameOut, SameIn
<1>1. CASE Idles(s)
  BY <1>1 DEF Idles
<1>2. CASE Accepts(s) \/ Refuses(s) \/ Leaves(s) \/ Starts(s)
  BY <1>2 DEF Accepts, Refuses, Leaves, Starts
<1>3. CASE Sends(s) \/ Closes(s) \/ Packs(s) \/ Hears(s) \/ HandsOver(s) \/ Reads(s) \/ Gets(s)
  BY <1>3 DEF Sends, Closes, Packs, Hears, HandsOver, Reads, Gets
<1>4. CASE ReadsNoMore(s) \/ WritesNoMore(s)
  BY <1>4 DEF ReadsNoMore, WritesNoMore, MayShut
<1>5. CASE Writes(s) \/ Shuts(s)
  BY <1>5 DEF Writes, Shuts, MayShut
<1>6. CASE Completes(s) \/ LosesPeer(s)
  BY <1>6 DEF Completes, LosesPeer
<1> QED
  BY <1>1, <1>2, <1>3, <1>4, <1>5, <1>6, LocalStep

\* Who posts which task.
LEMMA Posts ==
    ASSUME NEW u, NEW e, PostedTo(u, e)
    PROVE  \E s \in Sessions :
             /\ ThreadOf[s] = u
             /\ e.op = "init" => Accept(s) /\ ~Refused(s) /\ e = InitSession(s, NextId)
             /\ e.op = "to_session" =>
                  (Close(s) \/ (RunPackOut /\ s = Head(mainQ).s)) /\ e \in PackedTasks(s)
             /\ e.op = "close" => Close(s) /\ e = CloseSession(handlerId[s])
             /\ e.op = "pack_in" => HandleRead(s) /\ e = PackIn(s)
             /\ e.op = "read" =>
                  \E res \in ReadResults : ReadCompletes(s, res) /\ e = ReadDone(s, res)
             /\ e.op = "write" =>
                  \E res \in WriteResults : WriteCompletes(s, res) /\ e = WriteDone(s, res)
<1> PICK s \in Sessions :
        /\ ThreadOf[s] = u
        /\ \/ Accept(s) /\ ~Refused(s) /\ e = InitSession(s, NextId)
           \/ /\ Close(s) \/ (RunPackOut /\ s = Head(mainQ).s)
              /\ e \in PackedTasks(s)
           \/ Close(s) /\ e = CloseSession(handlerId[s])
           \/ HandleRead(s) /\ e = PackIn(s)
           \/ \E res \in ReadResults : ReadCompletes(s, res) /\ e = ReadDone(s, res)
           \/ \E res \in WriteResults : WriteCompletes(s, res) /\ e = WriteDone(s, res)
  BY DEF PostedTo
<1>1. CASE Accept(s) /\ ~Refused(s) /\ e = InitSession(s, NextId)
  <2>1. e.op = "init"
    BY <1>1 DEF InitSession
  <2> QED
    BY <1>1, <2>1
<1>2. CASE /\ Close(s) \/ (RunPackOut /\ s = Head(mainQ).s)
           /\ e \in PackedTasks(s)
  <2>1. e.op = "to_session"
    BY <1>2 DEF PackedTasks, ToSession
  <2> QED
    BY <1>2, <2>1
<1>3. CASE Close(s) /\ e = CloseSession(handlerId[s])
  <2>1. e.op = "close"
    BY <1>3 DEF CloseSession
  <2> QED
    BY <1>3, <2>1
<1>4. CASE HandleRead(s) /\ e = PackIn(s)
  <2>1. e.op = "pack_in"
    BY <1>4 DEF PackIn
  <2> QED
    BY <1>4, <2>1
<1>5. CASE \E res \in ReadResults : ReadCompletes(s, res) /\ e = ReadDone(s, res)
  <2>1. e.op = "read"
    BY <1>5 DEF ReadDone
  <2> QED
    BY <1>5, <2>1
<1>6. CASE \E res \in WriteResults : WriteCompletes(s, res) /\ e = WriteDone(s, res)
  <2>1. e.op = "write"
    BY <1>6 DEF WriteDone
  <2> QED
    BY <1>6, <2>1
<1> QED
  BY <1>1, <1>2, <1>3, <1>4, <1>5, <1>6

\* Every step keeps a posted Init the only one of its session.
LEMMA InitKeeps ==
    ASSUME TypeOK, HalvesInv, FlowInv, [Next]_vars PROVE InitInv'
<1> SUFFICES ASSUME NEW t \in Threads, NEW k \in 1 .. Len(ioQ'[t]), NEW e,
                    e = ioQ'[t][k], e.op = "init"
             PROVE  /\ ThreadOf[e.s] = t /\ id'[e.s] = Invalid
                    /\ handlerId'[e.s] = e.id /\ socket'[e.s] = "open"
                    /\ \A j \in 1 .. Len(ioQ'[t]) :
                         ioQ'[t][j].op = "init" /\ ioQ'[t][j].s = e.s => j = k
  BY DEF InitInv
<1>0. /\ ThreadOf \in [Sessions -> Threads] /\ InitInv /\ Invalid \notin Ids
      /\ ioQ[t] \in Seq(IoTasks) /\ Len(ioQ[t]) \in Nat
  BY SessionAssumption, LenProperties DEF HalvesInv, TypeOK, TaskTypes, Ids, Invalid
<1>1. PICK d, N : IoStepOf(t, d, N)
  BY IoStep
<1>2. /\ \A i \in 1 .. Len(ioQ'[t]) : \/ i + d \in 1 .. Len(ioQ[t]) /\ ioQ'[t][i] = ioQ[t][i + d]
                                      \/ i + d > Len(ioQ[t]) /\ PostedTo(t, ioQ'[t][i])
      /\ d \in {0, 1}
  BY <1>1 DEF IoStepOf, Slid
\* An init that is posted now.
<1>3. ASSUME NEW i \in 1 .. Len(ioQ'[t]), PostedTo(t, ioQ'[t][i]), ioQ'[t][i].op = "init"
      PROVE  \E s \in Sessions :
               /\ ThreadOf[s] = t /\ Accept(s) /\ ~Refused(s)
               /\ ioQ'[t][i] = InitSession(s, NextId) /\ ioQ'[t][i].s = s
  BY <1>3, Posts DEF InitSession
<1>4. ASSUME NEW s \in Sessions, ThreadOf[s] = t, Accept(s), ~Refused(s),
             NEW i \in 1 .. Len(ioQ'[t]), ioQ'[t][i].op = "init", ioQ'[t][i].s = s
      PROVE  i = Len(ioQ[t]) + 1
  <2>1. Len(Q(s)') = Len(Q(s)) + 1 /\ Q(s)' = Append(Q(s), InitSession(s, NextId))
    BY <1>4, AcceptDoes DEF HalvesInv
  <2>2. Len(ioQ'[t]) = Len(ioQ[t]) + 1 /\ ioQ'[t] = Append(ioQ[t], InitSession(s, NextId))
    BY <1>4, <2>1 DEF Q
  <2>3. CASE i \in 1 .. Len(ioQ[t])
    <3>1. ioQ'[t][i] = ioQ[t][i]
      BY <1>0, <2>2, <2>3, AppendProperties
    <3>2. socket[s] = "open"
      BY <1>0, <1>4, <2>3, <3>1 DEF InitInv
    <3> QED
      BY <1>4, <3>2 DEF Accept
  <2>4. CASE i \notin 1 .. Len(ioQ[t])
    BY <1>0, <2>2, <2>4
  <2> QED
    BY <2>3, <2>4
<1>5. CASE PostedTo(t, e)
  <2> PICK s \in Sessions : /\ ThreadOf[s] = t /\ Accept(s) /\ ~Refused(s)
                            /\ e = InitSession(s, NextId) /\ e.s = s
    BY <1>3, <1>5
  <2>1. e.id = NextId
    BY DEF InitSession
  <2>2. k = Len(ioQ[t]) + 1 /\ \A j \in 1 .. Len(ioQ'[t]) :
          ioQ'[t][j].op = "init" /\ ioQ'[t][j].s = s => j = Len(ioQ[t]) + 1
    BY <1>4
  <2>3. id[s] = Invalid /\ id' = id
    BY NewIsNowhere DEF Accept, Refused
  <2>4. handlerId' = [handlerId EXCEPT ![s] = NextId] /\ socket' = [socket EXCEPT ![s] = "open"]
    BY DEF Accept, Refused
  <2> QED
    BY <2>1, <2>2, <2>3, <2>4 DEF TypeOK, MainTypes, IoTypes
<1>6. CASE k + d \in 1 .. Len(ioQ[t]) /\ e = ioQ[t][k + d]
  <2>1. /\ ThreadOf[e.s] = t /\ id[e.s] = Invalid /\ handlerId[e.s] = e.id
        /\ socket[e.s] = "open"
        /\ \A j \in 1 .. Len(ioQ[t]) :
             ioQ[t][j].op = "init" /\ ioQ[t][j].s = e.s => j = k + d
    BY <1>0, <1>6 DEF InitInv
  <2>2. e \in IoTasks /\ e.s \in Sessions /\ e.id \in Ids
    <3>1. e \in IoTasks
      BY <1>0, <1>6, ElementOfSeq
    <3> QED
      BY <3>1, TaskFields
  <2> PICK s \in Sessions : s = e.s
    BY <2>2
  <2>3. ~RunInit(s)
    <3> SUFFICES ASSUME RunInit(s) PROVE FALSE
      OBVIOUS
    <3> PICK n : n = Q(s)[1].id
      OBVIOUS
    <3>1. Q(s)[1].op = "init" /\ Q(s)[1].s = s /\ 1 \in 1 .. Len(Q(s)) /\ Q(s)' = Tail(Q(s))
          /\ Q(s) # <<>>
      BY InitDoes
    <3>2. /\ ioQ[t][1].op = "init" /\ ioQ[t][1].s = s /\ 1 \in 1 .. Len(ioQ[t])
          /\ ioQ'[t] = Tail(ioQ[t]) /\ ioQ[t] # <<>>
      BY <2>1, <3>1 DEF Q
    <3>3. /\ Len(ioQ'[t]) = Len(ioQ[t]) - 1 /\ ioQ'[t][k] = ioQ[t][k + 1]
          /\ k + 1 \in 1 .. Len(ioQ[t])
      BY <1>0, <3>2, TakeSlides
    <3>4. k + d = 1 /\ k + 1 = k + d
      BY <2>1, <3>2, <3>3
    <3> QED
      BY <1>2, <3>4
  <2>4. UNCHANGED <<handlerId[s], id[s], socket[s]>>
    <3>1. ~Ends(s)
      BY <1>0, <2>1 DEF Ends
    <3> QED
      BY <1>0, <2>1, <2>2, <2>3, <3>1, CoreLocal DEF Accepts, Refuses, Leaves, Starts
  <2>5. ASSUME NEW j \in 1 .. Len(ioQ'[t]), ioQ'[t][j].op = "init", ioQ'[t][j].s = s
        PROVE  j = k
    <3>1. CASE PostedTo(t, ioQ'[t][j])
      <4>1. Accept(s)
        BY <1>3, <2>5, <3>1
      <4> QED
        BY <2>1, <4>1 DEF Accept
    <3>2. CASE j + d \in 1 .. Len(ioQ[t]) /\ ioQ'[t][j] = ioQ[t][j + d]
      <4>1. j + d = k + d
        BY <2>1, <2>5, <3>2
      <4> QED
        BY <1>2, <4>1
    <3> QED
      BY <1>2, <3>1, <3>2
  <2> QED
    BY <2>1, <2>4, <2>5
<1> QED
  BY <1>2, <1>5, <1>6

\* Every step keeps the session of an open handler in its queue, or its Init posted.
LEMMA OpenKeeps ==
    ASSUME TypeOK, HalvesInv, FlowInv, [Next]_vars PROVE OpenInv'
<1> SUFFICES ASSUME NEW s \in Sessions, handlerId'[s] # Invalid, ~closed'[s]
             PROVE  \/ \E k \in 1 .. Len(Q(s)') : InitAt(s, k)'
                    \/ queue'[ThreadOf[s]][handlerId'[s]] = s
  BY DEF OpenInv, OpenOf
<1> PICK t \in Threads : t = ThreadOf[s]
  BY SessionAssumption
<1>0. /\ OpenOf(s) /\ handlerId[s] \in Ids \cup {Invalid} /\ Invalid \notin Ids
      /\ queue \in [Threads -> [Ids -> Sessions \cup {None}]]
      /\ ioQ[t] \in Seq(IoTasks) /\ Len(ioQ[t]) \in Nat /\ ~closed[s]
  BY LenProperties, CoreLocal DEF HalvesInv, OpenInv, TypeOK, TaskTypes, MainTypes, IoTypes, Ids, Invalid
<1>1. CASE Accepts(s)
  <2>1. /\ Len(Q(s)') = Len(Q(s)) + 1 /\ Len(Q(s)) \in Nat
        /\ Q(s)'[Len(Q(s)) + 1] = InitSession(s, NextId)
    BY <1>1, AcceptDoes DEF Accepts, HalvesInv
  <2> PICK m : m = Len(Q(s)) + 1
    OBVIOUS
  <2>2. m \in 1 .. Len(Q(s)') /\ InitAt(s, m)'
    BY <2>1 DEF InitAt, InitSession
  <2> QED
    BY <2>2
<1>2. CASE ~Accepts(s)
  <2>1. handlerId'[s] = handlerId[s]
    BY <1>2, CoreLocal DEF Refuses, Leaves, Starts, SameHandler
  <2>2. CASE \E k \in 1 .. Len(Q(s)) : InitAt(s, k)
    <3> PICK k \in 1 .. Len(Q(s)) : InitAt(s, k)
      BY <2>2
    <3>1. PICK d, N : IoStepOf(t, d, N)
      BY IoStep
    <3>2. CASE k > d
      <4>1. k - d \in 1 .. Len(ioQ'[t]) /\ ioQ'[t][k - d] = ioQ[t][k]
        BY <3>1, <3>2 DEF IoStepOf, Slid, Q
      <4>2. k - d \in 1 .. Len(Q(s)') /\ InitAt(s, k - d)'
        BY <4>1 DEF InitAt, Q
      <4> QED
        BY <4>2
    <3>3. CASE ~(k > d)
      <4>1. d = 1 /\ k = 1
        BY <3>1, <3>3 DEF IoStepOf
      <4>2. RunInit(s)
        BY <3>1, <4>1 DEF IoStepOf, TakenOff, InitAt, Q
      <4> PICK n : n = Q(s)[1].id
        OBVIOUS
      <4>3. /\ queue' = [queue EXCEPT ![t][n] = s] /\ n \in Ids
            /\ 1 \in 1 .. Len(Q(s)) /\ Q(s)[1].op = "init" /\ Q(s)[1].s = s
        BY <4>2, InitDoes
      <4>4. n = handlerId[s]
        BY <4>3 DEF HalvesInv, InitInv, Q
      <4> QED
        BY <1>0, <2>1, <4>3, <4>4
    <3> QED
      BY <3>2, <3>3
  <2>3. CASE queue[ThreadOf[s]][handlerId[s]] = s
    <3>1. ~Ends(s) /\ handlerId[s] \in Ids
      BY <1>0, <2>1 DEF Ends
    <3> QED
      BY <2>1, <2>3, <3>1, StaysIn
  <2> QED
    BY <1>0, <2>1, <2>2, <2>3 DEF OpenOf
<1> QED
  BY <1>1, <1>2

\* A queued completion stays the only one until it is handled.
LEMMA DoneLocal ==
    ASSUME TypeOK, HalvesInv, FlowInv, [Next]_vars, NEW s \in Sessions
    PROVE  /\ reading[s] = "done" =>
                reading'[s] = "done" \/ HandleReadClosed(s) \/ HandleRead(s)
           /\ writing[s] = "done" =>
                writing'[s] = "done" \/ HandleWriteError(s) \/ HandleWrite(s)
<1> USE DEF SameHandler, SameSession, SameOut, SameIn
<1>1. CASE Idles(s) \/ Accepts(s) \/ Refuses(s) \/ Sends(s) \/ Closes(s) \/ Packs(s)
  BY <1>1 DEF Idles, Accepts, Refuses, Sends, Closes, Packs
<1>2. CASE Hears(s) \/ Leaves(s) \/ HandsOver(s) \/ Shuts(s) \/ LosesPeer(s) \/ Completes(s)
  BY <1>2 DEF Hears, Leaves, HandsOver, Shuts, LosesPeer, Completes
<1>3. CASE ReadsNoMore(s) \/ Reads(s) \/ WritesNoMore(s) \/ Writes(s)
  BY <1>3 DEF ReadsNoMore, Reads, WritesNoMore, Writes
<1>4. CASE Starts(s)
  <2>1. reading[s] = "no" /\ writing[s] = "no"
    BY <1>4 DEF Starts, HalvesInv, LifeInv, LifeOf, Untouched
  <2> QED
    BY <2>1
<1>5. CASE Gets(s)
  <2>1. sending[s] = <<>> => writing[s] = "no"
    BY DEF HalvesInv, WriteInv, WriteOf
  <2> QED
    BY <1>5, <2>1 DEF Gets
<1> QED
  BY <1>1, <1>2, <1>3, <1>4, <1>5, LocalStep

\* A completion is posted when its operation ends, for the session that started it.
LEMMA CompletionPosted ==
    ASSUME TypeOK, NEW t, NEW f, PostedTo(t, f), f.op \in {"read", "write"}
    PROVE  /\ f.s \in Sessions /\ ThreadOf[f.s] = t /\ f \in IoTasks
           /\ ioQ'[t] = Append(ioQ[t], f)
           /\ f.res = "error" => peer[f.s] = "gone"
           /\ f.op = "read" => reading[f.s] = "armed" /\ reading'[f.s] = "done"
           /\ f.op = "write" => writing[f.s] = "armed" /\ writing'[f.s] = "done"
<1>1. PICK s \in Sessions :
        /\ ThreadOf[s] = t
        /\ f.op = "read" =>
             \E res \in ReadResults : ReadCompletes(s, res) /\ f = ReadDone(s, res)
        /\ f.op = "write" =>
             \E res \in WriteResults : WriteCompletes(s, res) /\ f = WriteDone(s, res)
  BY Posts
<1>2. CASE f.op = "read"
  <2>1. PICK res \in ReadResults : ReadCompletes(s, res) /\ f = ReadDone(s, res)
    BY <1>1, <1>2
  <2>2. f.s = s /\ f.res = res
    BY <2>1 DEF ReadDone
  <2>3. f \in IoTasks
    BY <2>1, NewTasks DEF ReadResults
  <2>4. /\ PostTo(ThreadOf[s], <<f>>)
        /\ reading[s] = "armed" /\ reading' = [reading EXCEPT ![s] = "done"]
    BY <2>1 DEF ReadCompletes
  <2>5. res = "error" => peer[s] = "gone"
    BY <2>1 DEF ReadCompletes
  <2>6. ioQ'[t] = Append(ioQ[t], f)
    BY <1>1, <2>3, <2>4, IoOneTask, SessionAssumption
  <2> QED
    BY <1>1, <1>2, <2>2, <2>3, <2>4, <2>5, <2>6 DEF TypeOK, IoTypes
<1>3. CASE f.op = "write"
  <2>1. PICK res \in WriteResults : WriteCompletes(s, res) /\ f = WriteDone(s, res)
    BY <1>1, <1>3
  <2>2. f.s = s /\ f.res = res
    BY <2>1 DEF WriteDone
  <2>3. f \in IoTasks
    BY <2>1, NewTasks DEF WriteResults
  <2>4. /\ PostTo(ThreadOf[s], <<f>>)
        /\ writing[s] = "armed" /\ writing' = [writing EXCEPT ![s] = "done"]
    BY <2>1 DEF WriteCompletes
  <2>5. res = "error" => peer[s] = "gone"
    BY <2>1 DEF WriteCompletes
  <2>6. ioQ'[t] = Append(ioQ[t], f)
    BY <1>1, <2>3, <2>4, IoOneTask, SessionAssumption
  <2> QED
    BY <1>1, <1>3, <2>2, <2>3, <2>4, <2>5, <2>6 DEF TypeOK, IoTypes
<1> QED
  BY <1>2, <1>3

\* Every step keeps the completions of a session at one of each kind.
LEMMA OpsKeeps ==
    ASSUME TypeOK, HalvesInv, FlowInv, [Next]_vars PROVE OpsInv'
<1> DEFINE same(f, g) == f.op = g.op /\ f.s = g.s
<1> SUFFICES ASSUME NEW t \in Threads, NEW k \in 1 .. Len(ioQ'[t]), NEW e,
                    e = ioQ'[t][k], e.op \in {"read", "write"}
             PROVE  /\ ThreadOf[e.s] = t
                    /\ e.res = "error" => peer'[e.s] = "gone"
                    /\ e.op = "read" => reading'[e.s] = "done"
                    /\ e.op = "write" => writing'[e.s] = "done"
                    /\ \A j \in 1 .. Len(ioQ'[t]) : same(ioQ'[t][j], e) => j = k
  BY DEF OpsInv
<1>0. /\ ThreadOf \in [Sessions -> Threads] /\ OpsInv
      /\ ioQ[t] \in Seq(IoTasks) /\ Len(ioQ[t]) \in Nat
  BY SessionAssumption, LenProperties DEF HalvesInv, TypeOK, TaskTypes
<1>1. PICK d, N : IoStepOf(t, d, N)
  BY IoStep
<1>2. /\ \A i \in 1 .. Len(ioQ'[t]) : \/ i + d \in 1 .. Len(ioQ[t]) /\ ioQ'[t][i] = ioQ[t][i + d]
                                      \/ i + d > Len(ioQ[t]) /\ PostedTo(t, ioQ'[t][i])
      /\ d \in {0, 1}
  BY <1>1 DEF IoStepOf, Slid
\* A completion that is queued now.
<1>3. ASSUME NEW f, PostedTo(t, f), f.op \in {"read", "write"}
      PROVE  /\ f.s \in Sessions /\ ThreadOf[f.s] = t /\ f \in IoTasks
             /\ ioQ'[t] = Append(ioQ[t], f)
             /\ f.res = "error" => peer[f.s] = "gone"
             /\ f.op = "read" => reading[f.s] = "armed" /\ reading'[f.s] = "done"
             /\ f.op = "write" => writing[f.s] = "armed" /\ writing'[f.s] = "done"
  BY <1>3, CompletionPosted
<1>4. CASE PostedTo(t, e)
  <2>1. /\ e.s \in Sessions /\ ThreadOf[e.s] = t /\ e \in IoTasks
        /\ ioQ'[t] = Append(ioQ[t], e)
        /\ e.res = "error" => peer[e.s] = "gone"
        /\ e.op = "read" => reading[e.s] = "armed" /\ reading'[e.s] = "done"
        /\ e.op = "write" => writing[e.s] = "armed" /\ writing'[e.s] = "done"
    BY <1>3, <1>4
  <2>2. ASSUME NEW j \in 1 .. Len(ioQ'[t]), same(ioQ'[t][j], e)
        PROVE  j = Len(ioQ[t]) + 1
    <3>1. CASE j \in 1 .. Len(ioQ[t])
      <4>1. ioQ'[t][j] = ioQ[t][j]
        BY <1>0, <2>1, <3>1, AppendProperties
      <4> QED
        BY <1>0, <2>1, <2>2, <3>1, <4>1 DEF OpsInv
    <3>2. CASE j \notin 1 .. Len(ioQ[t])
      BY <1>0, <2>1, <3>2, AppendProperties
    <3> QED
      BY <3>1, <3>2
  <2>3. k = Len(ioQ[t]) + 1
    BY <2>2
  <2> QED
    BY <2>1, <2>2, <2>3, CoreLocal
<1>5. CASE k + d \in 1 .. Len(ioQ[t]) /\ e = ioQ[t][k + d]
  <2>1. /\ ThreadOf[e.s] = t
        /\ e.res = "error" => peer[e.s] = "gone"
        /\ e.op = "read" => reading[e.s] = "done"
        /\ e.op = "write" => writing[e.s] = "done"
        /\ \A j \in 1 .. Len(ioQ[t]) : same(ioQ[t][j], e) => j = k + d
    BY <1>0, <1>5 DEF OpsInv
  <2>2. e \in IoTasks /\ e.s \in Sessions
    <3>1. e \in IoTasks
      BY <1>0, <1>5, ElementOfSeq
    <3> QED
      BY <3>1, TaskFields
  <2> PICK s \in Sessions : s = e.s
    BY <2>2
  <2>3. ASSUME NEW M, Slid(ioQ[t], ioQ'[t], 1, M), same(ioQ[t][1], e),
               1 \in 1 .. Len(ioQ[t]), \A f \in M : f.op = "pack_in"
        PROVE  FALSE
    <3>1. ioQ'[t][k] \notin M
      BY <2>3
    <3>2. k + 1 \in 1 .. Len(ioQ[t]) /\ ioQ'[t][k] = ioQ[t][k + 1]
      BY <2>3, <3>1 DEF Slid
    <3>3. k + 1 = k + d /\ 1 = k + d
      BY <2>1, <2>3, <3>2
    <3> QED
      BY <1>2, <3>3
  <2>4. PackIn(s).op = "pack_in"
    BY DEF PackIn
  <2>5. OpsInv /\ LifeInv /\ CountInv /\ RecvInv
    BY DEF HalvesInv, FlowInv
  <2>6. e.op = "read" => ~(HandleReadClosed(s) \/ HandleRead(s))
    <3> SUFFICES ASSUME e.op = "read", HandleReadClosed(s) \/ HandleRead(s) PROVE FALSE
      OBVIOUS
    <3>1. /\ Q(s)[1].op = "read" /\ Q(s)[1].s = s /\ 1 \in 1 .. Len(Q(s))
          /\ IoSlides(ThreadOf[s], 1, {}) \/ IoSlides(ThreadOf[s], 1, {PackIn(s)})
      BY <2>5, ReadClosedDoes, ReadDoes
    <3> QED
      BY <2>1, <2>3, <2>4, <3>1 DEF Q, IoSlides
  <2>7. e.op = "write" => ~(HandleWriteError(s) \/ HandleWrite(s))
    <3> SUFFICES ASSUME e.op = "write", HandleWriteError(s) \/ HandleWrite(s) PROVE FALSE
      OBVIOUS
    <3>1. /\ Q(s)[1].op = "write" /\ Q(s)[1].s = s /\ 1 \in 1 .. Len(Q(s))
          /\ IoSlides(ThreadOf[s], 1, {})
      BY <2>5, WriteErrorDoes, WriteDoes
    <3> QED
      BY <2>1, <2>3, <3>1 DEF Q, IoSlides
  <2>8. /\ e.op = "read" => reading'[s] = "done"
        /\ e.op = "write" => writing'[s] = "done"
    BY <2>1, <2>6, <2>7, DoneLocal
  <2>9. ASSUME NEW j \in 1 .. Len(ioQ'[t]), same(ioQ'[t][j], e)
        PROVE  j = k
    <3>1. CASE PostedTo(t, ioQ'[t][j])
      <4>1. /\ ioQ'[t][j].op = "read" => reading[s] = "armed"
            /\ ioQ'[t][j].op = "write" => writing[s] = "armed"
        BY <1>3, <2>9, <3>1
      <4> QED
        BY <2>1, <2>9, <4>1
    <3>2. CASE j + d \in 1 .. Len(ioQ[t]) /\ ioQ'[t][j] = ioQ[t][j + d]
      <4>1. j + d = k + d
        BY <2>1, <2>9, <3>2
      <4> QED
        BY <1>2, <4>1
    <3> QED
      BY <1>2, <3>1, <3>2
  <2> QED
    BY <2>1, <2>8, <2>9, CoreLocal
<1> QED
  BY <1>2, <1>4, <1>5

\* A handler stays registered until its OnSessionClose runs.
LEMMA StaysRegistered ==
    ASSUME TypeOK, HalvesInv, FlowInv, [Next]_vars, NEW n \in Ids, NEW h \in Sessions,
           handlerMap[n] = h, ~(RunOnSessionClose /\ mainQ[1].id = n)
    PROVE  handlerMap'[n] = h
<1>0. handlerMap \in [Ids -> Sessions \cup {None}] /\ h # None
  BY SessionAssumption DEF TypeOK, MainTypes
<1>1. CASE RunOnSessionClose
  <2> PICK m : m = mainQ[1].id
    OBVIOUS
  <2>1. m \in Ids /\ Disposes(handlerMap[m], m)
    BY <1>1, OnCloseDoes DEF HalvesInv
  <2>2. handlerMap' = [handlerMap EXCEPT ![m] = None] /\ m # n
    BY <1>1, <2>1 DEF Disposes
  <2> QED
    BY <1>0, <2>1, <2>2
<1>2. ASSUME NEW r \in Sessions, Accept(r), ~Refused(r) PROVE handlerMap'[n] = h
  <2>1. NextId \in Ids /\ handlerMap[NextId] = None
    BY <1>2, AcceptDoes DEF HalvesInv
  <2>2. handlerMap' = [handlerMap EXCEPT ![NextId] = r]
    BY <1>2 DEF Accept, Refused
  <2> QED
    BY <1>0, <2>1, <2>2
<1>3. ASSUME NEW r \in Sessions, Accept(r), Refused(r) PROVE handlerMap' = handlerMap
  BY <1>3, RefusedDoes DEF mainVars
<1>4. ASSUME NEW r \in Sessions, RunInit(r) PROVE handlerMap' = handlerMap
  BY <1>4 DEF RunInit, mainVars
<1> QED
  BY <1>1, <1>2, <1>3, <1>4, CoreStep

\* Every step keeps OnSessionClose posted once, by a session that has closed its socket.
LEMMA EndKeeps ==
    ASSUME TypeOK, HalvesInv, FlowInv, [Next]_vars PROVE EndInv'
<1> SUFFICES ASSUME NEW k \in 1 .. Len(mainQ'), NEW n, mainQ'[k].op = "on_close",
                    n = mainQ'[k].id
             PROVE  /\ handlerMap'[n] # None /\ id'[handlerMap'[n]] = n
                    /\ socket'[handlerMap'[n]] = "closed"
                    /\ \A j \in 1 .. Len(mainQ') :
                         mainQ'[j].op = "on_close" /\ mainQ'[j].id = n => j = k
  BY DEF EndInv
<1>0. /\ EndInv /\ mainQ \in Seq(MainTasks) /\ Len(mainQ) \in Nat /\ None \notin Sessions
      /\ Invalid \notin Ids /\ ThreadOf \in [Sessions -> Threads]
      /\ handlerMap \in [Ids -> Sessions \cup {None}]
  BY SessionAssumption, LenProperties DEF HalvesInv, TypeOK, TaskTypes, MainTypes, Ids, Invalid
<1>1. PICK d, N : MainStepOf(d, N)
  BY MainStep
<1>2. /\ \A i \in 1 .. Len(mainQ') : \/ i + d \in 1 .. Len(mainQ) /\ mainQ'[i] = mainQ[i + d]
                                     \/ i + d > Len(mainQ) /\ PostedToMain(mainQ'[i])
      /\ d \in {0, 1}
  BY <1>1 DEF MainStepOf, Slid
\* An OnSessionClose that is posted now.
<1>3. ASSUME NEW i \in 1 .. Len(mainQ'), PostedToMain(mainQ'[i]), mainQ'[i].op = "on_close"
      PROVE  \E s \in Sessions : Ends(s) /\ mainQ'[i] = OnSessionClose(id[s])
                                 /\ mainQ'[i].id = id[s]
  BY <1>3 DEF PostedToMain, PackOut, ToHandler, OnSessionClose
<1>4. ASSUME NEW s \in Sessions, Ends(s)
      PROVE  /\ handlerMap[id[s]] = s /\ handlerId[s] = id[s] /\ socket[s] = "open"
             /\ id[s] \in Ids
    <2>1. id[s] \in Ids /\ queue[ThreadOf[s]][id[s]] = s /\ ThreadOf[s] \in Threads
      BY <1>0, <1>4 DEF Ends
    <2>2. handlerId[s] = id[s] /\ socket[s] = "open"
      BY <1>0, <2>1 DEF HalvesInv, QueueInv
    <2> QED
      BY <1>0, <2>1, <2>2 DEF HalvesInv, MapInv
<1>5. ASSUME NEW s \in Sessions, Ends(s),
             NEW i \in 1 .. Len(mainQ'), mainQ'[i].op = "on_close", mainQ'[i].id = id[s]
      PROVE  i = Len(mainQ) + 1
  <2>1. mainQ' = Append(mainQ, OnSessionClose(id[s])) /\ OnSessionClose(id[s]) \in MainTasks
    BY <1>4, <1>5, NewTasks DEF Ends
  <2>2. CASE i \in 1 .. Len(mainQ)
    <3>1. mainQ'[i] = mainQ[i]
      BY <1>0, <2>1, <2>2, AppendProperties
    <3> QED
      BY <1>0, <1>4, <1>5, <2>2, <3>1 DEF EndInv
  <2>3. CASE i \notin 1 .. Len(mainQ)
    BY <1>0, <2>1, <2>3, AppendProperties
  <2> QED
    BY <2>2, <2>3
<1>6. CASE PostedToMain(mainQ'[k])
  <2> PICK s \in Sessions : Ends(s) /\ n = id[s]
    BY <1>3, <1>6
  <2>1. handlerMap[n] = s /\ s # None /\ n \in Ids /\ handlerId[s] = n /\ socket[s] = "open"
    BY <1>0, <1>4
  <2>2. socket'[s] = "closed" /\ id'[s] = id[s]
    <3>1. socket'[s] = "closed"
      BY DEF Ends, TypeOK, IoTypes
    <3> QED
      BY <1>0, <2>1, <3>1, CoreLocal DEF Accepts, Refuses, Leaves, Starts, SameSession
  <2>3. handlerMap'[n] = s
    <3>1. ~RunOnSessionClose
      <4> SUFFICES ASSUME RunOnSessionClose PROVE FALSE
        OBVIOUS
      <4> PICK m : m = mainQ[1].id
        OBVIOUS
      <4>1. mainQ' = Tail(mainQ) /\ Len(mainQ) \in Nat \ {0}
        BY OnCloseDoes DEF HalvesInv
      <4>2. Len(mainQ') = Len(mainQ) - 1
        <5>1. mainQ # <<>>
          BY <4>1
        <5> QED
          BY <1>0, <4>1, <5>1, TakeSlides
      <4>3. mainQ' = Append(mainQ, OnSessionClose(id[s])) /\ OnSessionClose(id[s]) \in MainTasks
        BY <2>1, NewTasks DEF Ends
      <4>4. Len(mainQ') = Len(mainQ) + 1
        BY <1>0, <4>3, AppendProperties
      <4> QED
        BY <1>0, <4>2, <4>4
    <3> QED
      BY <2>1, <3>1, StaysRegistered
  <2>4. k = Len(mainQ) + 1 /\ \A j \in 1 .. Len(mainQ') :
          mainQ'[j].op = "on_close" /\ mainQ'[j].id = n => j = Len(mainQ) + 1
    BY <1>5
  <2> QED
    BY <2>1, <2>2, <2>3, <2>4
<1>7. CASE k + d \in 1 .. Len(mainQ) /\ mainQ'[k] = mainQ[k + d]
  <2> PICK h : h = handlerMap[n]
    OBVIOUS
  <2>1. /\ h # None /\ id[h] = n /\ socket[h] = "closed"
        /\ \A j \in 1 .. Len(mainQ) : mainQ[j].op = "on_close" /\ mainQ[j].id = n => j = k + d
    BY <1>0, <1>7 DEF EndInv
  <2>2. n \in Ids /\ h \in Sessions
    <3>1. mainQ[k + d] \in MainTasks
      BY <1>0, <1>7, ElementOfSeq
    <3> QED
      BY <1>0, <1>7, <2>1, <3>1, TaskFields
  <2>3. handlerMap'[n] = h
    <3>1. ASSUME RunOnSessionClose, mainQ[1].id = n PROVE FALSE
      <4> PICK m : m = mainQ[1].id
        OBVIOUS
      <4>1. /\ mainQ[1].op = "on_close" /\ Len(mainQ) \in Nat \ {0}
            /\ mainQ' = Tail(mainQ)
        BY <3>1, OnCloseDoes DEF HalvesInv
      <4>2. 1 \in 1 .. Len(mainQ) /\ mainQ # <<>>
        BY <4>1
      <4>3. mainQ'[k] = mainQ[k + 1] /\ k + 1 \in 1 .. Len(mainQ)
        BY <1>0, <4>1, <4>2, TakeSlides
      <4>4. 1 = k + d /\ k + 1 = k + d
        BY <2>1, <3>1, <4>1, <4>2, <4>3
      <4> QED
        BY <1>2, <4>4
    <3> QED
      BY <2>2, <3>1, StaysRegistered
  <2>4. id'[h] = n /\ socket'[h] = "closed"
    BY <2>1, <2>2, CoreLocal DEF Accepts, Refuses, Leaves, Starts, SameSession
  <2>5. ASSUME NEW j \in 1 .. Len(mainQ'), mainQ'[j].op = "on_close", mainQ'[j].id = n
        PROVE  j = k
    <3>1. CASE PostedToMain(mainQ'[j])
      BY <1>3, <1>4, <2>1, <2>5, <3>1
    <3>2. CASE j + d \in 1 .. Len(mainQ) /\ mainQ'[j] = mainQ[j + d]
      <4>1. j + d = k + d
        BY <2>1, <2>5, <3>2
      <4> QED
        BY <1>2, <4>1
    <3> QED
      BY <1>2, <3>1, <3>2
  <2> QED
    BY <2>1, <2>3, <2>4, <2>5
<1> QED
  BY <1>2, <1>6, <1>7

-----------------------------------------------------------------------------
(* The messages.                                                           *)

\* PackMessageList is posted while messages wait, and runs before the next read.
LEMMA RecvKeeps ==
    ASSUME TypeOK, HalvesInv, FlowInv, [Next]_vars PROVE RecvInv'
<1> SUFFICES ASSUME NEW s \in Sessions PROVE RecvOf(s)'
  BY DEF RecvInv
<1> PICK t \in Threads : t = ThreadOf[s]
  BY SessionAssumption
<1>0. /\ ioQ[t] \in Seq(IoTasks) /\ Len(ioQ[t]) \in Nat /\ received[s] \in Seq(Msg)
      /\ arrived[s] \in Nat /\ RecvOf(s) /\ Len(received[s]) \in Nat
  BY LenProperties DEF FlowInv, RecvInv, TypeOK, TaskTypes, IoTypes, SeenTypes
<1> DEFINE waits(q) == \E k \in 1 .. Len(q) :
                          /\ q[k].op = "pack_in" /\ q[k].s = s
                          /\ \A j \in 1 .. Len(q) : q[j].op = "read" /\ q[j].s = s => k < j
<1>1. CASE UNCHANGED <<received[s], arrived[s]>>
  <2>1. received[s] # <<>> => reading'[s] # "no"
    <3> SUFFICES ASSUME received[s] # <<>> PROVE reading'[s] # "no"
      OBVIOUS
    <3>0. reading[s] # "no" /\ LifeOf(s)
      BY <1>0 DEF RecvOf, HalvesInv, LifeInv
    <3> USE DEF SameHandler, SameSession, SameOut, SameIn
    <3>1. CASE Idles(s) \/ Accepts(s) \/ Refuses(s) \/ Sends(s) \/ Closes(s) \/ Packs(s)
      BY <3>0, <3>1 DEF Idles, Accepts, Refuses, Sends, Closes, Packs
    <3>2. CASE Hears(s) \/ Leaves(s) \/ HandsOver(s) \/ Shuts(s) \/ LosesPeer(s) \/ Completes(s)
      BY <3>0, <3>2 DEF Hears, Leaves, HandsOver, Shuts, LosesPeer, Completes
    <3>3. CASE ReadsNoMore(s) \/ Reads(s)
      BY <3>3 DEF ReadsNoMore, Reads
    <3>4. CASE WritesNoMore(s) \/ Writes(s) \/ Gets(s) \/ Starts(s)
      BY <3>0, <3>4 DEF WritesNoMore, Writes, Gets, Starts
    <3> QED
      BY <3>1, <3>2, <3>3, <3>4, LocalStep
  <2>2. ASSUME received[s] # <<>> PROVE waits(ioQ'[t])
    <3>1. PICK k \in 1 .. Len(ioQ[t]) :
            /\ ioQ[t][k].op = "pack_in" /\ ioQ[t][k].s = s
            /\ \A j \in 1 .. Len(ioQ[t]) :
                 ioQ[t][j].op = "read" /\ ioQ[t][j].s = s => k < j
      BY <1>0, <2>2 DEF RecvOf, Q
    <3>2. PICK d, N : IoStepOf(t, d, N)
      BY IoStep
    <3>3. k > d
      <4> SUFFICES ASSUME ~(k > d) PROVE FALSE
        OBVIOUS
      <4>1. d = 1 /\ k = 1
        BY <3>2 DEF IoStepOf
      <4>2. RunPackIn(s)
        BY <3>1, <3>2, <4>1 DEF IoStepOf, TakenOff
      <4>3. received'[s] = <<>>
        BY <4>2, PackInDoes DEF TypeOK, IoTypes
      <4> QED
        BY <1>1, <2>2, <4>3
    <3>4. k - d \in 1 .. Len(ioQ'[t]) /\ ioQ'[t][k - d] = ioQ[t][k]
      BY <3>2, <3>3 DEF IoStepOf, Slid
    <3>5. ASSUME NEW j \in 1 .. Len(ioQ'[t]), ioQ'[t][j].op = "read", ioQ'[t][j].s = s
          PROVE  k - d < j
      <4>1. d \in {0, 1} /\ \/ j + d \in 1 .. Len(ioQ[t]) /\ ioQ'[t][j] = ioQ[t][j + d]
                            \/ j + d > Len(ioQ[t])
        BY <3>2 DEF IoStepOf, Slid
      <4>2. CASE j + d \in 1 .. Len(ioQ[t]) /\ ioQ'[t][j] = ioQ[t][j + d]
        <5>1. k < j + d
          BY <3>1, <3>5, <4>2
        <5> QED
          BY <4>1, <5>1
      <4>3. CASE j + d > Len(ioQ[t])
        BY <1>0, <4>1, <4>3
      <4> QED
        BY <4>1, <4>2, <4>3
    <3> QED
      BY <3>1, <3>4, <3>5
  <2> QED
    BY <1>0, <1>1, <2>1, <2>2 DEF RecvOf, Q, Numbered
<1>2. CASE HandsOver(s)
  <2>1. received'[s] = <<>> /\ arrived'[s] = arrived[s]
    BY <1>2 DEF HandsOver
  <2> QED
    BY <1>0, <2>1 DEF RecvOf, Numbered
<1>3. CASE Reads(s) /\ ~UNCHANGED <<received[s], arrived[s]>>
  <2>1. /\ received'[s] = << <<s, arrived[s] + 1>> >> /\ arrived'[s] = arrived[s] + 1
        /\ reading'[s] = "armed"
        /\ Q(s)' = Append(Tail(Q(s)), PackIn(s)) /\ HandleRead(s)
    BY <1>3 DEF Reads
  <2>2. /\ ioQ[t][1].op = "read" /\ ioQ[t][1].s = s /\ ioQ[t] # <<>> /\ 1 \in 1 .. Len(ioQ[t])
        /\ PackIn(s) \in IoTasks
    BY <2>1, ReadDoes, NewTasks DEF HalvesInv, FlowInv, Q
  <2>3. /\ Tail(ioQ[t]) \in Seq(IoTasks) /\ Len(Tail(ioQ[t])) = Len(ioQ[t]) - 1
        /\ \A k \in 1 .. Len(Tail(ioQ[t])) : Tail(ioQ[t])[k] = ioQ[t][k + 1]
    BY <1>0, <2>2, TakeSlides
  <2>4. ioQ'[t] = Append(Tail(ioQ[t]), PackIn(s))
    BY <2>1 DEF Q
  <2>5. /\ Len(ioQ'[t]) = Len(ioQ[t]) /\ ioQ'[t][Len(ioQ[t])] = PackIn(s)
        /\ \A k \in 1 .. Len(ioQ[t]) - 1 : ioQ'[t][k] = ioQ[t][k + 1]
    BY <1>0, <2>2, <2>3, <2>4, AppendProperties
  <2>6. PackIn(s).op = "pack_in" /\ PackIn(s).s = s
    BY DEF PackIn
  <2>7. ASSUME NEW j \in 1 .. Len(ioQ'[t]), ioQ'[t][j].op = "read", ioQ'[t][j].s = s
        PROVE  FALSE
    <3>1. j \in 1 .. Len(ioQ[t]) - 1
      BY <1>0, <2>5, <2>6, <2>7
    <3>2. j + 1 \in 1 .. Len(ioQ[t]) /\ ioQ[t][j + 1].op = "read" /\ ioQ[t][j + 1].s = s
      BY <1>0, <2>5, <2>7, <3>1
    <3>3. j + 1 = 1
      BY <2>2, <3>2 DEF HalvesInv, OpsInv
    <3> QED
      BY <3>1, <3>3
  <2>8. waits(ioQ'[t])
    <3> PICK k : k = Len(ioQ[t])
      OBVIOUS
    <3> QED
      BY <1>0, <2>2, <2>5, <2>6, <2>7
  <2>9. Len(received'[s]) = 1 /\ Numbered(received'[s], s, arrived[s])
    BY <1>0, <2>1 DEF Numbered
  <2> HIDE DEF waits
  <2>10. arrived'[s] - Len(received'[s]) = arrived[s] /\ Len(received'[s]) <= arrived'[s]
    BY <1>0, <2>1, <2>9
  <2> QED
    BY <2>1, <2>8, <2>9, <2>10 DEF RecvOf, Q, waits
<1>4. UNCHANGED <<received[s], arrived[s]>> \/ HandsOver(s) \/ Reads(s)
  <2> USE DEF SameHandler, SameSession, SameOut, SameIn
  <2>1. CASE Idles(s) \/ Accepts(s) \/ Refuses(s) \/ Sends(s) \/ Closes(s) \/ Packs(s)
    BY <2>1 DEF Idles, Accepts, Refuses, Sends, Closes, Packs
  <2>2. CASE Hears(s) \/ Leaves(s) \/ Shuts(s) \/ LosesPeer(s) \/ Completes(s)
    BY <2>2 DEF Hears, Leaves, Shuts, LosesPeer, Completes
  <2>3. CASE ReadsNoMore(s) \/ WritesNoMore(s) \/ Writes(s) \/ Gets(s) \/ Starts(s)
    BY <2>3 DEF ReadsNoMore, WritesNoMore, Writes, Gets, Starts
  <2> QED
    BY <2>1, <2>2, <2>3, LocalStep
<1> QED
  BY <1>1, <1>2, <1>3, <1>4

\* A handler is registered until after the messages that were posted to it.
LEMMA ToHandlerKeeps ==
    ASSUME TypeOK, HalvesInv, FlowInv, [Next]_vars PROVE ToHandlerInv'
<1> SUFFICES ASSUME NEW k \in 1 .. Len(mainQ'), NEW e, e = mainQ'[k], e.op = "to_handler"
             PROVE  /\ id'[e.s] # Invalid /\ handlerMap'[id'[e.s]] = e.s
                    /\ e.msgs[1][1] = e.s
                    /\ \A j \in 1 .. Len(mainQ') :
                         mainQ'[j].op = "on_close" /\ mainQ'[j].id = id'[e.s] => k < j
  BY DEF ToHandlerInv
<1>0. /\ ToHandlerInv /\ EndInv /\ mainQ \in Seq(MainTasks) /\ Len(mainQ) \in Nat
      /\ Invalid \notin Ids /\ ThreadOf \in [Sessions -> Threads]
      /\ id \in [Sessions -> Ids \cup {Invalid}]
  BY SessionAssumption, LenProperties DEF HalvesInv, FlowInv, TypeOK, TaskTypes, IoTypes, Ids, Invalid
<1>1. PICK d, N : MainStepOf(d, N)
  BY MainStep
<1>2. /\ \A i \in 1 .. Len(mainQ') : \/ i + d \in 1 .. Len(mainQ) /\ mainQ'[i] = mainQ[i + d]
                                     \/ i + d > Len(mainQ) /\ PostedToMain(mainQ'[i])
      /\ d \in {0, 1}
  BY <1>1 DEF MainStepOf, Slid
<1>3. CASE PostedToMain(e)
  <2>1. PICK s \in Sessions : RunPackIn(s) /\ received[s] # <<>> /\ e = ToHandler(s, received[s])
    BY <1>3 DEF PostedToMain, PackOut, ToHandler, OnSessionClose
  <2>2. e.s = s /\ e.msgs = received[s]
    BY <2>1 DEF ToHandler
  <2>3. /\ reading[s] # "no" /\ Numbered(received[s], s, arrived[s] - Len(received[s]))
        /\ received[s] \in Seq(Msg)
    BY <2>1 DEF FlowInv, RecvInv, RecvOf, TypeOK, IoTypes
  <2>4. received[s][1][1] = s
    <3>1. 1 \in 1 .. Len(received[s])
      BY <2>1, <2>3, TakeSlides
    <3> QED
      BY <2>3, <3>1 DEF Numbered
  <2>5. id[s] \in Ids /\ queue[ThreadOf[s]][id[s]] = s
    BY <1>0, <2>3 DEF HalvesInv, CountInv, CountOf, LifeInv, LifeOf, Untouched
  <2>6. handlerId[s] = id[s] /\ socket[s] = "open" /\ id[s] # Invalid
    BY <1>0, <2>5, NamedIs, SessionAssumption DEF HalvesInv, QueueInv
  <2>7. handlerMap[id[s]] = s
    BY <2>6 DEF HalvesInv, MapInv
  <2>8. UNCHANGED <<handlerMap, id>> /\ mainQ' = Append(mainQ, e) /\ e \in MainTasks
    BY <2>1, PackInDoes DEF RunPackIn, mainVars
  <2>9. ASSUME NEW j \in 1 .. Len(mainQ'), mainQ'[j].op = "on_close", mainQ'[j].id = id[s]
        PROVE  FALSE
    <3>1. CASE j \in 1 .. Len(mainQ)
      <4>1. mainQ'[j] = mainQ[j]
        BY <1>0, <2>8, <3>1, AppendProperties
      <4> QED
        BY <1>0, <2>6, <2>7, <2>9, <3>1, <4>1 DEF EndInv
    <3>2. CASE j \notin 1 .. Len(mainQ)
      <4>1. mainQ'[j] = e
        BY <1>0, <2>8, <3>2, AppendProperties
      <4> QED
        BY <2>9, <4>1
    <3> QED
      BY <3>1, <3>2
  <2> QED
    BY <2>2, <2>4, <2>6, <2>7, <2>8, <2>9
<1>4. CASE k + d \in 1 .. Len(mainQ) /\ e = mainQ[k + d]
  <2>1. /\ id[e.s] # Invalid /\ handlerMap[id[e.s]] = e.s /\ e.msgs[1][1] = e.s
        /\ \A j \in 1 .. Len(mainQ) :
             mainQ[j].op = "on_close" /\ mainQ[j].id = id[e.s] => k + d < j
    BY <1>0, <1>4 DEF ToHandlerInv
  <2>2. e.s \in Sessions
    <3>1. e \in MainTasks
      BY <1>0, <1>4, ElementOfSeq
    <3> QED
      BY <3>1, TaskFields
  <2> PICK s \in Sessions : s = e.s
    BY <2>2
  <2> PICK n : n = id[s]
    OBVIOUS
  <2>3. n \in Ids /\ n # Invalid /\ handlerMap[n] = s
    BY <1>0, <2>1
  <2>4. id'[s] = n
    BY <2>3, CoreLocal, NewIsNowhere DEF Accepts, Refuses, Leaves, Starts, SameSession
  <2>5. ~(RunOnSessionClose /\ mainQ[1].id = n)
    <3> SUFFICES ASSUME RunOnSessionClose, mainQ[1].id = n PROVE FALSE
      OBVIOUS
    <3>1. mainQ[1].op = "on_close" /\ Len(mainQ) \in Nat \ {0}
      BY OnCloseDoes DEF HalvesInv
    <3>2. k + d < 1
      BY <2>1, <3>1
    <3> QED
      BY <1>2, <3>2
  <2>6. handlerMap'[n] = s
    BY <2>3, <2>5, StaysRegistered
  <2>7. ASSUME NEW j \in 1 .. Len(mainQ'), mainQ'[j].op = "on_close", mainQ'[j].id = n
        PROVE  k < j
    <3>1. CASE j + d \in 1 .. Len(mainQ) /\ mainQ'[j] = mainQ[j + d]
      <4>1. k + d < j + d
        BY <2>1, <2>7, <3>1
      <4> QED
        BY <1>2, <4>1
    <3>2. CASE j + d > Len(mainQ)
      BY <1>0, <1>2, <1>4, <3>2
    <3> QED
      BY <1>2, <3>1, <3>2
  <2> QED
    BY <2>1, <2>3, <2>4, <2>6, <2>7
<1> QED
  BY <1>2, <1>3, <1>4

\* Numbered lists.
LEMMA NumberedJoins ==
    ASSUME NEW p \in Seq(Msg), NEW q \in Seq(Msg), NEW s, NEW n \in Nat,
           Numbered(p, s, n), Numbered(q, s, n + Len(p))
    PROVE  /\ Numbered(p \o q, s, n) /\ Len(p \o q) = Len(p) + Len(q)
           /\ p \o q \in Seq(Msg) /\ Len(p) \in Nat /\ Len(q) \in Nat
<1>1. /\ p \o q \in Seq(Msg) /\ Len(p \o q) = Len(p) + Len(q)
      /\ \A k \in 1 .. Len(p) + Len(q) :
           (p \o q)[k] = IF k <= Len(p) THEN p[k] ELSE q[k - Len(p)]
      /\ Len(p) \in Nat /\ Len(q) \in Nat
  BY ConcatProperties, LenProperties
<1>2. ASSUME NEW k \in 1 .. Len(p \o q) PROVE (p \o q)[k] = <<s, n + k>>
  <2>1. CASE k <= Len(p)
    <3>1. k \in 1 .. Len(p)
      BY <1>1, <2>1
    <3>2. p[k] = <<s, n + k>>
      BY <3>1 DEF Numbered
    <3> QED
      BY <1>1, <2>1, <3>2
  <2>2. CASE ~(k <= Len(p))
    <3>1. k - Len(p) \in 1 .. Len(q)
      BY <1>1, <2>2
    <3>2. q[k - Len(p)] = <<s, n + Len(p) + (k - Len(p))>>
      BY <3>1 DEF Numbered
    <3>3. n + Len(p) + (k - Len(p)) = n + k
      BY <1>1
    <3> QED
      BY <1>1, <2>2, <3>2, <3>3
  <2> QED
    BY <2>1, <2>2
<1> QED
  BY <1>1, <1>2 DEF Numbered

\* The next message of a connection continues its numbers.
LEMMA NumberedGrows ==
    ASSUME NEW p \in Seq(Msg), NEW s \in Sessions, NEW n \in Nat, Numbered(p, s, n),
           NEW l \in Nat, l = n + Len(p) + 1
    PROVE  /\ Numbered(Append(p, <<s, l>>), s, n)
           /\ Len(Append(p, <<s, l>>)) = Len(p) + 1
<1> PICK m : m = <<s, l>>
  OBVIOUS
<1>1. m \in Msg /\ Len(p) \in Nat
  BY LenProperties DEF Msg
<1>2. /\ Len(Append(p, m)) = Len(p) + 1 /\ Append(p, m)[Len(p) + 1] = m
      /\ \A k \in 1 .. Len(p) : Append(p, m)[k] = p[k]
  BY <1>1, AppendProperties
<1>3. ASSUME NEW k \in 1 .. Len(Append(p, m)) PROVE Append(p, m)[k] = <<s, n + k>>
  <2>1. CASE k \in 1 .. Len(p)
    BY <1>2, <2>1 DEF Numbered
  <2>2. CASE k \notin 1 .. Len(p)
    <3>1. k = Len(p) + 1
      BY <1>1, <1>2, <2>2
    <3>2. l = n + k
      BY <1>1, <3>1
    <3> QED
      BY <1>2, <3>1, <3>2
  <2> QED
    BY <2>1, <2>2
<1> QED
  BY <1>2, <1>3 DEF Numbered

\* The first of numbered messages belongs to the connection.
LEMMA NumberedStart ==
    ASSUME NEW q \in Seq(Msg), NEW s, NEW n \in Int, Numbered(q, s, n), q # <<>>
    PROVE  q[1][1] = s
<1>1. 1 \in 1 .. Len(q)
  BY TakeSlides
<1> QED
  BY <1>1 DEF Numbered

\* Chains.
LEMMA ChainFirst ==
    ASSUME NEW s, NEW q, NEW lo, NEW hi, NEW M, NEW m \in Nat, Chain(s, q, lo, hi, M, m),
           1 \in 1 .. Len(q), Len(q) \in Nat
    PROVE  /\ lo \in Nat /\ hi \in Nat
           /\ Carries(q[1], s) => Numbered(q[1].msgs, s, lo)
           /\ Load(q[1], s) \in Int => lo + Load(q[1], s) <= hi
           /\ 1 \in M => lo >= m
<1>1. PICK at : ChainBy(at, s, q, lo, hi, M, m)
  BY DEF Chain
<1>2. /\ at[1] \in Nat /\ at[2] \in Nat /\ at[Len(q) + 1] \in Nat /\ at[1] = lo
      /\ at[Len(q) + 1] = hi
  BY <1>1 DEF ChainBy
<1>3. at[2] = at[1] + Load(q[1], s)
  BY <1>1 DEF ChainBy
<1>4. at[2] <= hi
  <2>1. CASE Len(q) = 1
    BY <1>1, <1>2, <2>1
  <2>2. CASE 2 \in 1 .. Len(q)
    BY <1>1, <2>2 DEF ChainBy
  <2>3. Len(q) = 1 \/ 2 \in 1 .. Len(q)
    <3>1. \A l \in Nat : 1 \in 1 .. l => l = 1 \/ 2 \in 1 .. l
      OBVIOUS
    <3> QED
      BY <3>1
  <2> QED
    BY <2>1, <2>2, <2>3
<1>5. (Carries(q[1], s) => Numbered(q[1].msgs, s, at[1])) /\ (1 \in M => at[1] >= m)
  BY <1>1 DEF ChainBy
<1> QED
  BY <1>2, <1>3, <1>4, <1>5

\* Without messages of s there is nothing to continue.
LEMMA ChainEmpty ==
    ASSUME NEW s, NEW q, Len(q) \in Nat, NEW n \in Nat, NEW M, NEW m \in Nat, m <= n,
           \A k \in 1 .. Len(q) : ~Carries(q[k], s)
    PROVE  Chain(s, q, n, n, M, m)
<1> DEFINE at == [k \in 1 .. Len(q) + 1 |-> n]
<1>1. ASSUME NEW k \in 1 .. Len(q)
      PROVE  /\ at[k + 1] = at[k] + Load(q[k], s) /\ at[k] <= n /\ at[k] >= m
             /\ ~Carries(q[k], s)
  <2>1. k \in 1 .. Len(q) + 1 /\ k + 1 \in 1 .. Len(q) + 1
    OBVIOUS
  <2> QED
    BY <2>1 DEF Load
<1>2. at \in [1 .. Len(q) + 1 -> Nat] /\ at[1] = n /\ at[Len(q) + 1] = n
  OBVIOUS
<1> HIDE DEF at
<1>3. ChainBy(at, s, q, n, n, M, m)
  BY <1>1, <1>2 DEF ChainBy
<1> QED
  BY <1>3 DEF Chain

\* Posted messages of s continue the chain.
LEMMA ChainPosts ==
    ASSUME NEW S, NEW q \in Seq(S), NEW e \in S, NEW s, NEW lo, NEW hi, NEW M, NEW m \in Nat,
           Chain(s, q, lo, hi, M, m), Load(e, s) \in Nat,
           Carries(e, s) => Numbered(e.msgs, s, hi),
           NEW L, \A k \in 1 .. Len(q) : k \in L => k \in M,
           Len(q) + 1 \in L => hi >= m
    PROVE  Chain(s, Append(q, e), lo, hi + Load(e, s), L, m)
<1>1. PICK at : ChainBy(at, s, q, lo, hi, M, m)
  BY DEF Chain
<1>2. /\ Len(q) \in Nat /\ Len(Append(q, e)) = Len(q) + 1
      /\ Append(q, e)[Len(q) + 1] = e
      /\ \A k \in 1 .. Len(q) : Append(q, e)[k] = q[k]
  BY AppendSlides
<1>3. /\ at \in [1 .. Len(q) + 1 -> Nat] /\ at[1] = lo /\ at[Len(q) + 1] = hi
      /\ hi \in Nat
      /\ \A k \in 1 .. Len(q) :
           /\ at[k + 1] = at[k] + Load(q[k], s)
           /\ Carries(q[k], s) => Numbered(q[k].msgs, s, at[k])
           /\ at[k] <= hi
           /\ k \in M => at[k] >= m
  BY <1>1, <1>2 DEF ChainBy
<1> PICK r : r = Append(q, e)
  OBVIOUS
<1> PICK l \in Nat : l = Load(e, s)
  OBVIOUS
<1> DEFINE up == [k \in 1 .. Len(q) + 2 |-> IF k <= Len(q) + 1 THEN at[k] ELSE hi + l]
<1>4. /\ up \in [1 .. Len(q) + 2 -> Nat] /\ up[1] = lo /\ up[Len(q) + 2] = hi + l
      /\ \A k \in 1 .. Len(q) + 1 : up[k] = at[k]
  BY <1>2, <1>3
<1> HIDE DEF up
<1>5. ASSUME NEW k \in 1 .. Len(q) + 1
      PROVE  /\ up[k + 1] = up[k] + Load(r[k], s)
             /\ Carries(r[k], s) => Numbered(r[k].msgs, s, up[k])
             /\ up[k] <= hi + l
             /\ k \in L => up[k] >= m
  <2>1. CASE k \in 1 .. Len(q)
    <3>1. r[k] = q[k] /\ up[k] = at[k] /\ up[k + 1] = at[k + 1]
      BY <1>2, <1>4, <2>1
    <3>2. at[k] \in Nat /\ at[k] <= hi + l
      BY <1>2, <1>3, <2>1
    <3> QED
      BY <1>3, <2>1, <3>1, <3>2
  <2>2. CASE k = Len(q) + 1
    <3>1. r[k] = e /\ up[k] = hi /\ up[k + 1] = hi + l
      BY <1>2, <1>3, <1>4, <2>2
    <3> QED
      BY <1>3, <2>2, <3>1
  <2> QED
    BY <1>2, <2>1, <2>2
<1>6. Len(r) = Len(q) + 1 /\ Len(r) + 1 = Len(q) + 2
  BY <1>2
<1>7. ChainBy(up, s, r, lo, hi + l, L, m)
  BY <1>4, <1>5, <1>6 DEF ChainBy
<1> QED
  BY <1>7 DEF Chain

\* r is q with or without its head (d), and tasks that have no messages of s; the marks L
\* of r are marks of q, or behind it.
Follows(s, q, r, d, lo, l, hi, M, m, L, n) ==
    /\ d = 1 => 1 \in 1 .. Len(q)
    /\ l = IF d = 1 THEN lo + Load(q[1], s) ELSE lo
    /\ \A k \in 1 .. Len(r) : k + d > Len(q) => ~Carries(r[k], s)
    /\ \A k \in 1 .. Len(r) : k \in L /\ k + d \in 1 .. Len(q) => k + d \in M /\ n <= m
    /\ \A k \in 1 .. Len(r) : k \in L /\ k + d > Len(q) => hi >= n

\* A queue slides: the first task's messages have come, and no others are posted.
LEMMA ChainSlides ==
    ASSUME NEW q, NEW r, Len(q) \in Nat, Len(r) \in Nat, NEW d \in {0, 1}, NEW N,
           Slid(q, r, d, N), NEW s, NEW lo, NEW hi, NEW M, NEW m \in Nat,
           Chain(s, q, lo, hi, M, m), NEW L, NEW n \in Nat, NEW l,
           Follows(s, q, r, d, lo, l, hi, M, m, L, n)
    PROVE  Chain(s, r, l, hi, L, n)
<1>0. /\ d = 1 => 1 \in 1 .. Len(q)
      /\ \A k \in 1 .. Len(r) : k + d > Len(q) => ~Carries(r[k], s)
      /\ \A k \in 1 .. Len(r) : k \in L /\ k + d \in 1 .. Len(q) => k + d \in M /\ n <= m
      /\ \A k \in 1 .. Len(r) : k \in L /\ k + d > Len(q) => hi >= n
  BY DEF Follows
<1>1. PICK at : ChainBy(at, s, q, lo, hi, M, m)
  BY DEF Chain
<1>2. /\ at \in [1 .. Len(q) + 1 -> Nat] /\ at[1] = lo /\ at[Len(q) + 1] = hi
      /\ hi \in Nat
      /\ \A k \in 1 .. Len(q) :
           /\ at[k + 1] = at[k] + Load(q[k], s)
           /\ Carries(q[k], s) => Numbered(q[k].msgs, s, at[k])
           /\ at[k] <= hi
           /\ k \in M => at[k] >= m
  BY <1>1 DEF ChainBy
<1>3. /\ \A k \in 1 .. Len(r) : k + d \in 1 .. Len(q) => r[k] = q[k + d]
      /\ Len(r) + d >= Len(q)
  <2>0. Len(q) \in Nat /\ Len(r) \in Nat
    OBVIOUS
  <2>1. \A k \in 1 .. Len(r) : k + d \in 1 .. Len(q) => r[k] = q[k + d]
    BY DEF Slid
  <2>2. CASE Len(q) > d
    <3>1. Len(q) - d \in 1 .. Len(r)
      BY <2>2 DEF Slid
    <3> QED
      BY <2>1, <3>1
  <2>3. CASE ~(Len(q) > d)
    BY <2>1, <2>3
  <2> QED
    BY <2>2, <2>3
<1> DEFINE up == [k \in 1 .. Len(r) + 1 |-> IF k + d <= Len(q) + 1 THEN at[k + d] ELSE hi]
<1>4. /\ up \in [1 .. Len(r) + 1 -> Nat]
      /\ \A k \in 1 .. Len(r) + 1 : k + d <= Len(q) + 1 => up[k] = at[k + d]
      /\ \A k \in 1 .. Len(r) + 1 : k + d > Len(q) => up[k] = hi
  <2>1. ASSUME NEW k \in 1 .. Len(r) + 1, k + d <= Len(q) + 1 PROVE k + d \in 1 .. Len(q) + 1
    BY <2>1
  <2>2. \A k \in 1 .. Len(r) + 1 : k + d <= Len(q) + 1 => up[k] = at[k + d] /\ up[k] \in Nat
    BY <1>2, <2>1
  <2>3. \A k \in 1 .. Len(r) + 1 : ~(k + d <= Len(q) + 1) => up[k] = hi /\ up[k] \in Nat
    BY <1>2
  <2>4. ASSUME NEW k \in 1 .. Len(r) + 1, k + d > Len(q) PROVE up[k] = hi
    <3>1. CASE k + d = Len(q) + 1
      BY <1>2, <2>2, <3>1
    <3>2. CASE k + d # Len(q) + 1
      BY <2>3, <2>4, <3>2
    <3> QED
      BY <3>1, <3>2
  <2>5. up \in [1 .. Len(r) + 1 -> Nat]
    BY <2>2, <2>3
  <2> QED
    BY <2>2, <2>4, <2>5
<1> HIDE DEF up
<1>5. ASSUME NEW k \in 1 .. Len(r)
      PROVE  /\ up[k + 1] = up[k] + Load(r[k], s)
             /\ Carries(r[k], s) => Numbered(r[k].msgs, s, up[k])
             /\ up[k] <= hi
             /\ k \in L => up[k] >= n
  <2>1. CASE k + d \in 1 .. Len(q)
    <3>1. r[k] = q[k + d] /\ up[k] = at[k + d] /\ up[k + 1] = at[k + d + 1]
      BY <1>3, <1>4, <2>1
    <3>2. k \in L => k + d \in M /\ n <= m
      BY <1>0, <2>1
    <3>3. at[k + d] \in Nat
      <4>1. k + d \in 1 .. Len(q) + 1
        BY <2>1
      <4> QED
        BY <1>2, <4>1
    <3> QED
      BY <1>2, <2>1, <3>1, <3>2, <3>3
  <2>2. CASE k + d > Len(q)
    <3>1. up[k] = hi /\ up[k + 1] = hi
      BY <1>4, <2>2
    <3>2. ~Carries(r[k], s) /\ (k \in L => hi >= n)
      BY <1>0, <2>2
    <3> QED
      BY <1>2, <3>1, <3>2 DEF Load
  <2> QED
    BY <2>1, <2>2
<1>6. up[1] = (IF d = 1 THEN lo + Load(q[1], s) ELSE lo) /\ up[Len(r) + 1] = hi
  <2>1. up[Len(r) + 1] = hi
    <3>1. Len(r) + 1 \in 1 .. Len(r) + 1 /\ Len(r) + 1 + d > Len(q)
      BY <1>3
    <3> QED
      BY <1>4, <3>1
  <2>2. CASE d = 0
    <3>1. 1 + d <= Len(q) + 1 /\ 1 \in 1 .. Len(r) + 1 /\ 1 + d = 1
      BY <2>2
    <3>2. up[1] = at[1]
      BY <1>4, <3>1
    <3> QED
      BY <1>2, <2>1, <2>2, <3>2
  <2>3. CASE d = 1
    <3>1. up[1] = at[2]
      BY <1>0, <1>4, <2>3
    <3> QED
      BY <1>0, <1>2, <2>1, <2>3, <3>1
  <2> QED
    BY <2>1, <2>2, <2>3
<1>7. ChainBy(up, s, r, l, hi, L, n)
  <2>1. up[1] = l /\ up[Len(r) + 1] = hi
    BY <1>6 DEF Follows
  <2> QED
    BY <1>4, <1>5, <2>1 DEF ChainBy
<1> QED
  BY <1>7 DEF Chain

\* A session enters its session queue by its Init only.
LEMMA QueueBack ==
    ASSUME TypeOK, HalvesInv, FlowInv, [Next]_vars, NEW s \in Sessions, NEW n \in Ids,
           queue'[ThreadOf[s]][n] = s
    PROVE  queue[ThreadOf[s]][n] = s \/ RunInit(s)
<1>0. /\ s # None /\ ThreadOf \in [Sessions -> Threads] /\ ThreadOf[s] \in Threads
      /\ queue \in [Threads -> [Ids -> Sessions \cup {None}]]
  BY SessionAssumption DEF TypeOK, IoTypes
<1>1. ASSUME NEW r \in Sessions, RunInit(r), r # s PROVE queue[ThreadOf[s]][n] = s
  <2> PICK m : m = Q(r)[1].id
    OBVIOUS
  <2>1. m \in Ids /\ queue' = [queue EXCEPT ![ThreadOf[r]][m] = r]
    BY <1>1, InitDoes
  <2> QED
    BY <1>0, <1>1, <2>1
<1>2. ASSUME NEW r \in Sessions, Ends(r) PROVE queue[ThreadOf[s]][n] = s
  BY <1>0, <1>2 DEF Ends
<1>3. RunOnSessionClose => queue' = queue
  BY DEF RunOnSessionClose, ioVars
<1>4. ASSUME NEW r \in Sessions, Accept(r) PROVE queue' = queue
  BY <1>4 DEF Accept
<1> QED
  BY <1>0, <1>1, <1>2, <1>3, <1>4, CoreStep

\* A queued task finds its session only if it would have found it before the step.
LEMMA HomedBack ==
    ASSUME TypeOK, HalvesInv, FlowInv, [Next]_vars, NEW s \in Sessions,
           NEW t, t = ThreadOf[s], NEW d, NEW N, IoStepOf(t, d, N),
           handlerId[s] # Invalid, handlerId'[s] = handlerId[s]
    PROVE  /\ \A j \in 1 .. Len(ioQ'[t]) : InitAt(s, j)' =>
                j + d \in 1 .. Len(ioQ[t]) /\ InitAt(s, j + d)
           /\ \A k \in 1 .. Len(ioQ'[t]) : Homed(s, k)' => Homed(s, k + d)
<1>0. /\ d \in {0, 1} /\ Len(ioQ[t]) \in Nat /\ Len(ioQ'[t]) \in Nat
      /\ handlerId[s] \in Ids
      /\ \A i \in 1 .. Len(ioQ'[t]) : \/ i + d \in 1 .. Len(ioQ[t]) /\ ioQ'[t][i] = ioQ[t][i + d]
                                      \/ i + d > Len(ioQ[t]) /\ PostedTo(t, ioQ'[t][i])
      /\ TypeOK'
  BY TypeStep, LenProperties, SessionAssumption
     DEF IoStepOf, Slid, TypeOK, TaskTypes, MainTypes, Ids, Invalid
<1>1. ASSUME NEW j \in 1 .. Len(ioQ'[t]), InitAt(s, j)'
      PROVE  j + d \in 1 .. Len(ioQ[t]) /\ InitAt(s, j + d)
  <2>1. ioQ'[t][j].op = "init" /\ ioQ'[t][j].s = s
    BY <1>1 DEF InitAt, Q
  <2>2. ~PostedTo(t, ioQ'[t][j])
    <3> SUFFICES ASSUME PostedTo(t, ioQ'[t][j]) PROVE FALSE
      OBVIOUS
    <3>1. PICK r \in Sessions : Accept(r) /\ ioQ'[t][j] = InitSession(r, NextId)
      BY <2>1, Posts
    <3>2. r = s
      BY <2>1, <3>1 DEF InitSession
    <3>3. socket[s] = "new"
      BY <3>1, <3>2 DEF Accept
    <3> QED
      BY <3>3, NewIsNowhere
  <2> QED
    BY <1>0, <2>1, <2>2 DEF InitAt, Q
<1>2. ASSUME NEW k \in 1 .. Len(ioQ'[t]), Homed(s, k)' PROVE Homed(s, k + d)
  <2>1. CASE \E j \in 1 .. k - 1 : InitAt(s, j)'
    <3>1. PICK j \in 1 .. k - 1 : InitAt(s, j)'
      BY <2>1
    <3>2. j \in 1 .. Len(ioQ'[t]) /\ j + d \in 1 .. (k + d) - 1
      BY <1>0
    <3> QED
      BY <1>1, <3>1, <3>2 DEF Homed
  <2>2. CASE queue'[ThreadOf[s]][handlerId[s]] = s
    <3>1. CASE RunInit(s)
      <4> PICK n : n = Q(s)[1].id
        OBVIOUS
      <4>1. /\ Q(s)[1].op = "init" /\ Q(s)[1].s = s /\ 1 \in 1 .. Len(Q(s))
            /\ Q(s)' = Tail(Q(s)) /\ Q(s) # <<>>
        BY <3>1, InitDoes
      <4>2. InitAt(s, 1)
        BY <4>1 DEF InitAt
      <4>3. Len(ioQ'[t]) = Len(ioQ[t]) - 1
        BY <4>1, TakeSlides, SessionAssumption DEF Q, TypeOK, TaskTypes
      <4>4. d = 1
        <5>1. CASE d = 0
          <6> PICK l : l = Len(ioQ[t])
            OBVIOUS
          <6>1. l \in 1 .. Len(ioQ[t]) /\ l > d
            BY <1>0, <4>1, <5>1 DEF Q
          <6>2. l - d \in 1 .. Len(ioQ'[t])
            BY <6>1 DEF IoStepOf, Slid
          <6> QED
            BY <1>0, <4>3, <5>1, <6>1, <6>2
        <5> QED
          BY <1>0, <5>1
      <4>5. 1 \in 1 .. (k + d) - 1
        BY <4>4
      <4> QED
        BY <4>2, <4>5 DEF Homed
    <3>2. CASE ~RunInit(s)
      BY <1>0, <2>2, <3>2, QueueBack DEF Homed
    <3> QED
      BY <3>1, <3>2
  <2> QED
    BY <1>2, <2>1, <2>2 DEF Homed
<1> QED
  BY <1>1, <1>2

\* Who posts messages to a session.
LEMMA PostsMessages ==
    ASSUME TypeOK, FlowInv, NEW t, NEW e, PostedTo(t, e), e.op = "to_session"
    PROVE  \E r \in Sessions :
             /\ ThreadOf[r] = t /\ (Close(r) \/ (RunPackOut /\ r = Head(mainQ).s))
             /\ e = ToSession(handlerId[r], outbox[r]) /\ outbox[r] # <<>>
             /\ e.id = handlerId[r] /\ e.msgs = outbox[r] /\ e.msgs[1][1] = r
<1>1. PICK r \in Sessions : /\ ThreadOf[r] = t
                            /\ Close(r) \/ (RunPackOut /\ r = Head(mainQ).s)
                            /\ e \in PackedTasks(r)
  BY Posts
<1>2. /\ e = ToSession(handlerId[r], outbox[r]) /\ outbox[r] # <<>>
      /\ e.id = handlerId[r] /\ e.msgs = outbox[r]
  BY <1>1 DEF PackedTasks, ToSession
<1>3. outbox[r] \in Seq(Msg) /\ sent[r] \in Seq(Msg)
      /\ Numbered(outbox[r], r, Len(sent[r]) - Len(outbox[r]))
  BY DEF TypeOK, MainTypes, SeenTypes, FlowInv, OutInv, OutOf
<1>4. Len(sent[r]) - Len(outbox[r]) \in Int
  BY <1>3, LenProperties
<1>5. outbox[r][1][1] = r
  BY <1>2, <1>3, <1>4, NumberedStart
<1> QED
  BY <1>1, <1>2, <1>5

\* The session of a connection that was just accepted has not been in a session queue.
LEMMA JustAccepted ==
    ASSUME TypeOK, HalvesInv, NEW s \in Sessions, Accepts(s), NEW t, t = ThreadOf[s]
    PROVE  /\ t \in Threads /\ Len(ioQ[t]) \in Nat
           /\ ioQ'[t] = Append(ioQ[t], InitSession(s, NextId))
           /\ InitSession(s, NextId) \in IoTasks /\ Len(ioQ'[t]) = Len(ioQ[t]) + 1
           /\ \A k \in 1 .. Len(ioQ'[t]) : ~Homed(s, k)'
<1>1. /\ socket[s] = "new" /\ queue' = queue /\ handlerId'[s] = NextId /\ NextId \in Ids
      /\ t \in Threads /\ ioQ[t] \in Seq(IoTasks)
  BY SessionAssumption DEF Accepts, Accept, Refused, TypeOK, TaskTypes
<1>2. /\ ioQ'[t] = Append(ioQ[t], InitSession(s, NextId)) /\ Len(ioQ'[t]) = Len(ioQ[t]) + 1
      /\ Len(ioQ[t]) \in Nat
  BY AcceptDoes DEF Accepts, HalvesInv, Q
<1>3. InitSession(s, NextId) \in IoTasks
  BY <1>1, NewTasks
<1>4. ASSUME NEW j \in 1 .. Len(ioQ[t]), InitAt(s, j)' PROVE FALSE
  <2>1. ioQ'[t][j] = ioQ[t][j]
    BY <1>1, <1>2, <1>3, AppendProperties
  <2>2. InitAt(s, j)
    BY <1>4, <2>1 DEF InitAt, Q
  <2>3. socket[s] = "open"
    BY <1>1, <2>2 DEF HalvesInv, InitInv, InitAt, Q
  <2> QED
    BY <1>1, <2>3
<1>5. ASSUME NEW k \in 1 .. Len(ioQ'[t]) PROVE ~Homed(s, k)'
  <2>1. queue'[ThreadOf[s]][handlerId'[s]] # s
    BY <1>1, NewIsNowhere
  <2>2. ASSUME NEW j \in 1 .. k - 1, InitAt(s, j)' PROVE FALSE
    <3>1. j \in 1 .. Len(ioQ[t])
      BY <1>2
    <3> QED
      BY <1>4, <2>2, <3>1
  <2> QED
    BY <2>1, <2>2 DEF Homed
<1> QED
  BY <1>1, <1>2, <1>3, <1>5

\* Every step keeps what handlers post on its way to their own sessions.
LEMMA DestKeeps ==
    ASSUME TypeOK, HalvesInv, FlowInv, [Next]_vars PROVE DestInv'
<1> SUFFICES ASSUME NEW s \in Sessions PROVE DestOf(s)'
  BY DEF DestInv
<1> PICK t \in Threads : t = ThreadOf[s]
  BY SessionAssumption
<1> SUFFICES ASSUME NEW k \in 1 .. Len(ioQ'[t]), ioQ'[t][k].op = "to_session"
             PROVE  /\ socket'[s] = "new" => ioQ'[t][k].msgs[1][1] # s
                    /\ handlerId'[s] # Invalid =>
                         /\ ioQ'[t][k].msgs[1][1] = s =>
                              /\ ioQ'[t][k].id = handlerId'[s]
                              /\ \A j \in 1 .. Len(ioQ'[t]) : InitAt(s, j)' => j < k
                         /\ ioQ'[t][k].id = handlerId'[s] /\ Homed(s, k)' =>
                              ioQ'[t][k].msgs[1][1] = s
  BY DEF DestOf, Q
<1> PICK e : e = ioQ'[t][k]
  OBVIOUS
<1>1. PICK d, N : IoStepOf(t, d, N)
  BY IoStep
<1>2. /\ d \in {0, 1} /\ Len(ioQ[t]) \in Nat /\ handlerId[s] \in Ids \cup {Invalid}
      /\ \A i \in 1 .. Len(ioQ'[t]) : \/ i + d \in 1 .. Len(ioQ[t]) /\ ioQ'[t][i] = ioQ[t][i + d]
                                      \/ i + d > Len(ioQ[t]) /\ PostedTo(t, ioQ'[t][i])
      /\ DestOf(s) /\ ioQ[t] \in Seq(IoTasks)
  BY <1>1, LenProperties DEF IoStepOf, Slid, TypeOK, TaskTypes, MainTypes, FlowInv, DestInv
<1>3. \/ /\ k + d \in 1 .. Len(ioQ[t]) /\ e = ioQ[t][k + d]
         /\ socket[s] = "new" => e.msgs[1][1] # s
         /\ handlerId[s] # Invalid =>
              /\ e.msgs[1][1] = s =>
                   e.id = handlerId[s] /\ \A j \in 1 .. Len(ioQ[t]) : InitAt(s, j) => j < k + d
              /\ e.id = handlerId[s] /\ Homed(s, k + d) => e.msgs[1][1] = s
      \/ k + d > Len(ioQ[t]) /\ PostedTo(t, e)
  BY <1>2 DEF DestOf, Q
\* Nothing of a session is posted before it is accepted.
<1>4. ASSUME socket[s] = "new" PROVE e.msgs[1][1] # s
  <2>1. CASE PostedTo(t, e)
    <3>1. PICK r \in Sessions : outbox[r] # <<>> /\ e.msgs[1][1] = r
      BY <2>1, PostsMessages
    <3>2. outbox[s] = <<>>
      BY <1>4, NewIsNowhere DEF HalvesInv, LifeInv, LifeOf
    <3> QED
      BY <3>1, <3>2
  <2> QED
    BY <1>3, <1>4, <2>1
<1>5. socket'[s] = "new" => socket[s] = "new"
  BY CoreLocal DEF Accepts, Refuses, Leaves, Starts, SameSession
<1>6. CASE handlerId'[s] = Invalid
  BY <1>4, <1>5, <1>6
<1>7. CASE handlerId'[s] # Invalid /\ handlerId[s] = Invalid
  <2>1. Accepts(s)
    BY <1>7, CoreLocal DEF Refuses, Leaves, Starts, SameHandler
  <2>2. socket[s] = "new" /\ ~Homed(s, k)'
    BY <2>1, JustAccepted DEF Accepts
  <2> QED
    BY <1>4, <2>2
<1>8. CASE handlerId'[s] # Invalid /\ handlerId[s] # Invalid
  <2>1. handlerId'[s] = handlerId[s] /\ socket[s] # "new"
    BY <1>8, CoreLocal, NewIsNowhere DEF Accepts, Refuses, Leaves, Starts, SameHandler
  <2>2. /\ \A j \in 1 .. Len(ioQ'[t]) : InitAt(s, j)' =>
             j + d \in 1 .. Len(ioQ[t]) /\ InitAt(s, j + d)
        /\ Homed(s, k)' => Homed(s, k + d)
    BY <1>1, <1>8, <2>1, HomedBack
  <2>3. CASE k + d \in 1 .. Len(ioQ[t]) /\ e = ioQ[t][k + d]
    <3>1. /\ e.msgs[1][1] = s =>
               e.id = handlerId[s] /\ \A j \in 1 .. Len(ioQ[t]) : InitAt(s, j) => j < k + d
          /\ e.id = handlerId[s] /\ Homed(s, k + d) => e.msgs[1][1] = s
      BY <1>2, <1>8, <2>3 DEF DestOf, Q
    <3>2. ASSUME e.msgs[1][1] = s, NEW j \in 1 .. Len(ioQ'[t]), InitAt(s, j)' PROVE j < k
      <4>1. j + d < k + d
        BY <2>2, <3>1, <3>2
      <4> QED
        BY <1>2, <4>1
    <3> QED
      BY <1>5, <2>1, <2>2, <3>1, <3>2
  <2>4. CASE k + d > Len(ioQ[t]) /\ PostedTo(t, e)
    <3>1. PICK r \in Sessions : e.id = handlerId[r] /\ e.msgs[1][1] = r
      BY <2>4, PostsMessages
    <3>2. handlerId[r] = handlerId[s] => r = s
      BY <1>8 DEF HalvesInv, MapInv
    <3>3. ASSUME NEW j \in 1 .. Len(ioQ'[t]), InitAt(s, j)' PROVE j < k
      <4>1. j + d \in 1 .. Len(ioQ[t])
        BY <2>2, <3>3
      <4> QED
        BY <1>2, <2>4, <4>1
    <3> QED
      BY <1>5, <2>1, <3>1, <3>2, <3>3
  <2> QED
    BY <1>3, <2>3, <2>4
<1> QED
  BY <1>6, <1>7, <1>8

\* The messages a session is given are its own, and the next ones.
LEMMA GetsNext ==
    ASSUME TypeOK, FlowInv, NEW s \in Sessions, Gets(s), NEW ms, ms = Q(s)[1].msgs
    PROVE  /\ ms \in Seq(Msg) /\ ms # <<>> /\ Len(ms) \in Nat
           /\ Carries(Q(s)[1], s) /\ Load(Q(s)[1], s) = Len(ms)
           /\ Numbered(ms, s, Taken(s)) /\ Taken(s) \in Nat
           /\ Taken(s) + Len(ms) + Len(outbox[s]) <= Len(sent[s])
           /\ 1 \in 1 .. Len(Q(s))
<1>0. ThreadOf[s] \in Threads
  BY SessionAssumption
<1>1. /\ RunToSession(ThreadOf[s]) /\ Q(s)[1].op = "to_session" /\ Q(s)[1].id = handlerId[s]
      /\ handlerId[s] # Invalid /\ queue[ThreadOf[s]][handlerId[s]] = s
      /\ ms \in Seq(Msg) /\ ms # <<>> /\ ~closed[s]
  BY DEF Gets, Lists
<1>2. 1 \in 1 .. Len(Q(s)) /\ Len(Q(s)) \in Nat /\ Len(ms) \in Nat
  BY <1>0, <1>1, ToSessionDoes, LenProperties DEF Q, TypeOK, TaskTypes
<1>3. Q(s)[1].msgs[1][1] = s
  <2>1. Homed(s, 1) /\ DestOf(s)
    BY <1>1 DEF Homed, FlowInv, DestInv
  <2> QED
    BY <1>1, <1>2, <2>1 DEF DestOf
<1>4. Carries(Q(s)[1], s) /\ Load(Q(s)[1], s) = Len(ms)
  BY <1>1, <1>3 DEF Carries, Load
<1> PICK q : q = Q(s)
  OBVIOUS
<1>5. Len(sent[s]) \in Nat /\ Len(outbox[s]) \in Nat /\ owed[s] \in Nat
  BY LenProperties DEF TypeOK, MainTypes, SeenTypes
<1>n. PICK o \in Nat, c \in Nat, l \in Nat :
        o = Len(outbox[s]) /\ c = Len(sent[s]) /\ l = Len(ms)
  BY <1>2, <1>5
<1>6. Chain(s, q, Taken(s), c - o, CloseMarks(s), owed[s])
  BY <1>1, <1>n DEF FlowInv, FlowOut, FlowOutOf
<1>7. /\ Taken(s) \in Nat /\ (Carries(q[1], s) => Numbered(q[1].msgs, s, Taken(s)))
      /\ Load(q[1], s) \in Int => Taken(s) + Load(q[1], s) <= c - o
  BY <1>2, <1>5, <1>6, ChainFirst
<1>8. Load(q[1], s) = l /\ Carries(q[1], s)
  BY <1>4, <1>n
<1>9. Taken(s) + l + o <= c
  BY <1>7, <1>8
<1> QED
  BY <1>1, <1>2, <1>4, <1>7, <1>8, <1>9, <1>n

\* Every step keeps the outgoing messages numbered in the order of the calls of Send.
LEMMA OutKeeps ==
    ASSUME TypeOK, HalvesInv, FlowInv, [Next]_vars PROVE OutInv'
<1> SUFFICES ASSUME NEW s \in Sessions PROVE OutOf(s)'
  BY DEF OutInv
<1>0. /\ outbox[s] \in Seq(Msg) /\ sent[s] \in Seq(Msg) /\ written[s] \in Seq(Msg)
      /\ sending[s] \in Seq(Msg) /\ toBeSent[s] \in Seq(Msg)
      /\ OutOf(s) /\ LifeOf(s)
  BY DEF FlowInv, OutInv, HalvesInv, LifeInv, TypeOK, MainTypes, IoTypes, SeenTypes
<1>n. PICK o \in Nat, c \in Nat, w \in Nat, g \in Nat, b \in Nat :
        /\ o = Len(outbox[s]) /\ c = Len(sent[s]) /\ w = Len(written[s])
        /\ g = Len(sending[s]) /\ b = Len(toBeSent[s])
  BY <1>0, LenProperties
<1>b. /\ Numbered(sent[s], s, 0) /\ o <= c /\ Numbered(outbox[s], s, c - o)
      /\ Numbered(written[s], s, 0) /\ Numbered(sending[s], s, w)
      /\ Numbered(toBeSent[s], s, w + g) /\ w + g + b <= c
  BY <1>0, <1>n DEF OutOf, Taken
<1>c. Len(<<>>) = 0 /\ \A n : Numbered(<<>>, s, n)
  BY DEF Numbered
<1> USE DEF SameHandler, SameSession, SameOut, SameIn
<1>a. ASSUME UNCHANGED <<outbox[s], sent[s]>> /\ SameOut(s) PROVE OutOf(s)'
  BY <1>0, <1>a DEF OutOf, Taken, Numbered
<1>1. CASE Idles(s) \/ Refuses(s) \/ Hears(s) \/ Leaves(s) \/ Starts(s) \/ HandsOver(s)
  BY <1>1, <1>a DEF Idles, Refuses, Hears, Leaves, Starts, HandsOver
<1>2. CASE ReadsNoMore(s) \/ Reads(s) \/ WritesNoMore(s) \/ Shuts(s) \/ Completes(s) \/ LosesPeer(s)
  BY <1>2, <1>a DEF ReadsNoMore, Reads, WritesNoMore, Shuts, Completes, LosesPeer
<1>3. CASE Accepts(s)
  <2>1. /\ outbox'[s] = << <<s, 1>> >> /\ sent'[s] = << <<s, 1>> >>
        /\ id[s] = Invalid /\ SameOut(s)
    BY <1>3 DEF Accepts
  <2>2. written[s] = <<>> /\ sending[s] = <<>> /\ toBeSent[s] = <<>>
    BY <1>0, <2>1 DEF LifeOf, Untouched
  <2> QED
    BY <2>1, <2>2 DEF OutOf, Taken, Numbered
<1>4. CASE Sends(s)
  <2>a. PICK l \in Nat : l = c + 1
    OBVIOUS
  <2>b. PICK n \in Nat : n + o = c
    <3>1. c - o \in Nat /\ (c - o) + o = c
      BY <1>b
    <3> QED
      BY <3>1
  <2>c. n = c - o
    BY <2>b
  <2>1. outbox'[s] = Append(outbox[s], <<s, l>>) /\ sent'[s] = Append(sent[s], <<s, l>>)
        /\ SameOut(s)
    BY <1>4, <1>n, <2>a DEF Sends
  <2>2. Numbered(sent'[s], s, 0) /\ Len(sent'[s]) = c + 1
    <3>1. l = 0 + Len(sent[s]) + 1
      BY <1>n, <2>a
    <3>2. Numbered(sent[s], s, 0)
      BY <1>b
    <3> QED
      BY <1>0, <1>n, <2>1, <3>1, <3>2, NumberedGrows
  <2>3. Numbered(outbox'[s], s, n) /\ Len(outbox'[s]) = o + 1
    <3>1. l = n + o + 1
      BY <2>a, <2>b
    <3>2. l = n + Len(outbox[s]) + 1
      BY <1>n, <3>1
    <3>3. Numbered(outbox[s], s, n)
      BY <1>b, <2>c
    <3>4. outbox[s] \in Seq(Msg)
      BY <1>0
    <3>5. /\ Numbered(Append(outbox[s], <<s, l>>), s, n)
          /\ Len(Append(outbox[s], <<s, l>>)) = Len(outbox[s]) + 1
      BY <3>2, <3>3, <3>4, NumberedGrows
    <3> QED
      BY <1>n, <2>1, <3>5
  <2>4. n = (c + 1) - (o + 1) /\ o + 1 <= c + 1 /\ w + g + b <= c + 1
    BY <1>b, <2>b
  <2> QED
    BY <1>b, <1>n, <2>1, <2>2, <2>3, <2>4 DEF OutOf, Taken
<1>5. CASE Closes(s) \/ Packs(s)
  <2>1. outbox'[s] = <<>> /\ UNCHANGED sent[s] /\ SameOut(s)
    BY <1>5 DEF Closes, Packs
  <2>2. 0 <= c
    OBVIOUS
  <2> QED
    BY <1>b, <1>c, <1>n, <2>1, <2>2 DEF OutOf, Taken
<1>6. CASE Writes(s)
  <2>1. /\ written'[s] = written[s] \o sending[s] /\ sending'[s] = toBeSent[s]
        /\ toBeSent'[s] = <<>> /\ UNCHANGED <<outbox[s], sent[s]>>
    BY <1>6 DEF Writes
  <2>2. Numbered(sending[s], s, 0 + Len(written[s]))
    BY <1>b, <1>n
  <2>3. Numbered(written'[s], s, 0) /\ Len(written'[s]) = w + g
    BY <1>0, <1>b, <1>n, <2>1, <2>2, NumberedJoins
  <2>4. w + g + b + 0 = w + g + b
    OBVIOUS
  <2> QED
    BY <1>b, <1>c, <1>n, <2>1, <2>3, <2>4 DEF OutOf, Taken
<1>7. CASE Gets(s)
  <2> PICK ms : ms = Q(s)[1].msgs
    OBVIOUS
  <2>1. /\ ms \in Seq(Msg) /\ Len(ms) \in Nat /\ Numbered(ms, s, Taken(s))
        /\ Taken(s) + Len(ms) + Len(outbox[s]) <= Len(sent[s])
    BY <1>7, GetsNext
  <2>a. PICK l \in Nat : l = Len(ms)
    BY <2>1
  <2>b. PICK n \in Nat : n = w + g
    OBVIOUS
  <2>2. /\ UNCHANGED <<outbox[s], sent[s], written[s]>>
        /\ \/ sending[s] = <<>> /\ sending'[s] = toBeSent[s] \o ms /\ toBeSent'[s] = <<>>
           \/ toBeSent'[s] = toBeSent[s] \o ms /\ UNCHANGED sending[s]
    BY <1>7 DEF Gets
  <2>3. Numbered(ms, s, n + Len(toBeSent[s])) /\ n + b + l + o <= c
    BY <1>n, <2>1, <2>a, <2>b DEF Taken
  <2>4. Numbered(toBeSent[s] \o ms, s, n) /\ Len(toBeSent[s] \o ms) = b + l
    <3>1. Numbered(toBeSent[s], s, n)
      BY <1>b, <2>b
    <3> QED
      BY <1>0, <1>n, <2>1, <2>3, <2>a, <3>1, NumberedJoins
  <2>5. n + (b + l) <= c
    BY <2>3
  <2>6. CASE sending[s] = <<>> /\ sending'[s] = toBeSent[s] \o ms /\ toBeSent'[s] = <<>>
    <3>1. g = 0
      BY <1>c, <1>n, <2>6
    <3>2. n = w /\ w + (b + l) + 0 <= c
      BY <2>5, <2>b, <3>1
    <3> QED
      BY <1>b, <1>c, <1>n, <2>2, <2>4, <2>6, <3>2 DEF OutOf, Taken
  <2>7. CASE toBeSent'[s] = toBeSent[s] \o ms /\ UNCHANGED sending[s]
    <3>1. w + g + (b + l) <= c
      BY <2>5, <2>b
    <3> QED
      BY <1>b, <1>n, <2>2, <2>4, <2>7, <2>b, <3>1 DEF OutOf, Taken
  <2> QED
    BY <2>2, <2>6, <2>7
<1> QED
  BY <1>1, <1>2, <1>3, <1>4, <1>5, <1>6, <1>7, LocalStep

\* Only a list from its handler adds to what a session has taken over.
LEMMA TakenLocal ==
    ASSUME TypeOK, HalvesInv, FlowInv, [Next]_vars, NEW s \in Sessions
    PROVE  /\ Taken(s) \in Nat
           /\ Taken(s)' = IF Gets(s) THEN Taken(s) + Load(Q(s)[1], s) ELSE Taken(s)
<1>0. written[s] \in Seq(Msg) /\ sending[s] \in Seq(Msg) /\ toBeSent[s] \in Seq(Msg)
  BY DEF TypeOK, IoTypes, SeenTypes
<1>n. PICK w \in Nat, g \in Nat, b \in Nat :
        w = Len(written[s]) /\ g = Len(sending[s]) /\ b = Len(toBeSent[s])
  BY <1>0, LenProperties
<1>t. Taken(s) = w + g + b
  BY <1>n DEF Taken
<1>c. Len(<<>>) = 0
  OBVIOUS
<1> SUFFICES Taken(s)' = IF Gets(s) THEN Taken(s) + Load(Q(s)[1], s) ELSE Taken(s)
  BY <1>t
<1>a. SameOut(s) => Taken(s)' = Taken(s)
  BY DEF SameOut, Taken
<1>1. CASE Gets(s)
  <2> PICK ms : ms = Q(s)[1].msgs
    OBVIOUS
  <2>1. ms \in Seq(Msg) /\ Len(ms) \in Nat /\ Load(Q(s)[1], s) = Len(ms)
    BY <1>1, GetsNext
  <2>a. PICK l \in Nat : l = Len(ms)
    BY <2>1
  <2>2. /\ UNCHANGED written[s]
        /\ \/ sending[s] = <<>> /\ sending'[s] = toBeSent[s] \o ms /\ toBeSent'[s] = <<>>
           \/ toBeSent'[s] = toBeSent[s] \o ms /\ UNCHANGED sending[s]
    BY <1>1 DEF Gets
  <2>3. Len(toBeSent[s] \o ms) = b + l
    BY <1>0, <1>n, <2>1, <2>a, ConcatProperties
  <2>4. Taken(s)' = (w + g + b) + l
    <3>1. CASE sending[s] = <<>> /\ sending'[s] = toBeSent[s] \o ms /\ toBeSent'[s] = <<>>
      <4>1. g = 0
        BY <1>c, <1>n, <3>1
      <4>2. w + (b + l) + 0 = (w + g + b) + l
        BY <4>1
      <4> QED
        BY <1>c, <1>n, <2>2, <2>3, <3>1, <4>2 DEF Taken
    <3>2. CASE toBeSent'[s] = toBeSent[s] \o ms /\ UNCHANGED sending[s]
      <4>1. w + g + (b + l) = (w + g + b) + l
        OBVIOUS
      <4> QED
        BY <1>n, <2>2, <2>3, <3>2, <4>1 DEF Taken
    <3> QED
      BY <2>2, <3>1, <3>2
  <2> QED
    BY <1>1, <1>t, <2>1, <2>4, <2>a
<1>2. CASE ~Gets(s)
  <2>0. SUFFICES Taken(s)' = Taken(s)
    BY <1>2
  <2>1. CASE Idles(s) \/ Accepts(s) \/ Refuses(s) \/ Sends(s) \/ Closes(s) \/ Packs(s) \/ Hears(s)
    BY <2>1, <1>a DEF Idles, Accepts, Refuses, Sends, Closes, Packs, Hears
  <2>2. CASE Leaves(s) \/ Starts(s) \/ HandsOver(s) \/ ReadsNoMore(s) \/ Reads(s) \/ WritesNoMore(s)
    BY <2>2, <1>a DEF Leaves, Starts, HandsOver, ReadsNoMore, Reads, WritesNoMore
  <2>3. CASE Shuts(s) \/ Completes(s) \/ LosesPeer(s)
    BY <2>3, <1>a DEF Shuts, Completes, LosesPeer
  <2>4. CASE Writes(s)
    <3>1. /\ written'[s] = written[s] \o sending[s] /\ sending'[s] = toBeSent[s]
          /\ toBeSent'[s] = <<>>
      BY <2>4 DEF Writes
    <3>2. Len(written'[s]) = w + g
      BY <1>0, <1>n, <3>1, ConcatProperties
    <3>3. (w + g) + b + 0 = w + g + b
      OBVIOUS
    <3> QED
      BY <1>c, <1>n, <1>t, <3>1, <3>2, <3>3 DEF Taken
  <2> QED
    BY <1>2, <2>1, <2>2, <2>3, <2>4, LocalStep
<1> QED
  BY <1>1, <1>2

\* A close task that reaches its session comes after what was sent before Close.
LEMMA ShutsAfter ==
    ASSUME TypeOK, FlowInv, NEW s \in Sessions, Shuts(s)
    PROVE  closeCalls[s] > 0 /\ Taken(s) >= owed[s]
<1>1. /\ 1 \in 1 .. Len(Q(s)) /\ Q(s)[1].op = "close" /\ Q(s)[1].id = handlerId[s]
      /\ handlerId[s] # Invalid /\ queue[ThreadOf[s]][handlerId[s]] = s /\ ~closed[s]
  BY DEF Shuts
<1>2. 1 \in CloseMarks(s)
  BY <1>1 DEF CloseMarks, Homed
<1>3. Len(sent[s]) \in Nat /\ Len(outbox[s]) \in Nat /\ owed[s] \in Nat /\ Len(Q(s)) \in Nat
  BY SessionAssumption, LenProperties DEF TypeOK, TaskTypes, MainTypes, SeenTypes, Q
<1>4. FlowOutOf(s)
  BY DEF FlowInv, FlowOut
<1>5. /\ Chain(s, Q(s), Taken(s), Len(sent[s]) - Len(outbox[s]), CloseMarks(s), owed[s])
      /\ closeCalls[s] > 0
  BY <1>1, <1>2, <1>4 DEF FlowOutOf
<1>6. Taken(s) >= owed[s]
  BY <1>1, <1>2, <1>3, <1>5, ChainFirst
<1> QED
  BY <1>5, <1>6

\* Every step keeps what was sent before a Close ahead of the closing.
LEMMA OwedKeeps ==
    ASSUME TypeOK, HalvesInv, FlowInv, [Next]_vars PROVE OwedInv'
<1> SUFFICES ASSUME NEW s \in Sessions PROVE OwedOf(s)'
  BY DEF OwedInv
<1>0. /\ owed[s] \in Nat /\ closeCalls[s] \in Nat /\ sent[s] \in Seq(Msg)
      /\ closed[s] \in BOOLEAN /\ Len(sent[s]) \in Nat
      /\ OwedOf(s) /\ LifeOf(s)
  BY LenProperties DEF FlowInv, OwedInv, HalvesInv, LifeInv, TypeOK, MainTypes, IoTypes, SeenTypes
<1> PICK n : n = Taken(s)
  OBVIOUS
<1> PICK m : m = Taken(s)'
  OBVIOUS
<1>m. n \in Nat /\ m \in Nat /\ m >= n
  <2>1. Gets(s) => Load(Q(s)[1], s) \in Nat
    BY GetsNext
  <2> QED
    BY <2>1, TakenLocal
<1>o. owed[s] <= Len(sent[s]) /\ (closed[s] /\ peer[s] = "up" => closeCalls[s] > 0 /\ n >= owed[s])
  BY <1>0 DEF OwedOf
<1> SUFFICES /\ owed'[s] <= Len(sent'[s])
             /\ closed'[s] /\ peer'[s] = "up" => closeCalls'[s] > 0 /\ m >= owed'[s]
  BY DEF OwedOf
<1> USE DEF SameHandler, SameSession
<1>a. ASSUME UNCHANGED <<owed[s], sent[s], closed[s], peer[s]>>,
             closeCalls'[s] = closeCalls[s] \/ closeCalls'[s] = closeCalls[s] + 1
      PROVE  /\ owed'[s] <= Len(sent'[s])
             /\ closed'[s] /\ peer'[s] = "up" => closeCalls'[s] > 0 /\ m >= owed'[s]
  BY <1>0, <1>a, <1>m, <1>o
<1>1. CASE Idles(s) \/ Refuses(s) \/ Hears(s) \/ Leaves(s) \/ Starts(s) \/ HandsOver(s)
  BY <1>1, <1>a DEF Idles, Refuses, Hears, Leaves, Starts, HandsOver
<1>2. CASE Reads(s) \/ Writes(s) \/ Gets(s) \/ Completes(s)
  BY <1>2, <1>a DEF Reads, Writes, Gets, Completes
<1>3. CASE Closes(s) \/ Packs(s)
  BY <1>3, <1>a DEF Closes, Packs
<1>4. CASE Accepts(s)
  <2>1. owed'[s] = 1 /\ sent'[s] = << <<s, 1>> >> /\ closed'[s] = closed[s] /\ id[s] = Invalid
    BY <1>4 DEF Accepts
  <2>2. Len(sent'[s]) = 1 /\ ~closed'[s]
    BY <1>0, <2>1 DEF LifeOf, Untouched
  <2> QED
    BY <2>1, <2>2
<1>5. CASE Sends(s)
  <2>1. /\ sent'[s] = Append(sent[s], <<s, Len(sent[s]) + 1>>)
        /\ closeCalls'[s] = closeCalls[s] /\ closed'[s] = closed[s] /\ peer'[s] = peer[s]
        /\ closeCalls[s] > 0 => owed'[s] = owed[s]
        /\ closeCalls[s] = 0 => owed'[s] = owed[s] + 1
    BY <1>5 DEF Sends
  <2>2. Len(sent'[s]) = Len(sent[s]) + 1
    BY <2>1
  <2>3. CASE closeCalls[s] = 0
    BY <1>0, <1>o, <2>1, <2>2, <2>3
  <2>4. CASE closeCalls[s] > 0
    BY <1>0, <1>m, <1>o, <2>1, <2>2, <2>4
  <2> QED
    BY <1>0, <2>3, <2>4
<1>6. CASE Shuts(s)
  <2>1. closeCalls[s] > 0 /\ n >= owed[s]
    BY <1>6, ShutsAfter
  <2>2. UNCHANGED <<owed[s], sent[s], closeCalls[s]>>
    BY <1>6 DEF Shuts
  <2> QED
    BY <1>0, <1>m, <1>o, <2>1, <2>2
<1>7. CASE ReadsNoMore(s) \/ WritesNoMore(s) \/ LosesPeer(s)
  <2>1. /\ UNCHANGED <<owed[s], sent[s], closeCalls[s]>>
        /\ peer'[s] = "gone" \/ (peer'[s] = peer[s] /\ (closed[s] \/ peer[s] = "gone"))
    BY <1>7 DEF ReadsNoMore, WritesNoMore, LosesPeer
  <2> QED
    BY <1>0, <1>m, <1>o, <2>1
<1> QED
  BY <1>1, <1>2, <1>3, <1>4, <1>5, <1>6, <1>7, LocalStep

\* The calls of Close that will reach s would have reached it before, or were just made.
LEMMA MarksBack ==
    ASSUME TypeOK, HalvesInv, FlowInv, [Next]_vars, NEW s \in Sessions,
           NEW t, t = ThreadOf[s], NEW d, NEW N, IoStepOf(t, d, N),
           handlerId[s] # Invalid, handlerId'[s] = handlerId[s],
           NEW k, k \in CloseMarks(s)'
    PROVE  /\ k \in 1 .. Len(ioQ'[t]) /\ ioQ'[t][k].op = "close"
           /\ \/ k + d \in 1 .. Len(ioQ[t]) /\ k + d \in CloseMarks(s)
              \/ k + d > Len(ioQ[t]) /\ Close(s)
<1>1. /\ k \in 1 .. Len(ioQ'[t]) /\ ioQ'[t][k].op = "close"
      /\ ioQ'[t][k].id = handlerId[s] /\ Homed(s, k)'
  BY DEF CloseMarks, Q
<1>2. \/ k + d \in 1 .. Len(ioQ[t]) /\ ioQ'[t][k] = ioQ[t][k + d]
      \/ k + d > Len(ioQ[t]) /\ PostedTo(t, ioQ'[t][k])
  BY <1>1 DEF IoStepOf, Slid
<1>3. Homed(s, k + d)
  BY <1>1, HomedBack
<1>4. ASSUME PostedTo(t, ioQ'[t][k]) PROVE Close(s)
  <2>1. PICK r \in Sessions : Close(r) /\ ioQ'[t][k] = CloseSession(handlerId[r])
    BY <1>1, <1>4, Posts
  <2>2. handlerId[r] = handlerId[s]
    BY <1>1, <2>1 DEF CloseSession
  <2>3. r = s
    BY <2>1, <2>2 DEF HalvesInv, MapInv
  <2> QED
    BY <2>1, <2>3
<1>5. ASSUME k + d \in 1 .. Len(ioQ[t]), ioQ'[t][k] = ioQ[t][k + d]
      PROVE  k + d \in CloseMarks(s)
  BY <1>1, <1>3, <1>5 DEF CloseMarks, Q
<1> QED
  BY <1>1, <1>2, <1>4, <1>5

\* What the steps of an open connection do to the counts of its handler.
LEMMA CallsLocal ==
    ASSUME TypeOK, HalvesInv, FlowInv, [Next]_vars, NEW s \in Sessions,
           handlerId[s] # Invalid
    PROVE  /\ closeCalls'[s] >= closeCalls[s] /\ closeCalls[s] \in Nat
           /\ closeCalls'[s] \in Nat /\ (Close(s) => closeCalls'[s] > 0)
           /\ owed'[s] = owed[s] \/ closeCalls[s] = 0
           /\ \/ UNCHANGED <<outbox[s], sent[s]>>
              \/ Close(s)
              \/ RunPackOut /\ s = Head(mainQ).s
              \/ Sends(s)
<1>0. closeCalls[s] \in Nat /\ closeCalls \in [Sessions -> Nat]
  BY DEF TypeOK, SeenTypes
<1>a. Close(s) => closeCalls'[s] = closeCalls[s] + 1
  BY <1>0 DEF Close
<1>b. \/ UNCHANGED <<closeCalls[s], owed[s], outbox[s], sent[s]>>
      \/ Closes(s) \/ Packs(s) \/ Sends(s)
  BY LocalStep DEF Idles, Accepts, Refuses, Hears, Leaves, Starts, HandsOver, ReadsNoMore,
       Reads, WritesNoMore, Writes, Gets, Shuts, Completes, LosesPeer, SameHandler
<1>1. CASE UNCHANGED <<closeCalls[s], owed[s], outbox[s], sent[s]>>
  BY <1>0, <1>1, <1>a
<1>2. CASE Closes(s) \/ Packs(s)
  BY <1>0, <1>2, <1>a DEF Closes, Packs
<1>3. CASE Sends(s)
  <2>1. /\ closeCalls'[s] = closeCalls[s]
        /\ closeCalls[s] > 0 => owed'[s] = owed[s]
    BY <1>3 DEF Sends
  <2> QED
    BY <1>0, <1>3, <1>a, <2>1
<1> QED
  BY <1>b, <1>1, <1>2, <1>3

\* Fewer marks.
LEMMA ChainMarks ==
    ASSUME NEW s, NEW q, NEW lo, NEW hi, NEW M, NEW m \in Nat, Chain(s, q, lo, hi, M, m),
           Len(q) \in Nat, NEW L, NEW n \in Nat,
           \A k \in 1 .. Len(q) : k \in L => k \in M /\ n <= m
    PROVE  Chain(s, q, lo, hi, L, n)
<1>1. PICK at : ChainBy(at, s, q, lo, hi, M, m)
  BY DEF Chain
<1>2. ASSUME NEW k \in 1 .. Len(q), k \in L PROVE at[k] >= n
  <2>1. at[k] >= m /\ n <= m /\ at[k] \in Nat
    BY <1>1, <1>2 DEF ChainBy
  <2> QED
    BY <2>1
<1>3. ChainBy(at, s, q, lo, hi, L, n)
  BY <1>1, <1>2 DEF ChainBy
<1> QED
  BY <1>3 DEF Chain

\* Close and PackMessageList post what was sent, and Close then the close task.
LEMMA FlowOutPosts ==
    ASSUME TypeOK, HalvesInv, FlowInv, [Next]_vars, NEW s \in Sessions,
           handlerId[s] # Invalid, ~closed[s],
           Close(s) \/ (RunPackOut /\ s = Head(mainQ).s)
    PROVE  Chain(s, Q(s)', Taken(s)', Len(sent'[s]) - Len(outbox'[s]), CloseMarks(s)',
                 owed'[s])
<1> PICK t \in Threads : t = ThreadOf[s]
  BY SessionAssumption
<1> PICK q : q = ioQ[t]
  OBVIOUS
<1> PICK lo : lo = Taken(s)
  OBVIOUS
<1> PICK M : M = CloseMarks(s)
  OBVIOUS
<1> PICK L : L = CloseMarks(s)'
  OBVIOUS
<1>0. /\ q \in Seq(IoTasks) /\ Len(q) \in Nat /\ outbox[s] \in Seq(Msg)
      /\ sent[s] \in Seq(Msg) /\ owed[s] \in Nat
      /\ OutOf(s) /\ OwedOf(s) /\ FlowOutOf(s) /\ Q(s) = q
      /\ Len(outbox[s]) \in Nat /\ Len(sent[s]) \in Nat
  BY LenProperties DEF TypeOK, TaskTypes, MainTypes, SeenTypes, FlowInv, OutInv, OwedInv, FlowOut, Q
<1>n. PICK o \in Nat, c \in Nat, m \in Nat :
        o = Len(outbox[s]) /\ c = Len(sent[s]) /\ m = owed[s]
  BY <1>0
<1>b. o <= c /\ m <= c /\ Numbered(outbox[s], s, c - o)
  BY <1>0, <1>n DEF OutOf, OwedOf
<1>h. PICK h \in Nat : h = c - o
  <2>1. c - o \in Nat
    BY <1>b
  <2> QED
    BY <2>1
<1>s. h + o = c /\ (o = 0 => h = c)
  BY <1>h
<1>1. Chain(s, q, lo, h, M, m)
  BY <1>0, <1>h, <1>n DEF FlowOutOf
<1>2. /\ outbox'[s] = <<>> /\ sent'[s] = sent[s] /\ owed'[s] = owed[s]
      /\ handlerId'[s] = handlerId[s] /\ Taken(s)' = lo
  <2>1. /\ UNCHANGED <<sent, owed, handlerId, written, sending, toBeSent>>
        /\ outbox' = [outbox EXCEPT ![s] = <<>>]
    BY DEF Close, RunPackOut, ioVars, seen
  <2>2. outbox \in [Sessions -> Seq(Msg)]
    BY DEF TypeOK, MainTypes
  <2> QED
    BY <2>1, <2>2 DEF Taken
<1>3. PICK N : IoStepOf(t, 0, N)
  <2>1. CASE Close(s)
    <3>1. IoSlides(ThreadOf[s], 0, PackedTasks(s) \cup {CloseSession(handlerId[s])})
      BY <2>1, CloseDoes
    <3>2. \A e \in PackedTasks(s) \cup {CloseSession(handlerId[s])} : PostedTo(t, e)
      BY <2>1 DEF PostedTo
    <3> QED
      BY <3>1, <3>2 DEF IoStepOf, IoSlides
  <2>2. CASE RunPackOut /\ s = Head(mainQ).s
    <3>1. IoSlides(ThreadOf[s], 0, PackedTasks(s))
      BY <2>2, PackOutDoes
    <3>2. \A e \in PackedTasks(s) : PostedTo(t, e)
      BY <2>2 DEF PostedTo
    <3> QED
      BY <3>1, <3>2 DEF IoStepOf, IoSlides
  <2> QED
    BY <2>1, <2>2
<1>4. ASSUME NEW k \in L
      PROVE  ioQ'[t][k].op = "close" /\ (k \in 1 .. Len(q) => k \in M)
  <2>1. /\ k \in 1 .. Len(ioQ'[t]) /\ ioQ'[t][k].op = "close"
        /\ \/ k + 0 \in 1 .. Len(ioQ[t]) /\ k + 0 \in CloseMarks(s)
           \/ k + 0 > Len(ioQ[t])
    BY <1>2, <1>3, MarksBack
  <2>2. k + 0 = k
    BY <2>1
  <2> QED
    BY <1>0, <2>1, <2>2
<1> PICK e : e = ToSession(handlerId[s], outbox[s])
  OBVIOUS
<1> PICK f : f = CloseSession(handlerId[s])
  OBVIOUS
<1>5. outbox[s] # <<>> => /\ e.op = "to_session" /\ Carries(e, s) /\ Load(e, s) = o
                          /\ Numbered(e.msgs, s, h)
  <2>1. e.msgs = outbox[s] /\ e.op = "to_session"
    BY DEF ToSession
  <2>2. outbox[s] # <<>> => outbox[s][1][1] = s
    BY <1>0, <1>b, <1>h, NumberedStart
  <2> QED
    BY <1>b, <1>h, <1>n, <2>1, <2>2 DEF Carries, Load
<1>6. f.op = "close" /\ ~Carries(f, s) /\ Load(f, s) = 0
  BY DEF CloseSession, Carries, Load
<1>7. ASSUME outbox[s] # <<>>, e \in IoTasks, NEW K,
             \A k \in 1 .. Len(q) : k \in K => k \in M, Len(q) + 1 \notin K
      PROVE  Chain(s, Append(q, e), lo, c, K, m)
  <2>1. Load(e, s) \in Nat /\ (Carries(e, s) => Numbered(e.msgs, s, h))
    BY <1>5, <1>7
  <2>2. Chain(s, Append(q, e), lo, h + Load(e, s), K, m)
    BY <1>0, <1>1, <1>7, <2>1, ChainPosts
  <2>3. h + Load(e, s) = c
    BY <1>5, <1>7, <1>s
  <2> QED
    BY <2>2, <2>3
<1>8. Chain(s, ioQ'[t], lo, c, L, m)
  <2>1. CASE Close(s)
    <3>1. /\ f \in IoTasks /\ (outbox[s] # <<>> => e \in IoTasks)
          /\ outbox[s] = <<>> => ioQ'[t] = Append(q, f)
          /\ outbox[s] # <<>> => ioQ'[t] = Append(Append(q, e), f)
      BY <2>1, CloseDoes DEF Q
    <3>2. c >= m /\ Load(f, s) \in Nat /\ c + Load(f, s) = c
      BY <1>6, <1>b
    <3>3. CASE outbox[s] = <<>>
      <4>1. o = 0
        BY <1>n, <3>3
      <4>2. Chain(s, q, lo, c, M, m)
        BY <1>1, <1>s, <4>1
      <4>3. Chain(s, Append(q, f), lo, c + Load(f, s), L, m)
        BY <1>0, <1>4, <1>6, <3>1, <3>2, <4>2, ChainPosts
      <4> QED
        BY <3>1, <3>2, <3>3, <4>3
    <3>4. CASE outbox[s] # <<>>
      <4> PICK r : r = Append(q, e)
        OBVIOUS
      <4>1. /\ r \in Seq(IoTasks) /\ Len(r) = Len(q) + 1 /\ r[Len(q) + 1] = e
        BY <1>0, <3>1, <3>4, AppendProperties
      <4>2. Chain(s, r, lo, c, M, m)
        <5>1. Len(q) + 1 \notin M
          BY <1>0 DEF CloseMarks
        <5> QED
          BY <1>7, <3>1, <3>4, <5>1
      <4>3. ASSUME NEW k \in 1 .. Len(r), k \in L PROVE k \in M
        <5>1. ioQ'[t][k] = r[k]
          BY <3>1, <3>4, <4>1, AppendProperties
        <5>2. k # Len(q) + 1
          BY <1>4, <1>5, <3>4, <4>1, <4>3, <5>1
        <5>3. k \in 1 .. Len(q)
          BY <1>0, <4>1, <5>2
        <5> QED
          BY <1>4, <4>3, <5>3
      <4>4. Chain(s, Append(r, f), lo, c + Load(f, s), L, m)
        BY <1>6, <3>1, <3>2, <4>1, <4>2, <4>3, ChainPosts
      <4> QED
        BY <3>1, <3>2, <3>4, <4>4
    <3> QED
      BY <3>3, <3>4
  <2>2. CASE RunPackOut /\ s = Head(mainQ).s
    <3>1. /\ outbox[s] # <<>> => e \in IoTasks
          /\ outbox[s] = <<>> => ioQ'[t] = q
          /\ outbox[s] # <<>> => ioQ'[t] = Append(q, e)
      BY <2>2, PackOutDoes DEF Q
    <3>2. CASE outbox[s] = <<>>
      <4>1. o = 0
        BY <1>n, <3>2
      <4>2. Chain(s, q, lo, c, M, m)
        BY <1>1, <1>s, <4>1
      <4>3. Chain(s, q, lo, c, L, m)
        BY <1>0, <1>4, <4>2, ChainMarks
      <4> QED
        BY <3>1, <3>2, <4>3
    <3>3. CASE outbox[s] # <<>>
      <4>1. Append(q, e)[Len(q) + 1] = e
        BY <1>0, <3>1, <3>3, AppendProperties
      <4>2. Len(q) + 1 \notin L
        BY <1>4, <1>5, <3>1, <3>3, <4>1
      <4>3. Chain(s, Append(q, e), lo, c, L, m)
        BY <1>4, <1>7, <3>1, <3>3, <4>2
      <4> QED
        BY <3>1, <3>3, <4>3
    <3> QED
      BY <3>2, <3>3
  <2> QED
    BY <2>1, <2>2
<1>9. Len(sent'[s]) - Len(outbox'[s]) = c /\ owed'[s] = m /\ Q(s)' = ioQ'[t]
  BY <1>2, <1>n DEF Q
<1> QED
  BY <1>2, <1>8, <1>9

\* A list of s that its thread takes off the queue is given to s.
LEMMA HeadCarried ==
    ASSUME TypeOK, HalvesInv, FlowInv, NEW s \in Sessions, handlerId[s] # Invalid,
           ~closed[s], NEW t, t = ThreadOf[s], 1 \in 1 .. Len(ioQ[t]),
           TakenOff(t, ioQ[t][1]), Carries(ioQ[t][1], s)
    PROVE  Gets(s)
<1>0. /\ t \in Threads /\ Len(ioQ[t]) \in Nat /\ Q(s) = ioQ[t] /\ handlerId[s] \in Ids
      /\ ioQ[t][1] \in IoTasks
  BY SessionAssumption, LenProperties, ElementOfSeq
     DEF TypeOK, TaskTypes, MainTypes, Q
<1>1. ioQ[t][1].op = "to_session" /\ ioQ[t][1].msgs[1][1] = s /\ RunToSession(t)
  BY <1>0, TaskFields DEF Carries, TakenOff
<1>2. DestOf(s) /\ OpenOf(s)
  BY DEF FlowInv, DestInv, HalvesInv, OpenInv
<1>3. /\ ioQ[t][1].id = handlerId[s]
      /\ \A j \in 1 .. Len(ioQ[t]) : InitAt(s, j) => j < 1
  BY <1>0, <1>1, <1>2 DEF DestOf
<1>4. queue[t][handlerId[s]] = s
  <2>1. ~\E j \in 1 .. Len(ioQ[t]) : InitAt(s, j)
    BY <1>0, <1>3
  <2> QED
    BY <1>0, <1>2, <2>1 DEF OpenOf
<1>5. SessionAt(t, ioQ[t][1].id) = s
  BY <1>3, <1>4 DEF SessionAt
<1> QED
  BY <1>1, <1>5, GivenGets

\* A step by which the handler of s posts nothing.
LEMMA FlowOutSlides ==
    ASSUME TypeOK, HalvesInv, FlowInv, [Next]_vars, NEW s \in Sessions,
           handlerId[s] # Invalid, handlerId'[s] = handlerId[s], ~closed[s],
           ~Close(s), ~(RunPackOut /\ s = Head(mainQ).s)
    PROVE  Chain(s, Q(s)', Taken(s)', Len(sent'[s]) - Len(outbox'[s]), CloseMarks(s)',
                 owed'[s])
<1> PICK t \in Threads : t = ThreadOf[s]
  BY SessionAssumption
<1> PICK q : q = ioQ[t]
  OBVIOUS
<1> PICK r : r = ioQ'[t]
  OBVIOUS
<1> PICK M : M = CloseMarks(s)
  OBVIOUS
<1> PICK L : L = CloseMarks(s)'
  OBVIOUS
<1>0. /\ q \in Seq(IoTasks) /\ Len(q) \in Nat /\ r \in Seq(IoTasks) /\ Len(r) \in Nat
      /\ outbox[s] \in Seq(Msg) /\ sent[s] \in Seq(Msg) /\ owed[s] \in Nat
      /\ owed'[s] \in Nat /\ FlowOutOf(s) /\ OutOf(s) /\ Q(s) = q /\ Q(s)' = r
      /\ Len(outbox[s]) \in Nat /\ Len(sent[s]) \in Nat
  <2>1. TypeOK'
    BY TypeStep
  <2> QED
    BY <2>1, LenProperties DEF TypeOK, TaskTypes, MainTypes, SeenTypes, FlowInv, FlowOut,
         OutInv, Q
<1>n. PICK o \in Nat, c \in Nat, m \in Nat, n \in Nat :
        o = Len(outbox[s]) /\ c = Len(sent[s]) /\ m = owed[s] /\ n = owed'[s]
  BY <1>0
<1>h. PICK h \in Nat : h = c - o
  <2>1. o <= c
    BY <1>0, <1>n DEF OutOf
  <2>2. c - o \in Nat
    BY <2>1
  <2> QED
    BY <2>2
<1>1. /\ Chain(s, q, Taken(s), h, M, m)
      /\ M # {} => closeCalls[s] > 0
  BY <1>0, <1>h, <1>n DEF FlowOutOf
<1>2. M # {} => n <= m
  <2>1. closeCalls[s] > 0 => n = m
    BY <1>n, CallsLocal
  <2> QED
    BY <1>1, <2>1
<1>3. Len(sent'[s]) - Len(outbox'[s]) = h
  <2>1. UNCHANGED <<outbox[s], sent[s]>> \/ Sends(s)
    BY CallsLocal
  <2>2. CASE UNCHANGED <<outbox[s], sent[s]>>
    BY <1>h, <1>n, <2>2
  <2>3. CASE Sends(s)
    <3>1. /\ outbox'[s] = Append(outbox[s], <<s, Len(sent[s]) + 1>>)
          /\ sent'[s] = Append(sent[s], <<s, Len(sent[s]) + 1>>)
      BY <2>3 DEF Sends
    <3>2. Len(outbox'[s]) = o + 1 /\ Len(sent'[s]) = c + 1
      BY <1>n, <3>1
    <3>3. (c + 1) - (o + 1) = h
      BY <1>h
    <3> QED
      BY <3>2, <3>3
  <2> QED
    BY <2>1, <2>2, <2>3
\* The queue loses its head only to s, or nothing of s.
<1>4. PICK d, N : /\ IoStepOf(t, d, N)
                  /\ Taken(s)' = IF d = 1 THEN Taken(s) + Load(q[1], s) ELSE Taken(s)
  <2>1. CASE Gets(s)
    <3>1. RunToSession(t) /\ q[1].op = "to_session"
      BY <1>0, <2>1 DEF Gets
    <3>2. IoSlides(t, 1, {}) /\ 1 \in 1 .. Len(q)
      BY <3>1, ToSessionDoes
    <3>3. IoStepOf(t, 1, {})
      BY <3>1, <3>2 DEF IoStepOf, IoSlides, TakenOff
    <3>4. Taken(s)' = Taken(s) + Load(q[1], s)
      BY <1>0, <2>1, TakenLocal
    <3> QED
      BY <3>3, <3>4
  <2>2. CASE ~Gets(s)
    <3>1. PICK d, N : IoStepOf(t, d, N)
      BY IoStep
    <3>2. d \in {0, 1} /\ (d = 1 => 1 \in 1 .. Len(q) /\ TakenOff(t, q[1]))
      BY <3>1 DEF IoStepOf
    <3>3. d = 1 => ~Carries(q[1], s)
      BY <2>2, <3>2, HeadCarried
    <3>4. d = 1 => Load(q[1], s) = 0
      BY <3>3 DEF Load
    <3>5. Taken(s)' = Taken(s) /\ Taken(s) \in Nat
      BY <2>2, TakenLocal
    <3> QED
      BY <3>1, <3>4, <3>5
  <2> QED
    BY <2>1, <2>2
<1>5. /\ Slid(q, r, d, N) /\ d \in {0, 1} /\ (d = 1 => 1 \in 1 .. Len(q))
      /\ \A k \in 1 .. Len(r) : k + d > Len(q) => PostedTo(t, r[k])
  <2>1. /\ Slid(ioQ[t], ioQ'[t], d, N) /\ d \in {0, 1} /\ \A e \in N : PostedTo(t, e)
        /\ d = 1 => 1 \in 1 .. Len(ioQ[t])
    BY <1>4 DEF IoStepOf
  <2>2. \A k \in 1 .. Len(r) : k + d > Len(q) => k + d \notin 1 .. Len(q)
    BY <1>0
  <2> QED
    BY <2>1, <2>2 DEF Slid
<1>6. ASSUME NEW k \in 1 .. Len(r), k + d > Len(q) PROVE ~Carries(r[k], s)
  <2> SUFFICES ASSUME Carries(r[k], s) PROVE FALSE
    OBVIOUS
  <2> PICK e : e = r[k]
    OBVIOUS
  <2>1. PostedTo(t, e) /\ e \in IoTasks
    BY <1>0, <1>5, <1>6, ElementOfSeq
  <2>2. e.op = "to_session" /\ e.msgs[1][1] = s
    BY <2>1, TaskFields DEF Carries
  <2> QED
    BY <2>1, <2>2, PostsMessages
<1>7. ASSUME NEW k \in 1 .. Len(r), k \in L
      PROVE  k + d \in 1 .. Len(q) /\ k + d \in M /\ n <= m
  <2>1. k + d \in 1 .. Len(q) /\ k + d \in M
    BY <1>4, <1>7, MarksBack
  <2> QED
    BY <1>2, <2>1
<1>8. Chain(s, r, Taken(s)', h, L, n)
  <2>1. /\ \A k \in 1 .. Len(r) : k \in L /\ k + d \in 1 .. Len(q) => k + d \in M /\ n <= m
        /\ \A k \in 1 .. Len(r) : k \in L /\ k + d > Len(q) => h >= n
    <3>1. \A k \in 1 .. Len(r) : k \in L => ~(k + d > Len(q))
      <4> SUFFICES ASSUME NEW k \in 1 .. Len(r), k \in L PROVE ~(k + d > Len(q))
        OBVIOUS
      <4>1. k + d \in 1 .. Len(q) /\ Len(q) \in Nat
        BY <1>0, <1>7
      <4> QED
        BY <4>1
    <3> QED
      BY <1>7, <3>1
  <2>2. Len(q) \in Nat /\ Len(r) \in Nat
    BY <1>0
  <2>3. \A k \in 1 .. Len(r) : k + d > Len(q) => ~Carries(r[k], s)
    BY <1>6
  <2>4. Slid(q, r, d, N) /\ d \in {0, 1} /\ (d = 1 => 1 \in 1 .. Len(q))
    BY <1>5
  <2>5. Follows(s, q, r, d, Taken(s), Taken(s)', h, M, m, L, n)
    BY <1>4, <2>1, <2>3, <2>4 DEF Follows
  <2> QED
    BY <1>1, <2>2, <2>4, <2>5, ChainSlides
<1> QED
  BY <1>0, <1>3, <1>4, <1>8, <1>n

\* A connection that was just accepted: nothing is on its way yet.
LEMMA FlowOutStarts ==
    ASSUME TypeOK, HalvesInv, FlowInv, NEW s \in Sessions, Accepts(s)
    PROVE  /\ Chain(s, Q(s)', Taken(s)', Len(sent'[s]) - Len(outbox'[s]), CloseMarks(s)',
                    owed'[s])
           /\ CloseMarks(s)' = {}
<1> PICK t \in Threads : t = ThreadOf[s]
  BY SessionAssumption
<1>1. /\ ioQ'[t] = Append(ioQ[t], InitSession(s, NextId)) /\ ioQ[t] \in Seq(IoTasks)
      /\ InitSession(s, NextId) \in IoTasks /\ Len(ioQ[t]) \in Nat
      /\ Len(ioQ'[t]) = Len(ioQ[t]) + 1
      /\ \A k \in 1 .. Len(ioQ'[t]) : ~Homed(s, k)'
  BY JustAccepted DEF TypeOK, TaskTypes
<1>2. CloseMarks(s)' = {}
  BY <1>1 DEF CloseMarks, Q
<1>3. /\ outbox'[s] = << <<s, 1>> >> /\ sent'[s] = << <<s, 1>> >> /\ owed'[s] = 1
      /\ written'[s] = <<>> /\ sending'[s] = <<>> /\ toBeSent'[s] = <<>>
  BY DEF Accepts, SameOut, HalvesInv, LifeInv, LifeOf, Untouched
<1>4. Taken(s)' = 0 /\ Len(sent'[s]) - Len(outbox'[s]) = 0
  BY <1>3 DEF Taken
<1>5. ASSUME NEW k \in 1 .. Len(ioQ'[t]) PROVE ~Carries(ioQ'[t][k], s)
  <2>1. CASE k \in 1 .. Len(ioQ[t])
    <3>1. ioQ'[t][k] = ioQ[t][k] /\ ioQ[t][k] \in IoTasks
      BY <1>1, <2>1, AppendProperties, ElementOfSeq
    <3>2. socket[s] = "new" /\ DestOf(s)
      BY DEF Accepts, FlowInv, DestInv
    <3>3. ioQ[t][k].op = "to_session" => ioQ[t][k].msgs[1][1] # s
      BY <2>1, <3>2 DEF DestOf, Q
    <3> QED
      BY <3>1, <3>3, TaskFields DEF Carries
  <2>2. CASE k \notin 1 .. Len(ioQ[t])
    <3>1. ioQ'[t][k] = InitSession(s, NextId)
      BY <1>1, <2>2, AppendProperties
    <3> QED
      BY <3>1 DEF InitSession, Carries
  <2> QED
    BY <2>1, <2>2
<1>6. Chain(s, ioQ'[t], 0, 0, {}, 0)
  <2> PICK n \in Nat : n = 0
    OBVIOUS
  <2> PICK r : r = ioQ'[t]
    OBVIOUS
  <2>1. Len(r) \in Nat /\ n <= n
    BY <1>1
  <2>2. \A k \in 1 .. Len(r) : ~Carries(r[k], s)
    BY <1>5
  <2>3. Chain(s, r, n, n, {}, n)
    BY <2>1, <2>2, ChainEmpty
  <2> QED
    BY <2>3
<1>7. Chain(s, ioQ'[t], 0, 0, {}, 1)
  BY <1>1, <1>6, ChainMarks
<1> QED
  BY <1>2, <1>3, <1>4, <1>7 DEF Q

\* Every step keeps the outgoing messages in one chain from the handler to the session.
LEMMA FlowOutKeeps ==
    ASSUME TypeOK, HalvesInv, FlowInv, [Next]_vars PROVE FlowOut'
<1> SUFFICES ASSUME NEW s \in Sessions, handlerId'[s] # Invalid
             PROVE  /\ ~closed'[s] =>
                         Chain(s, Q(s)', Taken(s)', Len(sent'[s]) - Len(outbox'[s]),
                               CloseMarks(s)', owed'[s])
                    /\ CloseMarks(s)' # {} => closeCalls'[s] > 0
  BY DEF FlowOut, FlowOutOf
<1>1. CASE Accepts(s)
  BY <1>1, FlowOutStarts
<1>2. CASE ~Accepts(s)
  <2>1. handlerId'[s] = handlerId[s] /\ handlerId[s] # Invalid
    BY <1>2, CoreLocal DEF Refuses, Leaves, Starts, SameHandler
  <2>2. ASSUME ~closed'[s]
        PROVE  Chain(s, Q(s)', Taken(s)', Len(sent'[s]) - Len(outbox'[s]), CloseMarks(s)',
                     owed'[s])
    <3>1. ~closed[s]
      BY <2>2, CoreLocal
    <3> QED
      BY <2>1, <3>1, FlowOutPosts, FlowOutSlides
  <2>3. ASSUME NEW k, k \in CloseMarks(s)' PROVE closeCalls'[s] > 0
    <3> PICK t \in Threads : t = ThreadOf[s]
      BY SessionAssumption
    <3>1. PICK d, N : IoStepOf(t, d, N)
      BY IoStep
    <3>2. CloseMarks(s) # {} \/ Close(s)
      BY <2>1, <2>3, <3>1, MarksBack
    <3>3. CloseMarks(s) # {} => closeCalls[s] > 0
      BY <2>1 DEF FlowInv, FlowOut, FlowOutOf
    <3> QED
      BY <2>1, <3>2, <3>3, CallsLocal
  <2> QED
    BY <2>2, <2>3
<1> QED
  BY <1>1, <1>2

\* What a step does to the messages that arrive.
LEMMA InLocal ==
    ASSUME TypeOK, HalvesInv, FlowInv, [Next]_vars, NEW s \in Sessions
    PROVE  /\ \/ UNCHANGED <<received[s], arrived[s]>>
              \/ Reads(s)
              \/ RunPackIn(s)
           /\ Hears(s) \/ UNCHANGED delivered[s]
<1> USE DEF SameIn
<1>1. CASE Idles(s) \/ Accepts(s) \/ Refuses(s) \/ Sends(s) \/ Closes(s) \/ Packs(s) \/ Hears(s)
  BY <1>1 DEF Idles, Accepts, Refuses, Sends, Closes, Packs, Hears
<1>2. CASE Leaves(s) \/ Starts(s) \/ HandsOver(s) \/ ReadsNoMore(s) \/ Reads(s) \/ WritesNoMore(s)
  BY <1>2 DEF Leaves, Starts, HandsOver, ReadsNoMore, Reads, WritesNoMore
<1>3. CASE Shuts(s) \/ Completes(s) \/ LosesPeer(s) \/ Writes(s) \/ Gets(s)
  BY <1>3 DEF Shuts, Completes, LosesPeer, Writes, Gets
<1> QED
  BY <1>1, <1>2, <1>3, LocalStep

\* A list of s that the main thread takes off its queue is given to the handler of s.
LEMMA HeadHeard ==
    ASSUME TypeOK, HalvesInv, FlowInv, NEW s \in Sessions, handlerId[s] # Invalid,
           1 \in 1 .. Len(mainQ), mainQ[1].op = "to_handler" => RunToHandler,
           Carries(mainQ[1], s)
    PROVE  Hears(s)
<1> PICK e : e = mainQ[1]
  OBVIOUS
<1>0. e \in MainTasks /\ delivered \in [Sessions -> Seq(Msg)] /\ s # None
  BY ElementOfSeq, SessionAssumption DEF TypeOK, TaskTypes, SeenTypes
<1>1. e.op = "to_handler" /\ e.msgs[1][1] = s /\ RunToHandler /\ e.msgs \in Lists
  BY <1>0, TaskFields DEF Carries
<1>2. e.s = s /\ handlerMap[id[s]] = s
  BY <1>1 DEF FlowInv, ToHandlerInv
<1>3. delivered' = [delivered EXCEPT ![s] = @ \o e.msgs]
  BY <1>0, <1>1, <1>2, ToHandlerDoes
<1>4. delivered'[s] = delivered[s] \o e.msgs
  BY <1>0, <1>3
<1>5. UNCHANGED <<ioQ, mainVars, ioVars, peer, arrived, sent, written, closeCalls, owed,
                  onClosed>>
  BY <1>1 DEF RunToHandler
<1> QED
  BY <1>1, <1>2, <1>4, <1>5 DEF Hears, SameHandler, SameSession, SameOut, mainVars, ioVars

\* OnSessionClose of an open connection was on its way before, or was just posted.
LEMMA EndMarksBack ==
    ASSUME TypeOK, HalvesInv, FlowInv, NEW s \in Sessions, NEW d, NEW N, MainStepOf(d, N),
           handlerId[s] # Invalid, handlerId'[s] = handlerId[s],
           NEW k, k \in EndMarks(s)'
    PROVE  /\ k \in 1 .. Len(mainQ') /\ mainQ'[k].op = "on_close"
           /\ \/ k + d \in 1 .. Len(mainQ) /\ k + d \in EndMarks(s)
              \/ k + d > Len(mainQ) /\ Ends(s)
<1>1. /\ k \in 1 .. Len(mainQ') /\ mainQ'[k].op = "on_close"
      /\ mainQ'[k].id = handlerId[s]
  BY DEF EndMarks
<1>2. \/ k + d \in 1 .. Len(mainQ) /\ mainQ'[k] = mainQ[k + d]
      \/ k + d > Len(mainQ) /\ PostedToMain(mainQ'[k])
  BY <1>1 DEF MainStepOf, Slid
<1>3. ASSUME PostedToMain(mainQ'[k]) PROVE Ends(s)
  <2>1. PICK r \in Sessions : Ends(r) /\ mainQ'[k] = OnSessionClose(id[r])
    BY <1>1, <1>3 DEF PostedToMain, PackOut, ToHandler
  <2>2. id[r] = handlerId[s] /\ queue[ThreadOf[r]][id[r]] = r /\ id[r] \in Ids
    BY <1>1, <2>1 DEF OnSessionClose, Ends
  <2>3. handlerId[r] = handlerId[s]
    BY <2>2, NamedIs, SessionAssumption
  <2>4. r = s
    BY <2>3 DEF HalvesInv, MapInv
  <2> QED
    BY <2>1, <2>4
<1>4. ASSUME k + d \in 1 .. Len(mainQ), mainQ'[k] = mainQ[k + d]
      PROVE  k + d \in EndMarks(s)
  BY <1>1, <1>4 DEF EndMarks
<1> QED
  BY <1>1, <1>2, <1>3, <1>4

\* A connection that was just accepted: nothing has arrived yet.
LEMMA FlowInStarts ==
    ASSUME TypeOK, HalvesInv, FlowInv, NEW s \in Sessions, Accepts(s)
    PROVE  Chain(s, mainQ', Len(delivered'[s]), arrived'[s] - Len(received'[s]),
                 EndMarks(s)', arrived'[s])
<1>1. /\ mainQ' = Append(mainQ, PackOut(s)) /\ handlerId'[s] = NextId /\ NextId \in Ids
      /\ id[s] = Invalid /\ mainQ \in Seq(MainTasks)
      /\ delivered'[s] = <<>> /\ arrived'[s] = 0 /\ received'[s] = <<>>
  BY DEF Accepts, Accept, Refused, SameIn, HalvesInv, LifeInv, LifeOf, Untouched, TypeOK, TaskTypes
<1>2. handlerMap[NextId] = None
  BY AcceptDoes DEF Accepts, HalvesInv
<1> PICK r : r = mainQ'
  OBVIOUS
<1>3. /\ Len(r) = Len(mainQ) + 1 /\ Len(mainQ) \in Nat /\ r[Len(mainQ) + 1] = PackOut(s)
      /\ \A k \in 1 .. Len(mainQ) : r[k] = mainQ[k] /\ mainQ[k] \in MainTasks
  <2>1. PackOut(s) \in MainTasks
    BY NewTasks
  <2> QED
    BY <1>1, <2>1, AppendProperties, LenProperties, ElementOfSeq
<1>4. ASSUME NEW k \in 1 .. Len(r)
      PROVE  ~Carries(r[k], s) /\ ~(r[k].op = "on_close" /\ r[k].id = NextId)
  <2>1. CASE k \in 1 .. Len(mainQ)
    <3> PICK e : e = mainQ[k]
      OBVIOUS
    <3>1. r[k] = e /\ e \in MainTasks
      BY <1>3, <2>1
    <3>2. e.op = "to_handler" => id[e.s] # Invalid /\ e.msgs[1][1] = e.s
      BY <2>1 DEF FlowInv, ToHandlerInv
    <3>3. e.op = "on_close" => handlerMap[e.id] # None
      BY <2>1 DEF HalvesInv, EndInv
    <3> QED
      BY <1>1, <1>2, <3>1, <3>2, <3>3, TaskFields DEF Carries
  <2>2. CASE k \notin 1 .. Len(mainQ)
    <3>1. k = Len(mainQ) + 1
      BY <1>3, <2>2
    <3>2. r[k] = PackOut(s)
      BY <1>3, <3>1
    <3> QED
      BY <3>2 DEF PackOut, Carries
  <2> QED
    BY <2>1, <2>2
<1>5. EndMarks(s)' = {}
  BY <1>1, <1>4 DEF EndMarks
<1>6. Chain(s, r, 0, 0, {}, 0)
  <2> PICK n \in Nat : n = 0
    OBVIOUS
  <2>1. Len(r) \in Nat /\ n <= n
    BY <1>3
  <2>2. \A k \in 1 .. Len(r) : ~Carries(r[k], s)
    BY <1>4
  <2>3. Chain(s, r, n, n, {}, n)
    BY <2>1, <2>2, ChainEmpty
  <2> QED
    BY <2>3
<1>7. Len(delivered'[s]) = 0 /\ arrived'[s] - Len(received'[s]) = 0
  <2>1. Len(<<>>) = 0 /\ 0 - 0 = 0
    OBVIOUS
  <2>2. delivered'[s] = <<>> /\ arrived'[s] = 0 /\ received'[s] = <<>>
    BY <1>1
  <2>3. Len(delivered'[s]) = 0 /\ Len(received'[s]) = 0
    BY <2>1, <2>2
  <2> QED
    BY <2>1, <2>2, <2>3
<1> QED
  BY <1>1, <1>5, <1>6, <1>7

\* A message is read: it waits in messages_received_.
LEMMA FlowInReads ==
    ASSUME TypeOK, HalvesInv, FlowInv, NEW s \in Sessions, Reads(s)
    PROVE  Chain(s, mainQ', Len(delivered'[s]), arrived'[s] - Len(received'[s]),
                 EndMarks(s)', arrived'[s])
<1>0. /\ mainQ' = mainQ /\ UNCHANGED <<handlerId, delivered>> /\ arrived[s] \in Nat
      /\ ThreadOf[s] \in Threads /\ Len(mainQ) \in Nat /\ id[s] \in Ids \cup {Invalid}
  BY SessionAssumption, LenProperties DEF Reads, HandleRead, mainVars, TypeOK, TaskTypes, IoTypes, SeenTypes
<1>1. queue[ThreadOf[s]][id[s]] = s /\ id[s] \in Ids /\ received[s] = <<>>
  BY <1>0 DEF Reads
<1>2. handlerId[s] = id[s] /\ handlerId[s] # Invalid /\ socket[s] = "open"
  <2>1. s # None
    BY SessionAssumption
  <2> QED
    BY <1>0, <1>1, <2>1, NamedIs DEF HalvesInv, QueueInv
<1>3. EndMarks(s)' = {} /\ EndMarks(s) = {}
  <2>1. ASSUME NEW k \in EndMarks(s) PROVE FALSE
    <3>1. /\ k \in 1 .. Len(mainQ) /\ mainQ[k].op = "on_close" /\ mainQ[k].id = handlerId[s]
      BY DEF EndMarks
    <3>2. handlerMap[handlerId[s]] = s
      BY <1>2 DEF HalvesInv, MapInv
    <3>3. socket[s] = "closed"
      BY <3>1, <3>2 DEF HalvesInv, EndInv
    <3> QED
      BY <1>2, <3>3
  <2> QED
    BY <1>0, <2>1 DEF EndMarks
<1> PICK a, b : a \in Nat /\ a = arrived[s] /\ b = arrived'[s]
  BY <1>0
<1>4. b \in Nat /\ b - Len(received'[s]) = a
  <2>1. CASE UNCHANGED <<received[s], arrived[s]>>
    BY <1>1, <2>1
  <2>2. CASE received'[s] = << <<s, arrived[s] + 1>> >> /\ arrived'[s] = arrived[s] + 1
    <3>1. Len(received'[s]) = 1 /\ b = a + 1
      BY <2>2
    <3> QED
      BY <3>1
  <2> QED
    BY <2>1, <2>2 DEF Reads
<1>5. Chain(s, mainQ, Len(delivered[s]), a, {}, a)
  <2>1. Chain(s, mainQ, Len(delivered[s]), arrived[s] - Len(received[s]), EndMarks(s), arrived[s])
    BY <1>2 DEF FlowInv, FlowIn, FlowInOf
  <2>2. arrived[s] - Len(received[s]) = a
    BY <1>1
  <2> QED
    BY <1>3, <2>1, <2>2
<1>6. Chain(s, mainQ, Len(delivered[s]), a, {}, b)
  <2> PICK lo, q : lo = Len(delivered[s]) /\ q = mainQ
    OBVIOUS
  <2>1. Chain(s, q, lo, a, {}, a) /\ Len(q) \in Nat
    BY <1>0, <1>5
  <2>2. Chain(s, q, lo, a, {}, b)
    BY <1>4, <2>1, ChainMarks
  <2> QED
    BY <2>2
<1> QED
  BY <1>0, <1>3, <1>4, <1>6

\* PackMessageList hands over what waits.
LEMMA FlowInPosts ==
    ASSUME TypeOK, HalvesInv, FlowInv, NEW s \in Sessions, RunPackIn(s),
           handlerId[s] # Invalid
    PROVE  Chain(s, mainQ', Len(delivered'[s]), arrived'[s] - Len(received'[s]),
                 EndMarks(s)', arrived'[s])
<1> PICK q : q = mainQ
  OBVIOUS
<1> PICK e : e = ToHandler(s, received[s])
  OBVIOUS
<1>0. /\ UNCHANGED <<handlerId, delivered, arrived>> /\ arrived[s] \in Nat
      /\ q \in Seq(MainTasks) /\ Len(q) \in Nat /\ received[s] \in Seq(Msg)
      /\ received \in [Sessions -> Seq(Msg)]
      /\ Len(received[s]) \in Nat /\ RecvOf(s)
  BY LenProperties DEF RunPackIn, mainVars, seen, TypeOK, TaskTypes, IoTypes, SeenTypes,
     FlowInv, RecvInv
<1>1. /\ received'[s] = <<>>
      /\ received[s] = <<>> => mainQ' = q
      /\ received[s] # <<>> => mainQ' = Append(q, e) /\ e \in MainTasks
  BY <1>0, PackInDoes
<1>n. PICK a \in Nat, c \in Nat : a = arrived[s] /\ c = Len(received[s])
  BY <1>0
<1>b. c <= a /\ Numbered(received[s], s, a - c)
  BY <1>0, <1>n DEF RecvOf
<1>h. PICK h \in Nat : h = a - c
  <2>1. a - c \in Nat
    BY <1>b
  <2> QED
    BY <2>1
<1>s. h + c = a /\ (c = 0 => h = a)
  BY <1>h
<1> PICK lo : lo = Len(delivered[s])
  OBVIOUS
<1> PICK M : M = EndMarks(s)
  OBVIOUS
<1>2. Chain(s, q, lo, h, M, a)
  BY <1>h, <1>n DEF FlowInv, FlowIn, FlowInOf
<1>3. CASE received[s] = <<>>
  <2>1. c = 0 /\ EndMarks(s)' = M
    BY <1>0, <1>1, <1>3, <1>n DEF EndMarks
  <2>2. h = a
    BY <1>s, <2>1
  <2>3. arrived'[s] - Len(received'[s]) = a
    BY <1>0, <1>1, <1>n
  <2> QED
    BY <1>0, <1>1, <1>2, <1>3, <1>n, <2>1, <2>2, <2>3
<1>4. CASE received[s] # <<>>
  <2>1. Carries(e, s) /\ Load(e, s) = c /\ Numbered(e.msgs, s, h)
    <3>1. e.msgs = received[s] /\ e.op = "to_handler"
      BY DEF ToHandler
    <3>2. received[s][1][1] = s
      BY <1>0, <1>4, <1>b, <1>h, NumberedStart
    <3> QED
      BY <1>b, <1>h, <1>n, <3>1, <3>2 DEF Carries, Load
  <2> PICK L : L = EndMarks(s)'
    OBVIOUS
  <2>2. ASSUME NEW k \in L PROVE k \in 1 .. Len(q) /\ k \in M
    <3>1. /\ k \in 1 .. Len(mainQ') /\ mainQ'[k].op = "on_close"
          /\ mainQ'[k].id = handlerId[s]
      BY <1>0 DEF EndMarks
    <3>2. /\ mainQ' = Append(q, e) /\ Len(mainQ') = Len(q) + 1
          /\ Append(q, e)[Len(q) + 1] = e
          /\ \A i \in 1 .. Len(q) : Append(q, e)[i] = q[i]
      BY <1>0, <1>1, <1>4, AppendProperties
    <3>3. k # Len(q) + 1
      BY <3>1, <3>2 DEF ToHandler
    <3>4. k \in 1 .. Len(q)
      BY <1>0, <3>1, <3>2, <3>3
    <3> QED
      BY <3>1, <3>2, <3>4 DEF EndMarks
  <2>3. Len(q) + 1 \notin L
    BY <1>0, <2>2
  <2>4. Load(e, s) \in Nat /\ (Carries(e, s) => Numbered(e.msgs, s, h))
    BY <2>1
  <2>5. Chain(s, Append(q, e), lo, h + Load(e, s), L, a)
    BY <1>0, <1>1, <1>2, <1>4, <2>2, <2>3, <2>4, ChainPosts
  <2>6. h + Load(e, s) = a
    BY <1>s, <2>1
  <2>7. arrived'[s] - Len(received'[s]) = a
    BY <1>0, <1>1, <1>n
  <2> QED
    BY <1>0, <1>1, <1>4, <1>n, <2>5, <2>6, <2>7
<1> QED
  BY <1>3, <1>4

\* A step that neither reads nor hands over a message of s.
LEMMA FlowInSlides ==
    ASSUME TypeOK, HalvesInv, FlowInv, [Next]_vars, NEW s \in Sessions,
           handlerId[s] # Invalid, handlerId'[s] = handlerId[s],
           UNCHANGED <<received[s], arrived[s]>>, ~RunPackIn(s)
    PROVE  Chain(s, mainQ', Len(delivered'[s]), arrived'[s] - Len(received'[s]),
                 EndMarks(s)', arrived'[s])
<1> PICK q : q = mainQ
  OBVIOUS
<1> PICK r : r = mainQ'
  OBVIOUS
<1> PICK M : M = EndMarks(s)
  OBVIOUS
<1> PICK L : L = EndMarks(s)'
  OBVIOUS
<1>0. /\ q \in Seq(MainTasks) /\ Len(q) \in Nat /\ r \in Seq(MainTasks) /\ Len(r) \in Nat
      /\ received[s] \in Seq(Msg) /\ Len(received[s]) \in Nat /\ arrived[s] \in Nat
      /\ delivered[s] \in Seq(Msg) /\ RecvOf(s)
  <2>1. TypeOK'
    BY TypeStep
  <2> QED
    BY <2>1, LenProperties DEF TypeOK, TaskTypes, IoTypes, SeenTypes, FlowInv, RecvInv
<1>n. PICK a \in Nat, c \in Nat : a = arrived[s] /\ c = Len(received[s])
  BY <1>0
<1>h. PICK h \in Nat : h = a - c
  <2>1. c <= a
    BY <1>0, <1>n DEF RecvOf
  <2>2. a - c \in Nat
    BY <2>1
  <2> QED
    BY <2>2
<1>s. c = 0 => h = a
  BY <1>h
<1> PICK lo, l : lo = Len(delivered[s]) /\ l = Len(delivered'[s])
  OBVIOUS
<1>1. Chain(s, q, lo, h, M, a)
  BY <1>h, <1>n DEF FlowInv, FlowIn, FlowInOf
\* The queue loses its head only to the handler of s, or nothing of s.
<1>2. PICK d, N : MainStepOf(d, N) /\ l = IF d = 1 THEN lo + Load(q[1], s) ELSE lo
  <2>1. CASE Hears(s)
    <3>1. /\ RunToHandler /\ 1 \in 1 .. Len(q) /\ q[1].op = "to_handler"
          /\ q[1].msgs \in Seq(Msg) /\ q[1].msgs[1][1] = s
          /\ delivered'[s] = delivered[s] \o q[1].msgs
      BY <2>1 DEF Hears, Lists
    <3>2. Slid(mainQ, mainQ', 1, {})
      BY <3>1, ToHandlerDoes
    <3>3. MainStepOf(1, {})
      BY <3>1, <3>2 DEF MainStepOf
    <3>4. Load(q[1], s) = Len(q[1].msgs)
      BY <3>1 DEF Load, Carries
    <3>5. Len(delivered'[s]) = Len(delivered[s]) + Len(q[1].msgs)
      BY <1>0, <3>1, ConcatProperties
    <3>6. l = lo + Load(q[1], s)
      BY <3>4, <3>5
    <3> QED
      BY <3>3, <3>6
  <2>2. CASE ~Hears(s)
    <3>1. PICK d, N : MainStepOf(d, N)
      BY MainStep
    <3>2. d \in {0, 1} /\ (d = 1 => 1 \in 1 .. Len(q) /\ (q[1].op = "to_handler" => RunToHandler))
      BY <3>1 DEF MainStepOf
    <3>3. d = 1 => ~Carries(q[1], s)
      BY <2>2, <3>2, HeadHeard
    <3>4. d = 1 => Load(q[1], s) = 0
      BY <3>3 DEF Load
    <3>5. l = lo /\ lo \in Nat
      <4>1. UNCHANGED delivered[s]
        BY <2>2, InLocal
      <4> QED
        BY <1>0, <4>1, LenProperties
    <3> QED
      BY <3>1, <3>4, <3>5
  <2> QED
    BY <2>1, <2>2
<1>3. /\ Slid(q, r, d, N) /\ d \in {0, 1} /\ (d = 1 => 1 \in 1 .. Len(q))
      /\ \A k \in 1 .. Len(r) : k + d > Len(q) => PostedToMain(r[k])
  <2>1. /\ Slid(mainQ, mainQ', d, N) /\ d \in {0, 1} /\ \A e \in N : PostedToMain(e)
        /\ d = 1 => 1 \in 1 .. Len(mainQ)
    BY <1>2 DEF MainStepOf
  <2>2. \A k \in 1 .. Len(r) : k + d > Len(q) => k + d \notin 1 .. Len(q)
    BY <1>0
  <2> QED
    BY <2>1, <2>2 DEF Slid
<1>4. ASSUME NEW k \in 1 .. Len(r), k + d > Len(q) PROVE ~Carries(r[k], s)
  <2> SUFFICES ASSUME Carries(r[k], s) PROVE FALSE
    OBVIOUS
  <2> PICK e : e = r[k]
    OBVIOUS
  <2>1. PostedToMain(e) /\ e \in MainTasks /\ Carries(e, s)
    BY <1>0, <1>3, <1>4, ElementOfSeq
  <2>2. e.op = "to_handler" /\ e.msgs[1][1] = s
    BY <2>1, TaskFields DEF Carries
  <2>3. PICK x \in Sessions : RunPackIn(x) /\ received[x] # <<>> /\ e = ToHandler(x, received[x])
    BY <2>1, <2>2 DEF PostedToMain, PackOut, OnSessionClose
  <2>4. e.msgs = received[x]
    BY <2>3 DEF ToHandler
  <2>5. received[x][1][1] = x
    <3>1. /\ received[x] \in Seq(Msg) /\ arrived[x] \in Nat /\ Len(received[x]) \in Nat
          /\ Numbered(received[x], x, arrived[x] - Len(received[x]))
      BY LenProperties DEF TypeOK, IoTypes, SeenTypes, FlowInv, RecvInv, RecvOf
    <3> PICK n : n = arrived[x] - Len(received[x])
      OBVIOUS
    <3>2. n \in Int /\ Numbered(received[x], x, n)
      BY <3>1
    <3> QED
      BY <2>3, <3>1, <3>2, NumberedStart
  <2> QED
    BY <2>2, <2>3, <2>4, <2>5
<1>5. ASSUME NEW k \in 1 .. Len(r), k \in L
      PROVE  \/ k + d \in 1 .. Len(q) /\ k + d \in M
             \/ k + d > Len(q) /\ h >= a
  <2>1. \/ k + d \in 1 .. Len(q) /\ k + d \in M
        \/ k + d > Len(q) /\ Ends(s)
    BY <1>2, <1>5, EndMarksBack
  <2>2. Ends(s) => c = 0
    BY <1>n DEF Ends
  <2>3. Ends(s) => h >= a
    BY <1>s, <2>2
  <2> QED
    BY <2>1, <2>3
<1>6. Follows(s, q, r, d, lo, l, h, M, a, L, a)
  <2>1. ASSUME NEW k \in 1 .. Len(r), k \in L
        PROVE  /\ k + d \in 1 .. Len(q) => k + d \in M
               /\ k + d > Len(q) => h >= a
    <3>1. CASE k + d \in 1 .. Len(q)
      <4>1. ~(k + d > Len(q)) /\ Len(q) \in Nat
        BY <1>0, <3>1
      <4> QED
        BY <1>5, <2>1, <4>1
    <3>2. CASE k + d \notin 1 .. Len(q)
      BY <1>5, <2>1, <3>2
    <3> QED
      BY <3>1, <3>2
  <2>2. a <= a
    OBVIOUS
  <2>3. \A k \in 1 .. Len(r) : k + d > Len(q) => ~Carries(r[k], s)
    BY <1>4
  <2> QED
    BY <1>2, <1>3, <2>1, <2>2, <2>3 DEF Follows
<1>7. Chain(s, r, l, h, L, a)
  <2>1. Len(q) \in Nat /\ Len(r) \in Nat
    BY <1>0
  <2>2. Slid(q, r, d, N) /\ d \in {0, 1}
    BY <1>3
  <2> QED
    BY <1>1, <1>6, <2>1, <2>2, ChainSlides
<1>8. arrived'[s] - Len(received'[s]) = h /\ arrived'[s] = a
  BY <1>h, <1>n
<1> QED
  BY <1>7, <1>8

\* Every step keeps the incoming messages in one chain from the session to the handler.
LEMMA FlowInKeeps ==
    ASSUME TypeOK, HalvesInv, FlowInv, [Next]_vars PROVE FlowIn'
<1> SUFFICES ASSUME NEW s \in Sessions, handlerId'[s] # Invalid
             PROVE  Chain(s, mainQ', Len(delivered'[s]), arrived'[s] - Len(received'[s]),
                          EndMarks(s)', arrived'[s])
  BY DEF FlowIn, FlowInOf
<1>1. CASE Accepts(s)
  BY <1>1, FlowInStarts
<1>2. CASE ~Accepts(s)
  <2>1. handlerId'[s] = handlerId[s] /\ handlerId[s] # Invalid
    BY <1>2, CoreLocal DEF Refuses, Leaves, Starts, SameHandler
  <2> QED
    BY <2>1, InLocal, FlowInReads, FlowInPosts, FlowInSlides
<1> QED
  BY <1>1, <1>2

\* Every step keeps what was delivered numbered, and complete at OnSessionClose.
LEMMA DeliveredKeeps ==
    ASSUME TypeOK, HalvesInv, FlowInv, [Next]_vars PROVE DeliveredInv'
<1> SUFFICES ASSUME NEW s \in Sessions PROVE DeliveredOf(s)'
  BY DEF DeliveredInv
<1>0. /\ DeliveredOf(s) /\ FlowInOf(s) /\ RecvOf(s) /\ arrived[s] \in Nat
      /\ delivered[s] \in Seq(Msg) /\ Len(delivered[s]) \in Nat
      /\ received[s] \in Seq(Msg) /\ Len(received[s]) \in Nat
      /\ onClosed[s] \in Nat /\ Len(mainQ) \in Nat
  BY LenProperties DEF FlowInv, DeliveredInv, FlowIn, RecvInv, TypeOK, TaskTypes, IoTypes, SeenTypes
<1>m. handlerId[s] # Invalid => onClosed[s] = 0
  BY DEF HalvesInv, MapInv
<1>n. PICK a \in Nat, c \in Nat, l \in Nat :
        a = arrived[s] /\ c = Len(received[s]) /\ l = Len(delivered[s])
  BY <1>0
<1>c. /\ Numbered(delivered[s], s, 0) /\ l <= a
      /\ onClosed[s] \in {0, 1} /\ (onClosed[s] = 1 => l = a)
  BY <1>0, <1>n DEF DeliveredOf
<1>b. handlerId[s] # Invalid => Chain(s, mainQ, l, a - c, EndMarks(s), a)
  BY <1>0, <1>n DEF FlowInOf
<1>a. ASSUME UNCHANGED <<arrived[s], delivered[s], onClosed[s]>> PROVE DeliveredOf(s)'
  BY <1>0, <1>a DEF DeliveredOf, Numbered
<1> USE DEF SameHandler, SameIn
<1>1. CASE Idles(s) \/ Accepts(s) \/ Refuses(s) \/ Sends(s) \/ Closes(s) \/ Packs(s)
  BY <1>1, <1>a DEF Idles, Accepts, Refuses, Sends, Closes, Packs
<1>2. CASE Starts(s) \/ HandsOver(s) \/ ReadsNoMore(s) \/ WritesNoMore(s)
  BY <1>2, <1>a DEF Starts, HandsOver, ReadsNoMore, WritesNoMore
<1>3. CASE Shuts(s) \/ Completes(s) \/ LosesPeer(s) \/ Writes(s) \/ Gets(s)
  BY <1>3, <1>a DEF Shuts, Completes, LosesPeer, Writes, Gets
<1>4. CASE Hears(s)
  <2> PICK ms : ms = mainQ[1].msgs
    OBVIOUS
  <2>1. /\ 1 \in 1 .. Len(mainQ) /\ ms \in Seq(Msg) /\ Carries(mainQ[1], s)
        /\ handlerId[s] # Invalid /\ delivered'[s] = delivered[s] \o ms
        /\ UNCHANGED <<arrived[s], onClosed[s]>> /\ Load(mainQ[1], s) = Len(ms)
    BY <1>4 DEF Hears, Lists, Carries, Load
  <2>a. PICK x \in Nat : x = Len(ms)
    BY <2>1, LenProperties
  <2>2. Chain(s, mainQ, l, a - c, EndMarks(s), a)
    BY <1>b, <2>1
  <2> PICK q : q = mainQ
    OBVIOUS
  <2>3. /\ Carries(q[1], s) => Numbered(q[1].msgs, s, l)
        /\ Load(q[1], s) \in Int => l + Load(q[1], s) <= a - c
    BY <1>0, <2>1, <2>2, ChainFirst
  <2>4. Numbered(ms, s, 0 + Len(delivered[s])) /\ l + x <= a
    <3>1. Load(q[1], s) = x
      BY <2>1, <2>a
    <3>2. l + x <= a - c
      BY <2>3, <3>1
    <3>3. l + x <= a
      BY <3>2
    <3> QED
      BY <1>n, <2>1, <2>3, <3>3
  <2>5. Numbered(delivered'[s], s, 0) /\ Len(delivered'[s]) = l + x
    BY <1>0, <1>c, <1>n, <2>1, <2>4, <2>a, NumberedJoins
  <2> QED
    BY <1>m, <1>n, <2>1, <2>4, <2>5 DEF DeliveredOf
<1>5. CASE Leaves(s)
  <2>1. /\ 1 \in 1 .. Len(mainQ) /\ 1 \in EndMarks(s) /\ handlerId[s] # Invalid
        /\ UNCHANGED <<arrived[s], delivered[s]>> /\ onClosed'[s] = 1
    BY <1>5 DEF Leaves, EndMarks
  <2>2. Chain(s, mainQ, l, a - c, EndMarks(s), a)
    BY <1>b, <2>1
  <2>3. l >= a
    BY <1>0, <2>1, <2>2, ChainFirst
  <2>4. l = a
    BY <1>c, <2>3
  <2> QED
    BY <1>c, <1>n, <2>1, <2>4 DEF DeliveredOf, Numbered
<1>6. CASE Reads(s)
  <2>1. /\ queue[ThreadOf[s]][id[s]] = s /\ id[s] # Invalid
        /\ UNCHANGED <<delivered[s], onClosed[s]>>
        /\ arrived'[s] = arrived[s] \/ arrived'[s] = arrived[s] + 1
    BY <1>6 DEF Reads
  <2>2. handlerId[s] # Invalid
    <3>1. id[s] \in Ids /\ ThreadOf[s] \in Threads
      BY <2>1, SessionAssumption DEF TypeOK, IoTypes
    <3> PICK n \in Ids : n = id[s]
      BY <3>1
    <3> QED
      BY <2>1, <3>1, NamedIs
  <2>3. onClosed[s] = 0 /\ (l <= a + 1)
    BY <1>c, <1>m, <2>2
  <2> QED
    BY <1>c, <1>n, <2>1, <2>3 DEF DeliveredOf, Numbered
<1> QED
  BY <1>1, <1>2, <1>3, <1>4, <1>5, <1>6, LocalStep

-----------------------------------------------------------------------------
(* The theorems.                                                           *)

\* The types at the start.
LEMMA InitTypes == Init => TypeOK
<1> SUFFICES ASSUME Init PROVE TypeOK
  OBVIOUS
<1>1. TaskTypes
  BY DEF Init, TaskTypes
<1>2. MainTypes
  BY DEF Init, MainTypes
<1>3. IoTypes
  BY DEF Init, IoTypes, Phase
<1>4. SeenTypes
  BY SessionAssumption DEF Init, SeenTypes
<1> QED
  BY <1>1, <1>2, <1>3, <1>4 DEF TypeOK

\* The inductive invariant at the start.
LEMMA InitIInv == Init => IInv
<1> SUFFICES ASSUME Init PROVE IInv
  OBVIOUS
<1>0. /\ mainQ = <<>> /\ Len(mainQ) = 0 /\ Len(<<>>) = 0
      /\ \A t \in Threads : ioQ[t] = <<>> /\ Len(ioQ[t]) = 0
      /\ \A s \in Sessions : Q(s) = <<>> /\ Len(Q(s)) = 0
  BY SessionAssumption DEF Init, Q
<1>1. MapInv /\ QueueInv
  BY DEF Init, MapInv, QueueInv
<1>2. LifeInv
  BY DEF Init, LifeInv, LifeOf, Untouched
<1>3. InitInv /\ OpsInv /\ EndInv /\ ToHandlerInv
  BY <1>0 DEF InitInv, OpsInv, EndInv, ToHandlerInv
<1>4. OpenInv /\ FlowOut /\ FlowIn
  BY DEF Init, OpenInv, OpenOf, FlowOut, FlowOutOf, FlowIn, FlowInOf
<1>5. CountInv /\ WriteInv
  BY DEF Init, CountInv, CountOf, WriteInv, WriteOf, One
<1>6. DestInv
  BY <1>0 DEF DestInv, DestOf
<1>7. OutInv /\ OwedInv /\ RecvInv /\ DeliveredInv
  <2> SUFFICES ASSUME NEW s \in Sessions
               PROVE  OutOf(s) /\ OwedOf(s) /\ RecvOf(s) /\ DeliveredOf(s)
    BY DEF OutInv, OwedInv, RecvInv, DeliveredInv
  <2>1. /\ sent[s] = <<>> /\ outbox[s] = <<>> /\ written[s] = <<>> /\ sending[s] = <<>>
        /\ toBeSent[s] = <<>> /\ received[s] = <<>> /\ delivered[s] = <<>>
        /\ arrived[s] = 0 /\ owed[s] = 0 /\ onClosed[s] = 0 /\ ~closed[s]
    BY DEF Init
  <2> QED
    BY <1>0, <2>1 DEF OutOf, OwedOf, RecvOf, DeliveredOf, Numbered, Taken
<1> QED
  BY <1>1, <1>2, <1>3, <1>4, <1>5, <1>6, <1>7, IdInit, InitTypes
     DEF IInv, HalvesInv, FlowInv

\* Every step keeps the inductive invariant.
LEMMA StepIInv == IInv /\ [Next]_vars => IInv'
<1> SUFFICES ASSUME TypeOK, HalvesInv, FlowInv, [Next]_vars PROVE IInv'
  BY DEF IInv
<1>1. TypeOK'
  BY TypeStep
<1>2. HalvesInv'
  <2>1. IdP!IInv'
    BY IdKeeps DEF HalvesInv
  <2> QED
    BY <2>1, MapKeeps, QueueKeeps, LifeKeeps, InitKeeps, OpsKeeps, OpenKeeps, EndKeeps,
       CountKeeps, WriteKeeps DEF HalvesInv
<1>3. FlowInv'
  BY DestKeeps, OutKeeps, FlowOutKeeps, OwedKeeps, RecvKeeps, ToHandlerKeeps, FlowInKeeps,
     DeliveredKeeps DEF FlowInv
<1> QED
  BY <1>1, <1>2, <1>3 DEF IInv

\* Every task queued for a thread is one that its thread can run, and names connections,
\* ids and messages; every buffer holds messages.  The invariant the other theorems rest
\* on holds in every reachable state.
THEOREM TypesAndInvariant == Spec => [](TypeOK /\ IInv)
<1>1. IInv => TypeOK /\ IInv
  BY DEF IInv
<1> QED
  BY <1>1, InitIInv, StepIInv, PTL DEF Spec

\* num_handlers_ is the number of outstanding reads and writes of a session, and a session
\* with one is in its session queue, which keeps it alive for the completion handlers that
\* are bound to a raw this.
THEOREM SessionsKeptAlive == Spec => []KeptAlive
<1>1. ASSUME IInv PROVE KeptAlive
  <2> DEFINE pending(s) == {d \in {"r", "w"} :
                              IF d = "r" THEN reading[s] # "no" ELSE writing[s] # "no"}
  <2> SUFFICES ASSUME NEW s \in Sessions
               PROVE  /\ handlers[s] = Cardinality(pending(s))
                      /\ pending(s) # {} =>
                           queue[ThreadOf[s]][id[s]] = s /\ socket[s] = "open"
    BY DEF KeptAlive
  <2>1. /\ CountOf(s) /\ LifeOf(s) /\ id[s] \in Ids \cup {Invalid} /\ s # None
        /\ ThreadOf[s] \in Threads /\ TypeOK /\ HalvesInv
    BY <1>1, SessionAssumption DEF IInv, HalvesInv, CountInv, LifeInv, TypeOK, IoTypes
  <2>2. handlers[s] = Cardinality(pending(s))
    <3>1. Cardinality({}) = 0 /\ Cardinality({"r"}) = 1 /\ Cardinality({"w"}) = 1
      BY FS_EmptySet, FS_Singleton
    <3>2. Cardinality({"r", "w"}) = 2
      <4>1. {"r", "w"} = {"r"} \cup {"w"} /\ "w" \notin {"r"} /\ IsFiniteSet({"r"})
        BY FS_Singleton
      <4> QED
        BY <3>1, <4>1, FS_AddElement
    <3>3. CASE reading[s] = "no" /\ writing[s] = "no"
      <4>1. pending(s) = {} /\ handlers[s] = 0
        BY <2>1, <3>3 DEF CountOf, One
      <4> QED
        BY <3>1, <4>1
    <3>4. CASE reading[s] # "no" /\ writing[s] = "no"
      <4>1. pending(s) = {"r"} /\ handlers[s] = 1
        BY <2>1, <3>4 DEF CountOf, One
      <4> QED
        BY <3>1, <4>1
    <3>5. CASE reading[s] = "no" /\ writing[s] # "no"
      <4>1. pending(s) = {"w"} /\ handlers[s] = 1
        BY <2>1, <3>5 DEF CountOf, One
      <4> QED
        BY <3>1, <4>1
    <3>6. CASE reading[s] # "no" /\ writing[s] # "no"
      <4>1. pending(s) = {"r", "w"} /\ handlers[s] = 2
        BY <2>1, <3>6 DEF CountOf, One
      <4> QED
        BY <3>2, <4>1
    <3> QED
      BY <3>3, <3>4, <3>5, <3>6
  <2>3. ASSUME pending(s) # {} PROVE queue[ThreadOf[s]][id[s]] = s /\ socket[s] = "open"
    <3>1. reading[s] # "no" \/ writing[s] # "no"
      BY <2>3
    <3>2. queue[ThreadOf[s]][id[s]] = s /\ id[s] \in Ids
      BY <2>1, <3>1 DEF CountOf, LifeOf, Untouched
    <3> QED
      BY <2>1, <3>2 DEF HalvesInv, QueueInv
  <2> QED
    BY <2>2, <2>3
<1> QED
  BY <1>1, InitIInv, StepIInv, PTL DEF Spec

\* Although ids are reused and the halves of a connection know each other by id only, a
\* peer is sent what its own handler sent, and a handler hears its own peer: each message
\* once, in order, and before OnClose all that was read.
THEOREM MessagesKeepTheirOrder == Spec => []MessagesInOrder
<1>1. ASSUME IInv PROVE MessagesInOrder
  <2> SUFFICES ASSUME NEW s \in Sessions
               PROVE  /\ IsPrefix(written[s], sent[s])
                      /\ delivered[s] = [i \in 1 .. Len(delivered[s]) |-> <<s, i>>]
                      /\ Len(delivered[s]) <= arrived[s]
                      /\ onClosed[s] = 1 => Len(delivered[s]) = arrived[s]
    BY DEF MessagesInOrder
  <2>1. /\ OutOf(s) /\ DeliveredOf(s) /\ written[s] \in Seq(Msg) /\ sent[s] \in Seq(Msg)
        /\ delivered[s] \in Seq(Msg) /\ sending[s] \in Seq(Msg) /\ toBeSent[s] \in Seq(Msg)
    BY <1>1 DEF IInv, FlowInv, OutInv, DeliveredInv, TypeOK, IoTypes, SeenTypes
  <2>n. PICK w \in Nat, c \in Nat, g \in Nat, b \in Nat :
          /\ w = Len(written[s]) /\ c = Len(sent[s])
          /\ g = Len(sending[s]) /\ b = Len(toBeSent[s])
    BY <2>1, LenProperties
  <2>2. w <= c
    <3>1. w + g + b <= c
      BY <2>1, <2>n DEF OutOf, Taken
    <3> QED
      BY <3>1
  <2>3. \A i \in 1 .. w : written[s][i] = <<s, 0 + i>> /\ sent[s][i] = <<s, 0 + i>>
    BY <2>1, <2>2, <2>n DEF OutOf, Numbered
  <2>4. SubSeq(written[s], 1, Len(written[s])) = SubSeq(sent[s], 1, Len(written[s]))
    <3>1. /\ SubSeq(written[s], 1, w) = [i \in 1 .. w |-> written[s][i]]
          /\ SubSeq(sent[s], 1, w) = [i \in 1 .. w |-> sent[s][i]]
      <4>1. ASSUME NEW q \in Seq(Msg) PROVE SubSeq(q, 1, w) = [i \in 1 .. w |-> q[i]]
        OBVIOUS
      <4> QED
        BY <2>1, <4>1
    <3>2. [i \in 1 .. w |-> written[s][i]] = [i \in 1 .. w |-> sent[s][i]]
      BY <2>3
    <3>3. SubSeq(written[s], 1, w) = SubSeq(sent[s], 1, w)
      BY <3>1, <3>2
    <3> QED
      BY <2>n, <3>3
  <2>5. delivered[s] = [i \in 1 .. Len(delivered[s]) |-> <<s, i>>]
    <3>1. \A i \in 1 .. Len(delivered[s]) : delivered[s][i] = <<s, i>>
      BY <2>1 DEF DeliveredOf, Numbered
    <3>2. delivered[s] = [i \in 1 .. Len(delivered[s]) |-> delivered[s][i]]
      BY <2>1, LenProperties
    <3> QED
      BY <3>1, <3>2
  <2> QED
    BY <2>1, <2>2, <2>4, <2>5, <2>n DEF IsPrefix, DeliveredOf
<1> QED
  BY <1>1, InitIInv, StepIInv, PTL DEF Spec

\* "the underlying TCPSession will wait until all data in write-buffer has been sent": what
\* was given to Send before the first Close is written when the socket closes, unless the
\* peer has gone.
THEOREM CloseFlushesAll == Spec => []CloseFlushes
<1>1. ASSUME IInv PROVE CloseFlushes
  <2> SUFFICES ASSUME NEW s \in Sessions, socket[s] = "closed", onClosed[s] = 1,
                      peer[s] = "up"
               PROVE  Len(written[s]) >= owed[s]
    BY DEF CloseFlushes
  <2>1. /\ LifeOf(s) /\ OwedOf(s) /\ WriteOf(s) /\ CountOf(s)
        /\ written[s] \in Seq(Msg) /\ Len(written[s]) \in Nat /\ s # None
        /\ id[s] \in Ids \cup {Invalid} /\ ThreadOf[s] \in Threads
    BY <1>1, LenProperties, SessionAssumption
       DEF IInv, HalvesInv, FlowInv, LifeInv, OwedInv, WriteInv, CountInv, TypeOK, IoTypes,
           SeenTypes
  <2>2. handlerId[s] = Invalid
    BY <1>1 DEF IInv, HalvesInv, MapInv
  <2>3. CASE id[s] = Invalid
    BY <2>1, <2>2, <2>3 DEF LifeOf
  <2>4. CASE id[s] # Invalid
    <3>1. closed[s] /\ Taken(s) >= owed[s]
      BY <2>1, <2>4 DEF LifeOf, OwedOf
    <3>2. queue[ThreadOf[s]][id[s]] # s
      BY <1>1, <2>1, <2>4 DEF IInv, HalvesInv, QueueInv
    <3>3. sending[s] = <<>> /\ toBeSent[s] = <<>>
      BY <2>1, <3>2 DEF WriteOf, CountOf
    <3>4. Taken(s) = Len(written[s])
      BY <2>1, <3>3 DEF Taken
    <3> QED
      BY <3>1, <3>4
  <2> QED
    BY <2>3, <2>4
<1> QED
  BY <1>1, InitIInv, StepIInv, PTL DEF Spec

\* The handlers' ids are those of the id generator: an accepted or a closed connection is a
\* step of it, every other task leaves it alone.
THEOREM IdsAreImplemented == Spec => IdsImplemented
<1>1. IdGen!Init <=> IdP!Init
  BY DEF IdGen!Init, IdP!Init
<1>2. [IdP!Next]_(IdP!vars) => [IdGen!Next]_(IdGen!vars)
  <2>1. IdGen!Cardinality(Live) = IdP!Cardinality(Live)
    BY DEF IdGen!Cardinality, IdP!Cardinality, IdGen!IsFiniteSet, IdP!IsFiniteSet
  <2> QED
    BY <2>1 DEF IdGen!Next, IdP!Next, IdGen!vars, IdP!vars, IdGen!Connect, IdP!Connect,
                IdGen!Close, IdP!Close
<1>3. Init => IdGen!Init
  BY <1>1, IdInit
<1>4. IInv /\ [Next]_vars => [IdGen!Next]_(IdGen!vars)
  BY <1>2, IdStep DEF IInv, HalvesInv
<1> QED
  BY <1>3, <1>4, InitIInv, StepIInv, PTL DEF Spec, IdsImplemented, IdGen!Spec

\* The id that OnSessionConnect is about to register is not in use, and no id waits twice in
\* the pool.
THEOREM ConnectionIdsUnique ==
    Spec => [](NextId \in Ids /\ handlerMap[NextId] = None /\ IsInjective(pool))
<1>1. IInv => NextId \in Ids /\ handlerMap[NextId] = None /\ IsInjective(pool)
  BY NextIdFresh DEF IInv, HalvesInv, IdP!IInv, IdP!PooledOnce, IdP!IsInjective, IsInjective
<1> QED
  BY <1>1, InitIInv, StepIInv, PTL DEF Spec

=============================================================================

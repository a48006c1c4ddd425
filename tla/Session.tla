------------------------------- MODULE Session -------------------------------
(***************************************************************************)
(* The TCP session layer of the gateway (gateway_server/sdk): TCPSession,  *)
(* TCPSessionHandler, TCPIOThread, TCPSessionQueue, TCPIOThreadManager and *)
(* TCPServer.                                                              *)
(*                                                                         *)
(* A connection has two halves.  The handler lives in the main thread,     *)
(* which also owns session_handler_map_ and the id generator; the session  *)
(* lives in one I/O thread, which owns the session queue.  The halves only *)
(* post tasks to each other.  An io_service runs its tasks one at a time   *)
(* in the order they were queued; a finished read or write is queued like  *)
(* a posted task.  A task is one action.                                   *)
(*                                                                         *)
(* A message is the pair <<session, n>>: the n-th one its handler sent, or *)
(* its peer sent.  Bytes, encryption and the send and receive delays       *)
(* (never set in the gateway) are left out; the length header stays,       *)
(* because a zero length ends reading.                                     *)
(***************************************************************************)
EXTENDS Integers, Sequences, SequencesExt, FiniteSets, Functions

CONSTANTS
    Sessions,        \* connections, each with its session and its handler
    Threads,         \* the I/O threads
    ThreadOf,        \* the I/O thread of a session (GetThread)
    Blocked,         \* connections whose address isAddressAllowed refuses
    MaxId, Threshold, MaxConnections,    \* see IdGenerator
    MaxSends,        \* bound: messages the handler of a session sends
    MaxCloses,       \* bound: calls of a handler's Close
    MaxReads,        \* bound: messages a peer sends
    None             \* no session

Ids == 1 .. MaxId
Invalid == 0         \* kInvalidTCPSessionID

ASSUME SessionAssumption ==
    /\ ThreadOf \in [Sessions -> Threads]
    /\ Blocked \subseteq Sessions
    /\ None \notin Sessions
    /\ MaxSends \in [Sessions -> Nat]
    /\ MaxReads \in Nat /\ MaxCloses \in Nat
    /\ MaxId \in Nat /\ Threshold \in Nat /\ MaxConnections \in Nat
    /\ MaxConnections + Threshold + 2 <= MaxId      \* as in IdGenerator

VARIABLES
  \* the main thread
    mainQ,         \* its io_service queue
    handlerMap,    \* session_handler_map_
    next, pool,    \* session_id_generator_
    handlerId,     \* TCPSessionHandler::session_id_
    outbox,        \* TCPSessionHandler::messages_to_be_sent_
  \* the I/O threads
    ioQ,           \* their io_service queues
    queue,         \* their session_queue_ maps
    id,            \* TCPSession::id_
    closed,        \* closed_
    handlers,      \* num_handlers_
    reading,       \* async read: "no", "armed" or "done" (completion queued)
    writing,       \* async write, likewise
    header,        \* MyFilter: "none", "length" (header_read_) or "zero"
    received,      \* messages_received_
    toBeSent,      \* buffer_to_be_sent_
    sending,       \* buffer_sending_
    socket,        \* "new", "open" or "closed"
  \* the peer, and what happened so far
    peer,          \* "up" or "gone"
    arrived,       \* messages read from the peer so far
    sent,          \* messages given to Send while the handler was open
    written,       \* messages whose write completed
    delivered,     \* messages given to OnMessage
    closeCalls,    \* calls of Close
    owed,          \* messages given to Send before the first Close
    onClosed       \* times OnClose was called

mainVars == <<handlerMap, next, pool, handlerId, outbox>>
ioVars   == <<queue, id, closed, handlers, reading, writing, header, received,
              toBeSent, sending, socket>>
seen     == <<peer, arrived, sent, written, delivered, closeCalls, owed,
              onClosed>>
vars     == <<mainQ, ioQ, mainVars, ioVars, seen>>

-----------------------------------------------------------------------------
(* Posted tasks.                                                           *)

PackOut(s)        == [op |-> "pack_out", s |-> s]
ToHandler(s, ms)  == [op |-> "to_handler", s |-> s, msgs |-> ms]
OnSessionClose(n) == [op |-> "on_close", id |-> n]
InitSession(s, n) == [op |-> "init", s |-> s, id |-> n]
ToSession(n, ms)  == [op |-> "to_session", id |-> n, msgs |-> ms]
CloseSession(n)   == [op |-> "close", id |-> n]
PackIn(s)         == [op |-> "pack_in", s |-> s]
ReadDone(s, res)  == [op |-> "read", s |-> s, res |-> res]
WriteDone(s, res) == [op |-> "write", s |-> s, res |-> res]

PostTo(t, tasks) == ioQ' = [ioQ EXCEPT ![t] = @ \o tasks]

\* The I/O thread of s takes a task off its queue.
Runs(s, op) ==
    LET q == ioQ[ThreadOf[s]]
    IN q # <<>> /\ Head(q).op = op /\ Head(q).s = s

\* ... a task that names an id, which it looks up in its session queue.
RunsFor(t, op) == ioQ[t] # <<>> /\ Head(ioQ[t]).op = op

Took(t) == [ioQ EXCEPT ![t] = Tail(@)]

MainRuns(op) == mainQ # <<>> /\ Head(mainQ).op = op

-----------------------------------------------------------------------------
(* The main thread.                                                        *)

Live == {n \in Ids : handlerMap[n] # None}

\* IDGenerator::Get takes an id from the pool, or the next new one.
PoolReady == Len(pool) > Threshold

NextId == IF PoolReady THEN Head(pool) ELSE next

\* TCPServer::HandleAccept and OnSessionConnect.  LoginWorker::OnConnect sends
\* the challenge, which is the first message.
Accept(s) ==
    /\ socket[s] = "new"
    /\ IF s \in Blocked \/ Cardinality(Live) > MaxConnections
       THEN /\ socket' = [socket EXCEPT ![s] = "closed"]
            /\ UNCHANGED <<mainQ, ioQ, mainVars, queue, id, closed, handlers,
                           reading, writing, header, received, toBeSent,
                           sending, seen>>
       ELSE /\ socket' = [socket EXCEPT ![s] = "open"]
            /\ IF PoolReady
               THEN pool' = Tail(pool) /\ UNCHANGED next
               ELSE next' = (next + 1) % (MaxId + 1) /\ UNCHANGED pool
            /\ handlerId' = [handlerId EXCEPT ![s] = NextId]
            /\ handlerMap' = [handlerMap EXCEPT ![NextId] = s]
            /\ PostTo(ThreadOf[s], <<InitSession(s, NextId)>>)
            /\ outbox' = [outbox EXCEPT ![s] = << <<s, 1>> >>]
            /\ mainQ' = Append(mainQ, PackOut(s))
            /\ sent' = [sent EXCEPT ![s] = << <<s, 1>> >>]
            /\ owed' = [owed EXCEPT ![s] = 1]
            /\ UNCHANGED <<queue, id, closed, handlers, reading, writing,
                           header, received, toBeSent, sending, peer, arrived,
                           written, delivered, closeCalls, onClosed>>

\* TCPSessionHandler::Send, called by a callback or a timer of the main thread.
Send(s) ==
    LET m == <<s, Len(sent[s]) + 1>>
    IN /\ handlerId[s] # Invalid
       /\ Len(sent[s]) < MaxSends[s]
       /\ mainQ' = IF outbox[s] = <<>> THEN Append(mainQ, PackOut(s)) ELSE mainQ
       /\ outbox' = [outbox EXCEPT ![s] = Append(@, m)]
       /\ sent' = [sent EXCEPT ![s] = Append(@, m)]
       /\ owed' = IF closeCalls[s] > 0 THEN owed
                  ELSE [owed EXCEPT ![s] = @ + 1]
       /\ UNCHANGED <<ioQ, handlerMap, next, pool, handlerId, ioVars, peer,
                      arrived, written, delivered, closeCalls, onClosed>>

\* The handler's PackMessageList: what it posts to the session, if anything.
Packed(s) ==
    IF outbox[s] = <<>> THEN <<>> ELSE <<ToSession(handlerId[s], outbox[s])>>

\* Faulty variant: Close does not flush the outbox.
CloseUnpacked(s) ==
    /\ handlerId[s] # Invalid
    /\ closeCalls[s] < MaxCloses
    /\ PostTo(ThreadOf[s], <<CloseSession(handlerId[s])>>)
    /\ closeCalls' = [closeCalls EXCEPT ![s] = @ + 1]
    /\ UNCHANGED <<mainQ, mainVars, ioVars, peer, arrived, sent, written,
                   delivered, owed, onClosed>>

\* TCPSessionHandler::Close
Close(s) ==
    /\ handlerId[s] # Invalid
    /\ closeCalls[s] < MaxCloses
    /\ PostTo(ThreadOf[s], Append(Packed(s), CloseSession(handlerId[s])))
    /\ outbox' = [outbox EXCEPT ![s] = <<>>]
    /\ closeCalls' = [closeCalls EXCEPT ![s] = @ + 1]
    /\ UNCHANGED <<mainQ, handlerMap, next, pool, handlerId, ioVars, peer,
                   arrived, sent, written, delivered, owed, onClosed>>

\* Faulty variant: the batch stays in messages_to_be_sent_.
RunPackOutNoSwap ==
    LET s == Head(mainQ).s
    IN /\ MainRuns("pack_out")
       /\ mainQ' = Tail(mainQ)
       /\ PostTo(ThreadOf[s], Packed(s))
       /\ UNCHANGED <<mainVars, ioVars, seen>>

RunPackOut ==
    LET s == Head(mainQ).s
    IN /\ MainRuns("pack_out")
       /\ mainQ' = Tail(mainQ)
       /\ PostTo(ThreadOf[s], Packed(s))
       /\ outbox' = [outbox EXCEPT ![s] = <<>>]
       /\ UNCHANGED <<handlerMap, next, pool, handlerId, ioVars, seen>>

\* SendMessageListToHandler: the messages are dropped if the session's id is
\* not registered any more.
RunToHandler ==
    LET task == Head(mainQ)
        h == handlerMap[id[task.s]]
    IN /\ MainRuns("to_handler")
       /\ mainQ' = Tail(mainQ)
       /\ delivered' = IF h = None THEN delivered
                       ELSE [delivered EXCEPT ![h] = @ \o task.msgs]
       /\ UNCHANGED <<ioQ, mainVars, ioVars, peer, arrived, sent, written,
                      closeCalls, owed, onClosed>>

\* Faulty variant: the id is not given back.
RunOnSessionCloseNoPut ==
    LET n == Head(mainQ).id
        h == handlerMap[n]
    IN /\ MainRuns("on_close")
       /\ h # None
       /\ mainQ' = Tail(mainQ)
       /\ onClosed' = [onClosed EXCEPT ![h] = @ + 1]
       /\ handlerId' = [handlerId EXCEPT ![h] = Invalid]
       /\ handlerMap' = [handlerMap EXCEPT ![n] = None]
       /\ UNCHANGED <<ioQ, next, pool, outbox, ioVars, peer, arrived, sent,
                      written, delivered, closeCalls, owed>>

\* TCPIOThreadManager::OnSessionClose
RunOnSessionClose ==
    LET n == Head(mainQ).id
        h == handlerMap[n]
    IN /\ MainRuns("on_close")
       /\ mainQ' = Tail(mainQ)
       /\ IF h = None
          THEN UNCHANGED <<handlerMap, pool, handlerId, onClosed>>
          ELSE /\ onClosed' = [onClosed EXCEPT ![h] = @ + 1]
               /\ handlerId' = [handlerId EXCEPT ![h] = Invalid]
               /\ handlerMap' = [handlerMap EXCEPT ![n] = None]
               /\ pool' = Append(pool, n)
       /\ UNCHANGED <<ioQ, next, outbox, ioVars, peer, arrived, sent, written,
                      delivered, closeCalls, owed>>

-----------------------------------------------------------------------------
(* The I/O threads.                                                        *)

\* Faulty variant: HandleClose does not wait for pending operations.
HandleCloseAtOnce(s, n) ==
    /\ mainQ' = mainQ \o <<OnSessionClose(id[s])>> \o
                (IF received[s] = <<>> THEN <<>>
                 ELSE <<ToHandler(s, received[s])>>)
    /\ received' = [received EXCEPT ![s] = <<>>]
    /\ socket' = [socket EXCEPT ![s] = "closed"]
    /\ queue' = [queue EXCEPT ![ThreadOf[s]][id[s]] = None]

\* TCPSession::HandleClose with num_handlers_ = n: OnSessionClose is posted
\* before the messages that have not been packed yet.
HandleClose(s, n) ==
    IF n > 0 THEN UNCHANGED <<mainQ, received, socket, queue>>
    ELSE /\ mainQ' = mainQ \o <<OnSessionClose(id[s])>> \o
                     (IF received[s] = <<>> THEN <<>>
                      ELSE <<ToHandler(s, received[s])>>)
         /\ received' = [received EXCEPT ![s] = <<>>]
         /\ socket' = [socket EXCEPT ![s] = "closed"]
         /\ queue' = [queue EXCEPT ![ThreadOf[s]][id[s]] = None]

\* TCPSession::Init: the header is read first.
RunInit(s) ==
    LET n == Head(ioQ[ThreadOf[s]]).id
    IN /\ Runs(s, "init")
       /\ ioQ' = Took(ThreadOf[s])
       /\ id' = [id EXCEPT ![s] = n]
       /\ queue' = [queue EXCEPT ![ThreadOf[s]][n] = s]
       /\ reading' = [reading EXCEPT ![s] = "armed"]
       /\ handlers' = [handlers EXCEPT ![s] = @ + 1]
       /\ UNCHANGED <<mainQ, mainVars, closed, writing, header, received,
                      toBeSent, sending, socket, seen>>

\* TCPSessionQueue::Get; a disposed handler asks for kInvalidTCPSessionID.
SessionAt(t, n) == IF n = Invalid THEN None ELSE queue[t][n]

\* SendMessageListToSession and TCPSession::PostMessageList
RunToSession(t) ==
    LET task == Head(ioQ[t])
        s == SessionAt(t, task.id)
    IN /\ RunsFor(t, "to_session")
       /\ ioQ' = Took(t)
       /\ IF s = None \/ closed[s]
          THEN UNCHANGED <<writing, handlers, sending, toBeSent>>
          ELSE IF sending[s] = <<>>
          THEN /\ sending' = [sending EXCEPT ![s] = toBeSent[s] \o task.msgs]
               /\ toBeSent' = [toBeSent EXCEPT ![s] = <<>>]
               /\ writing' = [writing EXCEPT ![s] = "armed"]
               /\ handlers' = [handlers EXCEPT ![s] = @ + 1]
          ELSE /\ toBeSent' = [toBeSent EXCEPT ![s] = @ \o task.msgs]
               /\ UNCHANGED <<writing, handlers, sending>>
       /\ UNCHANGED <<mainQ, mainVars, queue, id, closed, reading, header,
                      received, socket, seen>>

\* Faulty variant: HandleClose is not called.
RunCloseSessionFlagOnly(t) ==
    LET s == SessionAt(t, Head(ioQ[t]).id)
    IN /\ RunsFor(t, "close")
       /\ ioQ' = Took(t)
       /\ closed' = IF s = None THEN closed ELSE [closed EXCEPT ![s] = TRUE]
       /\ UNCHANGED <<mainQ, received, socket, queue, mainVars, id, handlers,
                      reading, writing, header, toBeSent, sending, seen>>

\* CloseSession and TCPSession::Close
RunCloseSession(t) ==
    LET s == SessionAt(t, Head(ioQ[t]).id)
    IN /\ RunsFor(t, "close")
       /\ ioQ' = Took(t)
       /\ IF s = None \/ closed[s]
          THEN UNCHANGED <<mainQ, closed, received, socket, queue>>
          ELSE /\ closed' = [closed EXCEPT ![s] = TRUE]
               /\ HandleClose(s, handlers[s])
       /\ UNCHANGED <<mainVars, id, handlers, reading, writing, header,
                      toBeSent, sending, seen>>

\* The session's PackMessageList
RunPackIn(s) ==
    /\ Runs(s, "pack_in")
    /\ ioQ' = Took(ThreadOf[s])
    /\ mainQ' = IF received[s] = <<>> THEN mainQ
                ELSE Append(mainQ, ToHandler(s, received[s]))
    /\ received' = [received EXCEPT ![s] = <<>>]
    /\ UNCHANGED <<mainVars, queue, id, closed, handlers, reading, writing,
                   header, toBeSent, sending, socket, seen>>

\* TCPSession::HandleRead when the read failed or the session is closing.
HandleReadClosed(s) ==
    /\ Runs(s, "read")
    /\ Head(ioQ[ThreadOf[s]]).res = "error" \/ closed[s]
    /\ ioQ' = Took(ThreadOf[s])
    /\ reading' = [reading EXCEPT ![s] = "no"]
    /\ handlers' = [handlers EXCEPT ![s] = @ - 1]
    /\ closed' = [closed EXCEPT ![s] = TRUE]
    /\ HandleClose(s, handlers[s] - 1)
    /\ UNCHANGED <<mainVars, id, writing, header, toBeSent, sending, seen>>

\* TCPSession::HandleRead otherwise: a header, or the message it announced.
HandleRead(s) ==
    LET t == ThreadOf[s]
        res == Head(ioQ[t]).res
        m == <<s, arrived[s] + 1>>
    IN /\ Runs(s, "read")
       /\ res # "error" /\ ~closed[s]
       /\ IF header[s] = "none"
          THEN /\ header' = [header EXCEPT ![s] = res]
               /\ ioQ' = Took(t)
               /\ UNCHANGED <<received, arrived>>
          ELSE /\ header' = [header EXCEPT ![s] = "none"]
               /\ received' = [received EXCEPT ![s] = Append(@, m)]
               /\ arrived' = [arrived EXCEPT ![s] = @ + 1]
               /\ ioQ' = IF received[s] = <<>>
                         THEN [ioQ EXCEPT ![t] = Append(Tail(@), PackIn(s))]
                         ELSE Took(t)
       /\ IF header'[s] = "zero"       \* BytesWannaRead() is 0
          THEN /\ reading' = [reading EXCEPT ![s] = "no"]
               /\ handlers' = [handlers EXCEPT ![s] = @ - 1]
          ELSE /\ reading' = [reading EXCEPT ![s] = "armed"]
               /\ UNCHANGED handlers
       /\ UNCHANGED <<mainQ, mainVars, queue, id, closed, writing, toBeSent,
                      sending, socket, peer, sent, written, delivered,
                      closeCalls, owed, onClosed>>

\* TCPSession::HandleWrite after an error: buffer_sending_ is kept.
HandleWriteError(s) ==
    /\ Runs(s, "write")
    /\ Head(ioQ[ThreadOf[s]]).res = "error"
    /\ ioQ' = Took(ThreadOf[s])
    /\ writing' = [writing EXCEPT ![s] = "no"]
    /\ handlers' = [handlers EXCEPT ![s] = @ - 1]
    /\ closed' = [closed EXCEPT ![s] = TRUE]
    /\ HandleClose(s, handlers[s] - 1)
    /\ UNCHANGED <<mainVars, id, reading, header, toBeSent, sending, seen>>

\* TCPSession::HandleWrite after success: write what has gathered meanwhile.
HandleWrite(s) ==
    /\ Runs(s, "write")
    /\ Head(ioQ[ThreadOf[s]]).res = "ok"
    /\ ioQ' = Took(ThreadOf[s])
    /\ written' = [written EXCEPT ![s] = @ \o sending[s]]
    /\ sending' = [sending EXCEPT ![s] = toBeSent[s]]
    /\ toBeSent' = [toBeSent EXCEPT ![s] = <<>>]
    /\ IF toBeSent[s] # <<>>
       THEN /\ writing' = [writing EXCEPT ![s] = "armed"]
            /\ UNCHANGED <<handlers, mainQ, received, socket, queue>>
       ELSE /\ writing' = [writing EXCEPT ![s] = "no"]
            /\ handlers' = [handlers EXCEPT ![s] = @ - 1]
            /\ IF closed[s] THEN HandleClose(s, handlers[s] - 1)
               ELSE UNCHANGED <<mainQ, received, socket, queue>>
    /\ UNCHANGED <<mainVars, id, closed, reading, header, peer, arrived, sent,
                   delivered, closeCalls, owed, onClosed>>

-----------------------------------------------------------------------------
(* The peer and the network.                                               *)

\* An armed read completes: with a header, a message, or an error.
ReadCompletes(s, res) ==
    /\ reading[s] = "armed"
    /\ CASE res = "error"  -> peer[s] = "gone"
         [] res = "body"   -> peer[s] = "up" /\ header[s] = "length"
         [] OTHER          -> /\ peer[s] = "up" /\ header[s] = "none"
                              /\ arrived[s] < MaxReads
    /\ reading' = [reading EXCEPT ![s] = "done"]
    /\ PostTo(ThreadOf[s], <<ReadDone(s, res)>>)
    /\ UNCHANGED <<mainQ, mainVars, queue, id, closed, handlers, writing,
                   header, received, toBeSent, sending, socket, seen>>

\* An armed write completes; it can fail only if the peer has gone.
WriteCompletes(s, res) ==
    /\ writing[s] = "armed"
    /\ res = "error" => peer[s] = "gone"
    /\ writing' = [writing EXCEPT ![s] = "done"]
    /\ PostTo(ThreadOf[s], <<WriteDone(s, res)>>)
    /\ UNCHANGED <<mainQ, mainVars, queue, id, closed, handlers, reading,
                   header, received, toBeSent, sending, socket, seen>>

PeerGoes(s) ==
    /\ socket[s] = "open" /\ peer[s] = "up"
    /\ peer' = [peer EXCEPT ![s] = "gone"]
    /\ UNCHANGED <<mainQ, ioQ, mainVars, ioVars, arrived, sent, written,
                   delivered, closeCalls, owed, onClosed>>

-----------------------------------------------------------------------------
Init ==
    /\ mainQ = <<>>
    /\ ioQ = [t \in Threads |-> <<>>]
    /\ handlerMap = [n \in Ids |-> None]
    /\ next = 1 /\ pool = <<>>
    /\ handlerId = [s \in Sessions |-> Invalid]
    /\ outbox = [s \in Sessions |-> <<>>]
    /\ queue = [t \in Threads |-> [n \in Ids |-> None]]
    /\ id = [s \in Sessions |-> Invalid]
    /\ closed = [s \in Sessions |-> FALSE]
    /\ handlers = [s \in Sessions |-> 0]
    /\ reading = [s \in Sessions |-> "no"]
    /\ writing = [s \in Sessions |-> "no"]
    /\ header = [s \in Sessions |-> "none"]
    /\ received = [s \in Sessions |-> <<>>]
    /\ toBeSent = [s \in Sessions |-> <<>>]
    /\ sending = [s \in Sessions |-> <<>>]
    /\ socket = [s \in Sessions |-> "new"]
    /\ peer = [s \in Sessions |-> "up"]
    /\ arrived = [s \in Sessions |-> 0]
    /\ sent = [s \in Sessions |-> <<>>]
    /\ written = [s \in Sessions |-> <<>>]
    /\ delivered = [s \in Sessions |-> <<>>]
    /\ closeCalls = [s \in Sessions |-> 0]
    /\ owed = [s \in Sessions |-> 0]
    /\ onClosed = [s \in Sessions |-> 0]

MainTask == RunPackOut \/ RunToHandler \/ RunOnSessionClose

MainNext == MainTask \/ \E s \in Sessions : Accept(s) \/ Send(s) \/ Close(s)

IoTask(t) ==
    \/ RunToSession(t) \/ RunCloseSession(t)
    \/ \E s \in Sessions :
        /\ ThreadOf[s] = t
        /\ \/ RunInit(s) \/ RunPackIn(s) \/ HandleReadClosed(s)
           \/ HandleRead(s) \/ HandleWriteError(s) \/ HandleWrite(s)

PeerNext ==
    \E s \in Sessions :
        \/ \E res \in {"length", "zero", "body", "error"} : ReadCompletes(s, res)
        \/ \E res \in {"ok", "error"} : WriteCompletes(s, res)
        \/ PeerGoes(s)

Next == MainNext \/ (\E t \in Threads : IoTask(t)) \/ PeerNext

Spec == Init /\ [][Next]_vars

\* The threads run their tasks, the kernel finishes a write, and a read that
\* waits for a vanished peer fails.  Nothing makes a peer send or leave.
FairSpec ==
    /\ Spec
    /\ WF_vars(MainTask)
    /\ \A t \in Threads : WF_vars(IoTask(t))
    /\ \A s \in Sessions :
        /\ WF_vars(\E res \in {"ok", "error"} : WriteCompletes(s, res))
        /\ WF_vars(ReadCompletes(s, "error"))

-----------------------------------------------------------------------------
(* Properties.                                                             *)

\* HandleRead and the second HandleWrite are bound to a raw `this`: while an
\* operation is outstanding the session queue still holds the session, under
\* its id, which keeps it alive.  num_handlers_ counts these operations.
KeptAlive ==
    \A s \in Sessions :
        LET pending == {d \in {"r", "w"} :
                          IF d = "r" THEN reading[s] # "no" ELSE writing[s] # "no"}
        IN /\ handlers[s] = Cardinality(pending)
           /\ pending # {} => queue[ThreadOf[s]][id[s]] = s /\ socket[s] = "open"

\* Ids are reused, and the two halves of a connection address each other by id
\* only; still the peer of a session gets the messages its own handler sent, and
\* OnMessage those of the handler's own peer, each once and in order; and when
\* OnClose is called the handler has got every message that was read, although
\* HandleClose posts OnSessionClose before the rest of messages_received_.
MessagesInOrder ==
    \A s \in Sessions :
        /\ IsPrefix(written[s], sent[s])
        /\ delivered[s] = [i \in 1 .. Len(delivered[s]) |-> <<s, i>>]
        /\ Len(delivered[s]) <= arrived[s]
        /\ onClosed[s] = 1 => Len(delivered[s]) = arrived[s]

\* "the underlying TCPSession will wait until all data in write-buffer has been
\* sent": when a handler closed the session and the peer stayed, every message
\* given to Send before Close is written when the socket closes.
CloseFlushes ==
    \A s \in Sessions :
        socket[s] = "closed" /\ onClosed[s] = 1 /\ peer[s] = "up" =>
            Len(written[s]) >= owed[s]

\* The ids of the connections are those of the id generator: every accepted or
\* closed connection is a step of IdGenerator, all other steps leave it alone.
IdGen == INSTANCE IdGenerator WITH live <- Live
IdsImplemented == IdGen!Spec

\* Close() of a handler whose peer has gone is followed by OnClose.
CloseNotifies ==
    \A s \in Sessions :
        closeCalls[s] > 0 /\ peer[s] = "gone" ~> onClosed[s] = 1

=============================================================================

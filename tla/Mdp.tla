--------------------------------- MODULE Mdp ---------------------------------
(***************************************************************************)
(* The broker of module Broker composed with the worker API, class mdwrk   *)
(* of workers/worker_common/mdwrkapi.hpp and its thread_recv_run (the      *)
(* Python API mdwrkapi.py follows the same steps).                         *)
(*                                                                         *)
(* A worker process has a receive thread, which talks to the broker, and a *)
(* main thread.  m_handler passes requests to the main thread's queue (an  *)
(* io_service, or msgQueue of pvpServer.cpp), and replies come back        *)
(* through the inproc socket m_pair.  Replies that answer no request       *)
(* (timers) are left out.  Between worker and broker a message is queued in *)
(* each direction.  Broker heartbeats are left out: the worker does        *)
(* nothing with them except not to time out.                               *)
(***************************************************************************)
EXTENDS Broker, SequencesExt

CONSTANTS
    NoClient,         \* m_reply_to is empty
    MaxWorkerRestarts,\* bound: restarts of worker processes
    MaxUnread         \* bound: a worker with more unread messages sends no heartbeat

ASSUME MdpAssumption ==
    NoClient \notin Clients /\ MaxWorkerRestarts \in Nat /\ MaxUnread \in Nat

VARIABLES
    up,        \* per worker: messages on their way to the broker
    down,      \* per worker: messages on their way to the worker
    replyTo,   \* mdwrk::m_reply_to
    inbox,     \* per worker: requests posted to the main thread
    pair,      \* per worker: replies in m_pair, each named by its request
    handled,   \* requests the main threads have processed, in order
    answered,  \* replies the broker forwarded: request and client
    workerRestarts

workerVars == <<up, down, replyTo, inbox, pair, handled, answered, workerRestarts>>

Ready     == [op |-> "READY"]
Heartbeat == [op |-> "HEARTBEAT"]
Reply(req, c) == [op |-> "REPLY", req |-> req, to |-> c]
Request(req) == [op |-> "REQUEST", req |-> req]
DisconnectMsg == [op |-> "DISCONNECT"]

-----------------------------------------------------------------------------
(* The broker's side: what its handler wrote to the socket is queued.      *)

\* Of the requests the handler sent, those for w, in the order they were sent.
RequestsFor(w) ==
    LET mine == {i \in DOMAIN out'.to : out'.to[i] = w}
        nth(k) == CHOOSE i \in mine : Cardinality({j \in mine : j <= i}) = k
    IN [k \in 1 .. Cardinality(mine) |-> Request(out'.sent[nth(k)])]

Delivered(w) ==
    CASE out'.kind = "request" -> RequestsFor(w)
      [] out'.kind = "disconnect" /\ out'.to = w -> <<DisconnectMsg>>
      [] OTHER -> <<>>

Deliver == down' = [w \in Workers |-> down[w] \o Delivered(w)]

BrokerTakes(w) ==
    LET m == Head(up[w])
    IN /\ up[w] # <<>>
       /\ up' = [up EXCEPT ![w] = Tail(@)]
       /\ \/ /\ m = Ready
             /\ \E o \in Offers : o[1] = w /\ WorkerReady(w, o[2], o[3])
             /\ UNCHANGED answered
          \/ m = Heartbeat /\ WorkerHeartbeat(w) /\ UNCHANGED answered
          \/ /\ m.op = "REPLY"
             /\ WorkerReply(w, m.to)
             /\ answered' = IF fault' = "none"
                            THEN Append(answered, [req |-> m.req, to |-> m.to])
                            ELSE answered
       /\ Deliver
       /\ UNCHANGED <<replyTo, inbox, pair, handled, workerRestarts>>

ClientSends(c, n) ==
    /\ ClientRequest(c, n)
    /\ Deliver
    /\ UNCHANGED <<up, replyTo, inbox, pair, handled, answered, workerRestarts>>

\* The broker process dies and is started again: what it had sent and was not
\* yet read is lost; what workers have queued for it may be lost or kept.
BrokerRestarts ==
    /\ Restart
    /\ down' = [w \in Workers |-> <<>>]
    /\ up' \in {up, [w \in Workers |-> <<>>]}
    /\ UNCHANGED <<replyTo, inbox, pair, handled, answered, workerRestarts>>

Silence(w) ==
    /\ ClockPasses(w)
    /\ UNCHANGED workerVars

-----------------------------------------------------------------------------
(* The worker's side: thread_recv_run.                                     *)

\* delete_connect_to_broker drops what the socket still holds (linger is 0) but
\* not what has left it; connect_to_broker sends READY.
Reconnect(w) ==
    /\ \E k \in 0 .. Len(up[w]) :
          up' = [up EXCEPT ![w] = Append(SubSeq(@, 1, k), Ready)]
    /\ down' = [down EXCEPT ![w] = <<>>]

\* Faulty variant: the message that was read stays in the queue.
WorkerRequestTwice(w) ==
    /\ down[w] # <<>> /\ Head(down[w]).op = "REQUEST"
    /\ Len(inbox[w]) < 2
    /\ replyTo' = [replyTo EXCEPT ![w] = Head(down[w]).req.client]
    /\ inbox' = [inbox EXCEPT ![w] = Append(@, Head(down[w]).req)]
    /\ UNCHANGED <<up, down, pair, handled, answered, workerRestarts, vars>>

\* A REQUEST: its client becomes the return address, and m_handler posts it.
WorkerRequest(w) ==
    /\ down[w] # <<>> /\ Head(down[w]).op = "REQUEST"
    /\ replyTo' = [replyTo EXCEPT ![w] = Head(down[w]).req.client]
    /\ inbox' = [inbox EXCEPT ![w] = Append(@, Head(down[w]).req)]
    /\ down' = [down EXCEPT ![w] = Tail(@)]
    /\ UNCHANGED <<up, pair, handled, answered, workerRestarts, vars>>

\* The main thread processes a request, with or without a reply.
WorkerProcess(w) ==
    /\ inbox[w] # <<>>
    /\ inbox' = [inbox EXCEPT ![w] = Tail(@)]
    /\ handled' = Append(handled, Head(inbox[w]))
    /\ pair' \in {pair, [pair EXCEPT ![w] = Append(@, Head(inbox[w]))]}
    /\ UNCHANGED <<up, down, replyTo, answered, workerRestarts, vars>>

\* Faulty variant: DISCONNECT is treated like a heartbeat.
WorkerIgnoresDisconnect(w) ==
    /\ down[w] # <<>> /\ Head(down[w]) = DisconnectMsg
    /\ down' = [down EXCEPT ![w] = Tail(@)]
    /\ UNCHANGED <<up, replyTo, inbox, pair, handled, answered, workerRestarts, vars>>

\* DISCONNECT: the socket is replaced and the service registered again.
WorkerDisconnected(w) ==
    /\ down[w] # <<>> /\ Head(down[w]) = DisconnectMsg
    /\ Reconnect(w)
    /\ UNCHANGED <<replyTo, inbox, pair, handled, answered, workerRestarts, vars>>

\* A reply of the main thread; __send addresses it to m_reply_to.  Input that
\* has arrived comes first, but it may still be on its way.
WorkerSends(w) ==
    /\ pair[w] # <<>>
    /\ pair' = [pair EXCEPT ![w] = Tail(@)]
    /\ up' = [up EXCEPT ![w] = Append(@, Reply(Head(pair[w]), replyTo[w]))]
    /\ UNCHANGED <<down, replyTo, inbox, handled, answered, workerRestarts, vars>>

\* m_heartbeat_at has passed (and the last heartbeat has been taken).
WorkerHeartbeats(w) ==
    /\ up[w] = <<>> /\ Len(down[w]) <= MaxUnread
    /\ up' = [up EXCEPT ![w] = <<Heartbeat>>]
    /\ UNCHANGED <<down, replyTo, inbox, pair, handled, answered, workerRestarts, vars>>

\* m_liveness has passed: a broker that knows the worker would have sent a
\* heartbeat.
WorkerTimesOut(w) ==
    /\ down[w] = <<>> /\ up[w] = <<>>
    /\ w \notin registered \/ fault # "none"
    /\ Reconnect(w)
    /\ UNCHANGED <<replyTo, inbox, pair, handled, answered, workerRestarts, vars>>

WorkerRestart(w) ==
    /\ workerRestarts < MaxWorkerRestarts
    /\ workerRestarts' = workerRestarts + 1
    /\ Reconnect(w)
    /\ replyTo' = [replyTo EXCEPT ![w] = NoClient]
    /\ inbox' = [inbox EXCEPT ![w] = <<>>]
    /\ pair' = [pair EXCEPT ![w] = <<>>]
    /\ UNCHANGED <<handled, answered, vars>>

-----------------------------------------------------------------------------
MdpInit ==
    /\ Init
    /\ up = [w \in Workers |-> <<Ready>>]
    /\ down = [w \in Workers |-> <<>>]
    /\ replyTo = [w \in Workers |-> NoClient]
    /\ inbox = [w \in Workers |-> <<>>]
    /\ pair = [w \in Workers |-> <<>>]
    /\ handled = <<>> /\ answered = <<>>
    /\ workerRestarts = 0

WorkerStep(w) ==
    \/ WorkerRequest(w) \/ WorkerDisconnected(w) \/ WorkerSends(w)
    \/ WorkerTimesOut(w)

MdpNext ==
    \/ \E c \in Clients, n \in Names : ClientSends(c, n)
    \/ BrokerRestarts
    \/ \E w \in Workers :
          \/ BrokerTakes(w) \/ Silence(w)
          \/ WorkerStep(w) \/ WorkerProcess(w)
          \/ WorkerHeartbeats(w) \/ WorkerRestart(w)

mdpVars == <<vars, workerVars>>

MdpSpec == MdpInit /\ [][MdpNext]_mdpVars

\* The broker reads its socket, workers read theirs and send their heartbeats.
MdpFairSpec ==
    /\ MdpSpec
    /\ \A w \in Workers :
        /\ WF_mdpVars(BrokerTakes(w))
        /\ WF_mdpVars(WorkerStep(w))
        /\ WF_mdpVars(WorkerHeartbeats(w))

-----------------------------------------------------------------------------
(* Properties.                                                             *)

\* Nothing is sent again: whatever restarts and reconnections happen, no request is
\* handled twice, by one worker or by two, and none is answered twice or before it
\* was handled.
AtMostOnce ==
    /\ IsInjective(handled)
    /\ \A i, j \in DOMAIN answered : answered[i].req = answered[j].req => i = j
    /\ \A i \in DOMAIN answered : answered[i].req \in Range(handled)

\* The workers find their way back: whatever messages were lost, from some time
\* on the broker lists every worker for its service, unless it has died.
WorkersReturn ==
    \A o \in Offers :
        []<>(fault # "none" \/ o[1] \in Range(services[o[2]].waiting))

=============================================================================

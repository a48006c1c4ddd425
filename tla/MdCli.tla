-------------------------------- MODULE MdCli --------------------------------
(***************************************************************************)
(* The gateway's side of the broker protocol: class mdcli of               *)
(* logic_server/mdcliapi2.hpp and its thread thread_recv_run_in_gateway.   *)
(*                                                                         *)
(* The main thread queues requests and signals the receive thread through  *)
(* an inproc socket; the receive thread alone talks to the brokers.  The   *)
(* queue is guarded by requests_queue_mutex, but m_broker_ready, which     *)
(* both threads write, is not.  The steps below are the accesses to this   *)
(* shared state.                                                           *)
(***************************************************************************)
EXTENDS Integers, Sequences, FiniteSets

CONSTANTS
    Count,         \* m_broker_count; brokers are 1 .. Count
    MaxRequests,   \* bound: calls of send
    MaxExpiries,   \* bound: times a broker is silent for HEARTBEAT_INTERVAL
    MaxRestarts    \* bound: restarts of a broker

Brokers == 1 .. Count

ASSUME MdCliAssumption ==
    /\ Count \in Nat \ {0}
    /\ MaxRequests \in Nat /\ MaxExpiries \in Nat /\ MaxRestarts \in Nat

VARIABLES
    mainPc,      \* main thread: "idle", or "reset" inside send
    recvPc,      \* receive thread: "poll", "scan", "check", "lock" or "drain"
    ready,       \* m_broker_ready
    requests,    \* m_requests
    signals,     \* signals waiting in the inproc socket
    status,      \* Broker::m_status
    fresh,       \* m_heartbeat_at >= s_clock()
    nextB,       \* m_next_broker
    known,       \* brokers that have the gateway in their m_clients
    submitted,   \* requests given to send
    sent,        \* requests sent to a broker
    expiries, restarts

vars == <<mainPc, recvPc, ready, requests, signals, status, fresh, nextB, known,
          submitted, sent, expiries, restarts>>

\* The receive thread holds the mutex while it drains the queue.
Locked == recvPc = "drain"

-----------------------------------------------------------------------------
(* The main thread: send.                                                  *)

SendReset ==
    /\ mainPc = "idle"
    /\ submitted < MaxRequests
    /\ submitted' = submitted + 1
    /\ ready' = FALSE
    /\ mainPc' = "reset"
    /\ UNCHANGED <<recvPc, requests, signals, status, fresh, nextB, known, sent,
                   expiries, restarts>>

\* push_back and send_signal, under the mutex.
SendQueue ==
    /\ mainPc = "reset"
    /\ ~Locked
    /\ requests' = Append(requests, submitted)
    /\ signals' = signals + 1
    /\ mainPc' = "idle"
    /\ UNCHANGED <<recvPc, ready, status, fresh, nextB, known, submitted, sent,
                   expiries, restarts>>

-----------------------------------------------------------------------------
(* The receive thread.                                                     *)

TakeSignal ==
    /\ recvPc = "poll" /\ signals > 0
    /\ signals' = signals - 1
    /\ recvPc' = "scan"
    /\ UNCHANGED <<mainPc, ready, requests, status, fresh, nextB, known,
                   submitted, sent, expiries, restarts>>

\* Faulty variant: a message of a broker does not look at the queue.
ReceiveNoScan(b) ==
    /\ recvPc = "poll" /\ b \in known
    /\ status' = [status EXCEPT ![b] = TRUE]
    /\ fresh' = [fresh EXCEPT ![b] = TRUE]
    /\ UNCHANGED <<mainPc, recvPc, ready, requests, signals, nextB, known,
                   submitted, sent, expiries, restarts>>

\* A heartbeat or a reply of broker b, which sends heartbeats to the clients it
\* knows; m_requests.empty() is read without the mutex.
Receive(b) ==
    /\ recvPc = "poll" /\ b \in known
    /\ status' = [status EXCEPT ![b] = TRUE]
    /\ fresh' = [fresh EXCEPT ![b] = TRUE]
    /\ recvPc' = IF requests = <<>> THEN "poll" ELSE "scan"
    /\ UNCHANGED <<mainPc, ready, requests, signals, nextB, known, submitted,
                   sent, expiries, restarts>>

\* send_requests, the loop over the brokers: a broker that has been silent too
\* long is sent a heartbeat, which makes it know the gateway.
Scan ==
    /\ recvPc = "scan"
    /\ status' = [b \in Brokers |-> status[b] /\ fresh[b]]
    /\ known' = known \cup {b \in Brokers : ~status'[b]}
    /\ ready' = (ready \/ \E b \in Brokers : status'[b])
    /\ recvPc' = "check"
    /\ UNCHANGED <<mainPc, requests, signals, fresh, nextB, submitted, sent,
                   expiries, restarts>>

Check ==
    /\ recvPc = "check"
    /\ recvPc' = IF ready THEN "lock" ELSE "poll"
    /\ UNCHANGED <<mainPc, ready, requests, signals, status, fresh, nextB, known,
                   submitted, sent, expiries, restarts>>

\* Only one step of send holds the mutex, so it is free here.
Lock ==
    /\ recvPc = "lock"
    /\ recvPc' = "drain"
    /\ UNCHANGED <<mainPc, ready, requests, signals, status, fresh, nextB, known,
                   submitted, sent, expiries, restarts>>

\* Faulty variant: the request is not popped.
DrainKeeps ==
    /\ recvPc = "drain"
    /\ sent' = IF requests # <<>> /\ status[nextB]
               THEN Append(sent, Head(requests)) ELSE sent
    /\ recvPc' = "poll"
    /\ UNCHANGED <<mainPc, ready, requests, signals, status, fresh, nextB, known,
                   submitted, expiries, restarts>>

\* ++m_next_broker, back to the first broker after the last.
Advance == (nextB % Count) + 1

\* One turn of the loop over m_requests, round robin over the brokers.
Drain ==
    /\ recvPc = "drain"
    /\ IF requests = <<>>
       THEN recvPc' = "poll" /\ UNCHANGED <<requests, sent, nextB>>
       ELSE /\ nextB' = Advance
            /\ IF status[nextB]
               THEN /\ sent' = Append(sent, Head(requests))
                    /\ requests' = Tail(requests)
               ELSE UNCHANGED <<sent, requests>>
            /\ UNCHANGED recvPc
    /\ UNCHANGED <<mainPc, ready, signals, status, fresh, known, submitted,
                   expiries, restarts>>

-----------------------------------------------------------------------------
(* Time and the brokers.                                                   *)

Expire(b) ==
    /\ expiries < MaxExpiries /\ fresh[b]
    /\ expiries' = expiries + 1
    /\ fresh' = [fresh EXCEPT ![b] = FALSE]
    /\ UNCHANGED <<mainPc, recvPc, ready, requests, signals, status, nextB,
                   known, submitted, sent, restarts>>

\* A restarted broker has no clients until one sends it a heartbeat.
Restart(b) ==
    /\ restarts < MaxRestarts
    /\ restarts' = restarts + 1
    /\ known' = known \ {b}
    /\ UNCHANGED <<mainPc, recvPc, ready, requests, signals, status, fresh,
                   nextB, submitted, sent, expiries>>

\* thread_recv_run_in_gateway starts with a call of send_requests; nothing has
\* been heard from any broker.
Init ==
    /\ mainPc = "idle" /\ recvPc = "scan"
    /\ ready = FALSE /\ requests = <<>> /\ signals = 0
    /\ status = [b \in Brokers |-> FALSE]
    /\ fresh = [b \in Brokers |-> FALSE]
    /\ nextB = 1 /\ known = {}
    /\ submitted = 0 /\ sent = <<>>
    /\ expiries = 0 /\ restarts = 0

RecvStep == TakeSignal \/ Scan \/ Check \/ Lock \/ Drain

Next ==
    \/ SendReset \/ SendQueue \/ RecvStep
    \/ \E b \in Brokers : Receive(b) \/ Expire(b) \/ Restart(b)

Spec == Init /\ [][Next]_vars

\* Both threads run; a broker that knows the gateway keeps sending heartbeats.
FairSpec ==
    /\ Spec
    /\ WF_vars(SendQueue) /\ WF_vars(RecvStep)
    /\ \A b \in Brokers : SF_vars(Receive(b))

-----------------------------------------------------------------------------
(* Properties.                                                             *)

\* Requests leave in the order in which send was called, each once; what has not
\* left is queued, or is the one send is about to queue.
SentOnce ==
    sent \o requests =
        [i \in 1 .. submitted - (IF mainPc = "reset" THEN 1 ELSE 0) |-> i]

Queued(n) == \E i \in DOMAIN requests : requests[i] = n
Left(n) == \E i \in DOMAIN sent : sent[i] = n

\* A broker is ready; or the receive thread polls, m_broker_ready is as send left
\* it, and some broker has had the gateway's heartbeat since it started.
Served ==
    \/ \E b \in Brokers : status[b] /\ fresh[b]
    \/ recvPc = "poll" /\ ~ready /\ known # {}

\* No wake-up is lost although m_broker_ready is reset without the mutex and the
\* emptiness test of the queue is unlocked: a queued request leaves once a broker is
\* ready, or knows the gateway and will be heard, unless from then on a broker
\* falls silent or restarts.  (When no broker knows the gateway the request waits
\* for the next call of send; when m_broker_ready is stale the receive thread loops
\* over the queue for ever: neither is in the premise.)
EverySendLeaves ==
    \A n \in 1 .. MaxRequests, d \in 0 .. MaxExpiries + MaxRestarts :
        Queued(n) /\ Served /\ expiries + restarts = d
            ~> (Left(n) \/ expiries + restarts > d)

=============================================================================

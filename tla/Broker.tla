------------------------------- MODULE Broker -------------------------------
(***************************************************************************)
(* The Majordomo broker of router/mdbroker.cpp with the service tables of  *)
(* router/service.hpp and the worker entries of router/worker.hpp.         *)
(*                                                                         *)
(* The broker is one thread that reads one message at a time from a ROUTER *)
(* socket and runs its handler to the end, so every handler is one action. *)
(* The C++ object graph is kept where the code can get it wrong: a service *)
(* remembers the round-robin iterator `pos` into its vector m_waiting and  *)
(* that vector's capacity, a worker remembers the pointer m_service.  A    *)
(* handler that dereferences a pointer or an iterator that is no longer    *)
(* valid, or that lets an exception escape, moves to a state with          *)
(* fault # "none", where nothing but Restart is possible.                  *)
(***************************************************************************)
EXTENDS Integers, Sequences, FiniteSets, Functions

CONSTANTS
    Clients,      \* identities of the gateways (header MDPC_CLIENT)
    Workers,      \* identities of the workers (header MDPW_WORKER)
    Names,        \* service names that occur in messages
    Reserved,     \* the worker identities and service names that pass the
                  \* test find_first_of("mmi.") == 0 with length >= 4
    MmiService,   \* the name "mmi.service"
    Offers,       \* the <<worker, service name, type>> triples sent in READY
    Asked,        \* the service names clients put in their requests
    NoService,    \* the null pointer as a value of m_service
    Freed,        \* a pointer to a Service that has been deleted
    MaxRequests,  \* bound: requests a behaviour contains
    MaxRestarts   \* bound: restarts of the broker process

Wait      == "ServiceWaitResponse"
DoNotWait == "ServiceDoNotWaitResponse"
Absent    == "absent"                   \* no entry in m_services
KnownTypes == {Wait, DoNotWait}

Requests == [client : Clients, id : 1 .. MaxRequests]

ASSUME BrokerAssumption ==
    /\ IsFiniteSet(Workers)
    /\ MaxRequests \in Nat /\ MaxRestarts \in Nat
    /\ Asked \subseteq Names
    /\ MmiService \in Reserved
    /\ NoService \notin Names /\ Freed \notin Names /\ NoService # Freed
    /\ \A o \in Offers : o[1] \in Workers /\ o[2] \in Names /\ Len(o) = 3

VARIABLES
    services,    \* m_services: name -> Service object
    registered,  \* keys of m_workers; entries are never removed
    owner,       \* BrokerWorker::m_service of each worker
    expired,     \* the workers w with w.m_expiry < s_clock()
    clients,     \* m_clients
    fault,       \* the first undefined step or escaped exception, or "none"
    out,         \* what the last handler wrote to the socket
    asked,       \* workers some REQUEST was ever sent to (they may reply)
    accepted,    \* per service: the requests queued since the last restart
    delivered,   \* per service: the requests sent to a worker since then
    submitted,   \* number of requests submitted by clients
    restarts     \* number of restarts of the broker process

history == <<asked, accepted, delivered, submitted, restarts>>
vars == <<services, registered, owner, expired, clients, fault, out, history>>

-----------------------------------------------------------------------------
(* The Service object: service.hpp.                                        *)

Unset    == 0     \* if_pos_init is false
Dangling == -1    \* pos points into a buffer the vector has given up

ServiceType ==
    [type : KnownTypes \cup {Absent}, waiting : Seq(Workers),
     requests : Seq(Requests), pos : Int, cap : Nat]

Service(t, ws, q, p, c) ==
    [type |-> t, waiting |-> ws, requests |-> q, pos |-> p, cap |-> c]

NewService(t) == Service(t, <<>>, <<>>, Unset, 0)

\* Faulty variant: the queue is not copied.
RequiredNoQueue(r, t) ==
    IF r.type = Absent THEN NewService(t)
    ELSE IF r.type = t THEN r
    ELSE Service(t, r.waiting, <<>>, Unset, Len(r.waiting))

\* service_require and service_change: a service asked for under another type
\* is replaced by a new object that copies the queue and the waiting workers
\* (a copied vector has no spare capacity) and starts with if_pos_init false.
Required(r, t) ==
    IF r.type = Absent THEN NewService(t)
    ELSE IF r.type = t THEN r
    ELSE Service(t, r.waiting, r.requests, Unset, Len(r.waiting))

\* Faulty variant: every worker the broker knows is pointed at the new object.
OwnerAllMoved(n, t) ==
    IF services[n].type \in {Absent, t} THEN owner
    ELSE [w \in Workers |-> IF owner[w] = NoService THEN NoService ELSE n]

\* Service::copy points the m_service of the waiting workers, and of no other
\* worker, at the new object; service_delete frees the old one.
OwnerAfterRequire(n, t) ==
    IF services[n].type \in {Absent, t} THEN owner
    ELSE [w \in Workers |->
            IF w \in Range(services[n].waiting) THEN n
            ELSE IF owner[w] = n THEN Freed ELSE owner[w]]

\* Faulty variant: no test whether the worker is listed already.
JoinedAgain(r, w) ==
    IF Len(r.waiting) < r.cap
    THEN [r EXCEPT !.waiting = Append(@, w)]
    ELSE Service(r.type, Append(r.waiting, w), r.requests,
                 IF r.pos = Unset THEN Unset ELSE Dangling,
                 IF r.cap = 0 THEN 1 ELSE 2 * r.cap)

\* Service::worker_waiting: push_back unless present.  A push_back into a
\* full vector moves the elements and leaves pos behind.
Joined(r, w) ==
    IF w \in Range(r.waiting) THEN r
    ELSE IF Len(r.waiting) < r.cap
         THEN [r EXCEPT !.waiting = Append(@, w)]
         ELSE Service(r.type, Append(r.waiting, w), r.requests,
                      IF r.pos = Unset THEN Unset ELSE Dangling,
                      IF r.cap = 0 THEN 1 ELSE 2 * r.cap)

Queued(r, m) == [r EXCEPT !.requests = Append(@, m)]

\* Service::delete_worker and the erasing loop of has_actived_worker: the
\* workers in keep, in the order they have in ws.  (m_waiting never holds a
\* worker twice, so there is exactly one such sequence.)
Kept(ws, keep) ==
    LET kept == Range(ws) \cap keep
    IN {v \in [1 .. Cardinality(kept) -> kept] :
          \A i, j \in DOMAIN v : i < j =>
            \E p, q \in DOMAIN ws : p < q /\ ws[p] = v[i] /\ ws[q] = v[j]}

Alive == Workers \ expired

\* pop_worker of ServiceDoNotWaitResponse: where `*pos++` reads, given that
\* the purged vector is v.  Only 1 .. Len(v) is inside the vector.
ReadPos(r, v) == IF r.pos = Unset \/ r.pos = Len(v) + 1 THEN 1 ELSE r.pos

\* Faulty variant: service_dispatch sends one request and stops.
BurstOfOne(r, v) == IF r.requests = <<>> \/ v = <<>> THEN 0 ELSE 1

\* The number of requests the loop of service_dispatch sends to the workers v.
Burst(r, v) ==
    IF r.requests = <<>> \/ v = <<>> THEN 0
    ELSE IF r.type = DoNotWait \/ Len(r.requests) <= Len(v)
         THEN Len(r.requests) ELSE Len(v)

\* The worker the k-th of these requests goes to.
Recipient(r, v, k) ==
    IF r.type = DoNotWait
    THEN v[((ReadPos(r, v) + k - 2) % Len(v)) + 1]
    ELSE v[k]

Faulty(r, v) ==
    /\ r.type = DoNotWait /\ r.requests # <<>> /\ v # <<>>
    /\ ReadPos(r, v) \notin 1 .. Len(v)

\* The Service object when the loop of service_dispatch ends.
Drained(r, v) ==
    LET k == Burst(r, v)
        left == SubSeq(r.requests, k + 1, Len(r.requests))
    IN IF r.requests = <<>> THEN r                  \* the loop is not entered
       ELSE IF v = <<>> THEN [r EXCEPT !.waiting = <<>>]
       ELSE IF r.type = DoNotWait
            THEN Service(r.type, v, left,
                         ((ReadPos(r, v) + k - 2) % Len(v)) + 2, r.cap)
            ELSE Service(r.type, SubSeq(v, k + 1, Len(v)), left, r.pos, r.cap)

-----------------------------------------------------------------------------
(* Socket output of a handler.                                             *)

Silent == [kind |-> "none"]
Disconnect(w) == [kind |-> "disconnect", to |-> w]

\* The last conjunct of every handler that ends in service_dispatch(n), given
\* the Service object r the handler has built and the clients it has already
\* forwarded a reply to.
ServiceDispatch(n, r, replied) ==
    \E v \in Kept(r.waiting, Alive') :
        IF Faulty(r, v)
        THEN /\ fault' = "bad_pos"
             /\ services' = [services EXCEPT ![n] = r]
             /\ out' = Silent
             /\ UNCHANGED <<delivered, asked>>
        ELSE LET k == Burst(r, v)
                 to == [i \in 1 .. k |-> Recipient(r, v, i)]
                 sent == SubSeq(r.requests, 1, k)
             IN /\ fault' = "none"
                /\ services' = [services EXCEPT ![n] = Drained(r, v)]
                /\ out' = [kind |-> "request", to |-> to, sent |-> sent,
                           replied |-> replied]
                /\ delivered' = [delivered EXCEPT ![n] = @ \o sent]
                /\ asked' = asked \cup Range(to)

\* broker::worker_waiting
WorkerWaiting(w, n, r, replied) ==
    /\ expired' = expired \ {w}
    /\ ServiceDispatch(n, Joined(r, w), replied)

Crash(f) ==
    /\ fault' = f
    /\ out' = Silent
    /\ UNCHANGED <<services, expired, delivered, asked>>

-----------------------------------------------------------------------------
(* Handlers of client messages: client_process.                            *)
(* (A message with an empty service name is dropped: no state changes.)    *)

ClientHeartbeat(c) ==
    /\ fault = "none"
    /\ clients' = clients \cup {c}
    /\ out' = Silent
    /\ UNCHANGED <<services, registered, owner, expired, fault, history>>

ClientRequest(c, n) ==
    LET m == [client |-> c, id |-> submitted + 1]
    IN /\ fault = "none"
       /\ n \in Asked \ Reserved
       /\ submitted < MaxRequests
       /\ submitted' = submitted + 1
       /\ owner' = OwnerAfterRequire(n, DoNotWait)
       /\ accepted' = [accepted EXCEPT ![n] = Append(@, m)]
       /\ UNCHANGED <<registered, expired, clients, restarts>>
       /\ ServiceDispatch(n, Queued(Required(services[n], DoNotWait), m), {})

\* A request for a reserved name still creates a service entry; then
\* service_internal looks the body up with m_services.at, which throws.
ClientInternal(c, n, body) ==
    LET srvs == [services EXCEPT ![n] = Required(@, DoNotWait)]
    IN /\ fault = "none"
       /\ n \in Asked \cap Reserved
       /\ owner' = OwnerAfterRequire(n, DoNotWait)
       /\ IF n = MmiService /\ srvs[body].type = Absent
          THEN Crash("mmi_at")
          ELSE /\ services' = srvs
               /\ out' = [kind |-> "internal", to |-> c,
                          code |-> IF n # MmiService THEN 501
                                   ELSE IF srvs[body].waiting # <<>>
                                   THEN 200 ELSE 404]
               /\ UNCHANGED <<expired, fault, delivered, asked>>
       /\ UNCHANGED <<registered, clients, accepted, submitted, restarts>>

-----------------------------------------------------------------------------
(* Handlers of worker messages: worker_process.                            *)

\* worker_delete(wrk, disconnect): the worker leaves the waiting list of its
\* service but stays in m_workers, and m_service is not reset.
WorkerDelete(w, message) ==
    /\ IF owner[w] = Freed
       THEN fault' = "dangling_service" /\ services' = services
       ELSE /\ fault' = "none"
            /\ IF owner[w] = NoService THEN services' = services
               ELSE \E v \in Kept(services[owner[w]].waiting, Workers \ {w}) :
                      services' = [services EXCEPT ![owner[w]].waiting = v]
    /\ out' = message
    /\ UNCHANGED <<owner, expired, delivered, asked>>

WorkerReady(w, n, t) ==
    /\ fault = "none"
    /\ registered' = registered \cup {w}
    /\ IF w \in Reserved THEN WorkerDelete(w, Silent)
       ELSE IF t \notin KnownTypes     \* CreateService returns NULL
       THEN /\ owner' = [owner EXCEPT ![w] = NoService]
            /\ Crash("null_service")
       ELSE /\ owner' = [OwnerAfterRequire(n, t) EXCEPT ![w] = n]
            /\ WorkerWaiting(w, n, Required(services[n], t), {})
    /\ UNCHANGED <<clients, accepted, submitted, restarts>>

\* A READY whose service name is empty only registers the worker.
WorkerReadyNoName(w) ==
    /\ fault = "none"
    /\ w \notin Reserved
    /\ registered' = registered \cup {w}
    /\ out' = Silent
    /\ UNCHANGED <<services, owner, expired, clients, fault, history>>

\* wrk->m_service->m_name is read before the test of m_service.
WorkerReply(w, c) ==
    /\ fault = "none"
    /\ w \in asked              \* mdwrk replies only after some REQUEST
    /\ registered' = registered \cup {w}
    /\ IF owner[w] = NoService THEN Crash("null_service")
       ELSE IF owner[w] = Freed THEN Crash("dangling_service")
       ELSE WorkerWaiting(w, owner[w], services[owner[w]], {c})
    /\ UNCHANGED <<owner, clients, accepted, submitted, restarts>>

WorkerHeartbeat(w) ==
    /\ fault = "none"
    /\ registered' = registered \cup {w}
    /\ IF owner[w] = NoService THEN WorkerDelete(w, Disconnect(w))
       ELSE /\ IF owner[w] = Freed THEN Crash("dangling_service")
               ELSE WorkerWaiting(w, owner[w], services[owner[w]], {})
            /\ UNCHANGED owner
    /\ UNCHANGED <<clients, accepted, submitted, restarts>>

WorkerDisconnect(w) ==
    /\ fault = "none"
    /\ registered' = registered \cup {w}
    /\ WorkerDelete(w, Disconnect(w))
    /\ UNCHANGED <<clients, accepted, submitted, restarts>>

-----------------------------------------------------------------------------
(* Timer, clock and process.                                               *)

\* The end of the loop of start_brokering.
BrokerHeartbeat ==
    /\ fault = "none"
    /\ out' = [kind |-> "heartbeat", workers |-> registered,
               clients |-> clients]
    /\ UNCHANGED <<services, registered, owner, expired, clients, fault,
                   history>>

\* No message from w for 10 * HEARTBEAT_EXPIRY.
ClockPasses(w) ==
    /\ fault = "none"
    /\ w \notin expired
    /\ expired' = expired \cup {w}
    /\ out' = Silent
    /\ UNCHANGED <<services, registered, owner, clients, fault, history>>

FreshBroker ==
    /\ services' = [n \in Names |-> NewService(Absent)]
    /\ registered' = {} /\ clients' = {}
    /\ owner' = [w \in Workers |-> NoService]
    /\ expired' = Workers
    /\ fault' = "none"
    /\ out' = Silent
    /\ accepted' = [n \in Names |-> <<>>]
    /\ delivered' = [n \in Names |-> <<>>]

\* The process dies (of a fault or otherwise) and is started again.
Restart ==
    /\ restarts < MaxRestarts
    /\ restarts' = restarts + 1
    /\ FreshBroker
    /\ UNCHANGED <<asked, submitted>>

Init ==
    /\ services = [n \in Names |-> NewService(Absent)]
    /\ registered = {} /\ clients = {}
    /\ owner = [w \in Workers |-> NoService]
    /\ expired = Workers                 \* m_expiry is 0 until the first READY
    /\ fault = "none"
    /\ out = Silent
    /\ asked = {}
    /\ accepted = [n \in Names |-> <<>>]
    /\ delivered = [n \in Names |-> <<>>]
    /\ submitted = 0 /\ restarts = 0

ClientNext ==
    \E c \in Clients :
        \/ ClientHeartbeat(c)
        \/ \E n \in Names : ClientRequest(c, n)
        \/ \E n, body \in Names : ClientInternal(c, n, body)

WorkerNext ==
    \E w \in Workers :
        \/ \E o \in Offers : o[1] = w /\ WorkerReady(w, o[2], o[3])
        \/ WorkerReadyNoName(w)
        \/ \E c \in Clients : WorkerReply(w, c)
        \/ WorkerHeartbeat(w)
        \/ WorkerDisconnect(w)
        \/ ClockPasses(w)

Next == ClientNext \/ WorkerNext \/ BrokerHeartbeat \/ Restart

Spec == Init /\ [][Next]_vars

-----------------------------------------------------------------------------
(* Properties.                                                             *)

\* The tables of the broker hold what their types say, and a handler that fails
\* fails in one of the ways named here.
TypeOK ==
    /\ services \in [Names -> ServiceType]
    /\ registered \subseteq Workers
    /\ owner \in [Workers -> Names \cup {NoService, Freed}]
    /\ expired \subseteq Workers
    /\ clients \subseteq Clients
    /\ fault \in {"none", "bad_pos", "dangling_service", "null_service",
                  "mmi_at"}
    /\ asked \subseteq Workers
    /\ accepted \in [Names -> Seq(Requests)]
    /\ delivered \in [Names -> Seq(Requests)]
    /\ submitted \in 0 .. MaxRequests
    /\ restarts \in 0 .. MaxRestarts

\* A request stays queued only while its service has no waiting worker: every
\* handler that adds a request or a worker runs service_dispatch to its end
\* ("Dispatch requests to waiting workers as possible").
WorkConserving ==
    fault = "none" =>
        \A n \in Names :
            services[n].requests # <<>> => services[n].waiting = <<>>

\* No request is lost, duplicated or overtaken inside the broker: across type
\* changes (which move the queue to another object), purges, disconnects and
\* bursts, what was accepted for a service is what was sent, in that order,
\* followed by what is still queued.
InOrder ==
    \A n \in Names : accepted[n] = delivered[n] \o services[n].requests

\* m_waiting never lists a worker twice, whatever READY, REPLY and HEARTBEAT
\* messages arrive, so no worker gets two turns of a round.
WaitingOnce ==
    \A n \in Names : IsInjective(services[n].waiting)

\* A REQUEST goes only to a worker that was heard of before its expiry, although
\* expired workers stay in m_waiting until the next dispatch purges them.
SendsToAlive ==
    [][out'.kind = "request" =>
         \A i \in DOMAIN out'.to : out'.to[i] \notin expired']_vars

\* What the broker promises, module Exchange: the Service objects are the queue and
\* the ready workers of a service, as long as no handler failed.
Offering == {<<o[1], o[2]>> : o \in Offers}
Serving  == fault = "none"
Queues   == [n \in Names |-> IF Serving THEN services[n].requests ELSE <<>>]
Standing == [n \in Names |-> IF Serving THEN Range(services[n].waiting) ELSE {}]
Heard    == IF Serving THEN Workers \ expired ELSE {}
Handed    == IF out.kind = "request"
            THEN [i \in DOMAIN out.to |-> <<out.to[i], out.sent[i]>>] ELSE <<>>

Promise == INSTANCE Exchange WITH
    serving <- Serving, queue <- Queues, ready <- Standing, heard <- Heard,
    given <- Handed

\* Every handler does to the requests and the workers of a service what the
\* abstract exchange may do: it hands requests out at once or keeps them, in
\* order, and only to workers that offered the service and are alive, although
\* types change, lists are purged late and a worker may stand in several of them.
Promised == Promise!Spec

\* The deployment of the repository: workers announce
\* "ServiceDoNotWaitResponse", a service has one worker, and nobody uses the
\* MMI service.
Deployed ==
    /\ \A o \in Offers : o[3] = DoNotWait
    /\ \A o1, o2 \in Offers : o1[2] = o2[2] => o1[1] = o2[1]
    /\ MmiService \notin Asked

\* The service table never makes the broker read an invalid iterator or a freed
\* Service; the one pointer it may follow wrongly is the null m_service of a
\* worker whose first command is REPLY.
PointersValid == fault \in {"none", "null_service"}

\* The comment at the REPLY branch, "Not first command in session": a REPLY
\* that is the first command of a session is answered with DISCONNECT.
NoNullService == fault # "null_service"

=============================================================================

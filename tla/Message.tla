------------------------------ MODULE Message ------------------------------
(***************************************************************************)
(* What a message goes through: a client's request from OnMessage of the   *)
(* gateway to the service its id belongs to, as frames over the broker to  *)
(* the worker, into the worker's table of handlers; what a worker sends to *)
(* players, back the same way to their connections.  Broker and Mdp have   *)
(* the queues, expiries and restarts of this way; here are the frames that *)
(* are put on and taken off a message, the conversions of zmsg, the layout *)
(* of the bodies and the tables that ids select from.                      *)
(*                                                                         *)
(* A request is named by its index, id - ServerChallengeRequest_ID, and    *)
(* the handler written for it by the same number.                          *)
(***************************************************************************)
EXTENDS Integers, Sequences, FiniteSets, SequencesExt

CONSTANTS
    Players,
    RequestIds,     \* indices clients send
    Payloads,       \* sizes of what follows the id; 0 does not unpack
    MaxAsked,       \* bound on the requests of clients
    MaxPosted,      \* bound on the messages of workers
    Nobody

\* Request_ID: the indices at the borders of services, MAX_REQ_NUM, and
\* LOGIN_SERVICE_NUM, below which the connection handles requests itself.
Login == 13
Logout == 32
WorldMapNearBy == 33
StudySkill == 44
LeaveWordMap == 45
WorldChannelMsg == 46
FindFriend == 49
SoldierInfo == 53
CompleteAtOnce == 55
StartAttack == 56
AtkerStopBattle == 68
SearchGroup == 69
PromotePosition == 78
GetTop50User == 81
MaxReqNum == 82
LoginServiceNum == 33

ASSUME MessageAssumption ==
    /\ RequestIds \subseteq Nat /\ Payloads \subseteq Nat
    /\ MaxAsked \in Nat /\ MaxPosted \in Nat
    /\ Nobody \notin Players

Cpp == {"worldmap", "logic", "pvpServer"}
Services == Cpp \cup {"python_service"}

VARIABLES
    loginStatus,    \* login_status of the player's connection
    toBroker,       \* multipart messages of the gateway
    toGateway,
    toWorker,       \* per service
    fromWorker,     \* per service
    clientKnown,    \* the broker has the gateway in m_clients
    listed,         \* services with a worker in the broker
    replyTo,        \* m_reply_to and reply_to
    audience,       \* per service: the players it may have something to say to
    received,       \* per player: numbers of the messages his connection sent
    asked,          \* requests clients sent: player, id, payload
    ran,            \* calls of handlers: where, handler, player, payload
    posted,         \* what workers sent: audience and payload, by number
    fault           \* what went wrong in a process

channels == <<toBroker, toGateway, toWorker, fromWorker>>
history == <<asked, ran, posted>>
messageVars == <<loginStatus, channels, clientKnown, listed, replyTo, audience, received, history, fault>>
-----------------------------------------------------------------------------
(* Frames.  A frame is its size, its first byte and what it says.  Names,  *)
(* headers and commands are text: no first byte of theirs is 0 or '@'.     *)

At == 64
Text(s) == [size |-> 1, first |-> 97, data |-> <<s>>]
Empty == [size |-> 0, first |-> 0, data |-> <<"">>]

\* zmsg::send takes 33 bytes that start with '@' for the text of an identity of 17
\* bytes, zmsg::recv 17 bytes that start with 0 for such an identity.
DecodeUuid(f) ==
    IF f.size = 33 /\ f.first = At
    THEN [size |-> 17, first |-> 0,
          data |-> IF f.data[1] = "uuid" THEN Tail(f.data) ELSE <<"uuid">> \o f.data]
    ELSE f
EncodeUuid(f) ==
    IF f.size = 17 /\ f.first = 0
    THEN [size |-> 33, first |-> At, data |-> <<"uuid">> \o f.data] ELSE f

\* What a message is on the socket, and what a C++ process reads from it.
Sent(msg) == [i \in DOMAIN msg |-> DecodeUuid(msg[i])]
Recv(msg) == [i \in DOMAIN msg |-> EncodeUuid(msg[i])]

Wrap(msg, address) == <<address, Empty>> \o msg
Body(msg) == msg[Len(msg)]
WithoutFirst(msg, n) == SubSeq(msg, n + 1, Len(msg))

Ready == Text("READY")
Request == Text("REQUEST")
Reply == Text("REPLY")
Beat == Text("HEARTBEAT")
MDPC == Text("CLIENT")
MDPW == Text("WORKER")
Gateway == Text("client01_broker01")
Worker(s) == Text("worker of " \o s)

\* Before the first request a worker has nobody to reply to.
ASSUME NobodyAssumption == Nobody # Gateway

\* Faulty variant: the length is in network order.
RequestBodyNetworkOrder(p, id, n) ==
    [size |-> 2 + 4 + 2 + n, first |-> (4 + 2 + n) \div 256, data |-> <<"request", p, id, n>>]

\* A request: a 16 bit length of what follows, low byte first, the player, then id and
\* payload.
RequestBody(p, id, n) ==
    [size |-> 2 + 4 + 2 + n, first |-> (4 + 2 + n) % 256, data |-> <<"request", p, id, n>>]

\* Faulty variant: the count is in network order.
ReplyBodyNetworkOrder(us, n, k) ==
    [size |-> 2 + 4 * Cardinality(us) + 2 + n, first |-> Cardinality(us) \div 256,
     data |-> <<"reply", us, n, k>>]

\* A message for players: a 16 bit count, as many players, then id and payload.
ReplyBody(us, n, k) ==
    [size |-> 2 + 4 * Cardinality(us) + 2 + n, first |-> Cardinality(us) % 256,
     data |-> <<"reply", us, n, k>>]

\* The text a worker sends for a request it cannot unpack, with the zero at its end.
ErrorText == [size |-> 36, first |-> 117, data |-> <<"unpack error or out of array">>]

\* The count a body starts with: of the error text its first letters, "un", of a body
\* that was taken for an identity '@' and a hexadecimal digit, or 0 and a byte.
UserCount(f) ==
    CASE f.data[1] = "reply" -> Cardinality(f.data[2])
      [] f.data[1] = "uuid"  -> IF f.first = At THEN 48 * 256 + At ELSE 256
      [] OTHER               -> 110 * 256 + 117
-----------------------------------------------------------------------------
(* Tables.                                                                 *)

\* The ranges of register_worker.
ServiceOf(id) ==
    CASE id \in WorldMapNearBy..LeaveWordMap  -> "worldmap"
      [] id \in WorldChannelMsg..FindFriend   -> "chatworker"
      [] id \in SoldierInfo..CompleteAtOnce   -> "logic"
      [] id \in StartAttack..AtkerStopBattle  -> "pvpServer"
      [] id \in SearchGroup..GetTop50User     -> "python_service"
      [] OTHER                                -> ""

Beyond == -2
Refused == -1

\* The tables service[] of the two maps, which compare with their length as if it
\* were the last index of the table.  The world map's has no place for StudySkill.
WorldMapTable == [i \in 1..11 |-> WorldMapNearBy + i - 1] \o <<LeaveWordMap, Logout>>
LogicTable == <<Login, Logout>> \o [i \in 1..3 |-> SoldierInfo + i - 1]
Select(table, index, bound) ==
    IF index < 0 \/ index > bound THEN Refused
    ELSE IF index \in 0..(Len(table) - 1) THEN table[index + 1] ELSE Beyond

\* The cases of GameHandler::handleMsg.
PvpCases ==
    {Login, Logout} \cup ((StartAttack..AtkerStopBattle) \ {60, 61, 63, 64})

\* Transform: the names of the ids by the numbers in the comments of msgpack_id.h,
\* which count from 1; a method of GroupManager has the name of each.
NameByComment(id) == LET comment == id + 1 IN comment - 1

Handler(s, id) ==
    CASE s = "worldmap"  -> Select(WorldMapTable,
                                   IF id = Logout THEN 12 ELSE id - WorldMapNearBy, 13)
      [] s = "logic"     -> Select(LogicTable,
                                   IF id = Login THEN 0 ELSE IF id = Logout THEN 1
                                   ELSE id - SoldierInfo + 2, 4)
      [] s = "pvpServer" -> IF id \in PvpCases THEN id ELSE Refused
      [] s = "python_service" -> NameByComment(id)

Notices(id) ==
    IF id = Login THEN <<"logic", "pvpServer">> ELSE <<"logic", "worldmap", "pvpServer">>
-----------------------------------------------------------------------------
(* The gateway.                                                            *)

\* mdcli::send_to_broker.
ToBroker(service, body) == Sent(<<Empty, MDPC, service, body>>)

MessageInit ==
    /\ loginStatus = [p \in Players |-> FALSE]
    \* init_data sends worldmap the text "aa".
    /\ toBroker = <<ToBroker(Beat, Empty), ToBroker(Text("worldmap"), Text("aa"))>>
    /\ toGateway = <<>>
    /\ toWorker = [s \in Services |-> <<>>]
    /\ fromWorker = [s \in Services |-> <<>>]
    /\ clientKnown = FALSE /\ listed = {}
    /\ replyTo = [s \in Services |-> Nobody]
    /\ audience = [s \in Services |-> {}]
    /\ received = [p \in Players |-> {}]
    /\ asked = {} /\ ran = {} /\ posted = <<>>
    /\ fault = {}

\* Nothing is under way.  Heartbeats are looked at only then (bound).
Quiet ==
    /\ toBroker = <<>> /\ toGateway = <<>>
    /\ \A s \in Services : toWorker[s] = <<>> /\ fromWorker[s] = <<>>

workerSide == <<toGateway, toWorker, fromWorker, clientKnown, listed, replyTo, audience, posted>>

Asked(p, id, n) == [player |-> p, id |-> id, payload |-> n]
Run(where, h, p, n) == [where |-> where, handler |-> h, player |-> p, payload |-> n]

\* OnMessage: an index below LOGIN_SERVICE_NUM selects a service of the connection, if
\* anything follows the id; the others need a login.  An id of no service is dropped.
ClientAsks(p, id, n) ==
    /\ Cardinality(asked) < MaxAsked /\ Asked(p, id, n) \notin asked
    /\ asked' = asked \cup {Asked(p, id, n)}
    /\ id < MaxReqNum /\ id # Login
    /\ LET s == ServiceOf(id) IN
       CASE id < LoginServiceNum ->
              /\ ran' = IF n > 0 THEN ran \cup {Run("gateway", id, p, n)} ELSE ran
              /\ UNCHANGED toBroker
         [] s = "chatworker" /\ loginStatus[p] ->
              /\ ran' = IF n > 0
                        THEN ran \cup {Run(s, Select([i \in 1..4 |-> WorldChannelMsg + i - 1],
                                                     id - WorldChannelMsg, 4), p, n)}
                        ELSE ran
              /\ UNCHANGED toBroker
         [] s \in Services /\ loginStatus[p] ->
              /\ toBroker' = Append(toBroker, ToBroker(Text(s), RequestBody(p, id, n)))
              /\ UNCHANGED ran
         [] OTHER -> UNCHANGED <<ran, toBroker>>
    /\ UNCHANGED <<loginStatus, workerSide, received, fault>>

\* A login, and the close of a logged in connection: the workers are told.
Notify(p, id) ==
    /\ toBroker' = toBroker \o [i \in DOMAIN Notices(id) |->
                                   ToBroker(Text(Notices(id)[i]), RequestBody(p, id, 0))]
    /\ asked' = asked \cup {Asked(p, id, 0)}
LogsIn(p) ==
    /\ Cardinality(asked) < MaxAsked /\ Asked(p, Login, 0) \notin asked
    /\ ~loginStatus[p]
    /\ loginStatus' = [loginStatus EXCEPT ![p] = TRUE]
    /\ Notify(p, Login)
    /\ UNCHANGED <<workerSide, received, ran, fault>>
Closes(p) ==
    /\ Cardinality(asked) < MaxAsked /\ Asked(p, Logout, 0) \notin asked
    /\ loginStatus[p]
    /\ loginStatus' = [loginStatus EXCEPT ![p] = FALSE]
    /\ Notify(p, Logout)
    /\ UNCHANGED <<workerSide, received, ran, fault>>

\* send_requests: a heartbeat for a broker that is not heard of.
GatewayBeats ==
    /\ Quiet
    /\ toBroker' = <<ToBroker(Beat, Empty)>>
    /\ UNCHANGED <<loginStatus, workerSide, received, asked, ran, fault>>

\* handler_in_gateway: a body shorter than its count of players is dropped; the message
\* is sent by the connections of those who are online.
Deliver(f) ==
    IF UserCount(f) * 4 + 2 > f.size THEN UNCHANGED received
    ELSE received' = [p \in Players |->
                        IF p \in f.data[2] /\ loginStatus[p]
                        THEN received[p] \cup {<<f.data[4], f.data[3]>>} ELSE received[p]]

\* thread_recv_run_in_gateway, with its assertions.
GatewayReads ==
    /\ toGateway # <<>>
    /\ toGateway' = Tail(toGateway)
    /\ LET msg == Recv(Head(toGateway)) IN
       IF Len(msg) >= 3 /\ msg[1] = Empty /\ msg[2] = MDPC
       THEN /\ IF msg[3] = Beat THEN UNCHANGED received ELSE Deliver(Body(msg))
            /\ UNCHANGED fault
       ELSE fault' = fault \cup {"assert"} /\ UNCHANGED received
    /\ UNCHANGED <<loginStatus, toBroker, toWorker, fromWorker, clientKnown, listed, replyTo,
                   audience, history>>
-----------------------------------------------------------------------------
(* The broker.  Its socket puts the sender's identity before a message and *)
(* takes the receiver's off.                                               *)

gatewaySide == <<loginStatus, received, asked, ran, posted, replyTo, audience>>

\* worker_send and client_send, as they arrive.
ToWorker(command, msg) == Sent(<<Empty, MDPW, command>> \o msg)
ToClient(service, msg) == Sent(<<Empty, MDPC, service>> \o msg)

\* client_process: a heartbeat, or a request for the worker, which is to answer the
\* sender.  A request waits in the broker until the service has a worker.
BrokerReadsClient ==
    /\ toBroker # <<>>
    /\ LET msg == <<Gateway>> \o Recv(Head(toBroker))
           rest == WithoutFirst(msg, 4)
           service == msg[4].data[1]
       IN IF msg[4] = Beat
          THEN clientKnown' = TRUE /\ UNCHANGED toWorker
          ELSE /\ service \in listed
               /\ toWorker' = [toWorker EXCEPT ![service] =
                                 Append(@, ToWorker(Request, Wrap(rest, msg[1])))]
               /\ UNCHANGED clientKnown
    /\ toBroker' = Tail(toBroker)
    /\ UNCHANGED <<gatewaySide, toGateway, fromWorker, listed, fault>>

\* worker_process of READY, HEARTBEAT and REPLY: the client's address is unwrapped and
\* the header and the service put in its place.
BrokerReadsWorker(s) ==
    /\ fromWorker[s] # <<>>
    /\ fromWorker' = [fromWorker EXCEPT ![s] = Tail(@)]
    /\ LET msg == Recv(Head(fromWorker[s]))
           command == msg[3]
           rest == WithoutFirst(msg, 3)
       IN CASE command = Ready ->
                 /\ listed' = listed \cup {rest[1].data[1]}
                 /\ UNCHANGED toGateway
            [] command = Reply ->
                 \* A client that is not the gateway's: the socket drops the message.
                 /\ toGateway' = IF rest[1] = Gateway
                                 THEN Append(toGateway, ToClient(Text(s), WithoutFirst(rest, 2)))
                                 ELSE toGateway
                 /\ UNCHANGED listed
            [] OTHER -> UNCHANGED <<listed, toGateway>>
    /\ UNCHANGED <<gatewaySide, toBroker, toWorker, clientKnown, fault>>

\* The timer of start_brokering, which sends heartbeats to all workers and clients.
BrokerBeats ==
    /\ Quiet
    /\ toWorker' = [s \in Services |-> IF s \in listed THEN <<ToWorker(Beat, <<>>)>> ELSE <<>>]
    /\ toGateway' = IF clientKnown THEN <<ToClient(Beat, <<>>)>> ELSE <<>>
    /\ UNCHANGED <<gatewaySide, toBroker, fromWorker, clientKnown, listed, fault>>
-----------------------------------------------------------------------------
(* The workers.                                                            *)

othersThanWorkers == <<loginStatus, toBroker, toGateway, clientKnown, listed, received, asked>>

\* send_to_broker of the C++ and of the Python worker; this has no conversions.
FromWorker(command, msg) == Sent(<<Empty, MDPW, command>> \o msg)
FromPython(command, msg) == <<Empty, MDPW, command>> \o msg
From(s, command, msg) == IF s \in Cpp THEN FromWorker(command, msg) ELSE FromPython(command, msg)

\* connect_to_broker and reconnect_to_broker.
Registration(s) == FromWorker(Ready, <<Text(s), Text("ServiceDoNotWaitResponse")>>)
PythonRegistration ==
    FromPython(Ready, <<Text("python_service"), Text("ServiceDoNotWaitResponse")>>)

\* The process starts: connect_to_broker.  It does when a request waits for it (bound);
\* Mdp has the other starts and the restarts.
WorkerStarts(s) ==
    /\ fromWorker[s] = <<>> /\ s \notin listed
    /\ toBroker # <<>> /\ Head(toBroker)[3] = Text(s)
    /\ fromWorker' = [fromWorker EXCEPT ![s] =
                        <<IF s \in Cpp THEN Registration(s) ELSE PythonRegistration>>]
    /\ UNCHANGED <<othersThanWorkers, toWorker, replyTo, audience, ran, posted, fault>>

WorkerBeats(s) ==
    /\ Quiet /\ s \in listed
    /\ fromWorker' = [fromWorker EXCEPT ![s] = <<From(s, Beat, <<>>)>>]
    /\ UNCHANGED <<othersThanWorkers, toWorker, replyTo, audience, ran, posted, fault>>

\* What becomes of the body f in a C++ worker.  The maps read beyond a body of two
\* bytes.  A request that does not unpack is answered with a text by the maps, and left
\* by pvpServer.
Process(s, f, client) ==
    LET p == f.data[2]  id == f.data[3]  n == f.data[4]
        unpacks == n > 0 \/ id \in {Login, Logout}
    IN CASE f.size < 8 ->
              /\ fault' = fault \cup {"short_read"}
              /\ UNCHANGED <<fromWorker, ran, audience>>
         [] f.size >= 8 /\ f.data[1] # "request" ->
              /\ ran' = ran \cup {Run(s, Refused, Nobody, 0)}
              /\ UNCHANGED <<fromWorker, audience, fault>>
         [] f.size >= 8 /\ f.data[1] = "request" /\ unpacks ->
              /\ ran' = IF Handler(s, id) = Refused THEN ran
                        ELSE ran \cup {Run(s, Handler(s, id), p, n)}
              /\ audience' = [audience EXCEPT ![s] = @ \cup {p}]
              /\ UNCHANGED <<fromWorker, fault>>
         [] OTHER ->
              /\ fromWorker' = IF s = "pvpServer" THEN fromWorker
                               ELSE [fromWorker EXCEPT ![s] =
                                       Append(@, FromWorker(Reply, Wrap(<<ErrorText>>, client)))]
              /\ UNCHANGED <<ran, audience, fault>>

\* And in the Python worker, which unpacks a request outside of its try: one without
\* payload ends the process.  A method answers the player or not; PromotePosition's
\* answer is packed with the name of a request, which ends in the try.
PythonProcess(s, f) ==
    LET p == f.data[2]  id == f.data[3]  n == f.data[4] IN
    IF n = 0
    THEN fault' = fault \cup {"unpack"} /\ UNCHANGED <<ran, audience>>
    ELSE /\ ran' = ran \cup {Run(s, Handler(s, id), p, n)}
         /\ \E answered \in {{}, IF id = PromotePosition THEN {} ELSE {p}} :
               audience' = [audience EXCEPT ![s] = answered]
         /\ UNCHANGED fault

Framed(msg) == Len(msg) >= 3 /\ msg[1] = Empty /\ msg[2] = MDPW

\* thread_recv_run, with its assertions.
WorkerReads(s) ==
    /\ toWorker[s] # <<>>
    /\ LET msg == Recv(Head(toWorker[s])) IN
       CASE ~Framed(msg) ->
              fault' = fault \cup {"assert"} /\ UNCHANGED <<replyTo, fromWorker, ran, audience>>
         [] Framed(msg) /\ msg[3] = Request ->
              /\ replyTo' = [replyTo EXCEPT ![s] = msg[4]]
              /\ Process(s, Body(msg), msg[4])
         [] OTHER -> UNCHANGED <<replyTo, fromWorker, ran, audience, fault>>
    /\ toWorker' = [toWorker EXCEPT ![s] = Tail(@)]
    /\ UNCHANGED <<othersThanWorkers, posted>>

\* recv of the Python worker, once it has answered: it takes the frames as they are.
PythonReads(s) ==
    /\ toWorker[s] # <<>> /\ audience[s] = {} /\ "unpack" \notin fault
    /\ LET msg == Head(toWorker[s]) IN
       CASE ~Framed(msg) -> fault' = fault \cup {"assert"} /\ UNCHANGED <<replyTo, ran, audience>>
         [] Framed(msg) /\ msg[3] = Request ->
              /\ replyTo' = [replyTo EXCEPT ![s] = msg[4]]
              /\ PythonProcess(s, Body(msg))
         [] OTHER -> UNCHANGED <<replyTo, ran, audience, fault>>
    /\ toWorker' = [toWorker EXCEPT ![s] = Tail(@)]
    /\ UNCHANGED <<othersThanWorkers, fromWorker, posted>>

\* SendToPlayer and SendToPlayerList: a message for players the worker has heard of,
\* which __send addresses to the client of the latest request.
WorkerPosts(s, us, n) ==
    /\ Len(posted) < MaxPosted /\ fromWorker[s] = <<>>
    /\ us # {} /\ us \subseteq audience[s]
    /\ posted' = Append(posted, [to |-> us, payload |-> n])
    /\ IF replyTo[s] = Nobody THEN fault' = fault \cup {"assert"} /\ UNCHANGED fromWorker
       ELSE /\ fromWorker' = [fromWorker EXCEPT ![s] = Append(@,
                 FromWorker(Reply, Wrap(<<ReplyBody(us, n, Len(posted'))>>, replyTo[s])))]
            /\ UNCHANGED fault
    /\ UNCHANGED <<othersThanWorkers, toWorker, replyTo, audience, ran>>

\* pack, and recv with a reply: the Python worker answers the request, once.
PythonAnswers(s, n) ==
    /\ Len(posted) < MaxPosted /\ fromWorker[s] = <<>> /\ audience[s] # {}
    /\ posted' = Append(posted, [to |-> audience[s], payload |-> n])
    /\ audience' = [audience EXCEPT ![s] = {}]
    /\ fromWorker' = [fromWorker EXCEPT ![s] = Append(@,
          FromPython(Reply, Wrap(<<ReplyBody(audience[s], n, Len(posted'))>>, replyTo[s])))]
    /\ UNCHANGED <<othersThanWorkers, toWorker, replyTo, ran, fault>>

MessageNext ==
    \/ \E p \in Players :
          \/ LogsIn(p) \/ Closes(p)
          \/ \E id \in RequestIds, n \in Payloads : ClientAsks(p, id, n)
    \/ GatewayBeats \/ GatewayReads
    \/ BrokerReadsClient \/ BrokerBeats
    \/ \E s \in Services :
          \/ BrokerReadsWorker(s)
          \/ WorkerStarts(s) \/ WorkerBeats(s)
    \/ \E s \in Cpp :
          \/ WorkerReads(s)
          \/ \E us \in SUBSET Players, n \in Payloads \ {0} : WorkerPosts(s, us, n)
    \/ \E s \in Services \ Cpp :
          \/ PythonReads(s)
          \/ \E n \in Payloads \ {0} : PythonAnswers(s, n)

MessageSpec == MessageInit /\ [][MessageNext]_messageVars
-----------------------------------------------------------------------------
\* AsAsked: a handler runs for a request its player has made, with the payload it was
\* made with, after all conversions, in the service of its id and as the handler
\* written for it.  The exceptions are in the world map's table: StudySkill runs
\* the handler of LeaveWordMap, and this the one of Logout.
Misplaced == {StudySkill, LeaveWordMap}
AsAsked ==
    \A r \in ran : \E a \in asked :
        /\ r.player = a.player /\ r.payload = a.payload
        /\ r.where \in {"gateway", ServiceOf(a.id)} \/ a.id \in {Login, Logout}
        /\ r.handler = a.id \/ (a.id \in Misplaced /\ r.where = "worldmap")

\* ToWhomPosted: what a connection sends a player is what a worker posted for him; once
\* nothing is under way each player it was posted for has it, unless he has gone; and
\* no reader of frames meets one it does not expect.
ToWhomPosted ==
    /\ "assert" \notin fault
    /\ \A p \in Players :
          /\ \A m \in received[p] :
                p \in posted[m[1]].to /\ m[2] = posted[m[1]].payload
          /\ Quiet /\ loginStatus[p] =>
                \A k \in DOMAIN posted :
                    p \in posted[k].to => <<k, posted[k].payload>> \in received[p]
=============================================================================

# A TLA+ verification of the icebridge game server

This directory models the server of `src/icebridge_svn/trunk` (a C++ gateway, a
message router and worker processes in C++ and Python) in TLA+, checks the models
with TLC on small instances, and proves nearly all of the safety properties that the
runs check with TLAPS for every value of the constants. Paths below are relative to `src/icebridge_svn/trunk` unless
they start with `src/`. `PROJECT.json` lists components, runs, mutants, findings,
hazards and theorems, and maps every definition to the lines it models.

Run a model with `tlc -config X.cfg M`, check the proofs with `tlapm M.tla`.

## 1. Inventory

    clients --TCP--> gateway ==ZeroMQ==> router (broker) ==ZeroMQ==> workers
                        |                                   worldmap, logic,
                     MySQL, redis                           pvpServer, python_service

A client's request is answered in the gateway or forwarded by service name to the
broker, which hands it to a worker of that service. A worker's reply, or a message
it sends on its own, comes back through the broker and is given to the player's
connection. `script/start.sh` and the constructors of the workers fix the
deployment: one broker (`broker01`), one gateway (`client01`), one worker per
service, all of type `ServiceDoNotWaitResponse`. The workers share redis and MySQL
with the gateway; each command is atomic, a handler's commands together are not: where
a process ends, or another one comes, between two of them, the models have that step.

| Component | State | Operations | What is hard | What makes it correct |
|---|---|---|---|---|
| **Broker** `router/mdbroker.cpp`, `service.hpp`, `worker.hpp` | services (request queue, waiting workers, round-robin iterator), workers with a pointer to their service and an expiry, clients | client request, MMI query, READY, REPLY, HEARTBEAT, DISCONNECT, dispatch, purge, restart | requests, expiries and type changes interleave; pointers both ways between workers and services; an iterator kept across insertions | no request is lost, doubled or overtaken; none waits beside an idle worker; none goes to an expired one; no freed pointer or stale iterator is used |
| **Worker API** `workers/worker_common/mdwrkapi.*` (Python: `workers/python_worker/mdwrkapi.py`) | socket, return address, queues between its two threads | receive, reply, heartbeat, time out, reconnect | both sides restart; the socket is thrown away with what it holds | nothing is handled or answered twice; a worker finds its way back |
| **Gateway broker client** `gateway_server/logic_server/mdcliapi2.*` | request queue, `m_broker_ready`, status and freshness of each broker | `send`, `send_requests`, receiving heartbeats and replies | two threads share flags, partly without the mutex | every request leaves, once, in order |
| **Frames and dispatch** `module/zmsg.hpp`, `msgpack_convert.hpp`, `__server.cpp`, the workers' tables | frames, tables from ids to handlers | wrap, unwrap, encode identities, dispatch | a frame of the right size and first byte is taken for an identity; tables indexed by id lie side by side | a handler runs for the request that was made; a message reaches those it names |
| **TCP sessions** `gateway_server/sdk/tcp_*` | session and handler per connection, session queues, id pool, handler map, buffers | accept, send, receive, close, error | the halves live in two threads, post tasks to each other and address each other by an id that is reused | messages arrive at the right connection in order; objects outlive their pending operations; Close flushes and ends in OnClose |
| **Encryption and buffers** `sdk/AESSBox.cpp`, `my_filter.h`, `net_message.cc`, client `src/icebridge_test/User.py` | a byte table per session on both sides; buffers shared by copies | generate, exchange, encrypt, decrypt | the two sides form their tables in different ways; several threads write one buffer | what is sent can be read |
| **Id generator** `sdk/id_generator.h` | next id, pool | Get, Put | 32-bit counter that wraps | an id in use is never handed out |
| **Presence** `service/_login_worker*.cpp`, `_chat_worker.*`, `__server.cpp`, `HeartCheck` | table player -> handler, chat slots, login state per connection, workers' view | connect, login, register, displacement by a second login, heartbeat, close, idle check, messages from workers | a displaced connection finishes the login of the displacing one when it has closed; the tables are updated by different handlers at different times | a slot is free or used, never both; the tables lead to the player's own connection; the registries agree; an accepted login completes |
| **Accounts and names** `_login_worker_msg.cpp`, `_chat_worker.cpp`, `database/*` | accounts in MySQL; nicknames, records and proposals in redis; names in chat slots | register, log in, take a name, propose a name, find a friend, write | two redis commands per name; requests that do not test the login | names lead to one player |
| **Player logic** `service/_login_worker_logicworker.cpp` | buildings and timers, equipment, market, e-mails, heroes, in memory and in redis | one service per request, timer callbacks | a timer armed twice or never; goods that pass through five places; an index beside a vector | memory and redis agree; nothing is lost or doubled; constructions end; levels are earned |
| **Army build queue** `workers/small_map_worker` | per player and camp: queue of soldiers, timer, block flag; copy in redis | add, delete, complete at once, time up, login, logout | timers against requests and logout; two processes write the army list | what is ordered is saved and built; the counts are those of the list |
| **Defenders** `module/RedisClient.cpp` | list of defenders, hash of their camps | set, move, withdraw, die, read | two workers interleave single redis commands | list and hash agree; a battle meets a defender once |
| **World map** `workers/simple_worker` | free places, their redis copy, watchers, resources | enter, move, look, leave, periodic update | a crash between two writes; an index beside a vector | nobody loses a place or shares one |
| **PvP worker** `workers/pvp_worker` | battles, players, blocking queue between threads | login, attack, deaths, stop, logout, timers | a battle ends by time, request or logout; tables that are never cleared | a battle is settled once, running battles end |
| **Python worker** `workers/python_worker` | groups and their members in MySQL and redis | create, apply, approve, promote, dismiss, leave | two stores updated one after the other, exceptions | records and lists agree |
| **Configuration** `module/mysql_game_configbuff.cpp`, `GameConfig.cpp` | tables by type and level, packed pages | load | tables packed into pages while they are read | clients get what the gateway plays by |
| **MySQL connections** `module/mysql_base.cpp` | vector of connections, free indices | construct, destruct a Reader or Writer | indices into a vector that grows; a count that stands for its length | no two users of one connection |

Logging, ini files, random numbers and the connection to redis keep no state that a
property tells apart; older copies of the sources (`src/EddyServer`,
`src/icebridge_svn/personal`, `src/icebridge_python_worker`), load generators and
exercises are not the deployed system. `PROJECT.json` gives the reason component by
component, and its `hazards` list what is hard to test, at the line where it bites.

## 2. Modules

| Module | Models | Proofs |
|---|---|---|
| `Broker` | the broker process | `BrokerProofs` |
| `Exchange` | what the broker promises: queues and ready workers; the abstract specification that `Broker` implements | `BrokerProofs` |
| `Mdp` | `Broker` composed with the worker API, the channels between them, and restarts of both | `BrokerProofs` |
| `MdCli` | the two threads of the gateway's broker client | `GatewayProofs` |
| `Message` | frames, bodies and handler tables from a client's request to a worker and back | `GatewayProofs` |
| `IdGenerator` | ids of connections; the abstract specification that `Session` implements | `IdGeneratorProofs` |
| `Session` | sessions and handlers, main thread and I/O threads | `SessionProofs` |
| `HandlerSend` | `TCPSessionHandler::Send` access by access, under two threads | - |
| `Box`, `Wire` | the encryption tables; messages through filter and shared buffers | `ClientProofs` |
| `Presence` | login, logout, chat slots, idle check | `ClientProofs` |
| `Accounts` | accounts, nicknames, names in chat | `StoredProofs` |
| `City`, `Goods`, `Heroes` | the gateway's player logic | `PlayerProofs` |
| `Army` | build queues of the small map worker | `PlayerProofs` |
| `Defence` | defenders of a town, changed by two workers | `StoredProofs` |
| `WorldMap` | places, watchers and resources of the world map worker | `StoredProofs` |
| `Pvp` | the PvP worker | `PvpProofs` |
| `Groups` | army groups of the Python worker | `StoredProofs` |
| `Config` | configuration tables and pages | `ClientProofs` |
| `Pool` | connections to MySQL | `StoredProofs` |

`MC*` modules give constants their values. Three of them, `MCPlayer`, `MCStored` and
`MCSdk`, and `MCMdCli` put several modules that share no state into one instance: a
variable `part`, fixed at the start, names the module that moves, so that each
behaviour is a behaviour of one module and the properties mean what they mean alone.
An operator whose comment starts with "Faulty variant" is not part of any
specification: it is a plausible bug, which `PROJECT.json` pairs with the property
that has to notice it.

**Broker.** One action per branch of `client_process` and `worker_process`.
Every branch that can wake the queue ends in `ServiceDispatch`, as in the code,
which purges expired workers (`Kept`, `Alive`), sends a burst to the waiting workers
(`Recipient`) and leaves the object as `Drained`. `services[n]` is the Service
object: type, `waiting` (the vector), `requests`, and for `ServiceDoNotWaitResponse`
the iterator `pos` with the capacity `cap` of its vector, so that a reallocating
`push_back` leaves it `Dangling`. `owner[w]` is `m_service`, which may become
`Freed`. A step that the language leaves undefined, or that throws through `main`,
sets `fault` and ends the process until `Restart`. `accepted` and `delivered` are
history.

**Exchange.** Per service a `queue` and the set of `ready` workers, with the workers
`heard` of in time and the pairs `given` out in the last step. A request is passed to a
ready worker (`Pass`) or kept (`Keep`); a worker stands ready (`Stand`) or takes one of
the kept requests or all of them (`Take`), as the two types of service do; it leaves a
service (`Leave`) or falls silent (`Fade`). There are no types, iterators, pointers or
capacities, and no list of expired workers that waits for a purge. `Break` loses
everything: a handler that fails in `Broker` is this step. `Promised` in `Broker` states
the refinement: `Queues` and `Standing` are the `requests` and `waiting` of the Service
objects, `Heard` is who has not expired, `Handed` is read off the messages the handler wrote.

**Mdp.** `up[w]` and `down[w]` are the messages in flight, `inbox[w]` and `pair[w]`
the queues between the worker's threads, `replyTo[w]` is `m_reply_to`. A reconnecting
worker loses any suffix of what it had sent (`linger` is 0); a restarting broker loses
what it had sent and keeps or loses what was sent to it.

**MdCli.** `mainPc` and `recvPc` split `send` and `send_requests` at their accesses
to shared state; `Locked` is the mutex. `Expire` lets a broker fall silent,
`Restart` makes it forget the gateway. The check whether a broker is ready is not
under the mutex and neither is `m_requests.empty()`, exactly as in the code. `Served`
is the state in which a request that is queued has a broker to go to: one is ready and
not due to be given up, or the receive thread polls, `m_broker_ready` is as `send` left
it, and a broker knows the gateway and will be heard. What the deployed single broker
does outside of it is below, under the behaviour no run singles out.

**Message.** A frame has a size, a first byte and its contents, which is all that
the conversions of `zmsg` look at. The frames are put on and taken off by the
operators of the gateway, the broker and the worker in turn; ids select service and
handler from the tables as the code indexes them, with their gaps. `asked`, `ran`,
`posted` and `received` say what was made of it.

**Session.** `mainQ` and `ioQ[t]` are the queues of the `io_service`s; a posted task
is a record, running it is one action named `Run...`. A completed read or write is
queued like a task, which is where a close can overtake it. `handlers[s]` is
`num_handlers_`; ids are looked up when a task runs, not when it is posted.

**HandlerSend.** `Send` is split at its accesses to `messages_to_be_sent_`;
overlapping accesses of two threads keep what was written last.

**Box, Wire.** `Box` calculates the gateway's table as `AESSBox` does, words being
polynomials over GF(2), and has the client's table as it is written in
`EncryptionBox.py`; the exchanges that form a session's table are those of each side,
by index in the gateway and by value in the client. `Wire` sends messages through
`MyFilter`: one byte stands for the text behind the id, and a message above 128 bytes
is shared by its copies. Reading and writing a shared byte are two steps.

**Presence.** Everything except `HandlerInGateway` runs in the main thread, so a
handler is an action. `Displace` is the branch of `login_handle` for a player who is
logged in elsewhere, `pending` its `offline_handler`. The variable `env` is chosen at
the start and fixes what clients and workers do: log in twice, fall silent, push to
absent players, register while logged in. `fault` marks a call of a freed object, an
erased iterator that is followed, and a null entry that is followed. `HeartCheck` takes
a silent connection out of the table before its OnClose, which then finds nothing to
undo: the chat slot and the workers' view of the player stay. `Dropped(p)` are the
connections so dropped, by the check or by a login of `p` elsewhere, and `OnlineAgreed`
says that nothing else is left behind.

**Accounts.** The stores are MySQL's rows (`users`), the redis hash of nicknames and
the players' records, `ChatWorker`'s slots and each connection's own state. A client
may send any request at any time; a request tests what its handler tests. The gateway may
end between the two redis commands of `set_user_name`.

**City.** `my_build` is memory and `build_records` redis, each building with the ticks
left (`left`) and the age of a factory's output (`age`). `live[s]` holds the timers of
a building, the newest last, because `en_timer` overwrites an entry without
cancelling; `building` is the list that login fills from `timer#uid`, which nobody
empties. A timer's wait that has expired (`WaitExpires`, `Due`) is in the queue of the
`io_service`, and deleting the timer does not take it out: `LeftBehind` counts it into
`stale`, at an early finish, at OnClose and in a timer's own handler, and `StaleFires`
is its OnTimeout on freed memory: it runs the handler of some building that has a
timer, does nothing, or ends the gateway. A handler that saves in several commands may
end after each of them (`CreateCut`, `UpgradeCut`, `FinishCut`).

**Goods.** An item is in a backpack slot, worn, on the market, or in an e-mail; the
market is a vector with an index from serial numbers, from which `DelMarket` removes
by moving the last good. `PriceLeft` is what the reference into the vector shows after
that. Each handler that writes two records has a second action named `Cut`: the gateway
ends between them and starts again from redis. A sale, a purchase and a return delete
the equip in one place before they write it in the other; what such an end loses is in
`lost`. Dressing writes two records of which the first puts a second equip into a slot;
such slots are in `torn`. `Addressee` is `find_user_uuid` of the seller's name, which is
one-to-one but for players without a name (`Nameless`): for these it finds nothing, the
callers use the unset uuid, and the equip goes to some player or to `Nobody`. The
handler of a sale tests the position with `position >= 0 || backpack_num < 64`, which
refuses nothing; slots beyond `backpack_num` are never taken, so that the sale of one
changes nothing, and positions outside of the array's 64 slots are not modelled.

**Heroes.** One redis record per hero says where it is; arrays of offered and
commanding heroes are memory.

**Army.** `queue[c]` and `timer[c]` are a camp's TimerQueue and `deadline_timer`,
`stored[c]` its list in redis; absolute times are kept as distances from now. `Restore`
is one turn of the loop that rebuilds a queue at login, including the entry of number
0 it may leave. `CampInfo` and `TimeRemain` are what a login shows of a camp. A death
that the PvP worker reports is three steps (`dying`), for any slot: `setSoldierDie` does
not look whether the slot is free, so that a death reported twice reads `#`. A list is
written by DEL and LPUSH (`Written`); a handler may end before the first, between the
two, or at its end (`Ends`). One player is modelled, but `keys camp#%d*` finds the lists
of every player whose uid begins with the same digits: `Keys`, `KeyOrders` and `Load`
read the player's lists and those of `Foreign`, in whatever order redis returns them,
and a list that is read later takes the place of one of the same camp.

**Defence.** An order to a defender and the end of a battle are two or three commands,
each a step; `change` is the order that is half carried out, `battle` what a beginning
battle has read.

**WorldMap.** `mapKey` and `remaining` are the vector of free places and the map of
indices into it; `worldmap` and `record` are redis. The record is written with the field
`coord#y` and read with `coodrd#y`, so that a player's old place is never found:
modelled as it is. `CrashInAddNewPlayer` ends the worker between its two writes.

**Pvp.** `Push` is the receiving thread; the main loop is split into reading the size
of the queue, popping that often, and advancing the battles. `battleMaps` is kept
under the defender, `playerPairs` is never cleared. `ObjectDieCrashes` is the null
pointer that a report after the end of a battle follows. An attack may name the attacker
himself, whom the code does not refuse, or nobody, which leaves `peerUid` unset: `Uids`
are the players and 0, and an unset variable holds any of them.

**Groups.** MySQL's rows and the redis sets and records are separate variables; where a
MySQL call raises, before or after the server has done it, the handler stops and what
it had written stays. The same end may come between two redis commands
(`AddUserIntoGroup`, `DeleteCut`): `torn` remembers the user and the group whose lists it
left behind the record. `AcceptJoin` takes any user into any group, as `acceptJoin`
looks for no request. `ChooseRaises` is the index into a set that ends the choice of an
owner when the group still has leaders.

**Config.** The tables are read one after the other, as `InitGlobalData` does: the
highest type, which sizes a table, then row after row in any order of types, levels
and sizes; `WithRow` closes a page when the next row does not fit. A table is `Served`
once it has been read to its end.

**Pool.** `alive` is the stack of Readers and Writers with the index each has taken.

## 3. Runs

| Run | Instance | Shows |
|---|---|---|
| `broker_safety` | 2 workers, 1 gateway, 2 names (one reserved), every form of READY, a worker that offers both names, 2 requests, 1 restart | `WorkConserving`, `InOrder`; `Promised`: `Broker` implements `Exchange`, so a request goes only to a live worker that offered its service |
| `mdp` | deployment with 1 worker, 3 requests, a restart of each side, fair | `AtMostOnce`, `PointersValid`, `WorkersReturn`: the worker is listed again and again |
| `mdcli` | threads: the one broker of the deployment, 3 requests, 2 silences, 1 restart, fair; frames: 2 players, 8 request ids at the borders of the services, payloads of 0, 9 and 25 bytes, 2 requests, 1 message of a worker | `SentOnce`; `EverySendLeaves`: a queued request leaves once it is `Served`, unless the broker falls silent or restarts again; `AsAsked`: the handler that runs is the one for the request; `ToWhomPosted` |
| `session` | 2 connections on one thread, which reuse one id; 2 messages out, 1 in, one Close each; fair | `KeptAlive`, `MessagesInOrder`, `CloseFlushes`; `CloseNotifies`: Close and a peer that leaves lead to OnClose; `IdsImplemented`: the ids are those of `IdGenerator` |
| `presence` | 3 connections, 2 players, 2 slots, three environments, up to symmetry | `SlotOnce`, `OwnHandler`, `LoginPending`; `OnlineAgreed`: with one point per player, while the idle check and the workers do as they like, the registries agree but for what a dropped connection leaves; and a slot is leaked only by a dropped connection |
| `sdk` | ids up to 7, threshold 2, limit 2; 2 sessions, 2 messages of sizes around the thresholds (128, 32767, 65535), 1 request, 2 draws | `FreshId`; `Readable`: both sides read what the other wrote |
| `pvp` | 2 players and uid 0, battles of 2 ticks, 3 requests, 3 waiting, fair | `BattlesSettled`, `PopsWhatIsThere`, `RunningEnds` |
| `player` | army: 1 camp, 3 kinds of soldiers, population 3, orders of 2, a foreign list, 3 requests, deaths and crashes; city: a hall, a factory and a plot, 1 wait without timer; goods: 2 players, one without a name, 2 items, 2 e-mails; heroes: 4 heroes, 2 positions; fair | `CountAgrees`, `SavedAtOnce`, `OrdersProgress`, `LevelsEarned`, `ConstructionsEnd`, `KeptOnce`, and `MemoryAgrees`: what the gateway holds of an online player is what redis has |
| `stored` | groups: 2 users, 2 groups, open or with approval, 1 request that ends half way; world: 3 x 3 places, 2 players, 4 requests; config: 3 rows a run; 5 Readers and Writers; 2 accounts, 2 names, 2 connections, 4 calls; 3 soldiers, 5 orders; up to symmetry | `RecordBacked`, `LeadersAreMembers`, `GroupHasMembers`, `PlacesAgree`, `WatchersAgree`, `PagesComplete`, `ConnectionsApart`, `NamesAgree`, `DefendersAgree` |

Three runs check what a comment of the code says and find that the code does
otherwise (`findings` in `PROJECT.json` quotes the comments):

| Run | Property | Behaviour found |
|---|---|---|
| `broker_first_reply` | `NoNullService` | the broker restarts, or has never heard of the worker; the first command of the worker is REPLY, and `wrk->m_service->m_name` (`mdbroker.cpp:271`) is read before the test for null |
| `send_two_threads` | `EverySendPacked` | `handler_in_gateway` calls `Send` in the broker client's thread: a message is overwritten in the vector, or the task that packs it is never posted |
| `sdk_shared` | `SharedArrives` | a long message from a worker to several players is one buffer, which the I/O threads of their sessions each encrypt in place |

### Behaviour the models follow and no run singles out

The models have these steps, and the properties above are stated with them in mind.

* Broker: two workers on one `ServiceDoNotWaitResponse` service: `pos` is used after
  the `push_back` or `erase` that invalidated it; a `ServiceWaitResponse` service with a
  busy worker that a client's request turns into the other type leaves that worker the
  freed Service; an MMI query for an unknown service throws out of `m_services.at`.
* Gateway broker client: `m_broker_ready` is still set when the last ready broker has
  become silent, and the receive thread loops over the requests for ever, holding the
  mutex; and when the broker restarts between the gateway's heartbeat and its own, a
  request waits for the next call of `send`, because a poll that times out does not call
  `send_requests` (`mdcliapi2.cpp:19`). Requests of the deployed gateway do stay behind
  in these two states, which the run `mdcli` reaches. Nothing in the repository promises
  otherwise (`mdcliapi2.hpp:317` says that the client does not recover from a broker's
  failure); `EverySendLeaves` says that there is no third way: it starts from `Served`,
  which is neither, and ends only with another silence or restart of the broker.
* Dispatch: the world map's table of handlers has no place for `StudySkill`
  (`_world_map.cpp:128`): that request runs the handler of `LeaveWordMap`, and
  `LeaveWordMap` that of `Logout`. `AsAsked` excepts these two and says nothing about them. With two gateways a reply goes to
  the client of the latest request (`replyTo`).
* Sessions: with a peer that stays connected and silent, `Close` never ends in OnClose,
  because `HandleClose` waits for the outstanding read (`tcp_session.cc:297`, against
  `tcp_session_handler.h:58`); `CloseNotifies` assumes that the peer leaves.
* Encryption: requests of 3 bytes are not decrypted; a batch that contains a message
  above 65535 bytes loses the rest; sizes above 32767 read as negative at the client. A
  comment at `__server.cpp:94` takes 0x0100 for the modulus of the box, the code has
  0x0102.
* Presence: a second login of a player erases the table entry before the first
  connection's OnClose looks for it, so that its chat slot stays in use
  (`_login_worker_msg.cpp:146`), and so does the idle check (`tcp_io_thread.cc:102`),
  after which the workers also keep the player online: `OnlineAgreed` says that such
  slots and players are those of dropped connections; a third login, while the first connection is closing
  and the second waits for it, is accepted beside the second; a connection that is to
  be logged in by the one it displaced may be gone by then (`"freed_login"`).
* Names: the name a player had before keeps leading to him in the hash; a name that was
  proposed and not taken never comes back (SADD without a member). The bound on chat
  indices is one too high, and index 0 finds no friends.
* Player logic: FastFinish asks for no status, and `timer#uid` is never emptied: after a
  login a finished building is raised again for a diamond (`RaisedAtRest`), once for each
  time the list names it. An early finish or a logout at the moment a wait expires leaves
  a wait that runs on a freed timer (`module/timer.h:94`). An end of the gateway between
  the two commands of a sale, a purchase or a return loses the equip
  (`_login_worker_logicworker.cpp:509`, `571`, `1352`). DropHero is always refused
  (`hero_equip` has six slots) after a range test, `<= 0 && > 6`, that never holds. The
  seller of a good gets the price that the reference shows after `del_market` moved
  another good there (`_login_worker_logicworker.cpp:584`).
* World map: the old place of a city is looked for under `coodrd#y` and never found, so
  that a city that moves leaves its place in use; the index of the drawn place stays in
  `remaining_position` when it was the last.
* Army: a death that is reported twice frees a slot that the small map worker has filled
  in between and takes down the number of the kind `#` (`RedisClient.cpp:387`): the number
  of the filled slot's kind stays one too high, each time. An end of the worker between
  DEL and LPUSH loses a camp's orders (`_army_build_queue_manager.cpp:71`). A login also
  restores, and builds for this player, the queues of players whose uid begins with his
  (`_army_build_queue_manager.cpp:34`).
* PvP: both points of a battle are read from the attacker (`BattleMap.cpp:20`);
  `playerPairs` is never cleared, and a death reported after the end of a battle ends
  the process; a logout of an attacker whose battle is over puts the other requests
  off to the next turn.
* Groups: the owner of a group that still has leaders cannot leave it cleanly: choosing
  the next one indexes a set, which raises; PromotePosition is never answered
  (`group_manager.py:102`). A creation or an approval that ends half way leaves a user's
  record ahead of the lists, or a row without members.
* Configuration: `skill_version` is never read (`mysql_game_configbuff.cpp:111` tests
  `update_URL` twice). A row whose type is above the highest is logged or ends the
  function, depending on the table.

### Bounds

Every bound is a constant named `Max...` or listed as a bound where it is declared, and
guards one action. In `broker_safety` two requests are enough for a queue that has an
order and a worker that takes one of two; in `mdp` and `mdcli` three, for two to be queued
and one to be in flight. Two workers are enough for a round robin and for an expiry of one beside the other;
one restart of each side for every crash point, since a restarted broker starts from its
initial state. Two connections with a pool threshold of 0 share one id, which is the
case the lookup by id is about; two messages out make a batch while another is being
written. Three connections allow a player's login, a second and a third that meets both;
two slots are one for each player, and a leaked slot leaves a player without one. The
environments are everything at once, everything but a second account on a connection,
and one point per player with the idle check and the pushes of workers.

Message sizes are chosen at the borders: the payloads of 9 and 25 bytes make frames of
17 and 33 bytes, which `zmsg` could take for identities; 4, 129, 32768 and 65536 are the
sizes on either side of a copy's own buffer, of the sign bit and of `MAX_SIZE`. The
request ids are those next to a border between services, and `StudySkill`.

In `pvp` two players and uid 0 are three uids, the least with one who attacks and is
attacked in different battles that end in the same turn; with 3 requests a player
attacks himself, an unknown name, and is stopped or logs out. In `player` one camp has a quick and a slow soldier
and one that is refused, and a population that the slow ones fill; orders are for two
soldiers (`Numbers`), so that a restored entry is built in part, and three requests are
an order, a report of a death and its repetition, or an order, a logout and a login
that reads a foreign list; times beyond `Horizon` = 3 look alike, which is above every
building time and the retry. With one camp the second part of `SavedAtOnce`
says that a list holds the old orders, the new ones or nothing; that no two camps lose
theirs at once is left to the theorem. The city has a
construction longer than the longest timer and one shorter, and one wait at a time
whose timer is deleted (`MaxStale`); of two players one has a
single slot in the backpack, which is full with one item, and the other no name; prices,
balances and diamonds are 1, with which goods are bought and paid for; four heroes are a second
offer after two positions are taken. In `stored` the land has three places for cities
for two players, so that one place is free while another is drawn; groups that nobody
may join, the second of the three types, change nothing and are left out; a page holds two of
the narrow rows and none of the wide ones; five Readers with two connections that stay
and four allowed go through all branches of `get_connect`, the refusal
included; two names and accounts are enough for a name to be taken by the other.

The theorems have no bound beyond the constants.

### Fairness

* `Session`: threads run their queued tasks, the system completes a write
  (successfully or not), and a read of a peer that has gone ends with an error. Nothing
  makes a peer leave or send: `CloseNotifies` assumes the former in its premise.
* `Mdp`: the broker reads its socket, the worker's receive thread reads its own, times
  out and sends heartbeats: each is an endless poll loop in the code.
* `MdCli`: both threads run; the broker, when it knows the gateway, goes on sending it
  heartbeats, as `start_brokering` does; it gets to know it by the heartbeat that
  `send_requests` sends to a broker that is not ready. The fairness is strong because the receive
  thread is not always polling; a heartbeat that arrives meanwhile waits in the socket.
* `HandlerSend`: a thread finishes its call, the main thread runs its tasks.
* `Pvp`: the main loop goes on and the clock does not stop.
* `Army`, `City`: time passes and the `io_service` runs timers that are due; the wait of a
  deleted timer is never required to run. Logins and
  logouts are never required; `ConstructionsEnd` has a player who keeps coming back in
  its premise, `OrdersProgress` ends at a logout, an end of the worker, or when the
  population has no room for the soldier in front.

Weak fairness is never required of clients, failures, silences or restarts. `Message`,
`Goods`, `Heroes` and the modules of `MCStored` have safety properties only.

## 4. Proofs

Each theorem is stated for every value of the constants that the module's `ASSUME`
allows; the runs evaluate the same assumptions. What an assumption says beyond types
and bounds is named below. Every proof has the same outline: an inductive invariant,
one lemma per action, and a last step that joins them.

The library's induction theorems take an operator as a parameter and cannot be used
with the installed provers. Where a proof is by induction over data it takes the least
element of a well-founded ordering (`WFMin`; `FS_StrictSubsetOrderingWellFounded` orders
the finite subsets of the naturals or of a set) and refutes it. The same argument gives
the existence of the recursive functions behind `FoldLeft`, `MapThenSumSet` and the like
(`Recursion` and `Collects` in `StoredProofs`, `SumsExist` in `PvpProofs`, `FoldsExist`,
`FoldIn` and `FoldStays` in `PlayerProofs`), so that the sums and folds of the models are
reasoned about, not assumed.

**Broker** (`BrokerProofs`). `BrokerInvariant`: `Spec` implies always `TypeOK`,
`WorkConserving`, `InOrder` and `WaitingOnce`. The inductive invariant `IInv` adds that
an absent service has no requests (`AbsentEmpty`): otherwise `Required` could drop some
when it creates the object. All handlers meet in `DispatchStep`, which shows once what
`ServiceDispatch` does to queue, history and waiting list; each handler then only has to
show that the Service object it dispatches from is well formed. `WaitingOnce` is not a
consequence of the other parts but needed by them: `Kept` names the purged vector only if
it holds no worker twice.

`SendsOnlyToAlive`: `Spec => SendsToAlive`, the part of `Promised` about expired workers,
proved from the handlers directly. Nothing is kept from one step to the
next about who is alive: the purge and the sends are one step, and `Recipient` is one
of the workers that `Kept` left.

`BrokerKeepsPromise`: `Spec => Promised`, the refinement of `Exchange`. Two things make it
more than a change of names. With `WorkConserving` a queue and a waiting list are never
both in use, so a burst of `ServiceDispatch` is one of three things, whatever the type and
the iterator: one request to one of the listed (`RequestImplements`), or one or all of the
kept requests to the worker that has just arrived (`WaitingImplements`), or none. And
`OffersInv`, inductive beside `IInv`, says that a worker belongs to or waits at services
it has offered only, and that the service it belongs to exists: `service_change` moves
`m_service` of the workers in the list it copies, and nobody else may follow.
`OwnersMoved` and `OffersKept` show this once for all handlers; `KeptAll`, that the purge
takes nobody off the list but those it should, is a counting argument about `Kept`.

`DeploymentSafe`: `Deployed => (Spec => []PointersValid)`. `Deployed` says of the
constant `Offers` what the repository starts: every worker offers
`ServiceDoNotWaitResponse`, a service has one worker, nobody asks for the MMI service.
`SafeInv` then keeps every vector of waiting workers at length and capacity at most
one, so that `pos` is unset or one past that element, and every `m_service` null or
pointing to an existing Service.

**Broker and workers** (`BrokerProofs`). `HandledAtMostOnce`: `MdpSpec => []AtMostOnce`,
over reconnections and restarts of either side. `OnePlace` says that a request is in one
queue of the broker, or in one channel, or in one worker's inbox, or handled; a lost
message is in none. `OneReply` says the same of its reply, which exists only when the
request was handled; `Numbered`, that the number of a new request is not in use, though
others have been lost; `Addressed`, that a worker with something to answer has a
client. `BrokerInside`: `MdpSpec => Spec`: with the channels around it the broker still
is `Broker`, so its theorems hold here too, `Promised` among them.

**Gateway broker client** (`GatewayProofs`). `AlwaysSentOnce`: `Spec => []SentOnce`, for any
number of brokers, requests, silences and restarts. `Ordered` adds the types and that a
call inside `send` has been counted; only `SendQueue` and `Drain` touch the two
sequences, the one appending the next number, the other moving the front.

**Messages** (`GatewayProofs`). `RequestUnchanged` and `ReplyUnchanged`: a body of any
payload is left alone by both conversions of `zmsg`, because its size and its
first byte never fit an identity's together; the runs can show this for a few sizes only.
`RequestArrives` and `ReplyArrives` follow the frames through all wrappings and give the
body and the address that come out at the other end. `HandledAsAsked` and
`PostedIsDelivered` are the invariants `AsAsked` and `ToWhomPosted` of the composed
system. `MessageInv` says which messages each way can hold (`UpMessages`,
`DownMessages`, `BackMessages`, `OutMessages`: the wrapped forms of a request somebody
made or a message somebody posted) and that a posted message has been received, is on
its way, or its player has gone (`DeliveryOK`). `NobodyAssumption` keeps the empty
`m_reply_to` apart from the gateway's identity.

**Id generator** (`IdGeneratorProofs`). `UniqueIds` (no id in use is handed out, none
is pooled twice) and `NeverWraps` (the counter stays below `MaxConnections +
Threshold + 2`, and no id leaks), under `IdAssumption`: the width of an id has room for
the connection limit and the threshold, as 2^32 - 1 has for 10000 and 4096. The
invariant adds `Issued`: everything in use or pooled is below `next`. `NoWrap` needs
`NoLeak`, since a fresh id is taken only while the pool is small.

**Sessions** (`SessionProofs`). `SessionsKeptAlive`, `MessagesKeepTheirOrder` and
`CloseFlushesAll` state `KeptAlive`, `MessagesInOrder` and `CloseFlushes`, for any number
of connections, threads, ids and messages; `SessionAssumption` repeats the room for ids.
The invariant has two halves. `HalvesInv` says who is whose: table and handlers are
each other's inverse, a session in a session queue is that of the handler with the
id, an Init is queued once and before anything else for its session, an outstanding
operation has at most one completion, and a session that is closing reports it once.
`FlowInv` says where the messages are: a task queue is read as a chain
(`Chain`), in which the posted lists of a connection continue each other from what was
taken over to what was sent. Close and OnSessionClose are marks in the chain, before
which a certain number of messages has gone by. Ids are reused, so `DestOf` has to say
which task of a queue will find which session when it runs (`Homed`: an Init before it
gives the id to the session, or it has it already). `IdsAreImplemented` is the refinement
step by step: an accepted or closed connection is one of `IdGenerator`, any other step
changes none of its variables; `ConnectionIdsUnique` carries its theorem over.

**Presence** (`ClientProofs`). `SlotsOnce`: `Spec => [](TypeOK /\ SlotOnce)`, whatever
clients and workers do. `ChatOK` states the slots as a partition and is preserved by
`OnlineNotify` and `OfflineNotify` however they are called (`OnlineKeeps`,
`OfflineKeeps`), so that the proof has one case per handler and none on the order of the
two. `Accepted` is needed because `OnClose` logs in the handler that waits for it: that
handler has a player.
`OwnHandlers`: `Spec => []OwnHandler`, that is, unless clients register on a connection
that is logged in, the table and the slots lead to the player's own connection.
`Owned` strengthens this with "and the connection is logged in": the test of
`login_status` is what keeps a connection in the tables from changing its player.
`LoginsPending`: `Spec => []LoginPending`. `Orderly` makes it inductive: a connection in
the table has finished its login and displaces nobody; who displaced somebody is waited
for by one connection, which is closing; and nobody waits for two.
`RegistriesAgree`: `Spec => []OnlineAgreed`, with the idle check and the workers' pushes at
any time. `Agrees` ties table, slots and the workers' view to a player's one open
connection or to a dropped one. That nobody goes without a slot as long as none is
dropped is counted (`SlotFree`): used slots have different players, so with a finite set
of players and a slot for each one is free for whoever has none. The last part of
`OnlineAgreed` has an invariant of its own, `Lasting`, which does without the condition of
one point per player: the slot a player has is that of the connection in the table, or of
a dropped one, and a login that waits for another connection to close is the login of the
same player; so that a slot loses its player only when a login of a dropped connection's
player overwrites its index.

**Groups** (`StoredProofs`). `AlwaysRecordBacked`, `AlwaysLeadersAreMembers`,
`AlwaysGroupHasMembers`, for any number of users, groups and requests that end half way. The
three need each other (`Consistent`): an owner who promotes has a group, so that the list
that grows is one; and when choosing an owner raises, the leaders that made it raise are
members, so that the row that stays has some. `TornOnFailure` connects the two ways in which
the properties speak of requests that end half way: as long as there was none, no pair of
user and group is exempt. `Backed` is what one user's record asks of one group, so that a
request has to be looked at for its own user only, and `Leaves` the lists wherever
`deleteUserFromGroup` stops.

**Connections** (`StoredProofs`). `AlwaysApart`: `PoolSpec => []ConnectionsApart`, for any
number of connections that stay and any limit. `IndexListFree` says that `index_list`
holds connections that stay, each once and none in use, and what refused constructors
left there; `UseBounded` that `use_connect_num` exceeds the length of the vector only
after the limit is reached, which is why the branch that takes that number for an index
hits the end of the vector.

**World map** (`StoredProofs`). `PlacesKept` and `WatchersKept`: `PlacesAgree` and
`WatchersAgree`, for land of any size and over restarts. `PlacesOK` says that the vector
holds the places for cities that the hash does not have, each once, and that a record
leads to a place of its player. It also says that no record has a field `coodrd#y`, which
is why the branch for the old place never runs. The vector is filled by a loop over
the land; that it then holds every place once is by induction over the turns
(`FreePlaces`).

**Accounts** (`StoredProofs`). `NamesLead`: `AccountsSpec => []NamesAgree`.
`AccountsInv` needs that a proposed name is not taken by anybody (`Proposed`) and that
user names are account numbers or addresses, each once (`NamesDiffer`). The assumption
says that a generated user name, a new UUID, is no address, and that "nobody" is no
player. `NamesStay` is the step of the argument that a name never changes its player.

**Defenders** (`StoredProofs`). `DefendersKept`: `DefenceSpec => []DefendersAgree`.
`ListsAgree` exempts the soldier whose order is between two commands and says for each
command what has been written. `BattleOK` says that what a battle has read and what it has
still to read are different soldiers, though the list changes meanwhile.

**PvP** (`PvpProofs`). `PvpPops` and `PvpSettles`, for any finite set of uids with 0 and any
points. `TablesOK`: a battle in the table has a number of its own that is not settled.
`PeerIs`: whoever a table names as a player's peer, and whatever an unset variable held
when it was written, is a uid. `PointsOK`: the points of all uids together are those of
the start, an attack on oneself included; a battle's
transfer takes from one what it gives the other, and a turn that settles several battles
is a sum over the battles of sums over the players. The laws of such sums are proved by
induction over subsets (`SumsExist` and what follows it).

**Player logic** (`PlayerProofs`). `PlayerRemembered`: `PlayerSpec => []MemoryAgrees`, from
one invariant per module.

* Goods: `GoodsInv` also gives `EquipKeptOnce` and `GoodsAgree`. Redis has one record of
  an equip, in one slot, and the backpack, the hero's slots and the e-mails of an online
  player show what the records say, but for slots that a cut exchange gave to two equips
  (`torn`); an equip that was found is at one player or on the market, or `lost`
  (`OnePlace`), and `EquipKeptOnce` says that only an end of the gateway between two
  records, or an unset uuid, puts it there; the index is the inverse of the market's vector (`Indexed`), which
  `DelMarket` has to restore after it moved the last good. The first free slot exists and
  is the least (`LeastOf`).
* City: `CityInv` says that a building with a timer is under construction and has one
  timer (`TimersOK`), without which an overwritten entry would leave a second timer to
  raise the level again. A wait of a deleted timer that runs finds a building that has a
  timer, hence is under construction, or none: that is why it may end a construction
  early but raises no building at rest. `LevelsAreEarned` is the action property
  `LevelsEarned`. The
  assumption types the configuration tables and makes construction take time.
* Heroes: the records say who stands in which position, two heroes never in the same
  (`HeroesKept`), and the arrays in memory are what the records say (`HeroesStand`).
* Army: `QueueOK` ties what the client is shown to the timer: while the front of a queue
  builds, the timer has its building time less its age to go. Restoring a queue
  from redis is a fold of `Restore` over the entries: `Restorations` is its loop invariant,
  and `Loads` that of the loop over the lists, the foreign ones included. The numbers per
  kind are no invariant, because deaths reported twice part them from the slots for good;
  `SoldiersCounted` is `CountAgrees`, which says of every step that it changes the
  difference (`Surplus`) only so. `ArmyOK(s, d)` is this for a whole handler: the numbers of
  the army `s` are those of its slots, plus the half-written death, plus the differences in
  `d`; the operations on the army keep it for any `d`, and a step is then compared by
  taking the `Tally` before it for `d`. `OrdersSaved` is the action property `SavedAtOnce`;
  an end of the worker is one disjunct of each handler, for which the lists that are
  neither old nor new are shown to be one at most. The
  assumption says that the camps are finitely many and that "no queue" is not a queue.

**Configuration** (`ClientProofs`). `PagesAreComplete`: `ConfigSpec => []PagesComplete`,
for every number of rows, every order of types and levels and every size of a page.
`PagesComplete` speaks of the pages joined (`FlattenSeq`) and of their rows' sizes added
(`FoldLeft`), both of which the library defines by recursion on numbers. The module first
proves, from well-foundedness of the strict subsets of a finite set, that such a function
exists, that its values do not depend on the indices that follow (`FoldsAgree`), and from
it what one element more does to either. `ConfigInv` is then the loop invariant of the
readers: while a table is read, the pages that are closed and the page that is being
filled are together the rows read so far, each closed page has the flag of a first or a
middle page and fits, and the size kept with the open page is the sum of its rows
(`PageOK`); the table in memory holds for each type and level the latest row, and no
row that was not read (`TableOK`). What the last page's flag says is only true once the
table has been read to its end, which is why `ListOK` is a part of its own. The assumption
types the constants.

**Messages and encryption** (`ClientProofs`). `TablesUndoBoxes` is about the tables alone:
for every even number of random bytes, the gateway's box, made by exchanging what is at
two indices, and the client's table, made by exchanging two values wherever they are, undo
each other. It is an induction along the fold (`FoldStays`): a pair of tables that undo
each other is kept by one exchange on either side. The beginning of the induction, that
the 256 numbers written down in the client undo the box the gateway calculates, is the
assumption `StableUndoes` of `Box`, a calculation on fixed numbers.
`MessagesReadable`: `WireSpec => []Readable`. `WireInv` makes it inductive. Its parts say

* in which order the messages of a session are (`Sequenced`): what is read, on its way,
  being written and waiting are four rising sequences, each below the next, the challenge
  being number 0; and that nothing is missing from 0 on (`Whole`) unless a message was too
  large;
* when both sides have the same random numbers (`Started`): the gateway from the moment the
  challenge is written, the client from the moment it reads it, and no message can be in
  front of it;
* whose bytes are encrypted (`Sole`, `Fresh`): a vector made for one session is in one
  message of one session, so that while its I/O thread is between reading a byte and
  writing it back no other thread changes it, and it is encrypted once when the thread is
  about to insert it. This is what fails for a message that several sessions share
  (`SharedArrives`, which the run `sdk_shared` violates), and what `Readable` excepts;
* what is on its way: each frame is its message encrypted once (`Coming`), the requests
  heard and still to be heard are together those asked (`Asking`).

Sending is the step that touches several sessions: `OnlyMember` says that a message that is
not shared has one receiver, the index of a new vector is beyond all others, and a session
that receives nothing is as before (`SessionKept`). That at rest as many messages are read
as sent is a bijection between the rising numbers and 1 .. n (`RisingAll`). The assumptions
type the constants; the random numbers are bytes, an even number of them and not none
(`EXCHANGETIMES` is 64). `ConfigInv` and `WireInv` were checked with TLC on the instances of
the runs `stored` and `sdk` before they were proved.

Only model-checked:

* the liveness properties `WorkersReturn`, `EverySendLeaves`, `CloseNotifies`,
  `RunningEnds`, `OrdersProgress` and `ConstructionsEnd`: they rest on fairness, that is on
  ENABLED, which the provers do not treat;
* `StableUndoes`, the assumption of `Box`: a calculation on bit vectors without any
  parameter, which TLC carries out in the run `sdk`;
* the properties of the three runs that expect a violation.

## 5. Not modelled in the modelled components

* Session: `Stop` and `CloseAllSession` of the threads, the delays of packing (never
  set by the gateway), `TCPClient`; `HeartCheck` erasing from the map it iterates over
  (its effect on presence is in `Presence`).
* Presence: the torn `unordered_map` that concurrent use could leave behind; `stamped`
  stands for `last_time # 0`, since a client that stays silent after its login is never
  timed out.
* Mdp: replies that answer no request; broker heartbeats, which the worker only
  counts; a second gateway in the runs.
* Message: the bytes of a packed structure, the Unpacker that the handlers share, and
  the pointer that `unwrap` returns into a string it erases (`zmsg.hpp:321`); the
  gateway's first message, "aa", which it reads beyond its two bytes (`__server.cpp:74`).
  A body that Python's `unpack` refuses ends the Python worker (`group_manager.py:78`):
  clients are assumed to send what their request means.
* Player logic: the four resources are one; attributes of heroes and equipment; a
  `hero_sn` or a backpack position outside the array; how long a good may stay on the
  market; an e-mail that loses its equip when `set_email_sale` or the deletion of an
  e-mail is cut in two (the equip itself is followed). What a wait of a deleted timer
  reads from freed memory beyond the building it finds, if any. `SetArmsToHero`,
  `QuikAttack` and `EmailNextPage` are empty in the code.
* Army: one player's side. What his login takes from the lists of players whose uid begins
  with the same digits is in the model (`Foreign`); that those players order and build at
  the same time is not. The redis scripts run atomically.
* World map: handlers that are empty (`HeroMove`, `EnterCity`, `Plunder`, `LookUpCity`,
  `PVEAttack`) or only answer (`KillMonster`).
* PvP: what soldiers do in a battle, which the clients compute and the worker passes on;
  `getSoldierInfoByIDs`, which splits its argument at '#' with an index of one behind
  the last. A constant stands for `mBuildingNum`, which `BattleMap.cpp:13` reads from
  redis and then sets to 50.
* Groups: requests that only read, and the text of a group's message.
* Storage: the formatting of commands and parsing of answers; the reconnection to redis,
  which cannot be reached (`redis_base.cpp:73`); `MysqlBase::get_instance` under several
  threads (`mysql_base.h:68`).

## 6. Plan

Done: the broker and its protocol, the session layer, presence, messages, the player
logic, the workers, the stores, and the theorems above. Next, in this order:

1. Proofs: an abstract specification of a request from the gateway to a worker and back,
   above `Exchange`, which `Mdp` implements.
2. Replies that answer no request in `Mdp` (timers of the workers), which may come before
   the worker's first request.
3. Two players in `Army` whose uids begin alike, and its deaths composed with `Pvp` and `Defence`.
4. `Stop` and `CloseAllSession`: the end of the gateway while sessions are open.

Runs stay few: a new component joins the instance of those it shares state with, or
`MCStored` or `MCPlayer` when it shares none.

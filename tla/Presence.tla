------------------------------ MODULE Presence ------------------------------
(***************************************************************************)
(* Who is online, as the gateway sees it (gateway_server/service): the     *)
(* login and close handlers of LoginWorker, the table UuidHandlerPoitiner  *)
(* from player ids to handlers, the player slots of ChatWorker, the idle   *)
(* check HeartCheck, and the notices to the worker processes.              *)
(*                                                                         *)
(* All of it runs in the main thread except handler_in_gateway, so every   *)
(* handler is one action.  Between a handler's Close() and its OnClose     *)
(* other handlers run (see Session), and messages that were read earlier   *)
(* are still delivered.  A handler is destroyed when its connection has    *)
(* closed and neither table refers to it.                                  *)
(***************************************************************************)
EXTENDS Integers, Sequences, FiniteSets, Functions

CONSTANTS
    Handlers,    \* connections, each with its LoginWorker
    Players,     \* player ids
    MaxClient,   \* MAX_CLIENT
    None,        \* no handler, no player, no slot
    Missing,     \* no entry in UuidHandlerPoitiner
    Null,        \* an entry that holds a null pointer
    Envs         \* the environments considered, subsets of Behaviours

\* "two_point": a player logs in while logged in elsewhere.
\* "idle": clients fall silent.  "push": workers send to players who are not
\* online.  "register": a client registers an account while logged in.
Behaviours == {"two_point", "idle", "push", "register"}

\* The indices of ChatWorker::player.
Slots == 0 .. MaxClient - 1

ASSUME PresenceAssumption ==
    /\ MaxClient \in Nat /\ IsFiniteSet(Players)
    /\ Envs \subseteq SUBSET Behaviours
    /\ None \notin Handlers \cup Players \cup Slots
    /\ Missing \notin Handlers /\ Null \notin Handlers /\ Missing # Null

VARIABLES
    env,         \* what clients and workers may do: fixed from the start
    entry,       \* UuidHandlerPoitiner
    conn,        \* "new", "open", "closing" (Close() called) or "closed"
    uuid,        \* player_UUID
    logged,      \* login_status
    clientOff,   \* is_client_off
    stamped,     \* last_time # 0
    pending,     \* offline_handler: the handler whose login_handle2 it runs
    chat,        \* the tables of ChatWorker
    workers,     \* players the last notice to the workers reported online
    done,        \* handlers whose login_handle2 has run
    fault        \* the first undefined step, or "none"

vars == <<env, entry, conn, uuid, logged, clientOff, stamped, pending, chat,
          workers, done, fault>>

-----------------------------------------------------------------------------
(* ChatWorker.                                                             *)

\* UUID_index_map, remain_player_index (used at its back), the members of
\* online_player_index, and player[].handerpointer.
Chat(x, r, o, s) == [index |-> x, remain |-> r, online |-> o, slot |-> s]

\* OnlineNotify(p), with h = UuidHandlerPoitiner[p].  An older index of p is
\* overwritten.
OnlineNotify(c, p, h) ==
    IF c.remain = <<>> THEN c
    ELSE LET i == c.remain[Len(c.remain)]
         IN Chat([c.index EXCEPT ![p] = i],
                 SubSeq(c.remain, 1, Len(c.remain) - 1),
                 c.online \cup {i},
                 [c.slot EXCEPT ![i] = h])

\* Faulty variant: the slot stays in online_player_index.
OfflineNotifyKeepsOnline(c, p) ==
    IF c.index[p] = None THEN c
    ELSE Chat([c.index EXCEPT ![p] = None], Append(c.remain, c.index[p]),
              c.online, [c.slot EXCEPT ![c.index[p]] = None])

\* OfflineNotify(p): the slot of p, if it has one, becomes free.
OfflineNotify(c, p) ==
    IF c.index[p] = None THEN c
    ELSE Chat([c.index EXCEPT ![p] = None],
              Append(c.remain, c.index[p]),
              c.online \ {c.index[p]},
              [c.slot EXCEPT ![c.index[p]] = None])

-----------------------------------------------------------------------------
(* LoginWorker.                                                            *)

\* Messages already read are handled until OnClose.
Receives(h) == fault = "none" /\ conn[h] \in {"open", "closing"}

\* The handler object still exists.
Referenced(h) ==
    \/ conn[h] # "closed"
    \/ \E p \in Players : entry[p] = h
    \/ \E i \in Slots : chat.slot[i] = h

\* OnConnect: the challenge is sent.
Connect(h) ==
    /\ fault = "none"
    /\ conn[h] = "new"
    /\ conn' = [conn EXCEPT ![h] = "open"]
    /\ UNCHANGED <<entry, uuid, logged, clientOff, stamped, pending, chat,
                   workers, done, fault>>

\* login_handle2 of handler h as player p: the table, OnlineNotifyWorker, and
\* the player's data; e, c and w are the tables it finds.
LoginHandle2(h, p, e, c, w) ==
    /\ entry' = [e EXCEPT ![p] = h]
    /\ chat' = OnlineNotify(c, p, h)
    /\ workers' = w \cup {p}
    /\ done' = done \cup {h}
    /\ logged' = [logged EXCEPT ![h] = TRUE]

\* OnMessage stamps last_time of a handler that is logged in.
Stamp(h) == stamped' = IF logged[h] THEN stamped \cup {h} ELSE stamped

\* Close() of a handler; it only posts the close to the session's thread.
Closing(cn, h) == IF cn[h] = "open" THEN [cn EXCEPT ![h] = "closing"] ELSE cn

\* Faulty variant: the old connection is not closed.
DisplaceNoClose(old, h, p) ==
    /\ clientOff' = [clientOff EXCEPT ![old] = FALSE]
    /\ pending' = [pending EXCEPT ![old] = h]
    /\ entry' = [entry EXCEPT ![p] = Missing]
    /\ logged' = [logged EXCEPT ![h] = TRUE]
    /\ UNCHANGED <<conn, chat, workers, done>>

\* login_handle when handler old holds the player's entry: old is told to
\* finish the login of h when it has closed.
Displace(old, h, p) ==
    /\ clientOff' = [clientOff EXCEPT ![old] = FALSE]
    /\ pending' = [pending EXCEPT ![old] = h]
    /\ conn' = Closing(conn, old)
    /\ entry' = [entry EXCEPT ![p] = Missing]
    /\ logged' = [logged EXCEPT ![h] = TRUE]
    /\ UNCHANGED <<chat, workers, done>>

\* Faulty variant: no test of login_status.
MayLoginAgain(h) == TRUE

\* The early return of LoginRequestService.
MayLogin(h) == ~logged[h]

\* LoginRequestService with a valid account of player p, and login_handle.
LoginRequest(h, p) ==
    /\ Receives(h)
    /\ MayLogin(h)
    /\ "two_point" \notin env =>
          \A g \in Handlers \ {h} : uuid[g] = p => conn[g] = "closed"
    /\ Stamp(h)
    /\ uuid' = [uuid EXCEPT ![h] = p]
    /\ IF entry[p] \in Handlers THEN Displace(entry[p], h, p)
       ELSE /\ LoginHandle2(h, p, entry, chat, workers)
            /\ UNCHANGED <<clientOff, pending, conn>>
    /\ UNCHANGED fault

\* RegisterRequestService: player p is new.  The login_status test of
\* LoginRequestService is missing here.
RegisterRequest(h, p) ==
    /\ Receives(h)
    /\ \A g \in Handlers : uuid[g] # p
    /\ entry[p] = Missing
    /\ logged[h] => "register" \in env
    /\ Stamp(h)
    /\ uuid' = [uuid EXCEPT ![h] = p]
    /\ LoginHandle2(h, p, entry, chat, workers)
    /\ UNCHANGED <<conn, clientOff, pending, fault>>

\* HeartBeatRequestService, and every other request of a logged-in client.
HeartBeatRequest(h) ==
    /\ Receives(h)
    /\ stamped' = stamped \cup {h}
    /\ UNCHANGED <<entry, conn, uuid, logged, clientOff, pending, chat, workers,
                   done, fault>>

\* A wrong challenge answer, or a request whose service throws.
Rejected(h) ==
    /\ Receives(h)
    /\ Stamp(h)
    /\ conn' = Closing(conn, h)
    /\ UNCHANGED <<entry, uuid, logged, clientOff, pending, chat, workers, done,
                   fault>>

\* Faulty variant: the player's entry is not erased.
OnCloseKeepsEntry(h) ==
    LET p == uuid[h]
        here == p # None /\ entry[p] # Missing
    IN /\ Receives(h)
       /\ conn' = [conn EXCEPT ![h] = "closed"]
       /\ chat' = IF here THEN OfflineNotify(chat, p) ELSE chat
       /\ workers' = IF here THEN workers \ {p} ELSE workers
       /\ UNCHANGED <<entry, uuid, logged, clientOff, stamped, pending, done,
                      fault>>

\* LoginWorker::OnClose, after Close() or because the client left.  It looks
\* at its player's entry, whoever holds it now.
OnClose(h) ==
    LET p == uuid[h]
        here == p # None /\ entry[p] # Missing
        e == IF here /\ clientOff[h] THEN [entry EXCEPT ![p] = Missing] ELSE entry
        c == IF here THEN OfflineNotify(chat, p) ELSE chat
        w == IF here THEN workers \ {p} ELSE workers
        next == pending[h]
    IN /\ Receives(h)
       /\ conn' = [conn EXCEPT ![h] = "closed"]
       /\ pending' = [pending EXCEPT ![h] = None]
       /\ IF next = None
          THEN /\ entry' = e /\ chat' = c /\ workers' = w
               /\ UNCHANGED <<logged, done, fault>>
          ELSE IF Referenced(next)
          THEN LoginHandle2(next, uuid[next], e, c, w) /\ UNCHANGED fault
          ELSE /\ fault' = "freed_login"     \* login_handle2 of a freed object
               /\ UNCHANGED <<entry, chat, workers, logged, done>>
       /\ UNCHANGED <<uuid, clientOff, stamped>>

-----------------------------------------------------------------------------
(* The idle check, the workers and the market.                             *)

\* The handlers HeartCheck may find idle for more than 500 seconds.
MayBeIdle ==
    {h \in stamped : \E p \in Players : entry[p] = h}

\* HeartCheck.  It erases from the table it iterates over, so that the iterator
\* is followed after its node was freed: the loop goes on or the gateway dies.
HeartCheck(idle) ==
    /\ fault = "none" /\ "idle" \in env
    /\ clientOff' = [h \in Handlers |-> clientOff[h] /\ h \notin idle]
    /\ conn' = [h \in Handlers |-> IF h \in idle /\ conn[h] = "open"
                                   THEN "closing" ELSE conn[h]]
    /\ entry' = [p \in Players |-> IF entry[p] \in idle THEN Missing ELSE entry[p]]
    /\ fault' \in IF idle = {} THEN {"none"} ELSE {"none", "erased_iterator"}
    /\ UNCHANGED <<uuid, logged, stamped, pending, chat, workers, done>>

\* handler_in_gateway, in the thread of the broker client: operator[] enters a
\* null pointer for a player who is not online.
HandlerInGateway(p) ==
    /\ fault = "none" /\ "push" \in env
    /\ entry' = [entry EXCEPT ![p] = IF @ = Missing THEN Null ELSE @]
    /\ UNCHANGED <<conn, uuid, logged, clientOff, stamped, pending, chat,
                   workers, done, fault>>

\* PushNotify, or BuyMarketGoodsRequestService, for goods of player p: find()
\* and ->second are used without a test for null.
MarketNotice(p) ==
    /\ fault = "none"
    /\ entry[p] = Null
    /\ fault' = "null_entry"
    /\ UNCHANGED <<entry, conn, uuid, logged, clientOff, stamped, pending, chat,
                   workers, done>>

-----------------------------------------------------------------------------
Init ==
    /\ env \in Envs
    /\ entry = [p \in Players |-> Missing]
    /\ conn = [h \in Handlers |-> "new"]
    /\ uuid = [h \in Handlers |-> None]
    /\ logged = [h \in Handlers |-> FALSE]
    /\ clientOff = [h \in Handlers |-> TRUE]
    /\ stamped = {}
    /\ pending = [h \in Handlers |-> None]
    /\ chat = Chat([p \in Players |-> None],
                   [i \in 1 .. MaxClient |-> MaxClient - i], {},
                   [i \in Slots |-> None])
    /\ workers = {} /\ done = {}
    /\ fault = "none"

HandlerNext(h) ==
    \/ Connect(h) \/ HeartBeatRequest(h) \/ Rejected(h) \/ OnClose(h)
    \/ \E p \in Players : LoginRequest(h, p) \/ RegisterRequest(h, p)

Next ==
    /\ \/ \E h \in Handlers : HandlerNext(h)
       \/ \E idle \in SUBSET MayBeIdle : HeartCheck(idle)
       \/ \E p \in Players : HandlerInGateway(p) \/ MarketNotice(p)
    /\ UNCHANGED env

Spec == Init /\ [][Next]_vars

-----------------------------------------------------------------------------
(* Properties.                                                             *)

\* The tables hold what their types say; in particular every slot they name
\* exists.
TypeOK ==
    /\ env \in Envs
    /\ entry \in [Players -> Handlers \cup {Missing, Null}]
    /\ conn \in [Handlers -> {"new", "open", "closing", "closed"}]
    /\ uuid \in [Handlers -> Players \cup {None}]
    /\ logged \in [Handlers -> BOOLEAN]
    /\ clientOff \in [Handlers -> BOOLEAN]
    /\ stamped \subseteq Handlers
    /\ pending \in [Handlers -> Handlers \cup {None}]
    /\ chat.index \in [Players -> Slots \cup {None}]
    /\ chat.remain \in Seq(Slots)
    /\ chat.online \subseteq Slots
    /\ chat.slot \in [Slots -> Handlers \cup {None}]
    /\ workers \subseteq Players
    /\ done \subseteq Handlers
    /\ fault \in {"none", "freed_login", "erased_iterator", "null_entry"}

\* "remain index add player and get a remain": whatever logins, displacements
\* and timeouts happen, a slot is free once or in use, never both, and two
\* players never share one.
SlotOnce ==
    /\ IsInjective(chat.remain)
    /\ Range(chat.remain) \cap chat.online = {}
    /\ Range(chat.remain) \cup chat.online = Slots
    /\ \A p, q \in Players :
          chat.index[p] # None =>
             /\ chat.index[p] \in chat.online
             /\ p # q => chat.index[p] # chat.index[q]

\* Unless clients register a second account on one connection, what reaches a
\* player through the table or through chat reaches a connection that has proved
\* to be that player's.
OwnHandler ==
    "register" \notin env =>
        /\ \A p \in Players : entry[p] \in Handlers =>
              uuid[entry[p]] = p /\ logged[entry[p]]
        /\ \A p \in Players : chat.index[p] # None =>
              uuid[chat.slot[chat.index[p]]] = p

\* The players log in from one place at a time, and nobody registers on a
\* connection that is logged in.  The idle check and the workers do as they like.
OnePointEach == env \subseteq {"idle", "push"}

\* The connections of player p, and those of them that HeartCheck or a login of p
\* elsewhere has dropped.
Had(p) == {h \in Handlers : uuid[h] = p}
Held(p) == {h \in Had(p) : conn[h] # "closed"}
Dropped(p) == {h \in Had(p) : ~clientOff[h]}

\* With one point per player the registries agree, but for what HeartCheck leaves
\* behind, and this is all it leaves behind:  The table has the open connection of
\* each player unless it was dropped.  The workers and the chat slots know every
\* player with a connection (as long as the check dropped nobody and there are
\* slots for all), and whom else they believe online was once dropped; a player all
\* of whose connections were dropped stays online for them, unless a worker
\* entered a null pointer.  And with any number of points: a slot that no player
\* owns, which is never free again, belongs to a connection that was dropped, by
\* the check or because its player logged in elsewhere.
OnlineAgreed ==
    /\ OnePointEach =>
          \A p \in Players :
              /\ Cardinality(Held(p)) <= 1
              /\ \A h \in Handlers : entry[p] = h <=> h \in Held(p) \ Dropped(p)
              /\ Held(p) # {} => p \in workers
              /\ p \in workers => Held(p) \cup Dropped(p) # {}
              /\ Had(p) # {} /\ Had(p) \subseteq Dropped(p) /\ entry[p] = Missing =>
                    p \in workers
              /\ chat.index[p] # None =>
                    /\ p \in workers
                    /\ chat.slot[chat.index[p]] \in Held(p) \cup Dropped(p)
              /\ /\ Held(p) # {} /\ Cardinality(Players) <= MaxClient
                 /\ \A h \in Handlers : clientOff[h]
                 => chat.index[p] # None
    /\ "register" \notin env =>
          \A i \in chat.online :
              \/ \E p \in Players : chat.index[p] = i
              \/ \E p \in Players : chat.slot[i] \in Dropped(p)

\* A client whose login was accepted is entered in the tables, or its connection
\* has closed, or another connection of the player is closing that will finish
\* the login: a login that waits for the first point to close is not forgotten,
\* unless that connection registers a second account.
LoginPending ==
    "register" \notin env =>
        \A h \in Handlers :
            logged[h] /\ h \notin done /\ conn[h] # "closed" =>
                \E g \in Handlers : pending[g] = h /\ conn[g] = "closing"

=============================================================================

------------------------------ MODULE Accounts ------------------------------
(***************************************************************************)
(* Accounts and nicknames, and what chat shows of them.  MySQL has a row   *)
(* per account; redis has a hash from nicknames to players, the nickname in *)
(* each player's record, and two sets of names to propose; ChatWorker keeps *)
(* the name a player had when it logged in, with the slot it then got.     *)
(*                                                                         *)
(* All of it runs in the gateway's main thread, so that a request is a     *)
(* step.  A player logs in from one place at a time here (Presence has the *)
(* other case), but a client may send any request at any time, logged in   *)
(* or not: only LoginRequest tests that first.                             *)
(***************************************************************************)
EXTENDS Integers, Sequences, SequencesExt, FiniteSets, Functions

CONSTANTS
    Conns,          \* connections
    Nicks,          \* nicknames without a space
    Spaced,         \* one with a space
    BoyNames, GirlNames,
    Emails,
    NoNick,         \* "Not Exsit Name", which has spaces too
    NoOne,
    ChatSlots,      \* MAX_CLIENT
    MaxAccounts,    \* bound on the accounts
    MaxCalls        \* bound on requests, failures and restarts

ASSUME AccountsAssumption ==
    /\ ChatSlots \in Nat /\ MaxAccounts \in Nat /\ MaxCalls \in Nat
    /\ Spaced \notin Nicks /\ NoNick \notin Nicks
    /\ BoyNames \subseteq Nicks /\ GirlNames \subseteq Nicks \ BoyNames
    /\ NoOne \notin Nat
    \* The name an account is given is a new UUID, which is no address.
    /\ \A e \in Emails : e \notin Nat

\* player_UUID is 0 before login, and stays 0 when an account is not made.
Uids == 0..MaxAccounts
Indices == 0..(ChatSlots - 1)

VARIABLES
    users,      \* user_info: the user name of each account, at first its number
    nickname,   \* hash nickname
    nameOf,     \* user#uid nickname
    proposals,  \* boy_name and girl_name
    conn,       \* per connection: open, player_UUID, login_status, last_rand_name
    entered,    \* the players in UuidHandlerPoitiner
    remain,     \* remain_player_index
    indexOf,    \* UUID_index_map
    slot,       \* player[]: handerpointer, and UUID and name, which stay when it is reset
    calls

accountVars == <<users, nickname, nameOf, proposals, conn, entered, remain, indexOf, slot, calls>>
redis == <<nickname, nameOf, proposals>>
chatTables == <<entered, remain, indexOf, slot>>

Off == [open |-> FALSE, uuid |-> 0, logged |-> FALSE, last |-> NoNick]
Call == calls < MaxCalls /\ calls' = calls + 1
Calls(c) == Call /\ conn[c].open
-----------------------------------------------------------------------------
\* find_user_uuid, exsit_user_name: a name with a space is nobody's.
FindUserUuid(n) == IF n \in Nicks THEN nickname[n] ELSE NoOne

\* find_user_name: "Not Exsit Name" for a player without a name.
FindUserName(p) == nameOf[p]

\* Faulty variant: a name that somebody has is overwritten.
MaySetAny(n) == n \in Nicks

\* The tests of set_user_name.
MaySet(n) == n \in Nicks /\ FindUserUuid(n) = NoOne

\* set_user_name: the name a player had before stays his in the hash.
SetUserName(p, n) ==
    IF MaySet(n)
    THEN /\ nickname' = [nickname EXCEPT ![n] = p]
         /\ nameOf' = [nameOf EXCEPT ![p] = n]
    ELSE UNCHANGED <<nickname, nameOf>>

\* OnlineNotify, after login_handle2 has entered the player.
OnlineNotify(p, name) ==
    /\ entered' = entered \cup {p}
    /\ IF remain = <<>> THEN UNCHANGED <<remain, indexOf, slot>>
       ELSE /\ remain' = Front(remain)
            /\ indexOf' = [indexOf EXCEPT ![p] = Last(remain)]
            /\ slot' = [slot EXCEPT ![Last(remain)] = [here |-> TRUE, uuid |-> p, name |-> name]]

\* OfflineNotify.
OfflineNotify(p) ==
    IF indexOf[p] = NoOne THEN UNCHANGED <<remain, indexOf, slot>>
    ELSE /\ remain' = Append(remain, indexOf[p])
         /\ slot' = [slot EXCEPT ![indexOf[p]].here = FALSE]
         /\ indexOf' = [indexOf EXCEPT ![p] = NoOne]
-----------------------------------------------------------------------------
AccountsInit ==
    /\ users = <<>> /\ calls = 0
    /\ nickname = [n \in Nicks |-> NoOne] /\ nameOf = [p \in Uids |-> NoNick]
    /\ proposals = [sex \in {"boy", "girl"} |-> IF sex = "boy" THEN BoyNames ELSE GirlNames]
    /\ conn = [c \in Conns |-> Off]
    /\ entered = {} /\ remain = [i \in 1..ChatSlots |-> ChatSlots - i]
    /\ indexOf = [p \in Uids |-> NoOne]
    /\ slot = [i \in Indices |-> [here |-> FALSE, uuid |-> NoOne, name |-> NoNick]]

AccountConnect(c) ==
    /\ ~conn[c].open
    /\ conn' = [conn EXCEPT ![c] = [Off EXCEPT !.open = TRUE]]
    /\ UNCHANGED <<users, redis, chatTables, calls>>

\* RegisterRequestService, with user_register and init_new_player.  A query of
\* user_register that answers nothing leaves player_UUID as it was, with or without a
\* new row, and the client is logged in all the same.
NewAccount(c, n) ==
    \E made, told \in BOOLEAN :
        LET p == IF told THEN Len(users) + 1 ELSE conn[c].uuid IN
        /\ told => made
        /\ made => Len(users) < MaxAccounts
        /\ users' = IF made THEN Append(users, Len(users) + 1) ELSE users
        /\ conn' = [conn EXCEPT ![c].uuid = p, ![c].logged = TRUE]
        /\ SetUserName(p, n)
        /\ OnlineNotify(p, IF MaySet(n) THEN n ELSE FindUserName(p))
RegisterRequestService(c, n) ==
    /\ Calls(c)
    /\ IF FindUserUuid(n) # NoOne
       THEN UNCHANGED <<users, nickname, nameOf, conn, chatTables>>
       ELSE NewAccount(c, n)
    /\ UNCHANGED proposals

\* SetNameRequestService: login_status only decides on the answer.
SetNameRequestService(c, n) ==
    /\ Calls(c)
    /\ SetUserName(conn[c].uuid, n)
    /\ UNCHANGED <<users, proposals, conn, chatTables>>

\* GetRandNameRequestService.  add_random_name says SADD without a member, which redis
\* refuses: a name that was not taken never comes back.
GetRandNameRequestService(c, sex) ==
    /\ Calls(c)
    /\ IF proposals[sex] = {} THEN UNCHANGED <<proposals, conn>>
       ELSE \E n \in proposals[sex] :
                /\ proposals' = [proposals EXCEPT ![sex] = @ \ {n}]
                /\ conn' = [conn EXCEPT ![c].last = n]
    /\ UNCHANGED <<users, nickname, nameOf, chatTables>>

\* LoginRequestService with the user name and password of account p.
AccountLogin(c, p) ==
    /\ Calls(c)
    /\ ~conn[c].logged /\ p \in DOMAIN users /\ p \notin entered
    /\ conn' = [conn EXCEPT ![c].uuid = p, ![c].logged = TRUE]
    /\ OnlineNotify(p, FindUserName(p))
    /\ UNCHANGED <<users, redis>>

\* BindEmailRequestService: no account has number 0.
BindEmailRequestService(c, e) ==
    /\ Calls(c)
    /\ users' = IF e \notin Range(users) /\ conn[c].uuid \in DOMAIN users
                THEN [users EXCEPT ![conn[c].uuid] = e] ELSE users
    /\ UNCHANGED <<redis, conn, chatTables>>

\* OnClose.  The account it looks for is the latest one of the connection.
AccountClose(c) ==
    /\ conn[c].open
    /\ conn' = [conn EXCEPT ![c] = Off]
    /\ IF conn[c].uuid \in entered
       THEN OfflineNotify(conn[c].uuid) /\ entered' = entered \ {conn[c].uuid}
       ELSE UNCHANGED chatTables
    /\ UNCHANGED <<users, redis, calls>>

\* The gateway is started again: after it ended between two requests, or between the
\* two commands of set_user_name.
GatewayRestart ==
    /\ Call
    /\ \/ UNCHANGED nickname
       \/ \E c \in Conns, n \in Nicks :
            conn[c].open /\ MaySet(n) /\ nickname' = [nickname EXCEPT ![n] = conn[c].uuid]
    /\ conn' = [c \in Conns |-> Off]
    /\ entered' = {} /\ remain' = [i \in 1..ChatSlots |-> ChatSlots - i]
    /\ indexOf' = [p \in Uids |-> NoOne]
    /\ slot' = [i \in Indices |-> [here |-> FALSE, uuid |-> NoOne, name |-> NoNick]]
    /\ UNCHANGED <<users, nameOf, proposals>>

AccountsNext ==
    \/ \E c \in Conns : AccountConnect(c) \/ AccountClose(c)
    \/ \E c \in Conns, n \in Nicks \cup {Spaced} :
          RegisterRequestService(c, n) \/ SetNameRequestService(c, n)
    \/ \E c \in Conns, sex \in {"boy", "girl"} : GetRandNameRequestService(c, sex)
    \/ \E c \in Conns, p \in Uids : AccountLogin(c, p)
    \/ \E c \in Conns, e \in Emails : BindEmailRequestService(c, e)
    \/ GatewayRestart

AccountsSpec == AccountsInit /\ [][AccountsNext]_accountVars
-----------------------------------------------------------------------------
(* The requests of chat read only.  A client names its own index, which it *)
(* was told at login.                                                      *)
MyIndex(c) == IF conn[c].logged /\ indexOf[conn[c].uuid] # NoOne THEN indexOf[conn[c].uuid] ELSE -1

\* WorldChannelMsgRequestService: who is named as the sender.
WorldChannelMsg(i) == IF i \in Indices THEN slot[i].name ELSE NoNick

\* PrivateChannelRequestService: the player it is sent to.  The bound of both indices
\* is one too high; handerpointer is only there while the slot is in use.
PrivateChannel(i, to) ==
    IF i \in Indices /\ to \in Indices /\ slot[to].here /\ i # to THEN slot[to].uuid ELSE NoOne

\* FindFriendRequestService: the slot and name of a friend who is online.  Whoever has
\* index 0 finds nobody.
FindFriend(i, n) ==
    LET p == FindUserUuid(n) IN
    IF p # NoOne /\ i > 0 /\ i < ChatSlots /\ indexOf[p] # NoOne
    THEN [index |-> indexOf[p], name |-> slot[indexOf[p]].name]
    ELSE [index |-> -1, name |-> NoNick]

\* AttackEnemyRequestService: the player whose city and resources are shown to a client
\* that names an enemy.
AttackEnemyRequestService(n) == FindUserUuid(n)

\* NamesAgree: names lead to one player.  A player whose record has a name is the one
\* the name leads to; nobody else's messages in chat carry it, also after the player
\* has changed it, which chat does not notice before the next login: whoever attacks
\* the sender of a message by the name it carries meets that player; a friend that is
\* found by name is written to by the index found with it.  Two accounts have
\* different user names, and no name is proposed to two clients.
Leads(n, p) == n \in Nicks => nickname[n] = p
NamesAgree ==
    /\ \A p \in Uids : Leads(FindUserName(p), p)
    /\ \A c \in Conns : MyIndex(c) # -1 /\ WorldChannelMsg(MyIndex(c)) \in Nicks =>
          AttackEnemyRequestService(WorldChannelMsg(MyIndex(c))) = conn[c].uuid
    /\ \A c \in Conns, n \in Nicks :
          LET friend == FindFriend(MyIndex(c), n) IN
          friend.index # -1 =>
              /\ Leads(friend.name, nickname[n])
              /\ friend.index # MyIndex(c) =>
                    PrivateChannel(MyIndex(c), friend.index) = nickname[n]
    /\ IsInjective(users)
    /\ \A c, d \in Conns : c # d /\ conn[c].last # NoNick => conn[c].last # conn[d].last
=============================================================================

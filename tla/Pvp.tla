-------------------------------- MODULE Pvp ---------------------------------
(***************************************************************************)
(* The PvP worker.  The thread of the worker API pushes every request on a *)
(* locking queue; the main thread, once per pulse of the world timer, pops *)
(* the requests that were there when it looked, and then advances every    *)
(* battle by one tick.  A battle is kept under its defender; an attacker's *)
(* last defender is kept in a second table that nobody ever clears.        *)
(*                                                                         *)
(* What soldiers die in redis is modelled in Army; requests that only pass *)
(* a message on to the opponent change nothing here.                       *)
(***************************************************************************)
EXTENDS Integers, Sequences, FiniteSets, FiniteSetsExt

CONSTANTS
    Uids,           \* of players, and 0; what an unset variable may hold is one of them
    BattleTicks,    \* (1000 / SERVER_TICK_TIME) * SECONDS_PER_BATTLE
    BuildingNum,    \* mBuildingNum
    StartPoints,    \* [Uids -> abt#point], 0 without a record
    MaxPulses,      \* bound: elapsed pulses that are told apart
    MaxRequests,    \* bound on the requests sent
    MaxQueue,       \* bound on the requests waiting
    None

ASSUME PvpAssumption ==
    /\ IsFiniteSet(Uids) /\ 0 \in Uids
    /\ BattleTicks \in Nat \ {0} /\ BuildingNum \in Nat \ {0}
    /\ StartPoints \in [Uids -> Int]
    /\ MaxPulses \in Nat \ {0} /\ MaxRequests \in Nat /\ MaxQueue \in Nat
    /\ None \notin Uids

Players == Uids \ {0}

THREE_STAR_REWARD == 6

VARIABLES
    msgQueue,       \* LockingQueue<msgData>
    sent,           \* how many requests were pushed
    pulses,         \* pulses of the world timer since the last poll
    pc,             \* the main loop: "poll", "handle" or "update"
    todo,           \* what is left of the size handleMsg read
    battleMaps,     \* [Uids -> None or the battle defended]
    playerPairs,    \* [Uids -> None or the last uid attacked]
    onlinePlayers,
    points,         \* abt#point in redis
    settled         \* battle number -> how often its result was reported

vars == <<msgQueue, sent, pulses, pc, todo, battleMaps, playerPairs, onlinePlayers, points, settled>>
tables == <<battleMaps, playerPairs, onlinePlayers, points, settled>>

\* Requests: whose, which, and the fields the handlers look at.  An attack names a
\* player, the attacker himself too, or None: a name nobody has.
Ids == {"login", "logout", "start", "die", "ready", "stop", "relay"}
Request(p, id) == [uid |-> p, id |-> id, other |-> None, building |-> FALSE,
                   townhall |-> FALSE, resource |-> FALSE]
Others == {Request(p, id) : p \in Players, id \in Ids \ {"start", "die"}}
Starts == {[Request(p, "start") EXCEPT !.other = d] : p \in Players, d \in Players \cup {None}}
Dies == {[Request(p, "die") EXCEPT !.building = b, !.townhall = b /\ t, !.resource = b /\ ~t] :
           p \in Players, b \in BOOLEAN, t \in BOOLEAN}
Requests == Others \cup Starts \cup Dies
-----------------------------------------------------------------------------
\* BattleMap(aID, dID): both points are read, from the attacker.
GetPlayerPointsByID(p) == points[p]

BattleMap(n, a) ==
    [number |-> n, atker |-> a, ticks |-> 0, died |-> 0, townhall |-> FALSE, star |-> 0,
     start |-> TRUE, atkPoint |-> GetPlayerPointsByID(a), dfdPoint |-> GetPlayerPointsByID(a), loot |-> 0]

\* plusDiedBuildingNum: the ratio is a quotient of integers.
PlusDied(b) ==
    LET died == IF b.died < BuildingNum THEN b.died + 1 ELSE b.died
        ratio == died \div BuildingNum
    IN [b EXCEPT !.died = died,
                 !.star = IF ratio >= 1 THEN 3
                          ELSE IF 2 * ratio >= 1 THEN (IF b.townhall THEN 2 ELSE 1) ELSE @]

Quotient(n, d) == IF n >= 0 THEN n \div d ELSE -((-n) \div d)


\* What the attacker gets; the defender gets the opposite.
AtkerGettedPoint(b) ==
    LET diff == b.atkPoint - b.dfdPoint IN
    IF b.star > 0
    THEN (30 - Quotient(diff, 10)) * (b.star \div 3)
           + (IF b.star = 3 THEN THREE_STAR_REWARD ELSE 0)
    ELSE -(20 + Quotient(diff, 20))

\* Faulty variant: without a star nobody gets points but the attacker loses them.
DfderGetsNothing(b) == IF b.star > 0 THEN -AtkerGettedPoint(b) ELSE 0

DfderGettedPoint(b) == -AtkerGettedPoint(b)

\* 1: defends, 2: attacks, 0: neither.
IsAttackerOrDefender(u) ==
    IF battleMaps[u] # None THEN 1 ELSE IF playerPairs[u] # None THEN 2 ELSE 0

\* getPeerUid: 0 when there is none, or when it is 0 that is attacked.
GetPeerUid(u) ==
    IF battleMaps[u] # None THEN battleMaps[u].atker
    ELSE IF playerPairs[u] # None THEN playerPairs[u] ELSE 0

GetBattleMap(u) == battleMaps[u]

Reported(ds) == [n \in DOMAIN settled |->
                    settled[n] + Cardinality({d \in ds : battleMaps[d].number = n})]
-----------------------------------------------------------------------------
Init ==
    /\ msgQueue = <<>> /\ sent = 0
    /\ pulses = 0 /\ pc = "poll" /\ todo = 0
    /\ battleMaps = [p \in Uids |-> None]
    /\ playerPairs = [p \in Uids |-> None]
    /\ onlinePlayers = {}
    /\ points = StartPoints
    /\ settled = <<>>

\* handleOriginalMsg, in the thread of the worker API.
Push(r) ==
    /\ sent < MaxRequests /\ Len(msgQueue) < MaxQueue
    /\ msgQueue' = Append(msgQueue, r)
    /\ sent' = sent + 1
    /\ UNCHANGED <<pulses, pc, todo, tables>>

\* 100 ms pass.
Pulse ==
    /\ pulses < MaxPulses
    /\ pulses' = pulses + 1
    /\ UNCHANGED <<msgQueue, sent, pc, todo, tables>>

\* The main loop polls the timer: however many pulses elapsed, one turn.
\* handleMsg then reads the size of the queue.
Poll ==
    /\ pc = "poll" /\ pulses > 0
    /\ pulses' = 0
    /\ pc' = "handle"
    /\ todo' = Len(msgQueue)
    /\ UNCHANGED <<msgQueue, sent, tables>>

\* pop_common: pop() does not wait; it throws when the queue is empty.
PopCommon == msgQueue # <<>>

\* One turn of the loop of handleMsg: pop() a request of this kind.
Pop(id) ==
    /\ pc = "handle" /\ todo > 0 /\ PopCommon
    /\ Head(msgQueue).id = id
    /\ msgQueue' = Tail(msgQueue)
    /\ UNCHANGED <<sent, pulses>>

\* Faulty variant: the loop counts only the requests it could handle.
ContinueUncounted == todo' = todo /\ pc' = pc

Continue == todo' = todo - 1 /\ pc' = pc
uid == Head(msgQueue).uid

\* userLogin, userLogout.
UserLogin(u) == onlinePlayers' = onlinePlayers \cup {u}
UserLogout(u) == onlinePlayers' = onlinePlayers \ {u}

\* LoginRequest: a battle the player defends is halted until he is ready.
HandleLogin ==
    /\ Pop("login") /\ Continue
    /\ UserLogin(uid)
    /\ battleMaps' = IF battleMaps[uid] = None THEN battleMaps
                     ELSE [battleMaps EXCEPT ![uid].start = FALSE]
    /\ UNCHANGED <<playerPairs, points, settled>>

\* The result of the battle of defender d goes out and the battle is removed;
\* the points are not written.
Retreat(d) ==
    /\ settled' = Reported({d})
    /\ battleMaps' = [battleMaps EXCEPT ![d] = None]

\* LogoutRequest: an attacker retreats.  When his battle is over already the
\* break leaves the loop, and the requests it had still to pop wait for the
\* next turn.
HandleLogout ==
    /\ Pop("logout")
    /\ UserLogout(uid)
    /\ LET peer == GetPeerUid(uid) IN
       \/ IsAttackerOrDefender(uid) # 2 /\ Continue /\ UNCHANGED <<battleMaps, settled>>
       \/ /\ IsAttackerOrDefender(uid) = 2 /\ GetBattleMap(peer) = None
          /\ todo' = 0 /\ pc' = pc
          /\ UNCHANGED <<battleMaps, settled>>
       \/ /\ IsAttackerOrDefender(uid) = 2 /\ GetBattleMap(peer) # None
          /\ Retreat(peer) /\ Continue
    /\ UNCHANGED <<playerPairs, points>>

\* getPlayerIDByUname leaves peerUid as it was, unset, when nobody has the name.
PlayerIDs(name) == IF name = None THEN Uids ELSE {name}

\* msgStartAttack: refused while the defender is attacked by anybody.
HandleStartAttack ==
    /\ Pop("start") /\ Continue
    /\ \E d \in PlayerIDs(Head(msgQueue).other) :
         IF battleMaps[d] # None THEN UNCHANGED <<battleMaps, playerPairs, settled>>
         ELSE /\ battleMaps' = [battleMaps EXCEPT ![d] = BattleMap(Len(settled) + 1, uid)]
              /\ playerPairs' = [playerPairs EXCEPT ![uid] = d]
              /\ settled' = Append(settled, 0)
    /\ UNCHANGED <<onlinePlayers, points>>

\* getBuildingType, getBuildingCurRes: what a building of one of the four
\* resources holds is looted.
Looted(b, r) == IF r.resource THEN [b EXCEPT !.loot = @ + 1] ELSE b

\* msgObjectDieRequest: only an attacker's report of a building counts.  The
\* battle is looked up through the stale pair and used without a test: the
\* worker ends and starts anew.
HandleObjectDie ==
    /\ Pop("die") /\ Continue
    /\ LET r == Head(msgQueue)
           peer == GetPeerUid(uid)
           b == GetBattleMap(peer)
           hit == Looted(PlusDied([b EXCEPT !.townhall = @ \/ r.townhall]), r)
           counts == peer # 0 /\ r.building /\ IsAttackerOrDefender(uid) = 2
       IN \/ ~counts /\ UNCHANGED battleMaps
          \/ /\ counts /\ b # None
             /\ battleMaps' = [battleMaps EXCEPT ![peer] = hit]
    /\ UNCHANGED <<playerPairs, onlinePlayers, points, settled>>

ObjectDieCrashes ==
    /\ pc = "handle" /\ todo > 0 /\ Head(msgQueue).id = "die"
    /\ Head(msgQueue).building
    /\ IsAttackerOrDefender(uid) = 2 /\ GetPeerUid(uid) # 0
    /\ GetBattleMap(GetPeerUid(uid)) = None
    /\ msgQueue' = <<>> /\ todo' = 0 /\ pc' = "poll"
    /\ battleMaps' = [p \in Uids |-> None]
    /\ playerPairs' = [p \in Uids |-> None]
    /\ onlinePlayers' = {}
    /\ UNCHANGED <<sent, pulses, points, settled>>

\* msgDfderIsreadyRequest: the defender's battle goes on.
HandleIsready ==
    /\ Pop("ready") /\ Continue
    /\ battleMaps' = IF GetPeerUid(uid) = 0 \/ battleMaps[uid] = None THEN battleMaps
                     ELSE [battleMaps EXCEPT ![uid].start = TRUE]
    /\ UNCHANGED <<playerPairs, onlinePlayers, points, settled>>

\* msgAtkerStopBattleRequest: whoever sends it, the battle of his peer ends; that of
\* uid 0, if there is one, by anybody without a peer.
HandleStopBattle ==
    /\ Pop("stop") /\ Continue
    /\ LET peer == GetPeerUid(uid) IN
       IF GetBattleMap(peer) = None THEN UNCHANGED <<battleMaps, settled>> ELSE Retreat(peer)
    /\ UNCHANGED <<playerPairs, onlinePlayers, points>>

\* Hero skill, hero move, battle information, state report and rally point: a
\* message to the peer and at most an acknowledgement.
PassedOn == UNCHANGED tables

HandleRelay ==
    /\ Pop("relay") /\ Continue
    /\ PassedOn

HandleEnds ==
    /\ pc = "handle" /\ todo = 0
    /\ pc' = "update"
    /\ UNCHANGED <<msgQueue, sent, pulses, todo, tables>>

\* Faulty variant: update() counts the first tick only.
TickedOnce(b) == [b EXCEPT !.ticks = 1]

\* updateBattleMaps: one tick for every battle that is not halted; those whose
\* time is up are settled, their points written, and removed.
Ticked(b) == [b EXCEPT !.ticks = @ + 1]
TimeUp == {d \in Uids : /\ battleMaps[d] # None /\ battleMaps[d].start
                           /\ Ticked(battleMaps[d]).ticks >= BattleTicks}
Gained(p) ==
    MapThenSumSet(LAMBDA d : AtkerGettedPoint(battleMaps[d]),
                              {d \in TimeUp : battleMaps[d].atker = p})
      + (IF p \in TimeUp THEN DfderGettedPoint(battleMaps[p]) ELSE 0)

\* plusPlayerPoint: the increments add up, whatever their order.
PlusPlayerPoint(p) == points[p] + Gained(p)
UpdateBattleMaps ==
    /\ pc = "update"
    /\ pc' = "poll"
    /\ battleMaps' = [d \in Uids |->
                        IF d \in TimeUp THEN None
                        ELSE IF battleMaps[d] # None /\ battleMaps[d].start
                             THEN Ticked(battleMaps[d]) ELSE battleMaps[d]]
    /\ points' = [p \in Uids |-> PlusPlayerPoint(p)]
    /\ settled' = Reported(TimeUp)
    /\ UNCHANGED <<msgQueue, sent, pulses, todo, playerPairs, onlinePlayers>>

HandleMsg ==
    \/ HandleLogin \/ HandleLogout
    \/ HandleStartAttack \/ HandleObjectDie \/ ObjectDieCrashes
    \/ HandleIsready \/ HandleStopBattle \/ HandleRelay
    \/ HandleEnds

MainLoop == Poll \/ HandleMsg \/ UpdateBattleMaps

Next == (\E r \in Requests : Push(r)) \/ Pulse \/ MainLoop

Spec == Init /\ [][Next]_vars

\* The main loop keeps running and the clock does not stop.
FairSpec == Spec /\ WF_vars(MainLoop) /\ WF_vars(Pulse)
-----------------------------------------------------------------------------
\* BattlesSettled: what a settled battle gives one side it takes from the other, so
\* that the points of all uids together never change, for any number of battles
\* that end in one turn and players who fight in several of them; and a battle's
\* result is reported at most once and never while it is still in the table,
\* although three handlers end battles and two of them find the battle through a
\* table that may be stale.
BattlesSettled ==
    /\ MapThenSumSet(LAMBDA p : points[p], Uids)
         = MapThenSumSet(LAMBDA p : StartPoints[p], Uids)
    /\ \A n \in DOMAIN settled : settled[n] <= 1
    /\ \A d \in Uids : battleMaps[d] # None => settled[battleMaps[d].number] = 0

\* PopsWhatIsThere: the main thread never pops more than the queue holds, whatever the
\* other thread does between reading the size and popping: pop() never throws.
PopsWhatIsThere == todo <= Len(msgQueue)

\* RunningEnds: a battle that runs comes to an end unless its defender logs in and
\* halts it.
RunningEnds ==
    \A d \in Uids :
        (battleMaps[d] # None /\ battleMaps[d].start)
          ~> (battleMaps[d] = None \/ ~battleMaps[d].start)

=============================================================================

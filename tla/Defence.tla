------------------------------- MODULE Defence ------------------------------
(***************************************************************************)
(* Which soldiers of a player defend the town, in redis: the list of       *)
(* soldiers of Army, by index; a list of the indices of those that defend; *)
(* and a hash from these to the camp they stand at.  The small map worker  *)
(* fills slots and changes defenders, the PvP worker frees slots and reads *)
(* defenders when a battle begins, each with commands of its own that the  *)
(* other's may come between.                                               *)
(***************************************************************************)
EXTENDS Integers, Sequences, SequencesExt, FiniteSets

CONSTANTS
    SoldierKinds,
    GuardCamps,
    Vacant,         \* "#"
    NoCamp,         \* the empty string
    Idle,
    MaxSoldiers,    \* bound on the slots
    MaxOrders       \* bound on the soldiers finished, deaths and changes

ASSUME DefenceAssumption ==
    /\ Vacant \notin SoldierKinds /\ NoCamp \notin GuardCamps
    /\ MaxSoldiers \in Nat /\ MaxOrders \in Nat
    /\ Idle \notin [sid : Nat, camp : GuardCamps \cup {NoCamp},
                    at : {"lrem", "rpush", "hset", "hdel"}]

VARIABLES
    slots,      \* army#uid, by index from 0
    dfd,        \* army#uid#dfd
    campOf,     \* army#uid#dfd#camp
    change,     \* setDfdSoldier or cancelDfdSoldier under way in the small map worker
    battle,     \* getDefenderSoldiers in the PvP worker: indices to read, soldiers read
    orders

defenceVars == <<slots, dfd, campOf, change, battle, orders>>

Sids == 0..(Len(slots) - 1)
Slot(sid) == IF sid \in Sids THEN slots[sid + 1] ELSE Vacant
CampOf(sid) == IF sid \in DOMAIN campOf THEN campOf[sid] ELSE NoCamp
Order == orders < MaxOrders /\ orders' = orders + 1
-----------------------------------------------------------------------------
DefenceInit ==
    /\ slots = <<>> /\ dfd = <<>> /\ campOf = <<>>
    /\ change = Idle /\ battle = Idle /\ orders = 0

\* finishCreateSoldier.lua: the first vacant slot, or a new one.  Whoever had the index
\* before may still be among the defenders.
SoldierFinished(k) ==
    /\ Order
    /\ LET free == {i \in DOMAIN slots : slots[i] = Vacant} IN
       IF free = {} THEN Len(slots) < MaxSoldiers /\ slots' = Append(slots, k)
       ELSE slots' = [slots EXCEPT ![CHOOSE i \in free : \A j \in free : i <= j] = k]
    /\ UNCHANGED <<dfd, campOf, change, battle>>

\* setSoldierDie.  The defenders are not told.
SoldierDies(sid) ==
    /\ Order
    /\ Slot(sid) # Vacant
    /\ slots' = [slots EXCEPT ![sid + 1] = Vacant]
    /\ UNCHANGED <<dfd, campOf, change, battle>>

\* changeSoldierCampRequest, for one soldier.  A client names the soldiers it was told of,
\* which may have died since.
ChangeSoldierCamp(sid, camp) ==
    /\ Order
    /\ change = Idle
    /\ change' = [sid |-> sid, camp |-> camp, at |-> "lrem"]
    /\ UNCHANGED <<slots, dfd, campOf, battle>>

Changing(at) == change # Idle /\ change.at = at
Ordered == change.camp # NoCamp

\* LREM army#uid#dfd 0 sid.
WithoutSid(list, sid) ==
    LET left[n \in 0..Len(list)] ==
          IF n = 0 THEN <<>>
          ELSE IF list[n] # sid THEN Append(left[n - 1], list[n]) ELSE left[n - 1]
    IN left[Len(list)]

\* setDfdSoldier, cancelDfdSoldier.
Lrem ==
    /\ Changing("lrem")
    /\ dfd' = WithoutSid(dfd, change.sid)
    /\ change' = [change EXCEPT !.at = IF Ordered THEN "rpush" ELSE "hdel"]
    /\ UNCHANGED <<slots, campOf, battle, orders>>
Rpush ==
    /\ Changing("rpush")
    /\ dfd' = Append(dfd, change.sid)
    /\ change' = [change EXCEPT !.at = "hset"]
    /\ UNCHANGED <<slots, campOf, battle, orders>>
Hset ==
    /\ Changing("hset")
    /\ campOf' = [s \in DOMAIN campOf \cup {change.sid} |->
                    IF s = change.sid THEN change.camp ELSE campOf[s]]
    /\ change' = Idle
    /\ UNCHANGED <<slots, dfd, battle, orders>>
Hdel ==
    /\ Changing("hdel")
    /\ campOf' = [s \in DOMAIN campOf \ {change.sid} |-> campOf[s]]
    /\ change' = Idle
    /\ UNCHANGED <<slots, dfd, battle, orders>>

\* getDefenderSoldiers: LRANGE, then for each index LINDEX and HGET, taken together here.
BattleBegins ==
    /\ battle = Idle /\ dfd # <<>>
    /\ battle' = [todo |-> dfd, read |-> <<>>]
    /\ UNCHANGED <<slots, dfd, campOf, change, orders>>
ReadDefender ==
    /\ battle # Idle /\ battle.todo # <<>>
    /\ LET sid == Head(battle.todo) IN
       battle' = [todo |-> Tail(battle.todo),
                  read |-> IF Slot(sid) = Vacant THEN battle.read
                           ELSE Append(battle.read, [sid |-> sid, kind |-> Slot(sid),
                                                     camp |-> CampOf(sid)])]
    /\ UNCHANGED <<slots, dfd, campOf, change, orders>>
BattleEnds ==
    /\ battle # Idle /\ battle.todo = <<>>
    /\ battle' = Idle
    /\ UNCHANGED <<slots, dfd, campOf, change, orders>>

DefenceNext ==
    \/ \E k \in SoldierKinds : SoldierFinished(k)
    \/ \E sid \in Sids : SoldierDies(sid)
    \/ \E sid \in Sids, camp \in GuardCamps \cup {NoCamp} : ChangeSoldierCamp(sid, camp)
    \/ Lrem \/ Rpush \/ Hset \/ Hdel
    \/ BattleBegins \/ ReadDefender \/ BattleEnds

DefenceSpec == DefenceInit /\ [][DefenceNext]_defenceVars
-----------------------------------------------------------------------------
\* Faulty variant: vacant slots are passed without being counted.
SoldiersUncounted ==
    LET told(a, kind) ==
          IF kind = Vacant THEN a
          ELSE Append(a, [sid |-> Len(a), kind |-> kind, camp |-> CampOf(Len(a))])
    IN FoldLeft(told, <<>>, slots)

\* getSoldiersByPlayerID: what the client is told at login, counting the vacant slots.
SoldiersByPlayerID ==
    LET told[n \in 0..Len(slots)] ==
          IF n = 0 THEN <<>>
          ELSE IF slots[n] # Vacant
               THEN Append(told[n - 1], [sid |-> n - 1, kind |-> slots[n], camp |-> CampOf(n - 1)])
               ELSE told[n - 1]
    IN told[Len(slots)]

Once(list) == \A i, j \in DOMAIN list : i # j => list[i].sid # list[j].sid

\* DefendersAgree: the list of defenders and the hash of their camps agree, apart from the
\* soldier whose order is half carried out, and nobody defends twice, whatever deaths
\* and new soldiers come between the commands.  A player who logs in is told of every
\* living soldier under the index that requests must name, with a camp if and only if
\* he defends; and a battle meets each defender once.
DefendersAgree ==
    LET settled(sid) == change = Idle \/ change.sid # sid IN
    /\ Once([i \in DOMAIN dfd |-> [sid |-> dfd[i]]])
    /\ \A sid \in Sids : settled(sid) => (sid \in ToSet(dfd) <=> sid \in DOMAIN campOf)
    /\ {x.sid : x \in ToSet(SoldiersByPlayerID)} = {sid \in Sids : Slot(sid) # Vacant}
    /\ \A x \in ToSet(SoldiersByPlayerID) :
          /\ x.kind = Slot(x.sid)
          /\ settled(x.sid) => (x.camp # NoCamp <=> x.sid \in ToSet(dfd))
    /\ battle # Idle => Once(battle.read)
=============================================================================

------------------------------ MODULE WorldMap ------------------------------
(***************************************************************************)
(* The world map worker.  It gives players a place for their city: the     *)
(* free places are a vector map_key, from which one is drawn at random, and *)
(* a map remaining_position that leads from a place to its index in the    *)
(* vector.  The places in use are kept in redis (the hash worldmap, and in *)
(* each player's record), from which a restarted worker rebuilds the rest. *)
(* A timer fills the map with resources and monsters; players who look at  *)
(* the map are sent each area once.                                        *)
(*                                                                         *)
(* One io_service runs handlers and timer one after the other: a handler   *)
(* is a step.  A place is a pair <<x, y>>, which (x << 16) + y encodes.    *)
(***************************************************************************)
EXTENDS Integers, Sequences, FiniteSets, FiniteSetsExt, SequencesExt, Functions

CONSTANTS
    Players,
    Size,           \* the map has Size * Size places; 640 in the code
    Block,          \* first_terrain_init: [places -> kind of land]
    AreaOf(_),      \* the area a place belongs to, 8 * 8 places in the code
    Areas,          \* area numbers
    SomePlayers,    \* how many players GetSomePlayer returns; 10 in the code
    MaxRequests,    \* bound on requests and crashes
    NoPlayer

Places == (0..(Size - 1)) \X (0..(Size - 1))

\* Kinds of land: 6 a place for a city, 3 wood, 4 stone, 5 iron, 2 monsters, 1
\* nothing; 0xff in use.
Used == 255
Kinds == 1..6

ASSUME WorldMapAssumption ==
    /\ Size \in Nat \ {0} /\ Block \in [Places -> Kinds]
    /\ Areas \subseteq Nat /\ \A c \in Places : AreaOf(c) \in Areas
    /\ SomePlayers \in Nat \ {0} /\ MaxRequests \in Nat
    /\ NoPlayer \notin Players /\ NoPlayer \notin Places

VARIABLES
    mapKey,         \* vector map_key
    remaining,      \* remaining_position: place -> index in map_key
    worldPosition,  \* world_position
    worldmap,       \* redis hash worldmap: place -> player
    record,         \* redis user#uid: fields -> value
    playerInfo,     \* player_info: place -> player
    found,          \* places with an entry in resource[] or monster[]
    turn,           \* the static i of update_resource
    lastUpdate,     \* keys of player_last_update
    onMap,          \* vector all_map_player_uuid
    seen,           \* player_update_stutas: player -> areas
    pool,           \* simple_player_data: places
    told,           \* the place the player was last told is his
    worldRequests

worldVars == <<mapKey, remaining, worldPosition, worldmap, record, playerInfo, found, turn,
          lastUpdate, onMap, seen, pool, told, worldRequests>>
free == <<mapKey, remaining>>
watchers == <<lastUpdate, onMap, seen>>
land == <<worldPosition, found, turn>>

Request == worldRequests < MaxRequests /\ worldRequests' = worldRequests + 1
-----------------------------------------------------------------------------
With(f, x, v) == [y \in DOMAIN f \cup {x} |-> IF y = x THEN v ELSE f[y]]
Without(f, x) == Restrict(f, DOMAIN f \ {x})

\* The vector without its element at i: the last one takes its place.
SwapRemove(s, i) == SubSeq([s EXCEPT ![i] = s[Len(s)]], 1, Len(s) - 1)

\* get_player_worldinfo reads coord#x and "coodrd#y" of the player's record.
GetPlayerWorldinfo(p) ==
    IF {"coord#x", "coodrd#y"} \subseteq DOMAIN record[p]
    THEN <<record[p]["coord#x"], record[p]["coodrd#y"]>> ELSE NoPlayer

\* AddNewPositionToMap.
AddNewPositionToMap(m, c) ==
    [key |-> Append(m.key, c), rem |-> With(m.rem, c, Len(m.key) + 1)]

\* Faulty variant: the vector is shortened but the last place not moved.
DrawKeepsPlace(m, i) ==
    [key |-> SubSeq(m.key, 1, Len(m.key) - 1), rem |-> Without(m.rem, m.key[i])]

\* The part of GetRangePosition that draws the place at index i: it is erased from
\* remaining_position before the last place is moved to its index, also when it
\* is the last place itself.
Draw(m, i) ==
    LET rest == Without(m.rem, m.key[i])
        last == m.key[Len(m.key)]
    IN IF Len(m.key) = 1 THEN [key |-> <<>>, rem |-> rest]
       ELSE [key |-> SwapRemove(m.key, i), rem |-> With(rest, last, i)]

\* The part of GetSettlePosition that takes the place c, in the other order.
Settle(m, c) ==
    LET i == m.rem[c]
        last == m.key[Len(m.key)]
    IN [key |-> SwapRemove(m.key, i), rem |-> Without(With(m.rem, last, i), c)]

\* add_new_player: the old place is taken off the hash if it can be read; the new one
\* is written to the hash and to the player's record.
Entered(p, c) ==
    LET old == GetPlayerWorldinfo(p)
    IN With(IF old = NoPlayer THEN worldmap ELSE Without(worldmap, old), c, p)
Record(r, c) == With(With(r, "coord#x", c[1]), "coord#y", c[2])

AddNewPlayer(p, c) ==
    /\ worldmap' = Entered(p, c)
    /\ record' = [record EXCEPT ![p] = Record(@, c)]

\* check_remaining_position: the places for cities that are not in use, row by row.
PlaceAt(n) == <<n % Size, n \div Size>>
CheckRemainingPosition(w) ==
    LET scan[n \in 0..(Size * Size)] ==
          IF n = 0 THEN [key |-> <<>>, rem |-> <<>>]
          ELSE IF w[PlaceAt(n - 1)] = 6 THEN AddNewPositionToMap(scan[n - 1], PlaceAt(n - 1))
          ELSE scan[n - 1]
    IN scan[Size * Size]

\* WorldMapBase(): land, the cities of the hash, the free places.
WordMapPlayerInit(hash) ==
    [c \in Places |-> IF c \in DOMAIN hash THEN Used ELSE Block[c]]
Construct(hash) ==
    LET m == CheckRemainingPosition(WordMapPlayerInit(hash)) IN
    /\ mapKey' = m.key /\ remaining' = m.rem
    /\ worldPosition' = WordMapPlayerInit(hash)
    /\ playerInfo' = hash
    /\ pool' = SetToSeq(DOMAIN hash)
    /\ found' = {} /\ turn' = -1
    /\ lastUpdate' = {} /\ onMap' = <<>> /\ seen' = <<>>
-----------------------------------------------------------------------------
WorldInit ==
    LET m == CheckRemainingPosition(WordMapPlayerInit(<<>>)) IN
    /\ mapKey = m.key /\ remaining = m.rem
    /\ worldPosition = Block
    /\ worldmap = <<>> /\ record = [p \in Players |-> <<>>]
    /\ playerInfo = <<>> /\ found = {} /\ turn = -1
    /\ lastUpdate = {} /\ onMap = <<>> /\ seen = <<>>
    /\ pool = <<>> /\ told = [p \in Players |-> NoPlayer]
    /\ worldRequests = 0

\* GetRangePosition: the old place, if it can be read, becomes free; then one is drawn.
Freed(p) ==
    LET m == [key |-> mapKey, rem |-> remaining]
        old == GetPlayerWorldinfo(p)
    IN IF old = NoPlayer THEN m ELSE AddNewPositionToMap(m, old)
GetRangePosition(p, c) ==
    LET m == Freed(p) IN
    \E i \in 1..Len(m.key) :
        /\ c = m.key[i]
        /\ mapKey' = Draw(m, i).key /\ remaining' = Draw(m, i).rem

\* RandomNewMapRequestService: the new city is shown and sent to those on the map.
RandomNewMap(p) ==
    /\ Request
    /\ \E c \in Places :
         /\ GetRangePosition(p, c)
         /\ AddNewPlayer(p, c)
         /\ playerInfo' = With(playerInfo, c, p)
         /\ pool' = Append(pool, c)
         /\ told' = [told EXCEPT ![p] = c]
    /\ UNCHANGED <<land, watchers>>

\* RandomMoveCityRequestService: the city is given a place and nothing is shown.
RandomMoveCity(p) ==
    /\ Request
    /\ \E c \in Places :
         /\ GetRangePosition(p, c)
         /\ AddNewPlayer(p, c)
         /\ told' = [told EXCEPT ![p] = c]
    /\ UNCHANGED <<playerInfo, pool, land, watchers>>

\* Both are refused when no place is left; a place that became free stays free.
NoPlaceLeft(p) ==
    /\ Request
    /\ Freed(p).key = <<>>
    /\ UNCHANGED <<free, worldmap, record, playerInfo, pool, told, land, watchers>>

\* SettleMoveCityRequestService.  For a player whose place cannot be read the function
\* ends without a return statement, and the caller sees either answer.  The client
\* offers places for cities.
SettleMoveCity(p, c) ==
    /\ Request
    /\ Block[c] = 6
    /\ LET old == GetPlayerWorldinfo(p)
           m == Settle([key |-> mapKey, rem |-> remaining], c)
           moved == AddNewPositionToMap(m, old)
       IN IF old # NoPlayer /\ c \in DOMAIN remaining
          THEN /\ mapKey' = moved.key /\ remaining' = moved.rem
               /\ AddNewPlayer(p, c)
               /\ told' = [told EXCEPT ![p] = c]
          ELSE /\ \/ UNCHANGED told
                  \/ old = NoPlayer /\ told' = [told EXCEPT ![p] = c]
               /\ UNCHANGED <<free, worldmap, record>>
    /\ UNCHANGED <<playerInfo, pool, land, watchers>>

\* The worker ends between HSET worldmap and HMSET of the player's record.
CrashInAddNewPlayer(p, c) ==
    /\ Request
    /\ c \in Range(Freed(p).key)
    /\ worldmap' = Entered(p, c)
    /\ Construct(worldmap')
    /\ UNCHANGED <<record, told>>

\* The worker ends between two handlers and is started again.
Restart ==
    /\ Request
    /\ Construct(worldmap)
    /\ UNCHANGED <<worldmap, record, told>>

\* WorldMapNearByRequestService: a new watcher is entered in three tables; he is sent
\* the areas around that he has not been sent, except area 0 (AddInNearBy).
Around(a) == {b \in Areas : b > 0 /\ (b - a) \in {-81, -80, -79, -1, 0, 1, 79, 80, 81}}
WorldMapNearBy(p, a) ==
    /\ Request
    /\ IF p \in lastUpdate
       THEN /\ seen' = [seen EXCEPT ![p] = @ \cup Around(a)]
            /\ UNCHANGED <<lastUpdate, onMap>>
       ELSE /\ seen' = With(seen, p, Around(a))
            /\ lastUpdate' = lastUpdate \cup {p}
            /\ onMap' = Append(onMap, p)
    /\ UNCHANGED <<free, worldmap, record, playerInfo, pool, told, land>>

\* LeaveWordMapRequestService and LogoutRequestService do the same, for a player who
\* may have left before.
FirstIndex(p) == Min({i \in 1..Len(onMap) : onMap[i] = p})

\* Faulty variant: is_exsit is not set and the vector keeps its length.
LeaveWithoutPop(p) ==
    /\ Request
    /\ lastUpdate' = lastUpdate \ {p}
    /\ onMap' = IF p \in Range(onMap) THEN [onMap EXCEPT ![FirstIndex(p)] = onMap[Len(onMap)]]
                ELSE onMap
    /\ seen' = Without(seen, p)
    /\ UNCHANGED <<free, worldmap, record, playerInfo, pool, told, land>>

LeaveWordMap(p) ==
    /\ Request
    /\ lastUpdate' = lastUpdate \ {p}
    /\ onMap' = IF p \in Range(onMap) THEN SwapRemove(onMap, FirstIndex(p)) ELSE onMap
    /\ seen' = Without(seen, p)
    /\ UNCHANGED <<free, worldmap, record, playerInfo, pool, told, land>>

\* GetSomeData: all of a small pool; else members are drawn one by one, the last one
\* taking the place of a drawn one, and inserted again at the front.

GetRandomOnlyData(s, i) == [data |-> SwapRemove(s.data, i), back |-> Append(s.back, s.data[i])]
Draws(s, n) ==
    LET after[k \in 0..n] ==
          IF k = 0 THEN {s}
          ELSE UNION {{GetRandomOnlyData(t, i) : i \in 1..Len(t.data)} : t \in after[k-1]}
    IN after[n]
GetSomePlayer(p) ==
    /\ Request
    /\ IF Len(pool) <= SomePlayers THEN UNCHANGED pool
       ELSE \E t \in Draws([data |-> pool, back |-> <<>>], SomePlayers) : pool' = t.back \o t.data
    /\ UNCHANGED <<free, worldmap, record, playerInfo, told, land, watchers>>

\* update_resource, every 500 ms for the next part of the map: wood and stone appear
\* at some of their places, iron and monsters at all; what is marked as used is
\* world_position[x][y], while it is read as [y][x].
Transposed(c) == <<c[2], c[1]>>
Marked(w, cs) == [c \in Places |-> IF Transposed(c) \in cs THEN Used ELSE w[c]]
CheckRemainCoord(w, kind, a) == {c \in Places : AreaOf(c) = a /\ w[c] = kind}
UpdateResource ==
    /\ turn' = (turn + 1) % Cardinality(Areas)
    /\ \E wood \in SUBSET CheckRemainCoord(worldPosition, 3, turn') :
       LET w1 == Marked(worldPosition, wood) IN
       \E stone \in SUBSET CheckRemainCoord(w1, 4, turn') :
       LET w2 == Marked(w1, stone)
           iron == CheckRemainCoord(w2, 5, turn')
           w3 == Marked(w2, iron)
           monster == CheckRemainCoord(w3, 2, turn')
       IN /\ worldPosition' = Marked(w3, monster)
          /\ found' = found \cup wood \cup stone \cup iron \cup monster
    /\ UNCHANGED <<free, worldmap, record, playerInfo, pool, told, watchers, worldRequests>>

WorldNext ==
    \/ \E p \in Players :
         \/ RandomNewMap(p) \/ RandomMoveCity(p) \/ NoPlaceLeft(p)
         \/ \E c \in Places : SettleMoveCity(p, c) \/ CrashInAddNewPlayer(p, c)
         \/ \E a \in Areas : WorldMapNearBy(p, a)
         \/ LeaveWordMap(p) \/ GetSomePlayer(p)
    \/ Restart
    \/ UpdateResource

WorldSpec == WorldInit /\ [][WorldNext]_worldVars
-----------------------------------------------------------------------------
\* The place a player's record names.
PlaceOf(p) == IF record[p] = <<>> THEN NoPlayer ELSE <<record[p]["coord#x"], record[p]["coord#y"]>>

\* PlacesAgree: vector, hash, records and what is shown agree about who is where.
\* Every place for a city is either once in map_key or in the hash: no two cities
\* share a place and no place is lost.  The place in a player's record is his in
\* the hash, from which a restarted worker rebuilds the rest, so that no restart
\* gives a player's place away, whatever step a crash comes between.
PlacesAgree ==
    /\ IsInjective(mapKey)
    /\ \A c \in Places : Block[c] = 6 => ((c \in Range(mapKey)) # (c \in DOMAIN worldmap))
    /\ \A p \in Players : PlaceOf(p) # NoPlayer =>
          PlaceOf(p) \in DOMAIN worldmap /\ worldmap[PlaceOf(p)] = p
    /\ \A c \in DOMAIN playerInfo : c \in DOMAIN worldmap /\ worldmap[c] = playerInfo[c]

\* WatchersAgree: the three tables of watchers hold the same players, each once, through
\* leaving, logging out after that, and looking again: a new city is sent once to
\* everybody who looks and to nobody else.
WatchersAgree ==
    /\ Range(onMap) = lastUpdate /\ DOMAIN seen = lastUpdate
    /\ Len(onMap) = Cardinality(lastUpdate)

=============================================================================
